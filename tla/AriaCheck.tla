------------------------------ MODULE AriaCheck ------------------------------
(***************************************************************************)
(* The type checker (src/src/typeck.rs): unification, the synthesis of     *)
(* types with lambdas checked against what is expected of them, the        *)
(* obligations of bounded parameters, and the matrix algorithm that        *)
(* decides whether a match is exhaustive.                                  *)
(*                                                                         *)
(* The state c of a check has the substitution sub, the number n of        *)
(* unknowns so far, the unknown of each hole (lams), the bounds of the     *)
(* function under check, and the first error: err, with the match and the  *)
(* witness if a case is missing.  Nothing happens after an error.          *)
(***************************************************************************)
EXTENDS AriaTypes

CheckInit(bounds) ==
    [sub |-> <<>>, n |-> 0, lams |-> <<>>, bounds |-> bounds, err |-> "", missing |-> <<>>]

Fail(c, why) == IF c.err = "" THEN [c EXCEPT !.err = why] ELSE c
Typed(t, c) == [t |-> t, c |-> c]
Untyped(c, why) == Typed(TBool, Fail(c, why))

-----------------------------------------------------------------------------
(* Unification                                                             *)

Fresh(c) == Meta(c.n)
Taken(c, k) == [c EXCEPT !.n = @ + k]

\* The declared parameters tps as new unknowns.
Instantiate(tps, c) == Bindings(tps, [i \in DOMAIN tps |-> Meta(c.n + i - 1)])

RECURSIVE Prune(_, _)
Prune(t, c) == IF t.k = "meta" /\ t.i \in DOMAIN c.sub THEN Prune(c.sub[t.i], c) ELSE t

RECURSIVE Resolve(_, _)
Resolve(t0, c) ==
    LET t == Prune(t0, c)
        All(ts) == [i \in DOMAIN ts |-> Resolve(ts[i], c)]
    IN  CASE t.k = "named" -> TNamed(t.n, All(t.as))
          [] t.k = "fn" -> TFn(All(t.ps), Resolve(t.r, c))
          [] OTHER -> t

Occurs(i, t, c) == Meta(i) \in TypeVars(Resolve(t, c))

\* The unknown i is t from now on.
Bind(i, t, c) ==
    IF Occurs(i, t, c) THEN Fail(c, "infinite type") ELSE [c EXCEPT !.sub = (i :> t) @@ @]

RECURSIVE Unify(_, _, _)

Parts(t) == IF t.k = "fn" THEN Append(t.ps, t.r) ELSE t.as
SameShape(a, b) ==
    /\ a.k = b.k /\ a.k \in {"named", "fn"}
    /\ a.k = "named" => a.n = b.n
    /\ Len(Parts(a)) = Len(Parts(b))

\* Types whose heads are known.  Only unknowns are bound: a declared parameter is
\* equal to itself alone.
UnifyHeads(a, b, c) ==
    CASE a = b /\ a.k \notin {"named", "fn"} -> c
      [] a # b /\ "meta" \in {a.k, b.k} ->
           Bind(IF a.k = "meta" THEN a.i ELSE b.i, IF a.k = "meta" THEN b ELSE a, c)
      [] SameShape(a, b) ->
           FoldLeft(LAMBDA acc, i : Unify(Parts(a)[i], Parts(b)[i], acc), c, Indices(Parts(a)))
      [] OTHER -> Fail(c, "mismatch")

Unify(a, b, c) == IF c.err # "" THEN c ELSE UnifyHeads(Prune(a, c), Prune(b, c), c)

-----------------------------------------------------------------------------
(* Exhaustiveness                                                          *)

NoHead == [n |-> "", ps |-> <<>>]

\* The constructor a pattern begins with; a wildcard or a variable has none.
PatHead(p, P) ==
    CASE p.k \in {"wild", "pvar"} -> NoHead
      [] p.k = "ptruth" -> [n |-> ToString(p.b), ps |-> <<>>]
      [] p.k = "pnum" -> [n |-> "Int" \o ToString(p.i), ps |-> <<>>]
      [] p.k = "pctor" -> [n |-> p.n, ps |-> p.ps]
      [] p.k = "precord" -> [n |-> p.n, ps |-> Positional(p, P.ctors[p.n].names)]

Open == <<>>

\* The constructors of a type, each with its fields; Open if they are not known.
CtorSpace(t0, c, P) ==
    LET t == Prune(t0, c) IN
    CASE t.k = "bool" -> << [n |-> "TRUE", ts |-> <<>>], [n |-> "FALSE", ts |-> <<>>] >>
      [] t.k = "named" ->
           LET d == P.types[t.n]
               map == Bindings(d.params, t.as)
           IN  [i \in DOMAIN d.variants |->
                  [n |-> d.variants[i].n,
                   ts |-> [j \in DOMAIN d.variants[i].ts |-> ApplyMap(d.variants[i].ts[j], map)]]]
      [] OTHER -> Open

\* Mutant: a row that begins with another constructor is kept.
Specialise_Any(matrix, n, k, P) ==
    LET Row(r) == LET h == PatHead(r[1], P)
                  IN  (IF Len(h.ps) = k /\ h # NoHead THEN h.ps ELSE [i \in 1..k |-> PWild])
                      \o Tail(r)
    IN  [i \in DOMAIN matrix |-> Row(matrix[i])]

\* The rows that can match constructor n of k fields, their fields in front.
Specialise(matrix, n, k, P) ==
    LET Row(r) == LET h == PatHead(r[1], P)
                  IN  (IF h = NoHead THEN [i \in 1..k |-> PWild] ELSE h.ps) \o Tail(r)
        kept == SelectSeq(matrix, LAMBDA r : PatHead(r[1], P).n \in {n, NoHead.n})
    IN  [i \in DOMAIN kept |-> Row(kept[i])]

\* Mutant: a variable does not count as a wildcard.
DefaultMatrix_Wild(matrix, P) ==
    LET kept == SelectSeq(matrix, LAMBDA r : r[1].k = "wild")
    IN  [i \in DOMAIN kept |-> Tail(kept[i])]

\* The rows that match whatever the first column holds.
DefaultMatrix(matrix, P) ==
    LET kept == SelectSeq(matrix, LAMBDA r : PatHead(r[1], P) = NoHead)
    IN  [i \in DOMAIN kept |-> Tail(kept[i])]

Covered == [missing |-> FALSE, w |-> <<>>]
Escapes(w) == [missing |-> TRUE, w |-> w]
Wilds(k) == [i \in 1..k |-> PWild]
Built(n, ps) == IF n \in {"TRUE", "FALSE"} THEN PTruth(n = "TRUE") ELSE PCtor(n, ps)

\* A row of patterns for values that no row of the matrix matches, if there are.
RECURSIVE MissingWitness(_, _, _, _)

\* The same, for a matrix whose first column has these constructors.
MissingIn(space, matrix, ts, c, P) ==
    LET present == {PatHead(matrix[i][1], P).n : i \in DOMAIN matrix} \ {NoHead.n}
        absent == SelectSeq(space, LAMBDA s : s.n \notin present)
        Under(s) == MissingWitness(Specialise(matrix, s.n, Len(s.ts), P),
                                   s.ts \o Tail(ts), c, P)
        Grouped(s, w) == <<Built(s.n, SubSeq(w, 1, Len(s.ts)))>>
                         \o SubSeq(w, Len(s.ts) + 1, Len(w))
        rest == MissingWitness(DefaultMatrix(matrix, P), Tail(ts), c, P)
        first == IF absent = <<>> THEN PWild ELSE Built(absent[1].n, Wilds(Len(absent[1].ts)))
        someWildRow == \E i \in DOMAIN matrix : PatHead(matrix[i][1], P) = NoHead
    IN  IF space # Open /\ absent = <<>>
        \* every constructor begins some row: one after the other
        THEN FoldLeft(LAMBDA acc, s :
                        IF acc.missing THEN acc
                        ELSE Then(Under(s), LAMBDA u :
                                    IF u.missing THEN Escapes(Grouped(s, u.w)) ELSE Covered),
                      Covered, space)
        \* only the rows that match whatever comes first count
        ELSE IF rest.missing THEN Escapes(<<first>> \o rest.w)
        ELSE IF space = Open /\ ~someWildRow THEN Escapes(Wilds(Len(ts)))
        ELSE Covered

MissingWitness(matrix, ts, c, P) ==
    IF ts = <<>> THEN IF matrix = <<>> THEN Escapes(<<>>) ELSE Covered
    ELSE MissingIn(CtorSpace(Head(ts), c, P), matrix, ts, c, P)

-----------------------------------------------------------------------------
(* Patterns                                                                *)

\* The pattern against type t: its variables, added to binds.  Constructor patterns
\* give their fields by place, record patterns by name.
RECURSIVE CheckPattern(_, _, _, _, _)

Binds(b, c) == [b |-> b, c |-> c]
SubPatterns(p) == IF p.k = "pctor" THEN p.ps ELSE [i \in DOMAIN p.fs |-> p.fs[i].e]
Places(p, sig) ==
    IF p.k = "pctor" THEN Indices(p.ps)
    ELSE [i \in DOMAIN p.fs |-> FieldIndex(sig.names, p.fs[i].f)]

Fits(p, P) ==
    /\ p.n \in DOMAIN P.ctors
    /\ p.k = "pctor" => Len(p.ps) = Len(P.ctors[p.n].ts)
    /\ p.k = "precord" => /\ P.ctors[p.n].names # <<>>
                          /\ \A i \in DOMAIN p.fs : Contains(P.ctors[p.n].names, p.fs[i].f)

CheckPattern(p, t, binds, c, P) ==
    LET sig == P.ctors[p.n]
        map == Instantiate(sig.tps, c)
        owner == TNamed(sig.ty, [i \in DOMAIN sig.tps |-> map[sig.tps[i]]])
        at == Places(p, sig)
    IN
    IF c.err # "" THEN Binds(binds, c) ELSE
    CASE p.k = "wild" -> Binds(binds, c)
      [] p.k = "pvar" -> Binds((p.n :> t) @@ binds, c)
      [] p.k \in {"pnum", "ptruth"} ->
           Binds(binds, Unify(IF p.k = "pnum" THEN TInt ELSE TBool, t, c))
      [] p.k \in {"pctor", "precord"} ->
           IF ~Fits(p, P) THEN Binds(binds, Fail(c, "no such pattern"))
           ELSE FoldLeft(LAMBDA acc, i :
                           CheckPattern(SubPatterns(p)[i], ApplyMap(sig.ts[at[i]], map),
                                        acc.b, acc.c, P),
                         Binds(binds, Unify(owner, t, Taken(c, Len(sig.tps)))), Indices(at))

-----------------------------------------------------------------------------
(* Synthesis                                                               *)

\* The promise of a bounded function: what its parameter stands for implements
\* the trait, or is a parameter of the caller that is bounded by it.  An unknown
\* is let pass.
Obliged(trait, t0, c, P) ==
    Then(Resolve(t0, c), LAMBDA t :
      CASE t.k = "named" -> HasImpl(P, trait, t.n)
        [] t.k = "var" -> t.n \in DOMAIN c.bounds /\ c.bounds[t.n] = trait
        [] OTHER -> TRUE)

RECURSIVE Synth(_, _, _, _)
RECURSIVE CheckExpr(_, _, _, _, _)

\* e has type t.
Require(e, t, sc, c, P) ==
    Then(Synth(e, sc, c, P), LAMBDA r : Unify(t, r.t, r.c))

\* Arguments against the types of parameters: lambdas last, when the others have
\* settled what they can.
CheckArgs(es, ts, sc, c, P) ==
    LET One(acc, x) ==
            IF es[x.i].k = "lambda" /\ x.late THEN CheckExpr(es[x.i], ts[x.i], sc, acc, P)
            ELSE IF es[x.i].k = "lambda" \/ x.late THEN acc
            ELSE Require(es[x.i], ts[x.i], sc, acc, P)
        Pass(late) == [i \in DOMAIN es |-> [i |-> i, late |-> late]]
    IN  FoldLeft(One, c, Pass(FALSE) \o Pass(TRUE))

InOrder(es, ts, sc, c, P) ==
    FoldLeft(LAMBDA acc, i : Require(es[i], ts[i], sc, acc, P), c, Indices(es))

\* Parameters of a lambda: each hole is a new unknown, and remembered.
LambdaParams(ps, c) ==
    FoldLeft(LAMBDA acc, p :
               IF p.t.k = "hole"
               THEN [ts |-> Append(acc.ts, Fresh(acc.c)),
                     c |-> [Taken(acc.c, 1) EXCEPT !.lams = (p.t.i :> Fresh(acc.c)) @@ @]]
               ELSE [ts |-> Append(acc.ts, p.t), c |-> acc.c],
             [ts |-> <<>>, c |-> c], ps)
Frame(ps, ts) == Bindings([i \in DOMAIN ps |-> ps[i].n], ts)

\* A value of type t applied to arguments.
SynthApply(t, es, sc, c, P) ==
    LET vars == [i \in DOMAIN es |-> Meta(c.n + i - 1)]
        ret == Meta(c.n + Len(es))
        d == Unify(TFn(vars, ret), Prune(t, c), Taken(c, Len(es) + 1))
    IN  Then(CheckArgs(es, vars, sc, d, P), LAMBDA r : Typed(Resolve(ret, r), r))

\* A method: its receiver is of a type that implements the trait, or of a
\* parameter bounded by it.
SynthMethod(e, sc, c, P) ==
    LET m == P.traits.methods[e.n]
        Known_(t, d) ==
            \/ t.k = "named" /\ HasImpl(P, m.trait, t.n)
            \/ t.k = "var" /\ t.n \in DOMAIN d.bounds /\ d.bounds[t.n] = m.trait
        Of(t, d) ==
            IF ~Known_(t, d) THEN Untyped(d, "no impl")
            ELSE Typed(ApplyMap(m.ret, m.self :> t),
                       InOrder(Tail(e.as), [i \in 1..(Len(m.ps) - 1) |->
                                              ApplyMap(m.ps[i + 1], m.self :> t)], sc, d, P))
    IN  IF Len(e.as) # Len(m.ps) THEN Untyped(c, "arity")
        ELSE Then(Synth(e.as[1], sc, c, P), LAMBDA r : Of(Resolve(r.t, r.c), r.c))

\* A function by its name.
SynthCall(e, sc, c, P) ==
    LET f == P.fns[e.n]
        map == Instantiate(f.tps, c)
        Kept(d) == \A p \in DOMAIN f.bounds : Obliged(f.bounds[p], map[p], d, P)
    IN  IF e.n \notin DOMAIN P.fns THEN Untyped(c, "unknown function")
        ELSE IF Len(e.as) # Len(f.ps) THEN Untyped(c, "arity")
        ELSE Then(CheckArgs(e.as, [i \in DOMAIN f.ps |-> ApplyMap(f.ps[i].t, map)], sc,
                            Taken(c, Len(f.tps)), P),
                  LAMBDA d : IF d.err # "" \/ Kept(d) THEN Typed(ApplyMap(f.ret, map), d)
                             ELSE Untyped(d, "no impl"))

\* An arm, against the type of the scrutinee and the type of the arms before it.
SynthArm(arm, st, sc, t, c, P) ==
    Then(CheckPattern(arm.p, st, <<>>, c, P), LAMBDA b :
      Then(Synth(arm.e, b.b @@ sc, b.c, P), LAMBDA r :
        IF t = NoTy THEN r ELSE Typed(t, Unify(t, r.t, r.c))))

\* The arms leave out no case.
Exhausted(rows, st, r, P) ==
    LET t == Resolve(st, r.c)
    IN  Then(MissingWitness(rows, <<t>>, r.c, P), LAMBDA m :
          IF r.c.err # "" THEN r
          ELSE IF m.missing
          THEN Typed(TBool, [Fail(r.c, "missing case") EXCEPT
                                !.missing = [t |-> t, rows |-> rows, w |-> m.w[1]]])
          ELSE Typed(Resolve(r.t, r.c), r.c))

SynthMatch(e, sc, c, P) ==
    Then(Synth(e.e, sc, c, P), LAMBDA s :
      Exhausted([i \in DOMAIN e.arms |-> <<e.arms[i].p>>], s.t,
                FoldLeft(LAMBDA acc, arm : SynthArm(arm, s.t, sc, acc.t, acc.c, P),
                         Typed(NoTy, s.c), e.arms), P))

\* The fields of a record type, by name.
FieldTypes(t, P) ==
    LET sig == P.ctors[t.n]
        map == Bindings(sig.tps, t.as)
    IN  Bindings(sig.names, [i \in DOMAIN sig.ts |-> ApplyMap(sig.ts[i], map)])
IsRecord(t, P) == t.k = "named" /\ t.n \in DOMAIN P.ctors /\ P.ctors[t.n].names # <<>>

SynthRecord(e, sc, c, P) ==
    LET sig == P.ctors[e.n]
        map == Instantiate(sig.tps, c)
        Times(f) == Cardinality({i \in DOMAIN e.fs : e.fs[i].f = f})
        ValueOf(f) == e.fs[CHOOSE i \in DOMAIN e.fs : e.fs[i].f = f].e
    IN  IF e.n \notin DOMAIN P.ctors \/ sig.names = <<>> THEN Untyped(c, "not a record")
        ELSE IF \/ \E i \in DOMAIN sig.names : Times(sig.names[i]) # 1
                \/ \E i \in DOMAIN e.fs : ~Contains(sig.names, e.fs[i].f)
        THEN Untyped(c, "fields")
        ELSE Typed(TNamed(sig.ty, [i \in DOMAIN sig.tps |-> map[sig.tps[i]]]),
                   InOrder([i \in DOMAIN sig.names |-> ValueOf(sig.names[i])],
                           [i \in DOMAIN sig.ts |-> ApplyMap(sig.ts[i], map)],
                           sc, Taken(c, Len(sig.tps)), P))

SynthField(e, sc, c, P) ==
    LET Of(t, d) == IF ~IsRecord(t, P) \/ ~Contains(P.ctors[t.n].names, e.f)
                    THEN Untyped(d, "no such field")
                    ELSE Typed(FieldTypes(t, P)[e.f], d)
    IN  Then(Synth(e.e, sc, c, P), LAMBDA r : Of(Prune(r.t, r.c), r.c))

SynthUpdate(e, sc, c, P) ==
    LET names == [i \in DOMAIN e.fs |-> e.fs[i].f]
        Of(t, d) ==
            IF ~IsRecord(t, P) THEN Untyped(d, "not a record")
            ELSE IF ~IsInjective(names) \/ ~(Range(names) \subseteq Range(P.ctors[t.n].names))
            THEN Untyped(d, "fields")
            ELSE Typed(t, InOrder([i \in DOMAIN e.fs |-> e.fs[i].e],
                                  [i \in DOMAIN e.fs |-> FieldTypes(t, P)[e.fs[i].f]], sc, d, P))
    IN  Then(Synth(e.e, sc, c, P), LAMBDA r : Of(Prune(r.t, r.c), r.c))

\* Lets in their order; an annotation is what the name has from there on.
SynthBlock(e, sc, c, P) ==
    LET Named(l, local, r) ==
            IF l.t = NoTy THEN [sc |-> (l.x :> r.t) @@ local, c |-> r.c]
            ELSE [sc |-> (l.x :> l.t) @@ local, c |-> Unify(l.t, r.t, r.c)]
        OneLet(acc, l) == Named(l, acc.sc, Synth(l.e, acc.sc, acc.c, P))
    IN  Then(FoldLeft(OneLet, [sc |-> sc, c |-> c], e.ls), LAMBDA s : Synth(e.e, s.sc, s.c, P))

\* Operands of types l and r.t: one that is unknown takes the type of the other;
\* two unknowns are refused.
SynthPlus(l, r) ==
    LET open == {i \in 1..2 : Prune(<<l, r.t>>[i], r.c).k = "meta"}
        Of(d) == IF Prune(l, d) = TInt /\ Prune(r.t, d) = TInt THEN Typed(TInt, d)
                 ELSE Untyped(d, "mismatch")
    IN  IF r.c.err # "" THEN r
        ELSE Of(IF Cardinality(open) = 1 THEN Unify(l, r.t, r.c) ELSE r.c)

\* Synth(e, sc, c, P): the type of e, its local names typed by sc.
Synth(e, sc, c, P) ==
    IF c.err # "" THEN Typed(TBool, c)
    ELSE
    CASE e.k = "num" -> Typed(TInt, c)
      [] e.k = "truth" -> Typed(TBool, c)
      [] e.k = "var" ->
           IF e.n \in DOMAIN sc THEN Typed(sc[e.n], c)
           ELSE IF e.n \notin DOMAIN P.fns THEN Untyped(c, "unbound")
           ELSE LET f == P.fns[e.n]
                    map == Instantiate(f.tps, c)
                IN  Typed(TFn([i \in DOMAIN f.ps |-> ApplyMap(f.ps[i].t, map)],
                              ApplyMap(f.ret, map)),
                          Taken(c, Len(f.tps)))
      [] e.k = "ctor" ->
           LET sig == P.ctors[e.n]
               map == Instantiate(sig.tps, c)
           IN  IF e.n \notin DOMAIN P.ctors THEN Untyped(c, "unknown constructor")
               ELSE IF Len(e.as) # Len(sig.ts) THEN Untyped(c, "arity")
               ELSE Typed(TNamed(sig.ty, [i \in DOMAIN sig.tps |-> map[sig.tps[i]]]),
                          InOrder(e.as, [i \in DOMAIN sig.ts |-> ApplyMap(sig.ts[i], map)],
                                  sc, Taken(c, Len(sig.tps)), P))
      [] e.k = "record" -> SynthRecord(e, sc, c, P)
      [] e.k = "field" -> SynthField(e, sc, c, P)
      [] e.k = "update" -> SynthUpdate(e, sc, c, P)
      [] e.k = "call" ->
           \* a local of that name is a function value
           IF e.n \in DOMAIN sc THEN SynthApply(sc[e.n], e.as, sc, c, P)
           ELSE IF IsMethod(P, e.n) THEN SynthMethod(e, sc, c, P)
           ELSE SynthCall(e, sc, c, P)
      [] e.k = "apply" ->
           Then(Synth(e.e, sc, c, P), LAMBDA r :
             IF r.c.err # "" THEN r ELSE SynthApply(r.t, e.as, sc, r.c, P))
      [] e.k = "lambda" ->
           Then(LambdaParams(e.ps, c), LAMBDA ps :
             Then(Synth(e.e, Frame(e.ps, ps.ts) @@ sc, ps.c, P), LAMBDA r :
               Typed(Resolve(TFn(ps.ts, r.t), r.c), r.c)))
      [] e.k = "equal" ->
           LET l == Synth(e.as[1], sc, c, P)
               r == Synth(e.as[2], sc, l.c, P)
           IN  Typed(TBool, Unify(l.t, r.t, r.c))
      [] e.k = "plus" ->
           LET l == Synth(e.as[1], sc, c, P)
           IN  SynthPlus(l.t, Synth(e.as[2], sc, l.c, P))
      [] e.k = "if" ->
           LET th == Synth(e.th, sc, Require(e.c, TBool, sc, c, P), P)
               el == Synth(e.el, sc, th.c, P)
           IN  Then(Unify(th.t, el.t, el.c), LAMBDA d : Typed(Resolve(th.t, d), d))
      [] e.k = "match" -> SynthMatch(e, sc, c, P)
      [] e.k = "block" -> SynthBlock(e, sc, c, P)

\* e against an expected type: the parameters of a lambda take theirs from it.
CheckExpr(e, t0, sc, c, P) ==
    LET Inside(t, ps) ==
            CheckExpr(e.e, t.r, Frame(e.ps, ps.ts) @@ sc,
                      FoldLeft(LAMBDA acc, i : Unify(ps.ts[i], t.ps[i], acc), ps.c, Indices(e.ps)),
                      P)
        Against(t) ==
            IF e.k = "lambda" /\ t.k = "fn" /\ Len(e.ps) = Len(t.ps)
            THEN Inside(t, LambdaParams(e.ps, c))
            ELSE Then(Synth(e, sc, c, P), LAMBDA r : Unify(r.t, t, r.c))
    IN  IF c.err # "" THEN c ELSE Against(Prune(t0, c))

-----------------------------------------------------------------------------
(* Programs                                                                *)

\* The types that are written are declared, with their number of parameters.
RECURSIVE Known(_, _, _)
Known(t, params, P) ==
    CASE t.k = "named" ->
           /\ t.n \in DOMAIN P.types /\ Len(P.types[t.n].params) = Len(t.as)
           /\ \A i \in DOMAIN t.as : Known(t.as[i], params, P)
      [] t.k = "var" -> Contains(params, t.n)
      [] t.k = "fn" -> (\A i \in DOMAIN t.ps : Known(t.ps[i], params, P)) /\ Known(t.r, params, P)
      [] OTHER -> TRUE

\* A dispatcher is made from implementations that are checked, and is not itself.
IsDispatcher(P, f) == IsMethod(P, f)

Declared(f, P) ==
    LET fn == P.fns[f]
        used == UNION {TypeVars(fn.ps[i].t) : i \in DOMAIN fn.ps}
    IN  /\ \A i \in DOMAIN fn.ps : Known(fn.ps[i].t, fn.tps, P)
        /\ Known(fn.ret, fn.tps, P)
        /\ fn.bounds = <<>> => \A i \in DOMAIN fn.tps : TVar(fn.tps[i]) \in used
        /\ f = "main" => fn.tps = <<>>

DeclaredTypes(P) ==
    \A t \in DOMAIN P.types : \A i \in DOMAIN P.types[t].variants :
        \A ty \in Range(P.types[t].variants[i].ts) : Known(ty, P.types[t].params, P)

\* An implementation has the signature of the interface for its type.
ImplFits(P) ==
    \A m \in DOMAIN P.traits.methods : \A h \in {x[2] : x \in {y \in P.traits.impls :
                                                y[1] = P.traits.methods[m].trait}} :
        LET itf == P.traits.methods[m]
            fn == P.fns[ImplName(m, itf.trait, h)]
            map == itf.self :> TNamed(h, <<>>)
        IN  /\ [i \in DOMAIN fn.ps |-> fn.ps[i].t]
                 = [i \in DOMAIN itf.ps |-> ApplyMap(itf.ps[i], map)]
            /\ fn.ret = ApplyMap(itf.ret, map)

Body(f, P) ==
    LET fn == P.fns[f]
        sc == Frame(fn.ps, [i \in DOMAIN fn.ps |-> fn.ps[i].t])
    IN  Synth(fn.e, sc, CheckInit(fn.bounds), P)

\* The verdict on the body of f.
CheckFn(f, P) == Then(Body(f, P), LAMBDA r : Unify(r.t, P.fns[f].ret, r.c))

Verdicts(P) ==
    [f \in {g \in DOMAIN P.fns : ~IsDispatcher(P, g)} |->
        Then(CheckFn(f, P), LAMBDA v : [err |-> v.err, missing |-> v.missing])]

Accepts(P, verdicts) ==
    /\ DeclaredTypes(P) /\ ImplFits(P)
    /\ \A f \in DOMAIN P.fns : Declared(f, P)
    /\ \A f \in DOMAIN verdicts : verdicts[f].err = ""

\* What the bodies alone settle about the holes, with no look at the results.
Annotations(P) ==
    LET Settled(c) ==
            LET known == {i \in DOMAIN c.lams : Resolve(c.lams[i], c).k # "meta"}
            IN  IF c.err # "" THEN <<>> ELSE [i \in known |-> Resolve(c.lams[i], c)]
    IN  FoldSet(LAMBDA f, acc : Settled(Body(f, P).c) @@ acc, <<>>,
                {g \in DOMAIN P.fns : ~IsDispatcher(P, g)})
=============================================================================
