------------------------------ MODULE AriaMono ------------------------------
(***************************************************************************)
(* Monomorphisation (src/src/monomorphize.rs): from main on, each generic  *)
(* function and type is specialised for each set of type arguments it is   *)
(* used at.  Type arguments are found by unifying declared types with      *)
(* concrete ones, which already have mangled names; records become         *)
(* positional, and calls of interface methods become calls of              *)
(* implementations.                                                        *)
(*                                                                         *)
(* The state m has the types and functions made so far, the names begun    *)
(* (typeSeen, fnSeen), the origin of each mangled type name, the depth of  *)
(* the specialisations under way and how many were made, the binders given *)
(* out, and the first error, after which nothing happens.                  *)
(***************************************************************************)
EXTENDS AriaCheck

CONSTANTS MaxSpecializeDepth, MaxInstantiations

MonoInit ==
    [types |-> <<>>, fns |-> <<>>, typeSeen |-> {}, fnSeen |-> {}, origin |-> <<>>,
     depth |-> 0, made |-> 0, binders |-> 0, err |-> ""]

Stop(m, why) == IF m.err = "" THEN [m EXCEPT !.err = why] ELSE m
Got(t, m) == [t |-> t, m |-> m]

\* F on each of xs in turn, from state m: the results and the state.
Through(F(_, _), xs, m) ==
    FoldLeft(LAMBDA acc, x :
               Then(F(x, acc.m), LAMBDA r : [ts |-> Append(acc.ts, r.t), m |-> r.m]),
             [ts |-> <<>>, m |-> m], xs)

-----------------------------------------------------------------------------
(* Names                                                                   *)

Joined(ss, sep) ==
    FoldLeft(LAMBDA acc, i : IF i = 1 THEN ss[1] ELSE acc \o sep \o ss[i], "", Indices(ss))

RECURSIVE Component(_)
Component(t) ==
    LET All(ts) == Joined([i \in DOMAIN ts |-> Component(ts[i])], "_")
    IN  CASE t.k = "int" -> "Int"
          [] t.k = "bool" -> "Bool"
          [] t.k = "unit" -> "Unit"
          [] t.k = "named" -> IF t.as = <<>> THEN t.n ELSE t.n \o "_" \o All(t.as)
          [] t.k = "fn" -> "Fn_" \o All(t.ps) \o "__" \o Component(t.r)

Mangle(base, ts) ==
    IF ts = <<>> THEN base
    ELSE base \o "$" \o Joined([i \in DOMAIN ts |-> Component(ts[i])], "$")

CtorName(c, owner) == c \o "$" \o owner

\* A mangled name remembers where it comes from; the first of a name counts.
Remember(name, n, ts, m) ==
    IF name \in DOMAIN m.origin THEN m
    ELSE [m EXCEPT !.origin = (name :> [n |-> n, ts |-> ts]) @@ @]
Mangled(n, ts, m) ==
    Then(Mangle(n, ts), LAMBDA name :
      Got(TNamed(name, <<>>), IF ts = <<>> THEN m ELSE Remember(name, n, ts, m)))

OriginOf(n, m) ==
    IF n \in DOMAIN m.origin THEN m.origin[n] ELSE [n |-> n, ts |-> <<>>]

-----------------------------------------------------------------------------
(* Types                                                                   *)

HasVars(t) == TypeVars(t) # {}

RECURSIVE Settle(_, _)
Settle(t, sub) ==
    LET All(ts) == [i \in DOMAIN ts |-> Settle(ts[i], sub)]
    IN  CASE t.k = "var" -> IF t.n \in DOMAIN sub THEN Settle(sub[t.n], sub) ELSE t
          [] t.k = "named" -> TNamed(t.n, All(t.as))
          [] t.k = "fn" -> TFn(All(t.ps), Settle(t.r, sub))
          [] OTHER -> t

RECURSIVE MangleConcrete(_, _)
MangleConcrete(t, m) ==
    LET All(ts) == Through(LAMBDA x, acc : MangleConcrete(x, acc), ts, m)
    IN  CASE t.k = "named" /\ t.as # <<>> ->
               Then(All(t.as), LAMBDA as : Mangled(t.n, as.ts, as.m))
          [] t.k = "fn" ->
               Then(All(t.ps), LAMBDA ps :
                 Then(MangleConcrete(t.r, ps.m), LAMBDA r : Got(TFn(ps.ts, r.t), r.m)))
          [] OTHER -> Got(t, m)

\* t with what sub settles, mangled; NoTy if that leaves a parameter in it.
RECURSIVE SubstPartial(_, _, _)
SubstPartial(t, sub, m) ==
    LET All(ts) ==
            FoldLeft(LAMBDA acc, x :
                       IF ~acc.ok THEN acc
                       ELSE Then(SubstPartial(x, sub, acc.m), LAMBDA r :
                              [ts |-> Append(acc.ts, r.t), m |-> r.m, ok |-> r.t # NoTy]),
                     [ts |-> <<>>, m |-> m, ok |-> TRUE], ts)
    IN  CASE t.k = "var" ->
               IF t.n \in DOMAIN sub /\ ~HasVars(sub[t.n]) THEN MangleConcrete(sub[t.n], m)
               ELSE Got(NoTy, m)
          [] t.k = "named" /\ t.as # <<>> ->
               Then(All(t.as), LAMBDA as :
                 IF as.ok THEN Mangled(t.n, as.ts, as.m) ELSE Got(NoTy, as.m))
          [] t.k = "fn" ->
               Then(All(t.ps), LAMBDA ps :
                 IF ~ps.ok THEN Got(NoTy, ps.m)
                 ELSE Then(SubstPartial(t.r, sub, ps.m), LAMBDA r :
                        IF r.t = NoTy THEN r ELSE Got(TFn(ps.ts, r.t), r.m)))
          [] OTHER -> Got(t, m)

RECURSIVE SubstTy(_, _, _, _)
RECURSIVE EnqueueType(_, _, _, _)

\* t with its parameters replaced; the generic types in it are specialised.
SubstTy(t, map, m, P) ==
    LET All(ts) == Through(LAMBDA x, acc : SubstTy(x, map, acc, P), ts, m)
    IN  CASE t.k = "var" /\ t.n \in DOMAIN map -> Got(map[t.n], m)
          [] t.k = "named" /\ t.as # <<>> ->
               Then(All(t.as), LAMBDA as :
                 Then(Mangled(t.n, as.ts, as.m), LAMBDA n :
                   Got(n.t, EnqueueType(t.n, as.ts, n.m, P))))
          [] t.k = "fn" ->
               Then(All(t.ps), LAMBDA ps :
                 Then(SubstTy(t.r, map, ps.m, P), LAMBDA r : Got(TFn(ps.ts, r.t), r.m)))
          [] HasVars(t) -> Got(t, Stop(m, "unbound type variable"))
          [] OTHER -> Got(t, m)

\* Mutant: the constructors of a type without parameters are renamed too.
VariantName_Always(c, n, ts) == CtorName(c, Mangle(n, ts))
VariantName(c, n, ts) == IF ts = <<>> THEN c ELSE CtorName(c, Mangle(n, ts))

\* The variants of type n at ts.
VariantsAt(n, ts, m, P) ==
    Through(LAMBDA v, acc :
              Then(Through(LAMBDA x, s : SubstTy(x, Bindings(P.types[n].params, ts), s, P),
                           v.ts, acc), LAMBDA r :
                Got([v EXCEPT !.n = VariantName(v.n, n, ts), !.ts = r.ts], r.m)),
            P.types[n].variants, m)

\* Type n at ts, if it is not there: its name is taken before its fields are
\* looked at, so that a type may contain itself.
EnqueueType(n, ts, m, P) ==
    IF m.err # "" \/ n \notin DOMAIN P.types THEN m
    ELSE Then(Mangle(n, ts), LAMBDA name :
           IF name \in m.typeSeen THEN m
           ELSE IF Len(P.types[n].params) # Len(ts) THEN Stop(m, "type arguments")
           ELSE Then(VariantsAt(n, ts, [Remember(name, n, ts, m) EXCEPT
                                          !.typeSeen = @ \cup {name}], P), LAMBDA vs :
                  IF vs.m.err # "" THEN vs.m
                  ELSE [vs.m EXCEPT !.types = (name :> Type(<<>>, vs.ts)) @@ @]))

\* Declared type d against concrete type t: what it says about the parameters.
\* What was learnt before a mismatch is kept.
RECURSIVE UnifyDecl(_, _, _, _)
UnifyDecl(d0, t, sub, m) ==
    LET \* the arguments of d, with those of t or of the type that t is the name of,
        \* and for a function the result, which is looked at last
        Pairs(d) ==
            CASE d.k = "fn" /\ t.k = "fn" /\ Len(d.ps) = Len(t.ps) ->
                   {[ds |-> Append(d.ps, d.r), ts |-> Append(t.ps, t.r)]}
              [] d.k = "named" /\ t.k = "named" /\ d.n = t.n /\ Len(d.as) = Len(t.as) ->
                   {[ds |-> d.as, ts |-> t.as]}
              [] d.k = "named" /\ t.k = "named" /\ d.as # <<>> /\ t.as = <<>> ->
                   {[ds |-> d.as, ts |-> o.ts] :
                       o \in {x \in {OriginOf(t.n, m)} : x.n = d.n /\ Len(x.ts) = Len(d.as)}}
              [] OTHER -> {}
        Learnt(d, c) == IF d \in TypeVars(c) THEN sub ELSE (d.n :> c) @@ sub
    IN  Then(Settle(d0, sub), LAMBDA d :
          CASE d.k = "var" -> [sub |-> Learnt(d, Settle(t, sub)), ok |-> TRUE]
            [] d.k \in {"named", "fn"} ->
                 FoldSet(LAMBDA x, none :
                           FoldLeft(LAMBDA acc, i :
                                      IF acc.ok THEN UnifyDecl(x.ds[i], x.ts[i], acc.sub, m)
                                      ELSE acc,
                                    [sub |-> sub, ok |-> TRUE], Indices(x.ds)),
                         [sub |-> sub, ok |-> FALSE], Pairs(d))
            [] OTHER -> [sub |-> sub, ok |-> d = t])

Solved(tps, sub) == \A i \in DOMAIN tps : tps[i] \in DOMAIN sub /\ ~HasVars(sub[tps[i]])
Solution(tps, sub) == [i \in DOMAIN tps |-> Settle(sub[tps[i]], sub)]

\* Every parameter is settled, or the use is refused.
SolveParams(tps, sub, m) == IF Solved(tps, sub) THEN m ELSE Stop(m, "could not infer")

ParamTypes(fn) == [i \in DOMAIN fn.ps |-> fn.ps[i].t]

\* The type of a parameter of a lambda: what the checker found, if it is open.
ParamTy(p, P) == IF p.t.k = "hole" /\ p.t.i \in DOMAIN P.ann THEN P.ann[p.t.i] ELSE p.t

-----------------------------------------------------------------------------
(* A guess of the type of an argument, before it is rewritten              *)

RECURSIVE SynthTy(_, _, _, _)

\* Declared types against the arguments whose type can be guessed.
Seed(ds, es, env, sub, m, P) ==
    FoldLeft(LAMBDA acc, i :
               Then(SynthTy(es[i], env, acc.m, P), LAMBDA g :
                 [sub |-> IF g.t = NoTy THEN acc.sub ELSE UnifyDecl(ds[i], g.t, acc.sub, g.m).sub,
                  m |-> g.m]),
             [sub |-> sub, m |-> m], Indices(es))

SynthCtor(e, env, m, P) ==
    LET sig == P.ctors[e.n]
    IN  Then(Seed(sig.ts, e.as, env, <<>>, m, P), LAMBDA s :
          IF Solved(sig.tps, s.sub) THEN Mangled(sig.ty, Solution(sig.tps, s.sub), s.m)
          ELSE Got(NoTy, s.m))

SynthResult(e, env, m, P) ==
    LET fn == P.fns[e.n]
    IN  Then(Seed(ParamTypes(fn), e.as, env, <<>>, m, P), LAMBDA s :
          IF ~Solved(fn.tps, s.sub) THEN Got(NoTy, s.m)
          ELSE Then(Bindings(fn.tps, Solution(fn.tps, s.sub)), LAMBDA map :
                 Then(SubstPartial(fn.ret, map, s.m), LAMBDA r :
                   IF r.t # NoTy THEN r ELSE MangleConcrete(Settle(fn.ret, map), r.m))))

\* What is not a function of the program passes for a builtin without a signature:
\* Unit.  A local that is called is one of these.
SynthOther(e, env, m, P) ==
    FoldLeft(LAMBDA acc, x :
               IF acc.t = NoTy THEN acc
               ELSE Then(SynthTy(x, env, acc.m, P), LAMBDA g :
                      IF g.t = NoTy THEN g ELSE Got(TUnit, g.m)),
             Got(TUnit, m), e.as)

\* A lambda with types that are written or were found; they stay as they are.
SynthLambda(e, own, env, m, P) ==
    IF \E i \in DOMAIN own : HasVars(own[i]) THEN Got(NoTy, m)
    ELSE Then(SynthTy(e.e, Frame(e.ps, own) @@ env, m, P), LAMBDA r :
           Got(IF r.t = NoTy THEN NoTy ELSE TFn(own, r.t), r.m))

\* The mangled type of e, or NoTy.
SynthTy(e, env, m, P) ==
    CASE e.k = "num" -> Got(TInt, m)
      [] e.k = "truth" -> Got(TBool, m)
      [] e.k = "var" /\ e.n \in DOMAIN env -> Got(env[e.n], m)
      [] e.k = "plus" -> SynthTy(e.as[1], env, m, P)
      [] e.k = "equal" -> Then(SynthTy(e.as[1], env, m, P), LAMBDA l :
                                 Got(IF l.t = NoTy THEN NoTy ELSE TBool, l.m))
      [] e.k = "ctor" -> SynthCtor(e, env, m, P)
      [] e.k = "call" /\ e.n \in DOMAIN P.fns -> SynthResult(e, env, m, P)
      [] e.k = "call" /\ e.n \notin DOMAIN P.fns -> SynthOther(e, env, m, P)
      [] e.k = "lambda" ->
           SynthLambda(e, [i \in DOMAIN e.ps |-> ParamTy(e.ps[i], P)], env, m, P)
      [] e.k = "apply" -> Then(SynthTy(e.e, env, m, P), LAMBDA f :
                                 Got(IF f.t.k = "fn" THEN f.t.r ELSE NoTy, f.m))
      [] OTHER -> Got(NoTy, m)

-----------------------------------------------------------------------------
(* Records and patterns                                                    *)

\* The constructor, the names and the types of the fields of a record type.
RecordShape(t, m, P) ==
    Then(IF t.k = "named" THEN OriginOf(t.n, m) ELSE [n |-> "", ts |-> <<>>], LAMBDA o :
      IF o.n \notin DOMAIN P.ctors \/ P.ctors[o.n].names = <<>>
      THEN [c |-> "", names |-> <<>>, ts |-> <<>>, m |-> Stop(m, "not a record")]
      ELSE Then(Through(LAMBDA x, acc : SubstTy(x, Bindings(P.ctors[o.n].tps, o.ts), acc, P),
                        P.ctors[o.n].ts, m), LAMBDA r :
             [c |-> IF o.ts = <<>> THEN o.n ELSE CtorName(o.n, t.n),
              names |-> P.ctors[o.n].names, ts |-> r.ts, m |-> r.m]))

\* Mutant: the fields of a record literal stay in the order they are written in.
InDeclaredOrder_Written(fs, names) == [i \in DOMAIN fs |-> fs[i].e]
\* The fields of a record literal as the arguments of its constructor.
InDeclaredOrder(fs, names) ==
    [i \in DOMAIN names |-> fs[CHOOSE j \in DOMAIN fs : fs[j].f = names[i]].e]

\* k names that nothing else has.
FieldBinders(k, m) == [i \in 1..k |-> "$rf" \o ToString(m.binders + i - 1)]
BindersTaken(k, m) == [m EXCEPT !.binders = @ + k]
Variables(names) == [i \in DOMAIN names |-> Var(names[i])]
PVars(names) == [i \in DOMAIN names |-> PVar(names[i])]

\* A pattern against concrete type t, and the types of its variables.
RECURSIVE RewritePattern(_, _, _, _, _)
RewritePattern(p, t, binds, m, P) ==
    LET Pat(q, b, s) == [p |-> q, b |-> b, m |-> s]
        sig == P.ctors[p.n]
        c == IF P.types[sig.ty].params = <<>> THEN p.n ELSE CtorName(p.n, t.n)
        \* the fields in the type as it was specialised
        Made == IF t.n \in DOMAIN m.types
                THEN SelectSeq(m.types[t.n].variants, LAMBDA v : v.n = c) ELSE <<>>
        One(acc, q, x) ==
            Then(RewritePattern(q, x, acc.b, acc.m, P), LAMBDA r :
              [ps |-> Append(acc.ps, r.p), b |-> r.b, m |-> r.m])
        With(ts) ==
            IF Len(p.ps) # Len(ts) THEN Pat(p, binds, Stop(m, "arity"))
            ELSE Then(FoldLeft(LAMBDA acc, i : One(acc, p.ps[i], ts[i]),
                               [ps |-> <<>>, b |-> binds, m |-> m], Indices(p.ps)),
                      LAMBDA s : Pat(PCtor(c, s.ps), s.b, s.m))
    IN
    IF m.err # "" THEN Pat(p, binds, m) ELSE
    CASE p.k = "pvar" -> Pat(p, (p.n :> t) @@ binds, m)
      [] p.k = "precord" ->
           RewritePattern(PCtor(p.n, Positional(p, sig.names)), t, binds, m, P)
      [] p.k = "pctor" /\ t.k # "named" -> Pat(p, binds, Stop(m, "pattern on another type"))
      [] p.k = "pctor" /\ t.k = "named" ->
           Then(Made, LAMBDA vs :
             IF vs # <<>> THEN With(vs[1].ts)
             \* a type without parameters is as it is declared
             ELSE IF sig.tps = <<>> THEN With(sig.ts)
             ELSE Pat(p, binds, Stop(m, "cannot resolve fields")))
      [] OTHER -> Pat(p, binds, m)

-----------------------------------------------------------------------------
(* Expressions                                                             *)

\* Rewrite(e, env, tm, exp, m, P): the expression and its concrete type.  env has
\* the types of the locals, tm the type arguments of the function, exp the type
\* that is expected or NoTy.
RECURSIVE Rewrite(_, _, _, _, _, _)
RECURSIVE SpecializeFn(_, _, _, _)

Out(e, t, m) == [e |-> e, t |-> t, m |-> m]
Refused(e, m, why) == Out(e, NoTy, Stop(m, why))

RewriteVar(e, env, m, P) ==
    LET fn == P.fns[e.n]
    IN  IF e.n \in DOMAIN env THEN Out(e, env[e.n], m)
        ELSE IF fn.tps # <<>> THEN Refused(e, m, "generic function as a value")
        ELSE Then(SpecializeFn(e.n, <<>>, m, P), LAMBDA f :
               Then(MangleConcrete(TFn(ParamTypes(fn), fn.ret), f.m), LAMBDA r :
                 Out(Var(f.n), r.t, r.m)))

\* es in turn, each expecting the type of its place in wants.
RewriteAll(es, wants, env, tm, m, P) ==
    LET One(acc, r) == [es |-> Append(acc.es, r.e), ts |-> Append(acc.ts, r.t), m |-> r.m]
    IN  FoldLeft(LAMBDA acc, i : One(acc, Rewrite(es[i], env, tm, wants[i], acc.m, P)),
                 [es |-> <<>>, ts |-> <<>>, m |-> m], Indices(es))

\* The arguments in turn, each expecting what is known by then of its declared
\* type, and saying more about the parameters.
RewriteArgs(es, ds, env, tm, sub, m, P) ==
    LET Learnt(acc, r, u) ==
            [es |-> Append(acc.es, r.e), sub |-> u.sub,
             m |-> IF r.m.err = "" /\ ~u.ok THEN Stop(r.m, "cannot unify") ELSE r.m]
    IN  FoldLeft(LAMBDA acc, i :
                   IF acc.m.err # "" THEN acc
                   ELSE Then(SubstPartial(ds[i], acc.sub, acc.m), LAMBDA want :
                          Then(Rewrite(es[i], env, tm, want.t, want.m, P), LAMBDA r :
                            Learnt(acc, r, UnifyDecl(ds[i], r.t, acc.sub, r.m)))),
                 [es |-> <<>>, sub |-> sub, m |-> m], Indices(es))

\* A type that is expected of a constructor settles its parameters.
ExpectedArgs(sig, exp, m) ==
    LET Known_(o) == IF o.n = sig.ty /\ Len(o.ts) = Len(sig.tps)
                     THEN Bindings(sig.tps, o.ts) ELSE <<>>
    IN  IF exp.k # "named" THEN <<>>
        ELSE Known_(IF exp.as = <<>> THEN OriginOf(exp.n, m) ELSE [n |-> exp.n, ts |-> exp.as])

RewriteCtor(e, env, tm, exp, m, P) ==
    LET sig == P.ctors[e.n]
    IN  Then(RewriteArgs(e.as, sig.ts, env, tm, ExpectedArgs(sig, exp, m), m, P), LAMBDA r :
          Then(SolveParams(sig.tps, r.sub, r.m), LAMBDA d :
            IF d.err # "" THEN Out(e, NoTy, d)
            ELSE Then(Solution(sig.tps, r.sub), LAMBDA targs :
                   Then(Mangled(sig.ty, targs, d), LAMBDA n :
                     Out(Ctor(IF targs = <<>> THEN e.n ELSE CtorName(e.n, n.t.n), r.es), n.t,
                         EnqueueType(sig.ty, targs, n.m, P))))))

\* A local that is called becomes an application.
RewriteLocalCall(e, env, tm, m, P) ==
    Then(RewriteAll(e.as, env[e.n].ps, env, tm, m, P), LAMBDA r :
      Out(Apply(Var(e.n), r.es), env[e.n].r, r.m))

\* A call of a method, by the type of its receiver.
RewriteTraitCall(e, env, tm, m, P) ==
    LET Impl(t, d) == ImplName(e.n, P.traits.methods[e.n].trait, OriginOf(t.n, d).n)
        Wanted(fn, d) == Through(LAMBDA p, acc : MangleConcrete(p.t, acc), Tail(fn.ps), d)
    IN  Then(Rewrite(e.as[1], env, tm, NoTy, m, P), LAMBDA recv :
          IF recv.m.err # "" THEN recv
          ELSE IF recv.t.k # "named" THEN Refused(e, recv.m, "receiver")
          ELSE Then(Impl(recv.t, recv.m), LAMBDA n :
            IF n \notin DOMAIN P.fns THEN Refused(e, recv.m, "no impl")
            ELSE Then(Wanted(P.fns[n], recv.m), LAMBDA want :
              Then(RewriteAll(Tail(e.as), want.ts, env, tm, want.m, P), LAMBDA r :
                Then(SpecializeFn(n, <<>>, r.m, P), LAMBDA f :
                  Then(MangleConcrete(P.fns[n].ret, f.m), LAMBDA ret :
                    Out(Call(f.n, <<recv.e>> \o r.es), ret.t, ret.m)))))))

\* A call of a function: the expected result, then all arguments by a guess, and
\* then each argument as it is rewritten, say what the parameters are.
RewriteCall(e, env, tm, exp, m, P) ==
    LET fn == P.fns[e.n]
        first == IF exp = NoTy THEN <<>> ELSE UnifyDecl(fn.ret, exp, <<>>, m).sub
    IN  Then(Seed(ParamTypes(fn), e.as, env, first, m, P), LAMBDA seed :
          Then(RewriteArgs(e.as, ParamTypes(fn), env, tm, seed.sub, seed.m, P), LAMBDA r :
            Then(SolveParams(fn.tps, r.sub, r.m), LAMBDA d :
              IF d.err # "" THEN Out(e, NoTy, d)
              ELSE Then(Solution(fn.tps, r.sub), LAMBDA targs :
                Then(SpecializeFn(e.n, targs, d, P), LAMBDA f :
                  Then(SubstTy(fn.ret, Bindings(fn.tps, targs), f.m, P), LAMBDA ret :
                    Out(Call(f.n, r.es), ret.t, ret.m)))))))

\* An arm expects the type of the first one.
RewriteMatch(e, env, tm, exp, m, P) ==
    LET Done(acc, p, r) ==
            [arms |-> Append(acc.arms, Arm(p, r.e)),
             t |-> IF acc.t = NoTy THEN r.t ELSE acc.t, m |-> r.m]
    IN  Then(Rewrite(e.e, env, tm, NoTy, m, P), LAMBDA s :
          Then(FoldLeft(LAMBDA acc, a :
                          IF acc.m.err # "" THEN acc
                          ELSE Then(RewritePattern(a.p, s.t, env, acc.m, P), LAMBDA p :
                                 Done(acc, p.p, Rewrite(a.e, p.b, tm, IF acc.t = NoTy THEN exp
                                                                      ELSE acc.t, p.m, P))),
                        [arms |-> <<>>, t |-> NoTy, m |-> s.m], e.arms),
               LAMBDA r : Out(Match(s.e, r.arms), r.t, r.m)))

RewriteBlock(e, env, tm, exp, m, P) ==
    LET Done(acc, l, want, r) ==
            [ls |-> Append(acc.ls, Let(l.x, want, r.e)),
             env |-> (l.x :> IF want = NoTy THEN r.t ELSE want) @@ acc.env, m |-> r.m]
    IN  Then(FoldLeft(LAMBDA acc, l :
                        Then(IF l.t = NoTy THEN Got(NoTy, acc.m) ELSE SubstTy(l.t, tm, acc.m, P),
                             LAMBDA want :
                               Done(acc, l, want.t,
                                    Rewrite(l.e, acc.env, tm, want.t, want.m, P))),
                      [ls |-> <<>>, env |-> env, m |-> m], e.ls), LAMBDA s :
          Then(Rewrite(e.e, s.env, tm, exp, s.m, P), LAMBDA r : Out(Block(s.ls, r.e), r.t, r.m)))

\* A lambda: its parameters are what is expected of it, or what is written.
RewriteLambda(e, env, tm, exp, m, P) ==
    LET Made(ts, r) ==
            Out(Lambda([i \in DOMAIN e.ps |-> Param(e.ps[i].n, ts[i])], r.e), TFn(ts, r.t), r.m)
    IN  Then(Through(LAMBDA i, acc :
                       IF exp.k = "fn" /\ i \in DOMAIN exp.ps THEN Got(exp.ps[i], acc)
                       ELSE Then(ParamTy(e.ps[i], P), LAMBDA t :
                              IF t.k = "hole" THEN Got(t, Stop(acc, "unannotated parameter"))
                              ELSE SubstTy(t, tm, acc, P)),
                     Indices(e.ps), m), LAMBDA ps :
          Made(ps.ts, Rewrite(e.e, Frame(e.ps, ps.ts) @@ env, tm,
                              IF exp.k = "fn" THEN exp.r ELSE NoTy, ps.m, P)))

\* A value applied: its arguments come first, and say what it expects.
RewriteApply(e, env, tm, exp, m, P) ==
    LET Of(f, es) ==
            IF f.m.err # "" THEN f
            ELSE IF f.t.k # "fn" THEN Refused(e, f.m, "not a function")
            ELSE Out(Apply(f.e, es), f.t.r, f.m)
    IN  Then(RewriteAll(e.as, [i \in DOMAIN e.as |-> NoTy], env, tm, m, P), LAMBDA as :
          Of(Rewrite(e.e, env, tm, TFn(as.ts, IF exp = NoTy THEN TUnit ELSE exp), as.m, P), as.es))

\* o, a record of shape s, taken apart by a match: e sees the names of its fields.
TakenApart(o, s, e, names) == Match(o, <<Arm(PCtor(s.c, PVars(names)), e)>>)

\* A field of a record: the variable that a match binds to it.
RewriteField(e, env, tm, m, P) ==
    LET Of(o, s, i, names) ==
            Out(TakenApart(o.e, s, Var(names[i]), names), s.ts[i], BindersTaken(Len(names), s.m))
    IN  Then(Rewrite(e.e, env, tm, NoTy, m, P), LAMBDA o :
          Then(RecordShape(o.t, o.m, P), LAMBDA s :
            IF s.m.err # "" THEN Out(e, NoTy, s.m)
            ELSE Of(o, s, FieldIndex(s.names, e.f), FieldBinders(Len(s.names), s.m))))

\* An update: a match that takes the record apart and builds it again.
RewriteUpdate(e, env, tm, m, P) ==
    LET Rebuilt(s, given, names) ==
            Ctor(s.c, [i \in DOMAIN names |-> IF s.names[i] \in DOMAIN given
                                              THEN given[s.names[i]] ELSE Var(names[i])])
        Given(es) == Bindings([i \in DOMAIN e.fs |-> e.fs[i].f], es)
        Of(o, s, names) ==
            Then(RewriteAll([i \in DOMAIN e.fs |-> e.fs[i].e], [i \in DOMAIN e.fs |-> NoTy],
                            env, tm, BindersTaken(Len(names), s.m), P), LAMBDA r :
              Out(TakenApart(o.e, s, Rebuilt(s, Given(r.es), names), names), o.t, r.m))
    IN  Then(Rewrite(e.e, env, tm, NoTy, m, P), LAMBDA o :
          Then(RecordShape(o.t, o.m, P), LAMBDA s :
            IF s.m.err # "" THEN Out(e, NoTy, s.m)
            ELSE Of(o, s, FieldBinders(Len(s.names), s.m))))

\* The second branch has the type of the first.
RewriteIf(e, env, tm, exp, m, P) ==
    Then(Rewrite(e.c, env, tm, NoTy, m, P), LAMBDA c :
      Then(Rewrite(e.th, env, tm, exp, c.m, P), LAMBDA th :
        Then(Rewrite(e.el, env, tm, th.t, th.m, P), LAMBDA el :
          Out(If(c.e, th.e, el.e), th.t, el.m))))

Rewrite(e, env, tm, exp, m, P) ==
    IF m.err # "" THEN Out(e, NoTy, m) ELSE
    CASE e.k = "num" -> Out(e, TInt, m)
      [] e.k = "truth" -> Out(e, TBool, m)
      [] e.k = "var" -> RewriteVar(e, env, m, P)
      [] e.k = "record" ->
           Rewrite(Ctor(e.n, InDeclaredOrder(e.fs, P.ctors[e.n].names)), env, tm, exp, m, P)
      [] e.k = "field" -> RewriteField(e, env, tm, m, P)
      [] e.k = "update" -> RewriteUpdate(e, env, tm, m, P)
      [] e.k = "ctor" -> RewriteCtor(e, env, tm, exp, m, P)
      [] e.k = "call" ->
           IF e.n \in DOMAIN env /\ env[e.n].k = "fn" THEN RewriteLocalCall(e, env, tm, m, P)
           ELSE IF IsMethod(P, e.n) THEN RewriteTraitCall(e, env, tm, m, P)
           ELSE RewriteCall(e, env, tm, exp, m, P)
      [] e.k \in {"equal", "plus"} ->
           Then(RewriteAll(e.as, <<NoTy, NoTy>>, env, tm, m, P), LAMBDA r :
             Out([e EXCEPT !.as = r.es], IF e.k = "equal" THEN TBool ELSE r.ts[1], r.m))
      [] e.k = "if" -> RewriteIf(e, env, tm, exp, m, P)
      [] e.k = "match" -> RewriteMatch(e, env, tm, exp, m, P)
      [] e.k = "block" -> RewriteBlock(e, env, tm, exp, m, P)
      [] e.k = "lambda" -> RewriteLambda(e, env, tm, exp, m, P)
      [] e.k = "apply" -> RewriteApply(e, env, tm, exp, m, P)

\* Function n at targs, if it is not there.  What makes ever larger types stops
\* at the depth of the specialisations under way.
SpecializeFn(n, targs, m, P) ==
    LET fn == P.fns[n]
        Made(ts, ret, e) ==
            [Fn(<<>>, [i \in DOMAIN fn.ps |-> Param(fn.ps[i].n, ts[i])], ret, e) EXCEPT !.from = n]
        Added(name, t, r) ==
            IF r.m.err # "" THEN r.m
            ELSE [r.m EXCEPT !.depth = @ - 1, !.fns = (name :> Made(t.ps, t.r, r.e)) @@ @]
        As(name) == [n |-> name, m |->
            IF m.err # "" \/ name \in m.fnSeen THEN m
            ELSE IF \/ m.depth > MaxSpecializeDepth \/ m.made + 1 > MaxInstantiations
            THEN Stop(m, "limit")
            ELSE IF Len(fn.tps) # Len(targs) THEN Stop(m, "type arguments")
            ELSE Then(Bindings(fn.tps, targs), LAMBDA map :
                   Then(SubstTy(TFn(ParamTypes(fn), fn.ret), map,
                                [m EXCEPT !.made = @ + 1, !.fnSeen = @ \cup {name}], P), LAMBDA s :
                     Added(name, s.t, Rewrite(fn.e, Frame(fn.ps, s.t.ps), map, s.t.r,
                                              [s.m EXCEPT !.depth = @ + 1], P))))]
    IN  As(Mangle(n, targs))

-----------------------------------------------------------------------------
(* Programs                                                                *)

IsGeneric(P) ==
    \/ \E f \in DOMAIN P.fns : P.fns[f].tps # <<>>
    \/ \E t \in DOMAIN P.types : P.types[t].params # <<>>

\* Without generics all the functions are rewritten where they are.
RewriteInPlace(P) ==
    FoldSet(LAMBDA f, acc :
              Then(Rewrite(P.fns[f].e, Frame(P.fns[f].ps, ParamTypes(P.fns[f])), <<>>,
                           P.fns[f].ret, acc.m, P), LAMBDA r :
                [fns |-> (f :> [P.fns[f] EXCEPT !.e = r.e]) @@ acc.fns, m |-> r.m]),
            [fns |-> <<>>, m |-> MonoInit], DOMAIN P.fns)

\* The specialised program, and why there is none: P with what the checker found.
Specialised(P) ==
    IF IsGeneric(P)
    THEN Then(SpecializeFn("main", <<>>, MonoInit, P).m, LAMBDA m :
           [err |-> m.err, program |-> Program(m.types, m.fns, NoTraits)])
    ELSE Then(RewriteInPlace(P), LAMBDA r :
           [err |-> r.m.err, program |-> Program(P.types, r.fns, NoTraits)])

Monomorphize(P) ==
    Specialised([types |-> P.types, fns |-> P.fns, traits |-> P.traits, ctors |-> P.ctors,
                 ann |-> Annotations(P)])
=============================================================================
