---------------------------- MODULE AriaSurface ----------------------------
(***************************************************************************)
(* The tree-walking interpreter (src/src/interp.rs) on the typed surface   *)
(* language: nested patterns, records, closures and functions as values.   *)
(* The interpreter knows no types: what does not fit is an error when it   *)
(* is met.  The frames, the depth and the tape of a run, and self tail     *)
(* calls, are in AriaRun.                                                  *)
(***************************************************************************)
EXTENDS AriaTypes

CONSTANT MaxCallDepth

VInt(n) == [k |-> "int", n |-> n]
VBool(b) == [k |-> "bool", b |-> b]
VData(c, fs) == [k |-> "data", c |-> c, fs |-> fs]
VClosure(ps, e, env) == [k |-> "closure", ps |-> ps, e |-> e, env |-> env]

\* A run that cannot go on, and one that went too deep.
Stuck(why) == [k |-> "stuck", why |-> why]
TooDeep == [k |-> "deep"]
IsValue(v) == v.k \notin {"stuck", "deep"}

RECURSIVE ValuesEqual(_, _)
ValuesEqual(a, b) ==
    CASE a.k = "int" /\ b.k = "int" -> a.n = b.n
      [] a.k = "bool" /\ b.k = "bool" -> a.b = b.b
      [] a.k = "data" /\ b.k = "data" ->
           /\ a.c = b.c /\ Len(a.fs) = Len(b.fs)
           /\ \A i \in DOMAIN a.fs : ValuesEqual(a.fs[i], b.fs[i])
      [] OTHER -> FALSE

NoMatch == [ok |-> FALSE, b |-> <<>>]

\* Whether p matches v, and what it binds.  A record pattern checks the fields it
\* names, each time it names them.
RECURSIVE MatchPattern(_, _, _, _)
MatchPattern(p, v, binds, P) ==
    LET Yes(b) == [ok |-> TRUE, b |-> b]
        Test(t) == IF t THEN Yes(binds) ELSE NoMatch
        All(ps, at) ==
            FoldLeft(LAMBDA acc, i : IF acc.ok THEN MatchPattern(ps[i], v.fs[at[i]], acc.b, P)
                                     ELSE acc,
                     Yes(binds), Indices(ps))
        names == P.ctors[p.n].names
    IN
    CASE p.k = "wild" -> Yes(binds)
      [] p.k = "pvar" -> Yes((p.n :> v) @@ binds)
      [] p.k = "pnum" -> Test(v = VInt(p.i))
      [] p.k = "ptruth" -> Test(v = VBool(p.b))
      [] p.k = "pctor" ->
           IF v.k = "data" /\ v.c = p.n /\ Len(v.fs) = Len(p.ps)
           THEN All(p.ps, Indices(p.ps)) ELSE NoMatch
      [] p.k = "precord" ->
           IF v.k = "data" /\ v.c = p.n /\ \A i \in DOMAIN p.fs : Contains(names, p.fs[i].f)
           THEN All([i \in DOMAIN p.fs |-> p.fs[i].e],
                    [i \in DOMAIN p.fs |-> CHOOSE j \in DOMAIN names : names[j] = p.fs[i].f])
           ELSE NoMatch

-----------------------------------------------------------------------------
RECURSIVE Eval(_, _, _, _)
RECURSIVE ApplyValue(_, _, _, _)

\* The values of es in turn, up to the first that has none.
EvalAll(es, env, d, P) ==
    FoldLeft(LAMBDA acc, e :
               LET v == Eval(e, env, d, P)
               IN  IF ~IsValue(acc.end) THEN acc
                   ELSE [vs |-> Append(acc.vs, v), end |-> v],
             [vs |-> <<>>, end |-> VBool(TRUE)], es)

\* A function under its name, at a depth that is not too large.
CallFunction(f, vs, d, P) ==
    LET fn == P.fns[f]
    IN  IF f \notin DOMAIN P.fns THEN Stuck("unknown function")
        ELSE IF Len(fn.ps) # Len(vs) THEN Stuck("arity")
        ELSE IF d + 1 > MaxCallDepth THEN TooDeep
        ELSE Eval(fn.e, Bindings([i \in DOMAIN fn.ps |-> fn.ps[i].n], vs), d + 1, P)

ApplyValue(f, vs, d, P) ==
    IF f.k # "closure" THEN Stuck("not a function")
    ELSE IF Len(f.ps) # Len(vs) THEN Stuck("arity")
    ELSE IF d + 1 > MaxCallDepth THEN TooDeep
    ELSE Eval(f.e, Bindings(f.ps, vs) @@ f.env, d + 1, P)

\* The first arm that matches.
EvalMatch(e, env, d, P) ==
    LET v == Eval(e.e, env, d, P)
        Tried(i) == MatchPattern(e.arms[i].p, v, <<>>, P)
        fits == {i \in DOMAIN e.arms : Tried(i).ok}
        i == CHOOSE i \in fits : \A j \in fits : i <= j
    IN  IF ~IsValue(v) THEN v
        ELSE IF fits = {} THEN Stuck("no match arm")
        ELSE Eval(e.arms[i].e, Tried(i).b @@ env, d, P)

EvalBlock(e, env, d, P) ==
    LET OneLet(acc, l) ==
            LET v == Eval(l.e, acc.env, d, P)
            IN  IF ~IsValue(acc.end) THEN acc ELSE [env |-> (l.x :> v) @@ acc.env, end |-> v]
        s == FoldLeft(OneLet, [env |-> env, end |-> VBool(TRUE)], e.ls)
    IN  IF IsValue(s.end) THEN Eval(e.e, s.env, d, P) ELSE s.end

\* The fields of a record literal in the order they are written, then in place.
EvalRecord(e, env, d, P) ==
    LET names == P.ctors[e.n].names
        r == EvalAll([i \in DOMAIN e.fs |-> e.fs[i].e], env, d, P)
        Written(f) == {j \in DOMAIN e.fs : e.fs[j].f = f}
    IN  IF ~IsValue(r.end) THEN r.end
        ELSE IF \E i \in DOMAIN names : Written(names[i]) = {} THEN Stuck("missing field")
        ELSE VData(e.n, [i \in DOMAIN names |->
                           r.vs[CHOOSE j \in Written(names[i]) :
                                  \A l \in Written(names[i]) : j <= l]])

\* The names of the fields of v, if it is a record.
FieldsOf(v, P) ==
    IF v.k = "data" /\ v.c \in DOMAIN P.ctors THEN P.ctors[v.c].names ELSE <<>>

EvalField(e, env, d, P) ==
    LET v == Eval(e.e, env, d, P)
        names == FieldsOf(v, P)
    IN  IF ~IsValue(v) THEN v
        ELSE IF ~Contains(names, e.f) THEN Stuck("no field")
        ELSE v.fs[CHOOSE i \in DOMAIN names : names[i] = e.f]

EvalUpdate(e, env, d, P) ==
    LET One(v, a) ==
            LET names == FieldsOf(v, P)
                x == Eval(a.e, env, d, P)
            IN  IF ~IsValue(v) THEN v
                ELSE IF ~Contains(names, a.f) THEN Stuck("no field")
                ELSE IF ~IsValue(x) THEN x
                ELSE [v EXCEPT !.fs[CHOOSE i \in DOMAIN names : names[i] = a.f] = x]
        v == Eval(e.e, env, d, P)
    IN  IF IsValue(v) /\ FieldsOf(v, P) = <<>> THEN Stuck("not a record")
        ELSE FoldLeft(One, v, e.fs)

\* Eval(e, env, d, P): the value of e at call depth d.
Eval(e, env, d, P) ==
    LET r == EvalAll(e.as, env, d, P)
        c == Eval(e.c, env, d, P)
        f == Eval(e.e, env, d, P)
    IN
    CASE e.k = "num" -> VInt(e.i)
      [] e.k = "truth" -> VBool(e.b)
      [] e.k = "var" ->
           IF e.n \in DOMAIN env THEN env[e.n]
           ELSE IF e.n \in DOMAIN P.fns
           THEN LET fn == P.fns[e.n]
                IN  VClosure([i \in DOMAIN fn.ps |-> fn.ps[i].n], fn.e, <<>>)
           ELSE Stuck("unbound variable")
      [] e.k = "ctor" ->
           IF e.n \notin DOMAIN P.ctors \/ Len(P.ctors[e.n].ts) # Len(e.as) THEN Stuck("constructor")
           ELSE IF IsValue(r.end) THEN VData(e.n, r.vs) ELSE r.end
      [] e.k = "record" -> EvalRecord(e, env, d, P)
      [] e.k = "field" -> EvalField(e, env, d, P)
      [] e.k = "update" -> EvalUpdate(e, env, d, P)
      [] e.k = "call" ->
           \* the arguments first; a local of that name is a function value
           IF ~IsValue(r.end) THEN r.end
           ELSE IF e.n \in DOMAIN env THEN ApplyValue(env[e.n], r.vs, d, P)
           ELSE CallFunction(e.n, r.vs, d, P)
      [] e.k = "apply" ->
           IF ~IsValue(f) THEN f
           ELSE IF ~IsValue(r.end) THEN r.end ELSE ApplyValue(f, r.vs, d, P)
      [] e.k = "lambda" -> VClosure([i \in DOMAIN e.ps |-> e.ps[i].n], e.e, env)
      [] e.k = "equal" ->
           IF IsValue(r.end) THEN VBool(ValuesEqual(r.vs[1], r.vs[2])) ELSE r.end
      [] e.k = "plus" ->
           IF ~IsValue(r.end) THEN r.end
           ELSE IF r.vs[1].k # "int" \/ r.vs[2].k # "int" THEN Stuck("operator")
           ELSE VInt(r.vs[1].n + r.vs[2].n)
      [] e.k = "if" ->
           IF ~IsValue(c) THEN c
           ELSE IF c.k # "bool" THEN Stuck("condition")
           ELSE Eval(IF c.b THEN e.th ELSE e.el, env, d, P)
      [] e.k = "match" -> EvalMatch(e, env, d, P)
      [] e.k = "block" -> EvalBlock(e, env, d, P)
=============================================================================
