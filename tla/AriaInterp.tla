------------------------------ MODULE AriaInterp ------------------------------
(***************************************************************************)
(* The tree-walking interpreter on the same surface language               *)
(* (src/src/interp.rs): values are immutable trees and closures, scopes    *)
(* end with the block, arm or body that opened them.  It is the reference  *)
(* that every backend of Aria is compared with.                            *)
(***************************************************************************)
EXTENDS AriaIR

TreeOf(c, vs) == [tag |-> c, fields |-> vs]
Closure(ps, e, env) == [ps |-> ps, e |-> e, env |-> env]

RECURSIVE Eval(_, _, _)
Eval(e, env, fns) ==
    LET All(es) == [i \in DOMAIN es |-> Eval(es[i], env, fns)]
        Params(ps, vs) ==
            [x \in Range(ps) |-> vs[CHOOSE i \in DOMAIN ps : ps[i] = x]]
        Enter(c, vs) == Eval(c.e, Params(c.ps, vs) @@ c.env, fns)
        global == [x \in {} |-> TreeOf("", <<>>)]
        \* a scope is searched before the functions
        Lookup(n) == IF n \in DOMAIN env THEN env[n]
                     ELSE Closure(fns[n].ps, fns[n].e, global)
    IN
    CASE e.k = "var" -> Lookup(e.n)
      [] e.k = "ctor" -> TreeOf(e.n, All(e.as))
      [] e.k = "equal" -> All(e.as)[1] = All(e.as)[2]
      [] e.k = "call" -> Enter(Lookup(e.n), All(e.as))
      [] e.k = "apply" -> Enter(Eval(e.e, env, fns), All(e.as))
      [] e.k = "lambda" -> Closure(e.ps, e.e, env)
      [] e.k = "if" -> Eval(IF Eval(e.c, env, fns) THEN e.th ELSE e.el, env, fns)
      [] e.k = "block" ->
           IF e.ls = <<>> THEN Eval(e.e, env, fns)
           ELSE LET v == Eval(Head(e.ls).e, env, fns)
                IN  Eval(Block(Tail(e.ls), e.e), (Head(e.ls).x :> v) @@ env, fns)
      [] e.k = "match" ->
           LET v == Eval(e.e, env, fns)
               Matches(i) == e.arms[i].c \in {v.tag, CatchAll}
               arm == e.arms[CHOOSE i \in DOMAIN e.arms :
                               Matches(i) /\ \A j \in 1..(i - 1) : ~Matches(j)]
               vs == IF arm.c = CatchAll THEN <<v>> ELSE v.fields
           IN  Eval(arm.e, Params(arm.bs, vs) @@ env, fns)
=============================================================================
