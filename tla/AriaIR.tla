-------------------------------- MODULE AriaIR --------------------------------
(***************************************************************************)
(* The core of Aria's surface language and its lowering to A-normal form   *)
(* (src/src/ir.rs).                                                        *)
(*                                                                         *)
(* Names are strings.  An expression is a record whose field k is its      *)
(* kind.  The subset has every form that matters to ownership: variables,  *)
(* constructors, calls, closures, blocks, match, if and comparison.        *)
(* Numbers, strings, records and literal patterns are left out: they move  *)
(* no counted reference.                                                   *)
(***************************************************************************)
EXTENDS AriaAnf, TLC, SequencesExt

-----------------------------------------------------------------------------
(* Surface expressions                                                     *)

Var(n) == [k |-> "var", n |-> n]
Ctor(c, as) == [k |-> "ctor", n |-> c, as |-> as]
Call(f, as) == [k |-> "call", n |-> f, as |-> as]
Apply(e, as) == [k |-> "apply", e |-> e, as |-> as]
Lambda(ps, e) == [k |-> "lambda", ps |-> ps, e |-> e]
Equal(l, r) == [k |-> "equal", as |-> <<l, r>>]
If(c, th, el) == [k |-> "if", c |-> c, th |-> th, el |-> el]
Block(ls, e) == [k |-> "block", ls |-> ls, e |-> e]
Let(x, e) == [x |-> x, e |-> e]
Match(e, arms) == [k |-> "match", e |-> e, arms |-> arms]

\* A program maps each function to its parameters and body.
Fn(ps, e) == [ps |-> ps, e |-> e]

\* Free variables of a surface expression, what a lambda captures.
RECURSIVE AstFree(_, _)
AstFree(e, bound) ==
    LET Union(es) == UNION {AstFree(es[i], bound) : i \in DOMAIN es}
    IN  CASE e.k = "var" -> {e.n} \ bound
          [] e.k \in {"ctor", "equal"} -> Union(e.as)
          \* a call may be the application of a local closure
          [] e.k = "call" -> Union(e.as) \cup ({e.n} \ bound)
          [] e.k = "apply" -> AstFree(e.e, bound) \cup Union(e.as)
          [] e.k = "lambda" -> AstFree(e.e, bound \cup Range(e.ps))
          [] e.k = "if" -> Union(<<e.c, e.th, e.el>>)
          [] e.k = "match" ->
               AstFree(e.e, bound) \cup
               UNION {AstFree(e.arms[i].e, bound \cup Range(e.arms[i].bs)) :
                         i \in DOMAIN e.arms}
          [] e.k = "block" ->
               IF e.ls = <<>> THEN AstFree(e.e, bound)
               ELSE AstFree(Head(e.ls).e, bound) \cup
                    AstFree(Block(Tail(e.ls), e.e), bound \cup {Head(e.ls).x})

-----------------------------------------------------------------------------
(* Lowering                                                                *)

\* State of the Lowerer: the statements of the block under way, the counters of
\* temporaries and lambdas, and the lifted functions.
LowererInit == [stmts |-> <<>>, tmp |-> 0, lam |-> 0, lifted |-> <<>>]

Fresh(s) == "$t" \o ToString(s.tmp)
Push(s, x, b) == [s EXCEPT !.stmts = Append(@, LetIn(x, b))]
\* Mutant: the counter of temporaries is not advanced.
PushFresh_Stale(s, b) == [v |-> Fresh(s), s |-> Push(s, Fresh(s), b)]
PushFresh(s, b) ==
    [v |-> Fresh(s), s |-> [Push(s, Fresh(s), b) EXCEPT !.tmp = @ + 1]]

Wrapper(g) == "$fnval$" \o g

\* The zero-capture closure that forwards to the top-level function g.
FnValueWrapper(s, g, arity) ==
    LET ps == [i \in 1..arity |-> "$a" \o ToString(i)]
        w == "$w" \o ToString(s.lam)
    IN  IF Wrapper(g) \in DOMAIN s.lifted THEN s
        ELSE [s EXCEPT !.lam = @ + 1,
                !.lifted = (Wrapper(g) :>
                    IFn(ps, <<>>, Ret(<<LetIn(w, Bind("call", g, ps))>>, w))) @@ @]

\* Lower(e, s, bound, fns): the atom of e and the state after its statements.
\* `bound` holds the locals in scope, fns the top-level functions.
RECURSIVE Lower(_, _, _, _)
RECURSIVE LowerArms(_, _, _, _)

LowerAll(es, s, bound, fns) ==
    FoldLeft(LAMBDA acc, e :
                LET r == Lower(e, acc.s, bound, fns)
                IN  [vs |-> Append(acc.vs, r.v), s |-> r.s],
             [vs |-> <<>>, s |-> s], es)

\* A sub-expression with statements of its own: its lets and its atom.
LowerBlock(e, s, bound, fns) ==
    LET r == Lower(e, [s EXCEPT !.stmts = <<>>], bound, fns)
    IN  [e |-> Ret(r.s.stmts, r.v), s |-> [r.s EXCEPT !.stmts = s.stmts]]

LowerArms(arms, s, bound, fns) ==
    IF arms = <<>> THEN [arms |-> <<>>, s |-> s]
    ELSE LET a == Head(arms)
             b == LowerBlock(a.e, s, bound \cup Range(a.bs), fns)
             rest == LowerArms(Tail(arms), b.s, bound, fns)
         IN  [arms |-> <<Arm(a.c, a.bs, b.e)>> \o rest.arms, s |-> rest.s]

Lower(e, s, bound, fns) ==
    LET Simple(op, n, es) ==
            LET r == LowerAll(es, s, bound, fns)
            IN  PushFresh(r.s, Bind(op, n, r.vs))
    IN
    CASE e.k = "var" ->
           IF e.n \in bound \/ e.n \notin DOMAIN fns THEN [v |-> e.n, s |-> s]
           ELSE PushFresh(FnValueWrapper(s, e.n, Len(fns[e.n].ps)),
                          Bind("closure", Wrapper(e.n), <<>>))
      [] e.k = "ctor" -> Simple("ctor", e.n, e.as)
      [] e.k = "equal" -> Simple("equal", "==", e.as)
      [] e.k = "call" ->
           \* a local of that name is a closure, and shadows the function
           IF e.n \in bound \/ e.n \notin DOMAIN fns
           THEN LET r == LowerAll(e.as, s, bound, fns)
                IN  PushFresh(r.s, Bind("apply", "", <<e.n>> \o r.vs))
           ELSE Simple("call", e.n, e.as)
      [] e.k = "apply" -> Simple("apply", "", <<e.e>> \o e.as)
      [] e.k = "if" ->
           LET c == Lower(e.c, s, bound, fns)
               th == LowerBlock(e.th, c.s, bound, fns)
               el == LowerBlock(e.el, th.s, bound, fns)
           IN  PushFresh(el.s, BIf(c.v, th.e, el.e))
      [] e.k = "match" ->
           LET v == Lower(e.e, s, bound, fns)
               r == LowerArms(e.arms, v.s, bound, fns)
           IN  PushFresh(r.s, BMatch(v.v, r.arms))
      [] e.k = "lambda" ->
           LET caps == SetToSeq(AstFree(e.e, Range(e.ps)) \ DOMAIN fns)
               lam == "$lam" \o ToString(s.lam)
               b == LowerBlock(e.e, [s EXCEPT !.lam = @ + 1],
                               Range(e.ps) \cup Range(caps), fns)
           IN  PushFresh([b.s EXCEPT !.lifted = (lam :> IFn(e.ps, caps, b.e)) @@ @],
                         Bind("closure", lam, caps))
      [] e.k = "block" ->
           \* the name is bound as it is written, in the statements of the
           \* enclosing block: nothing ends its scope and nothing renames it
           IF e.ls = <<>> THEN Lower(e.e, s, bound, fns)
           ELSE LET l == Head(e.ls)
                    v == Lower(l.e, s, bound, fns)
                IN  Lower(Block(Tail(e.ls), e.e),
                          Push(v.s, l.x, Bind("atom", "", <<v.v>>)),
                          bound \cup {l.x}, fns)

\* Every function, and the lambdas and wrappers lifted out of them.
LowerProgram(fns) ==
    LET names == SetToSeq(DOMAIN fns)
        r == FoldLeft(
               LAMBDA acc, f :
                   LET b == LowerBlock(fns[f].e, acc.s, Range(fns[f].ps), fns)
                   IN  [fs |-> (f :> IFn(fns[f].ps, <<>>, b.e)) @@ acc.fs,
                        s |-> b.s],
               [fs |-> <<>>, s |-> LowererInit], names)
    IN  r.s.lifted @@ r.fs
=============================================================================
