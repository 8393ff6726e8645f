------------------------------- MODULE AriaRc -------------------------------
(***************************************************************************)
(* The rc pass (src/src/rc.rs): it inserts dup and drop so that every      *)
(* reference is consumed exactly once, and turns the release of a matched  *)
(* cell followed by a constructor of its size into reuse in place; and the *)
(* pass that follows it in the compiling backends, which turns self tail   *)
(* calls into jumps (tail_call_optimize in src/src/ir.rs).                 *)
(*                                                                         *)
(* Where the code iterates over a hash set the order is not determined;    *)
(* one is chosen here, since the instructions it orders commute.           *)
(***************************************************************************)
EXTENDS AriaAnf, Functions

-----------------------------------------------------------------------------
(* Free variables                                                          *)

\* Of a bind and of an instruction, given those of expressions.
FvBind(b, fv) ==
    CASE b.op = "if" -> {b.v} \cup fv[b.th] \cup fv[b.el]
      [] b.op = "match" ->
           {b.v} \cup UNION {fv[b.arms[i].e] \ Elems(b.arms[i].bs) : i \in DOMAIN b.arms}
      [] OTHER -> Elems(b.as)
FvInstr(i, fv) == IF i.k = "let" THEN FvBind(i.b, fv) ELSE {}

\* Bound by the instructions from n on that come before m.
BoundFrom(e, n, m) == {e.is[j].x : j \in {l \in n..(m - 1) : e.is[l].k = "let"}}

\* Of the part of e from its instruction n on.
FvFrom(e, n, fv) ==
    (UNION {FvInstr(e.is[m], fv) \ BoundFrom(e, n, m) : m \in n..Len(e.is)})
    \cup (Elems(e.as) \ BoundFrom(e, n, Len(e.is) + 1))

Fv[e \in Code] == FvFrom(e, 1, Fv)

-----------------------------------------------------------------------------
(* Reuse                                                                   *)

\* The first constructor of n fields on the spine takes the token.  The
\* branches of an if or a match are not on the spine: the token would be lost
\* on the other branch.
Reusable(e, n) ==
    {i \in DOMAIN e.is : e.is[i].k = "let" /\ e.is[i].b.op = "ctor" /\ Len(e.is[i].b.as) = n}
TryReuse(e, n, t) ==
    LET i == CHOOSE i \in Reusable(e, n) : \A j \in Reusable(e, n) : i <= j
        b == e.is[i].b
    IN  [e EXCEPT !.is[i] = LetIn(e.is[i].x, BReuse(t, b.n, b.as))]

-----------------------------------------------------------------------------
(* The transform                                                           *)

\* Some order of a finite set.
Listed(S) == CHOOSE s \in Bijection(1..Cardinality(S), S) : TRUE

Before(is, e) == [e EXCEPT !.is = is \o @]
Drops(vs) == [i \in 1..Cardinality(vs) |-> DropOf(Listed(vs)[i])]
Dups(vs) == [i \in 1..Cardinality(vs) |-> DupOf(Listed(vs)[i])]
WithDrops(vs, e) == Before(Drops(vs), e)

MaybeDrop(x, dead) == IF dead THEN <<DropOf(x)>> ELSE <<>>

\* Mutant: a variable that one bind uses twice is counted once.
Extra_Once(as, after) == {i \in DOMAIN as : as[i] \in after /\ \A j \in DOMAIN as : as[j] = as[i] => i <= j}

\* The operands that need a dup: of the uses of a variable all but the last,
\* which moves the reference that is owned, unless the variable must survive.
\* Every operand of every kind of bind there is here moves, comparison included.
Extra(as, after) == {i \in DOMAIN as : as[i] \in after \/ \E j \in DOMAIN as : j > i /\ as[j] = as[i]}
OperandDups(as, after) ==
    LET ps == Extra(as, after) IN [i \in 1..Cardinality(ps) |-> DupOf(as[Listed(ps)[i]])]

Union(S) == UNION S

\* Mutant: what only the other arms use is left alone.
ArmDrops_None(s, fvs, i, after) == {}

\* A variable used by another arm only is dropped where this arm begins.
ArmDrops(s, fvs, i, after) ==
    Union({fvs[j] : j \in DOMAIN fvs \ {i}}) \ (fvs[i] \cup after \cup {s})

\* Mutant: the uses within the arm are not looked at.
Borrowed_AfterOnly(s, arm, after) == s \in after

\* The scrutinee outlives the arm's entry if the continuation needs it, or the
\* arm itself names it again.
Borrowed(s, arm, after) == s \in after \cup Fv[arm.e]

\* Entry of a constructor arm whose converted body is e: dup the binders it
\* uses, then release the scrutinee, keeping its cell if the body can reuse it.
CtorArm(s, arm, after, e) ==
    LET n == Len(arm.bs)
        released == IF Borrowed(s, arm, after) THEN e
                    ELSE IF Reusable(e, n) # {}
                         THEN Before(<<DropReuseOf(s)>>, TryReuse(e, n, s))
                    ELSE Before(<<DropOf(s)>>, e)
    IN  Before(Dups(Elems(arm.bs) \cap Fv[arm.e]), released)

\* The binder of a catch-all arm is the scrutinee under another name.
CatchAllArm(s, arm, after, e) ==
    LET b == arm.bs[1]
        used == b \in Fv[arm.e]
    IN  CASE Borrowed(s, arm, after) /\ used -> Before(<<DupOf(b)>>, e)
          [] ~Borrowed(s, arm, after) /\ ~used -> Before(<<DropOf(b)>>, e)
          [] OTHER -> e

\* Branches, given the conversion rc of their expressions.
Branch(this, other, after, rc) == WithDrops(Fv[other] \ (Fv[this] \cup after), rc[<<this, after>>])
ArmOf(b, i, after, rc) ==
    LET arm == b.arms[i]
        fvs == [j \in DOMAIN b.arms |-> Fv[b.arms[j].e] \ Elems(b.arms[j].bs)]
        e == WithDrops(ArmDrops(b.v, fvs, i, after), rc[<<arm.e, after>>])
    IN  Arm(arm.c, arm.bs, IF arm.c = CatchAll THEN CatchAllArm(b.v, arm, after, e)
                                               ELSE CtorArm(b.v, arm, after, e))

\* What becomes of a let, when `rest` is free in what follows it and the
\* continuation of the whole expression consumes `live`.
Converted(i, rest, live, rc) ==
    LET x == i.x
        b == i.b
        after == (rest \ {x}) \cup live
        let ==
            CASE b.op = "if" ->
                   <<LetIn(x, BIf(b.v, Branch(b.th, b.el, after, rc), Branch(b.el, b.th, after, rc)))>>
              [] b.op = "match" ->
                   <<LetIn(x, BMatch(b.v, [j \in DOMAIN b.arms |-> ArmOf(b, j, after, rc)]))>>
              [] OTHER -> OperandDups(b.as, after) \o <<i>>
    IN  let \o MaybeDrop(x, x \notin rest \cup live)

\* The sequences of ss, one after the other.
Concat(ss) ==
    LET upto[n \in 0..Len(ss)] == IF n = 0 THEN <<>> ELSE upto[n - 1] \o ss[n]
    IN  upto[Len(ss)]

Spine(e, live, rc) ==
    [n \in 1..Len(e.is) |->
        IF e.is[n].k = "let" THEN Converted(e.is[n], FvFrom(e, n + 1, Fv), live, rc) ELSE <<e.is[n]>>]

\* Rc[<<e, live>>]: e with its dups and drops, given that the continuation of
\* e consumes `live`.
Rc[p \in Code \X (SUBSET Names)] ==
    LET e == p[1]
        live == p[2]
    IN  [e EXCEPT !.is = Concat(Spine(e, live, Rc))
                             \o (IF e.k = "ret" THEN Dups(Elems(e.as) \cap live) ELSE <<>>)]

\* Parameters and captures are owned on entry: the unused ones are dropped.
InsertRc(fns) ==
    [f \in DOMAIN fns |->
        [fns[f] EXCEPT !.e = WithDrops((Elems(fns[f].ps) \cup Elems(fns[f].caps)) \ Fv[fns[f].e],
                                       Rc[<<fns[f].e, {}>>])]]

-----------------------------------------------------------------------------
(* Tail calls                                                              *)

LastOf(is) == is[Len(is)]
EndsInLet(e) ==
    e.k = "ret" /\ e.is # <<>> /\ LastOf(e.is).k = "let" /\ e.as = <<LastOf(e.is).x>>

\* e is in tail position of function f of n parameters; `rewrite` does the same
\* to its branches.
Rewritten(e, f, n, rewrite) ==
    LET b == LastOf(e.is).b
    IN  IF ~EndsInLet(e) THEN e
        ELSE CASE b.op = "call" /\ b.n = f /\ Len(b.as) = n ->
                    TailCall(SubSeq(e.is, 1, Len(e.is) - 1), b.as)
               [] b.op = "if" ->
                    [e EXCEPT !.is[Len(e.is)].b = BIf(b.v, rewrite[b.th], rewrite[b.el])]
               [] b.op = "match" ->
                    [e EXCEPT !.is[Len(e.is)].b =
                        BMatch(b.v, [i \in DOMAIN b.arms |->
                                        Arm(b.arms[i].c, b.arms[i].bs, rewrite[b.arms[i].e])])]
               [] OTHER -> e
RewriteTail(f, n) ==
    LET rewrite[e \in Code] == Rewritten(e, f, n, rewrite) IN rewrite

TailCallOptimize(fns) ==
    [f \in DOMAIN fns |-> [fns[f] EXCEPT !.e = RewriteTail(f, Len(fns[f].ps))[@]]]

-----------------------------------------------------------------------------
(* The passes                                                              *)

VARIABLES
    stage,   \* what has been done to the program
    code     \* its functions in A-normal form

\* What the pass relies on of lowered code.  A variable is not bound again
\* where it is still needed: by what follows (`fixed`), as the scrutinee of a
\* match whose arm is open, or by another arm.  Conditions are results of comparisons (`flags`).
FlagsAt(e, flags, n) == flags \cup {e.is[j].x : j \in {m \in 1..(n - 1) : e.is[m].b.op = "equal"}}
FixedAt(e, fixed, n) == fixed \cup (FvFrom(e, n + 1, Fv) \ {e.is[n].x})
LetFits(i, fixed, flags, fits) ==
    LET b == i.b
    IN  CASE b.op \in SimpleOps -> TRUE
          [] b.op = "if" ->
               /\ b.v \in flags
               /\ fits[<<b.th, fixed, flags>>] /\ fits[<<b.el, fixed, flags>>]
          [] b.op = "match" ->
               /\ b.v \notin flags /\ b.arms # <<>>
               /\ \A j \in DOMAIN b.arms :
                     LET arm == b.arms[j]
                     IN  /\ Elems(arm.bs) \cap (fixed \cup FvBind(b, Fv) \cup flags) = {}
                         /\ \A m, n \in DOMAIN arm.bs : arm.bs[m] = arm.bs[n] => m = n
                         /\ fits[<<arm.e, fixed \cup {b.v}, flags>>]
          [] OTHER -> FALSE
Fits[p \in Code \X (SUBSET Names) \X (SUBSET Names)] ==
    LET e == p[1]
    IN  /\ e.k = "ret" /\ Len(e.as) = 1
        /\ \A n \in DOMAIN e.is :
              LET flags == FlagsAt(e, p[3], n)
              IN  /\ e.is[n].k = "let" /\ e.is[n].x \notin p[2] \cup flags
                  /\ LetFits(e.is[n], FixedAt(e, p[2], n), flags, Fits)
WellFormed(fn) ==
    /\ fn \in [ps : Seq(Names), caps : Seq(Names), e : Code]
    /\ Fv[fn.e] \subseteq Elems(fn.ps) \cup Elems(fn.caps)
    /\ Fits[<<fn.e, {}, {}>>]

InsertRcStep ==
    /\ stage = "lowered" /\ stage' = "counted"
    /\ code' = InsertRc(code)

TailCallStep ==
    /\ stage = "counted" /\ stage' = "optimised"
    /\ code' = TailCallOptimize(code)

Lowered == stage = "lowered" /\ \A f \in DOMAIN code : WellFormed(code[f])

Passes == Lowered /\ [][InsertRcStep \/ TailCallStep]_<<stage, code>>

\* On every path of every function, and not only on those that the inputs take,
\* each reference is consumed once and each reuse token is consumed.
EveryPathBalanced ==
    stage \in {"counted", "optimised"} => \A f \in DOMAIN code : Balanced(code[f])
=============================================================================
