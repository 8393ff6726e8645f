------------------------------- MODULE AriaAnf -------------------------------
(***************************************************************************)
(* The A-normal form of Aria (src/src/ir.rs) and what counted code owes:   *)
(* on every path, whether or not some input takes it, each reference is    *)
(* consumed once.  This linear discipline is the contract of src/src/rc.rs *)
(* stated without the pass, and what AriaHeap takes for granted of the     *)
(* instructions it executes.                                               *)
(***************************************************************************)
EXTENDS Integers, Sequences, FiniteSets

CONSTANTS
    Names,      \* the variables
    MaxNesting  \* bound: how deep ifs and matches are nested

ASSUME CodeAssumption == IsFiniteSet(Names) /\ MaxNesting \in Nat

Elems(s) == {s[i] : i \in DOMAIN s}

-----------------------------------------------------------------------------
(* The forms                                                               *)

\* The nested lets, dups and drops of an expression are a sequence of
\* instructions.  Atoms are variables: the other atoms are unboxed.
LetIn(x, b) == [k |-> "let", x |-> x, b |-> b]
DupOf(v) == [k |-> "dup", v |-> v]
DropOf(v) == [k |-> "drop", v |-> v]
\* The token has the name of the variable that is released, which nothing
\* names any more; the code makes up a name.
DropReuseOf(v) == [k |-> "dropreuse", v |-> v]

\* What comes last: the variable returned, or a jump to the start.
Ret(is, v) == [is |-> is, k |-> "ret", as |-> <<v>>]
TailCall(is, as) == [is |-> is, k |-> "tailcall", as |-> as]

\* Binds: n names a constructor, function or lambda.
SimpleOps == {"atom", "ctor", "closure", "equal", "call", "apply"}
Bind(op, n, as) == [op |-> op, n |-> n, as |-> as]
BReuse(t, c, as) == [op |-> "ctorreuse", t |-> t, n |-> c, as |-> as]
BIf(v, th, el) == [op |-> "if", v |-> v, th |-> th, el |-> el]
BMatch(v, arms) == [op |-> "match", v |-> v, arms |-> arms]
\* arms: a constructor with its binders, or CatchAll with one binder
Arm(c, bs, e) == [c |-> c, bs |-> bs, e |-> e]
CatchAll == "_"

IFn(ps, caps, e) == [ps |-> ps, caps |-> caps, e |-> e]

ArmForms(parts) ==
    {a \in [c : STRING, bs : Seq(Names), e : parts] : a.c = CatchAll => Len(a.bs) = 1}
BindForms(parts) ==
    [op : SimpleOps, n : STRING, as : Seq(Names)]
    \cup [op : {"ctorreuse"}, t : Names, n : STRING, as : Seq(Names)]
    \cup [op : {"if"}, v : Names, th : parts, el : parts]
    \cup [op : {"match"}, v : Names, arms : Seq(ArmForms(parts))]
InstrForms(parts) ==
    [k : {"let"}, x : Names, b : BindForms(parts)]
    \cup [k : {"dup", "drop", "dropreuse"}, v : Names]
ExprForms(parts) == [is : Seq(InstrForms(parts)), k : {"ret", "tailcall"}, as : Seq(Names)]

Nested[d \in Nat] == ExprForms(IF d = 0 THEN {} ELSE Nested[d - 1])
Code == Nested[MaxNesting]

-----------------------------------------------------------------------------
(* The discipline                                                          *)

\* Knowledge about the variables at a point of a path.
\*   own      references each variable owns
\*   root     the scrutinee that a catch-all binder renames, or itself
\*   lender   the scrutinee whose cell a binder points into, or itself
\*   size     number of fields of the matched cell of a scrutinee
\*   tokens   reuse tokens not yet consumed, with their number of fields
\*   unboxed  variables that hold no reference
\*   scope    variables that are bound
\*   faults   variables with which something was wrong
Knowledge ==
    [own : [Names -> Int], root : [Names -> Names], lender : [Names -> Names],
     size : [Names -> Nat], tokens : SUBSET (Names \X Nat), unboxed : SUBSET Names,
     scope : SUBSET Names, faults : SUBSET Names]

\* On entry to a body that owns these.
Entry(vs) ==
    [own |-> [v \in Names |-> IF v \in vs THEN 1 ELSE 0], root |-> [v \in Names |-> v],
     lender |-> [v \in Names |-> v], size |-> [v \in Names |-> 0], tokens |-> {},
     unboxed |-> {}, scope |-> vs, faults |-> {}]

Fault(o, v, wrong) == [o EXCEPT !.faults = IF wrong THEN @ \cup {v} ELSE @]

\* A reference of each operand is consumed.
Uses(o, as, r) == {i \in DOMAIN as : o.root[as[i]] = r /\ r \notin o.unboxed}
Consume(o, as) ==
    [o EXCEPT !.own = [r \in Names |-> o.own[r] - Cardinality(Uses(o, as, r))],
              !.faults = @ \cup {r \in Names : o.own[r] < Cardinality(Uses(o, as, r))}]

\* One is gained, from a cell that is still there.
Gain(o, v) ==
    LET r == o.root[v]
    IN  IF r \in o.unboxed THEN o
        ELSE Fault([o EXCEPT !.own[r] = @ + 1], v, o.own[r] <= 0 /\ o.own[o.lender[r]] <= 0)

\* x is bound; what it held before must have been given up.
Bound(o, x, boxed) ==
    Fault([o EXCEPT !.own[x] = IF boxed THEN 1 ELSE 0, !.root[x] = x, !.lender[x] = x,
                    !.unboxed = IF boxed THEN @ \ {x} ELSE @ \cup {x}, !.scope = @ \cup {x}],
          x, o.own[x] > 0)

\* An arm of a match on v: a catch-all binder renames v; the others point into
\* its cell and own nothing.
EnterArm(o, v, arm) ==
    LET bs == Elems(arm.bs)
        same == arm.c = CatchAll
        r == o.root[v]
    IN  [o EXCEPT
            !.own = [x \in Names |-> IF x \in bs THEN 0 ELSE o.own[x]],
            !.root = [x \in Names |-> IF x \in bs THEN (IF same THEN r ELSE x) ELSE o.root[x]],
            !.lender = [x \in Names |-> IF x \in bs THEN r ELSE o.lender[x]],
            !.size = [x \in Names |-> IF x = r /\ ~same THEN Len(arm.bs) ELSE o.size[x]],
            !.unboxed = @ \ bs, !.scope = @ \cup bs,
            !.faults = @ \cup {x \in bs : o.own[x] > 0}]

\* The branches from o must leave the variables alike, and nothing of their own.
Join(o, v, results) ==
    LET q == CHOOSE q \in results : TRUE
        same == \A p \in results : p.own = q.own /\ p.tokens = q.tokens
        clean == \A x \in Names \ o.scope : q.own[x] = 0
    IN  Fault([o EXCEPT !.own = q.own, !.tokens = q.tokens,
                        !.faults = @ \cup UNION {p.faults : p \in results}],
              v, ~same \/ ~clean)

\* The knowledge after a bind; `after` gives that after an expression.
AfterBind(o, b, after) ==
    CASE b.op = "if" -> Join(o, b.v, {after[<<o, b.th>>], after[<<o, b.el>>]})
      [] b.op = "match" ->
           Fault(IF b.arms = <<>> THEN o
                 ELSE Join(o, b.v, {after[<<EnterArm(o, b.v, b.arms[i]), b.arms[i].e>>] :
                                       i \in DOMAIN b.arms}),
                 b.v, o.own[o.root[b.v]] <= 0)
      [] b.op = "ctorreuse" ->
           Fault([Consume(o, b.as) EXCEPT !.tokens = @ \ {<<b.t, Len(b.as)>>}],
                 b.t, <<b.t, Len(b.as)>> \notin o.tokens)
      [] OTHER -> Consume(o, b.as)

Step(o, i, after) ==
    CASE i.k = "dup" -> Gain(o, i.v)
      [] i.k = "drop" -> Consume(o, <<i.v>>)
      [] i.k = "dropreuse" ->
           Fault([Consume(o, <<i.v>>) EXCEPT !.tokens = @ \cup {<<i.v, o.size[o.root[i.v]]>>}],
                 i.v, \E t \in o.tokens : t[1] = i.v)
      [] i.k = "let" -> Bound(AfterBind(o, i.b, after), i.x, i.b.op # "equal")

\* The knowledge after a sequence of instructions.
Through(o, is, after) ==
    LET know[i \in 0..Len(is)] == IF i = 0 THEN o ELSE Step(know[i - 1], is[i], after)
    IN  know[Len(is)]

\* The knowledge after an expression, whose result has been handed on.
After[p \in Knowledge \X Code] == Consume(Through(p[1], p[2].is, After), p[2].as)

\* A body consumes what it owns on entry, and every token, on every path.
Balanced(fn) ==
    LET o == After[<<Entry(Elems(fn.ps) \cup Elems(fn.caps)), fn.e>>]
    IN  o.faults = {} /\ o.tokens = {} /\ \A v \in Names : o.own[v] = 0
=============================================================================
