----------------------------- MODULE AriaIrInterp -----------------------------
(***************************************************************************)
(* Execution of the A-normal form on a counted heap: IrInterp in           *)
(* src/src/ir.rs.  Exec follows `eval`, and threads the heap h.            *)
(*                                                                         *)
(* This heap and that of AriaHeap are the same; there the instructions     *)
(* come in any order ownership allows, here in the order a program gives.  *)
(***************************************************************************)
EXTENDS AriaIR

\* Values: a reference, a reuse token (address 0: none) or a boolean.
RefTo(a) == [k |-> "ref", a |-> a]
Token(a) == [k |-> "token", a |-> a]
Truth(b) == [k |-> "bool", b |-> b]

\* manage says whether counts are managed (manage_rc); err is the first
\* internal error, and nothing is executed after it.
HeapInit(manage) == [cells |-> <<>>, frees |-> 0, reuses |-> 0, err |-> "", manage |-> manage]

Freed == [tag |-> "freed", rc |-> 0, fields |-> <<>>]
Failed(h, what) == IF h.err = "" THEN [h EXCEPT !.err = what] ELSE h
IsFreed(h, a) == h.cells[a] = Freed

PushCell(h, tag, fields) ==
    [h EXCEPT !.cells = Append(@, [tag |-> tag, rc |-> 1, fields |-> fields])]
Top(h) == RefTo(Len(h.cells))

DupValue(h, v) ==
    IF v.k # "ref" THEN h
    ELSE IF IsFreed(h, v.a) THEN Failed(h, "dup of freed cell")
    ELSE [h EXCEPT !.cells[v.a].rc = @ + 1]

RECURSIVE DropCell(_, _)
DropAll(h, vs) ==
    FoldLeft(LAMBDA acc, v : IF v.k = "ref" THEN DropCell(acc, v.a) ELSE acc, h, vs)
DropCell(h, a) ==
    IF h.err # "" THEN h
    ELSE IF h.cells[a].rc = 0 THEN Failed(h, "double free")
    ELSE IF h.cells[a].rc > 1 THEN [h EXCEPT !.cells[a].rc = @ - 1]
    ELSE DropAll([h EXCEPT !.cells[a] = Freed, !.frees = @ + 1], h.cells[a].fields)

DropValue(h, v) == IF v.k = "ref" THEN DropCell(h, v.a) ELSE h

\* The last reference leaves the emptied cell to the token.
DropForReuse(h, a) ==
    IF h.cells[a].rc = 0 THEN [v |-> Token(0), h |-> Failed(h, "double free")]
    ELSE IF h.cells[a].rc > 1
         THEN [v |-> Token(0), h |-> [h EXCEPT !.cells[a].rc = @ - 1]]
    ELSE [v |-> Token(a),
          h |-> DropAll([h EXCEPT !.cells[a].rc = 0, !.cells[a].fields = <<>>],
                        h.cells[a].fields)]

\* The cell of the token is overwritten; without one, a cell is allocated.
ReuseCell(h, a, c, vs) ==
    LET h1 == PushCell(h, c, vs)
    IN  IF a = 0 THEN [v |-> Top(h1), h |-> h1]
        ELSE [v |-> RefTo(a),
              h |-> [h EXCEPT !.cells[a] = [tag |-> c, rc |-> 1, fields |-> vs],
                              !.reuses = @ + 1]]

\* The tree a value denotes: all that `render` shows.
RECURSIVE Tree(_, _)
Tree(h, v) ==
    IF v.k # "ref" THEN v
    ELSE LET c == h.cells[v.a]
         IN  [tag |-> c.tag, fields |-> [i \in DOMAIN c.fields |-> Tree(h, c.fields[i])]]

\* Mutant: references are compared, not what they denote.
IrEqual_ByAddress(h, v, w) == v = w

\* Structural equality of two values.
IrEqual(h, v, w) == Tree(h, v) = Tree(h, w)

\* The cells a value reaches.
RECURSIVE Cells(_, _)
Cells(h, v) ==
    IF v.k # "ref" THEN {}
    ELSE {v.a} \cup UNION {Cells(h, h.cells[v.a].fields[i]) :
                               i \in DOMAIN h.cells[v.a].fields}

-----------------------------------------------------------------------------

Done(v, h) == [v |-> v, h |-> h]
Abort(h, what) == Done(Truth(FALSE), Failed(h, what))

\* Exec(e, env, h, f, fns): e in the environment env, in the body of function f.
\* A TailCall starts the body of f again with other parameters.
RECURSIVE Exec(_, _, _, _, _)
RECURSIVE ExecBind(_, _, _, _, _)

\* The environment of a body: captures first, then parameters.
Frame(fn, caps, args) ==
    [x \in Range(fn.caps) \cup Range(fn.ps) |->
        IF x \in Range(fn.ps)
        THEN args[CHOOSE i \in DOMAIN fn.ps : fn.ps[i] = x]
        ELSE caps[CHOOSE i \in DOMAIN fn.caps : fn.caps[i] = x]]

Exec(e, env, h, f, fns) ==
    LET i == Head(e.is)
        rest == [e EXCEPT !.is = Tail(@)]
    IN
    IF h.err # "" THEN Done(Truth(FALSE), h)
    ELSE IF e.is = <<>> THEN
        IF e.k = "ret" THEN Done(env[e.as[1]], h)
        ELSE Exec(fns[f].e, Frame(fns[f], <<>>, [n \in DOMAIN e.as |-> env[e.as[n]]]), h, f, fns)
    ELSE
    CASE i.k = "dup" -> Exec(rest, env, DupValue(h, env[i.v]), f, fns)
      [] i.k = "drop" -> Exec(rest, env, DropValue(h, env[i.v]), f, fns)
      [] i.k = "dropreuse" ->
           LET r == DropForReuse(h, env[i.v].a)
           IN  Exec(rest, (i.v :> r.v) @@ env, r.h, f, fns)
      [] i.k = "let" ->
           LET r == ExecBind(i.b, env, h, f, fns)
           IN  Exec(rest, (i.x :> r.v) @@ env, r.h, f, fns)

ExecBind(b, env, h, f, fns) ==
    CASE b.op = "if" -> Exec(IF env[b.v].b THEN b.th ELSE b.el, env, h, f, fns)
      [] b.op = "match" ->
           \* the first arm that matches; its binders are not counted
           LET cell == h.cells[env[b.v].a]
               Matches(i) == b.arms[i].c \in {cell.tag, CatchAll}
               first == CHOOSE i \in DOMAIN b.arms :
                           Matches(i) /\ \A j \in 1..(i - 1) : ~Matches(j)
               arm == b.arms[first]
               bound == IF arm.c = CatchAll THEN arm.bs[1] :> env[b.v]
                        ELSE [x \in Range(arm.bs) |->
                                cell.fields[CHOOSE i \in DOMAIN arm.bs : arm.bs[i] = x]]
           IN  IF IsFreed(h, env[b.v].a) THEN Abort(h, "use-after-free in match")
               ELSE IF \A i \in DOMAIN b.arms : ~Matches(i) THEN Abort(h, "no match arm")
               ELSE Exec(arm.e, bound @@ env, h, f, fns)
      [] OTHER ->
           LET vs == [i \in DOMAIN b.as |-> env[b.as[i]]]
           IN
           CASE b.op = "atom" -> Done(vs[1], h)
             [] b.op \in {"ctor", "closure"} ->
                  LET h1 == PushCell(h, b.n, vs) IN Done(Top(h1), h1)
             [] b.op = "ctorreuse" -> ReuseCell(h, env[b.t].a, b.n, vs)
             [] b.op = "equal" ->
                  \* both operands are consumed, after they were compared
                  Done(Truth(IrEqual(h, vs[1], vs[2])),
                       IF h.manage THEN DropAll(h, vs) ELSE h)
             [] b.op = "call" ->
                  Exec(fns[b.n].e, Frame(fns[b.n], <<>>, vs), h, b.n, fns)
             [] b.op = "apply" ->
                  \* the captures are dup'd for the body, and the closure is
                  \* dropped after it
                  LET cell == h.cells[vs[1].a]
                      fn == fns[cell.tag]
                      h1 == IF h.manage THEN FoldLeft(DupValue, h, cell.fields) ELSE h
                      r == Exec(fn.e, Frame(fn, cell.fields, Tail(vs)), h1, cell.tag, fns)
                  IN  IF IsFreed(h, vs[1].a) THEN Abort(h, "apply use-after-free")
                      ELSE IF h.manage THEN Done(r.v, DropValue(r.h, vs[1])) ELSE r

\* run_main
RunMain(fns, manage) ==
    LET none == [x \in {} |-> Truth(FALSE)]
    IN  Exec(fns["main"].e, none, HeapInit(manage), "main", fns)
=============================================================================
