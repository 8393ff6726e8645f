------------------------------- MODULE AriaHeap -------------------------------
(***************************************************************************)
(* The reference-counted heap of Aria's memory model (src/src/ir.rs): the  *)
(* cells, their counts, the release cascade of drop_cell, reuse tokens,    *)
(* closures, and the arrays that are overwritten in place when unshared.   *)
(*                                                                         *)
(* The instructions that reach this heap come from the rc pass             *)
(* (src/src/rc.rs), whose contract is about ownership: a variable owns as  *)
(* many references as it was bound or dup'd minus its uses.  A Slot is one *)
(* such owned reference, so a variable dup'd twice occupies two slots.     *)
(* Scalars are not counted and need no slot: they are operands only.       *)
(*                                                                         *)
(* drop_cell is recursive in the code.  Here each release is a step and    *)
(* the recursion is the stack `work`, so the heap is also seen between two *)
(* steps of a cascade.                                                     *)
(***************************************************************************)
EXTENDS Naturals, Sequences, FiniteSets

CONSTANTS
    Slot,        \* owned references the program may hold at once
    Token,       \* variables $rt0, $rt1, ... that hold reuse tokens
    Scalar,      \* unboxed values (Int, Bool, Str, ... are not counted)
    Ctors,       \* constructor names
    Lambdas,     \* names of lifted lambdas: the tags of closure cells
    ARRAY_TAG,   \* "$Array"
    BYTES_TAG,   \* "$Bytes"
    Arity,       \* number of fields of a constructor or captures of a lambda
    Nil,         \* no value
    Spent,       \* Token(None): the dropped cell was shared
    MaxCells,    \* bound: cells allocated in a run
    MaxLen,      \* bound: fields of a cell
    MaxDepth     \* MAX_IR_CALL_DEPTH

Addr == 1..MaxCells
Index == 1..MaxLen
DataTags == Ctors \cup Lambdas
ArrayTags == {ARRAY_TAG, BYTES_TAG}
Tags == DataTags \cup ArrayTags

\* Where a reference can be: owned by the program, or a field of a cell.
Place == Slot \cup (Addr \X Index)
Value == Addr \cup Scalar \cup {Nil}

ASSUME BoundsAssumption ==
    /\ MaxCells \in Nat /\ MaxLen \in Nat /\ MaxDepth \in Nat
    /\ IsFiniteSet(Slot)

ASSUME KindsAssumption ==
    /\ Arity \in [DataTags -> 0..MaxLen]
    /\ DataTags \cap ArrayTags = {} /\ Ctors \cap Lambdas = {}
    /\ ARRAY_TAG # BYTES_TAG
    /\ (Slot \cup Scalar) \cap (Addr \X Index) = {}
    /\ Slot \cap Scalar = {}
    /\ Scalar \cap Addr = {}
    /\ Nil \notin Addr \cup Scalar /\ Nil \notin Tags
    /\ Spent \notin Addr \cup {Nil}

VARIABLES
    heap,     \* the cells: state, tag, count and number of fields
    ref,      \* what each place holds: a cell, a scalar (fields only) or Nil
    top,      \* heap.len(): the last address pushed = metrics.allocations
    tok,      \* the reuse token each token variable holds
    work,     \* the recursion of drop_cell: cells whose fields are released
    todo,     \* slots that the running instruction has yet to drop
    frames,   \* the closures being applied, outermost first
    metrics,  \* metrics.frees and metrics.live
    status    \* "running", "error" (a reported one) or "double free"

vars == <<heap, ref, top, tok, work, todo, frames, metrics, status>>

\* A cell is "live", "freed" (None) or "token": rc 0 but kept for reuse.  The
\* fields of a freed or token cell were taken out and wait on `work`.
States == {"absent", "live", "freed", "token"}
Cell == [st : States, tag : Tags \cup {Nil}, rc : Nat, len : 0..MaxLen]

Absent == [st |-> "absent", tag |-> Nil, rc |-> 0, len |-> 0]
Fresh(c, n) == [st |-> "live", tag |-> c, rc |-> 1, len |-> n]

Init ==
    /\ heap = [a \in Addr |-> Absent]
    /\ ref = [p \in Place |-> Nil]
    /\ top = 0
    /\ tok = [k \in Token |-> Nil]
    /\ work = <<>> /\ todo = <<>> /\ frames = <<>>
    /\ metrics = [frees |-> 0, live |-> 0]
    /\ status = "running"

-----------------------------------------------------------------------------
(* Operands                                                                *)

Idle == status = "running" /\ work = <<>> /\ todo = <<>>

\* A closure being applied is released by the application alone.
Applied(s) == \E i \in 1..Len(frames) : frames[i] = s
Owned(s) == ref[s] # Nil /\ ~Applied(s)

Live(a) == a \in Addr /\ heap[a].st = "live"
Tagged(s, T) == Owned(s) /\ Live(ref[s]) /\ heap[ref[s]].tag \in T

Fld(a, i) == ref[<<a, i>>]

\* Operand vectors: the rc pass dups a variable once per further use, so an
\* instruction takes each reference it consumes from a slot of its own.
Operands(n) ==
    {g \in [1..n -> Slot \cup Scalar] :
        /\ \A i \in 1..n : g[i] \in Slot => Owned(g[i])
        /\ \A i, j \in 1..n : i # j /\ g[i] \in Slot => g[i] # g[j]}

Val(x) == IF x \in Slot THEN ref[x] ELSE x

\* The result goes to an unused slot or to that of an operand it consumes.
Landing(g, t) == ref[t] = Nil \/ \E i \in DOMAIN g : g[i] = t

\* References after the operands g move into the fields of cell a, whose
\* own reference is delivered in t.
MoveInto(a, g, t) ==
    [p \in Place |->
        IF p \in Slot
        THEN IF p = t THEN a
             ELSE IF \E i \in DOMAIN g : g[i] = p THEN Nil ELSE ref[p]
        ELSE IF p[1] = a /\ p[2] \in DOMAIN g THEN Val(g[p[2]]) ELSE ref[p]]

-----------------------------------------------------------------------------
(* Allocation                                                              *)

\* The tag c takes n fields with operands g.
WellTyped(c, n, g) ==
    /\ c \in DataTags => n = Arity[c]
    /\ c = ARRAY_TAG => \/ \A i \in 1..n : g[i] \in Slot
                        \/ \A i \in 1..n : g[i] \in Scalar
    /\ c = BYTES_TAG => \A i \in 1..n : g[i] \in Scalar

PushCell(c, n, g, t) ==
    /\ top < MaxCells
    /\ top' = top + 1
    /\ heap' = [heap EXCEPT ![top + 1] = Fresh(c, n)]
    /\ ref' = MoveInto(top + 1, g, t)
    /\ metrics' = [metrics EXCEPT !.live = @ + 1]

\* Ctor, MakeClosure, array_new, array_lit and the builders of Bytes.
Construct(c, n, t) ==
    /\ Idle
    /\ \E g \in Operands(n) :
          WellTyped(c, n, g) /\ Landing(g, t) /\ PushCell(c, n, g, t)
    /\ UNCHANGED <<tok, work, todo, frames, status>>

-----------------------------------------------------------------------------
(* dup and drop                                                            *)

\* Mutant: the reference is copied and not counted.
Share_Uncounted(p, t) ==
    /\ ref[t] = Nil /\ Live(ref[p])
    /\ ref' = [ref EXCEPT ![t] = ref[p]]
    /\ UNCHANGED heap

\* A further reference to what place p holds is put in slot t.
Share(p, t) ==
    /\ ref[t] = Nil /\ Live(ref[p])
    /\ ref' = [ref EXCEPT ![t] = ref[p]]
    /\ heap' = [heap EXCEPT ![ref[p]].rc = @ + 1]

Dup(s, t) ==
    /\ Idle /\ Owned(s) /\ Share(s, t)
    /\ UNCHANGED <<top, tok, work, todo, frames, metrics, status>>

\* A match arm binds field i of the borrowed scrutinee s, and dups it.
DupField(s, i, t) ==
    /\ Idle /\ Tagged(s, Ctors) /\ i \in 1..heap[ref[s]].len
    /\ Share(<<ref[s], i>>, t)
    /\ UNCHANGED <<top, tok, work, todo, frames, metrics, status>>

\* Drop, and the read-only builtins that consume their array (array_len).
Drop(s) ==
    /\ Idle /\ Owned(s)
    /\ todo' = <<s>>
    /\ UNCHANGED <<heap, ref, top, tok, work, frames, metrics, status>>

\* `==` and `!=` on two heap values compare them and then drop both.
DropCompared(x, y) ==
    /\ Idle /\ Owned(x) /\ Owned(y) /\ x # y
    /\ todo' = <<x, y>>
    /\ UNCHANGED <<heap, ref, top, tok, work, frames, metrics, status>>

-----------------------------------------------------------------------------
(* drop_cell                                                               *)

\* One reference to a is gone: count it, and free the cell at zero.
DropCell(a, rest) ==
    IF ~Live(a)
    THEN /\ status' = "double free"
         /\ UNCHANGED <<heap, work, metrics>>
    ELSE /\ IF heap[a].rc = 1
            THEN /\ heap' = [heap EXCEPT ![a].rc = 0, ![a].st = "freed"]
                 /\ work' = <<a>> \o rest
                 /\ metrics' = [frees |-> metrics.frees + 1,
                                live |-> metrics.live - 1]
            ELSE /\ heap' = [heap EXCEPT ![a].rc = @ - 1]
                 /\ work' = rest
                 /\ UNCHANGED metrics
         /\ UNCHANGED status

\* The fields of the cell on top of the stack that are still to be dropped.
Unreleased(a) == {i \in 1..heap[a].len : Fld(a, i) \in Addr}

\* The instruction drops its operand.
ReleaseSlot ==
    /\ status = "running" /\ work = <<>> /\ todo # <<>>
    /\ todo' = Tail(todo)
    /\ ref' = [ref EXCEPT ![Head(todo)] = Nil]
    /\ DropCell(ref[Head(todo)], <<>>)
    /\ UNCHANGED <<top, tok, frames>>

\* Mutant: the fields are walked in place, not taken out of the cell.
ReleaseField_InPlace ==
    /\ status = "running" /\ work # <<>>
    /\ \E i \in Unreleased(Head(work)) :
          /\ \A j \in Unreleased(Head(work)) : i <= j
          /\ DropCell(Fld(Head(work), i), work)
    /\ UNCHANGED <<ref, top, tok, todo, frames>>

\* The loop over the fields of a taken-out cell.
ReleaseField ==
    /\ status = "running" /\ work # <<>>
    /\ \E i \in Unreleased(Head(work)) :
          /\ \A j \in Unreleased(Head(work)) : i <= j
          /\ ref' = [ref EXCEPT ![<<Head(work), i>>] = Nil]
          /\ DropCell(Fld(Head(work), i), work)
    /\ UNCHANGED <<top, tok, todo, frames>>

\* ... and its return.
FinishCell ==
    /\ status = "running" /\ work # <<>>
    /\ Unreleased(Head(work)) = {}
    /\ work' = Tail(work)
    /\ ref' = [p \in Place |->
                 IF p \notin Slot /\ p[1] = Head(work) THEN Nil ELSE ref[p]]
    /\ UNCHANGED <<heap, top, tok, todo, frames, metrics, status>>

-----------------------------------------------------------------------------
(* Reuse tokens                                                            *)

\* Mutant: a token is handed out although the cell is still shared.
DropReuse_Shared(s, k) ==
    /\ Idle /\ Tagged(s, Ctors) /\ tok[k] = Nil
    /\ ref' = [ref EXCEPT ![s] = Nil]
    /\ LET a == ref[s] IN
       IF heap[a].rc = 1
       THEN /\ heap' = [heap EXCEPT ![a].rc = 0, ![a].st = "token"]
            /\ tok' = [tok EXCEPT ![k] = a]
            /\ work' = <<a>>
       ELSE /\ heap' = [heap EXCEPT ![a].rc = @ - 1]
            /\ tok' = [tok EXCEPT ![k] = a]
            /\ UNCHANGED work
    /\ UNCHANGED <<top, todo, frames, metrics, status>>

\* drop_for_reuse: like drop_cell, but an unshared cell keeps its slot.
DropReuse(s, k) ==
    /\ Idle /\ Tagged(s, Ctors) /\ tok[k] = Nil
    /\ ref' = [ref EXCEPT ![s] = Nil]
    /\ LET a == ref[s] IN
       IF heap[a].rc = 1
       THEN /\ heap' = [heap EXCEPT ![a].rc = 0, ![a].st = "token"]
            /\ tok' = [tok EXCEPT ![k] = a]
            /\ work' = <<a>>
       ELSE /\ heap' = [heap EXCEPT ![a].rc = @ - 1]
            /\ tok' = [tok EXCEPT ![k] = Spent]
            /\ UNCHANGED work
    /\ UNCHANGED <<top, todo, frames, metrics, status>>

\* CtorReuse: overwrite the cell of the token, or allocate if there is none.
CtorReuse(k, c, t) ==
    /\ Idle /\ tok[k] # Nil
    /\ tok' = [tok EXCEPT ![k] = Nil]
    /\ \E g \in Operands(Arity[c]) :
          /\ Landing(g, t)
          /\ IF tok[k] = Spent
             THEN PushCell(c, Arity[c], g, t)
             ELSE /\ heap[tok[k]].len = Arity[c]
                  /\ heap' = [heap EXCEPT ![tok[k]] = Fresh(c, Arity[c])]
                  /\ ref' = MoveInto(tok[k], g, t)
                  /\ UNCHANGED <<top, metrics>>
    /\ UNCHANGED <<work, todo, frames, status>>

-----------------------------------------------------------------------------
(* Closures                                                                *)

\* Each captured reference is dup'd into a slot of the body's frame.  The
\* applied closure stays where it is until the body returns.
Apply(s) ==
    /\ Idle /\ Tagged(s, Lambdas) /\ Len(frames) < MaxDepth
    /\ LET a == ref[s]
           I == Unreleased(a)
       IN  \E m \in [I -> {t \in Slot : ref[t] = Nil}] :
              /\ \A i, j \in I : i # j => m[i] # m[j]
              /\ ref' = [p \in Place |->
                    IF \E i \in I : m[i] = p
                    THEN Fld(a, CHOOSE i \in I : m[i] = p) ELSE ref[p]]
              /\ heap' = [c \in Addr |-> [heap[c] EXCEPT
                    !.rc = @ + Cardinality({i \in I : Fld(a, i) = c})]]
    /\ frames' = Append(frames, s)
    /\ UNCHANGED <<top, tok, work, todo, metrics, status>>

\* The body has returned: this application's hold on the closure is dropped.
Return ==
    /\ Idle /\ frames # <<>>
    /\ frames' = SubSeq(frames, 1, Len(frames) - 1)
    /\ todo' = <<frames[Len(frames)]>>
    /\ UNCHANGED <<heap, ref, top, tok, work, metrics, status>>

-----------------------------------------------------------------------------
(* Arrays and Bytes                                                        *)

\* Mutant: one further reference is tolerated.
Unique_Loose(a) == heap[a].rc <= 2

\* Only an array nobody else refers to may be overwritten.
Unique(a) == heap[a].rc = 1

InRange(a, i) == i \in 1..heap[a].len

\* array_get: dup the element for the caller, then release the array.
ArrayGet(s, i, t) ==
    /\ Idle /\ Tagged(s, {ARRAY_TAG}) /\ InRange(ref[s], i)
    /\ Share(<<ref[s], i>>, t)
    /\ todo' = <<s>>
    /\ UNCHANGED <<top, tok, work, frames, metrics, status>>

\* An element of the array's type: boxed or not like the others.
Element(a, x) ==
    /\ x \in Slot => Owned(x) /\ heap[a].tag # BYTES_TAG
    /\ \A i \in 1..heap[a].len : (x \in Slot) <=> Fld(a, i) \in Addr

\* Mutant: the elements are copied without being dup'd.
CopyWith_NoDup(s, n, i, x, t) ==
    LET a == ref[s]
        b == top + 1
    IN  /\ top < MaxCells
        /\ top' = top + 1
        /\ ref[t] = Nil \/ t = x
        /\ ref' = [p \in Place |->
              IF p \in Slot THEN IF p = t THEN b ELSE IF p = x THEN Nil ELSE ref[p]
              ELSE IF p[1] # b \/ p[2] \notin 1..n THEN ref[p]
              ELSE IF p[2] = i THEN Val(x) ELSE Fld(a, p[2])]
        /\ heap' = [heap EXCEPT ![b] = Fresh(heap[a].tag, n)]
        /\ metrics' = [metrics EXCEPT !.live = @ + 1]
        /\ todo' = <<s>>

\* Copy-on-write: every element but the i-th is dup'd into a new cell of n
\* fields, x moves into the i-th, and the original is released afterwards.
CopyWith(s, n, i, x, t) ==
    LET a == ref[s]
        b == top + 1
        kept == (1..heap[a].len) \ {i}
    IN  /\ top < MaxCells
        /\ top' = top + 1
        /\ ref[t] = Nil \/ t = x
        /\ ref' = [p \in Place |->
              IF p \in Slot THEN IF p = t THEN b ELSE IF p = x THEN Nil ELSE ref[p]
              ELSE IF p[1] # b \/ p[2] \notin 1..n THEN ref[p]
              ELSE IF p[2] = i THEN Val(x) ELSE Fld(a, p[2])]
        /\ heap' = [c \in Addr |->
              IF c = b THEN Fresh(heap[a].tag, n)
              ELSE [heap[c] EXCEPT
                     !.rc = @ + Cardinality({j \in kept : Fld(a, j) = c})]]
        /\ metrics' = [metrics EXCEPT !.live = @ + 1]
        /\ todo' = <<s>>

\* Mutant: the element displaced in place is forgotten.
ArraySet_Forgets(s, i, x, t) ==
    /\ Idle /\ Tagged(s, ArrayTags) /\ x # s /\ Element(ref[s], x)
    /\ LET a == ref[s] IN
       /\ InRange(a, i)
       /\ IF Unique(a)
          THEN /\ t = s
               /\ ref' = [p \in Place |-> IF p = <<a, i>> THEN Val(x)
                                          ELSE IF p = x THEN Nil ELSE ref[p]]
               /\ UNCHANGED <<heap, top, metrics, todo>>
          ELSE CopyWith(s, heap[a].len, i, x, t)
    /\ UNCHANGED <<tok, work, frames, status>>

\* array_set and bytes_set; in place the displaced element is dropped, from
\* the slot its replacement came from.
ArraySet(s, i, x, t) ==
    /\ Idle /\ Tagged(s, ArrayTags) /\ x # s /\ Element(ref[s], x)
    /\ LET a == ref[s] IN
       /\ InRange(a, i)
       /\ IF Unique(a)
          THEN /\ t = s
               /\ ref' = [p \in Place |-> IF p = <<a, i>> THEN Val(x)
                                          ELSE IF p = x THEN Fld(a, i) ELSE ref[p]]
               /\ todo' = IF x \in Slot THEN <<x>> ELSE <<>>
               /\ UNCHANGED <<heap, top, metrics>>
          ELSE CopyWith(s, heap[a].len, i, x, t)
    /\ UNCHANGED <<tok, work, frames, status>>

\* array_push and bytes_push.
ArrayPush(s, x, t) ==
    /\ Idle /\ Tagged(s, ArrayTags) /\ x # s /\ Element(ref[s], x)
    /\ LET a == ref[s]
           n == heap[a].len + 1
       IN
       /\ n <= MaxLen
       /\ IF Unique(a)
          THEN /\ t = s
               /\ ref' = [p \in Place |-> IF p = <<a, n>> THEN Val(x)
                                          ELSE IF p = x THEN Nil ELSE ref[p]]
               /\ heap' = [heap EXCEPT ![a].len = n]
               /\ UNCHANGED <<top, metrics, todo>>
          ELSE CopyWith(s, n, n, x, t)
    /\ UNCHANGED <<tok, work, frames, status>>

-----------------------------------------------------------------------------

\* A reported error ends the run where it stands: an index out of range (every
\* array has one), a byte out of range, or the depth limit.
Fail ==
    /\ Idle
    /\ \/ \E s \in Slot : Tagged(s, ArrayTags)
       \/ \E s \in Slot : Tagged(s, Lambdas) /\ Len(frames) = MaxDepth
    /\ status' = "error"
    /\ UNCHANGED <<heap, ref, top, tok, work, todo, frames, metrics>>

Next ==
    \/ \E c \in Tags, n \in 0..MaxLen, t \in Slot : Construct(c, n, t)
    \/ \E s, t \in Slot : Dup(s, t)
    \/ \E s, t \in Slot, i \in Index : DupField(s, i, t)
    \/ \E s \in Slot : Drop(s)
    \/ \E x, y \in Slot : DropCompared(x, y)
    \/ ReleaseSlot
    \/ ReleaseField
    \/ FinishCell
    \/ \E s \in Slot, k \in Token : DropReuse(s, k)
    \/ \E k \in Token, c \in Ctors, t \in Slot : CtorReuse(k, c, t)
    \/ \E s \in Slot : Apply(s)
    \/ Return
    \/ \E s, t \in Slot, i \in Index : ArrayGet(s, i, t)
    \/ \E s, t \in Slot, i \in Index, x \in Slot \cup Scalar : ArraySet(s, i, x, t)
    \/ \E s, t \in Slot, x \in Slot \cup Scalar : ArrayPush(s, x, t)
    \/ Fail

Spec == Init /\ [][Next]_vars

-----------------------------------------------------------------------------
(* Properties                                                              *)

\* Every place that refers to cell a, wherever it is.
Holders(a) == {p \in Place : ref[p] = a}

\* The types of the variables; program slots hold counted references only.
TypeOK ==
    /\ heap \in [Addr -> Cell]
    /\ ref \in [Place -> Value]
    /\ \A s \in Slot : ref[s] \in Addr \cup {Nil}
    /\ top \in 0..MaxCells
    /\ tok \in [Token -> Addr \cup {Nil, Spent}]
    /\ work \in Seq(Addr) /\ todo \in Seq(Slot) /\ frames \in Seq(Slot)
    /\ metrics \in [frees : Nat, live : Nat]
    /\ status \in {"running", "error", "double free"}

\* The count of every cell, at every step of every instruction and of every
\* cascade, is the number of references to it: no dup is missing (the cell
\* would be freed under a reader) and none is left over (it would leak).
RcExact ==
    \A a \in Addr :
        /\ heap[a].rc = Cardinality(Holders(a))
        /\ heap[a].st = "live" <=> heap[a].rc > 0

\* The internal errors of the heap never happen: no drop of a freed cell or of
\* a cell with count 0, no use of a freed cell through a slot or a live cell.
NoMemoryError ==
    /\ status # "double free"
    /\ \A s \in Slot : ref[s] # Nil => Live(ref[s])
    /\ \A a \in Addr : Live(a) => \A i \in Unreleased(a) : Live(Fld(a, i))

\* A cell kept for reuse belongs to one token and nothing refers to it, so
\* overwriting it in place cannot be observed and cannot lose a live cell.
TokensExclusive ==
    /\ \A k \in Token : tok[k] \in Addr =>
          /\ heap[tok[k]].st = "token" /\ Holders(tok[k]) = {}
          /\ \A l \in Token : l # k => tok[l] # tok[k]
    /\ \A a \in Addr : heap[a].st = "token" => \E k \in Token : tok[k] = a

\* The metrics that `aria mem` reports are those of the heap: live counts the
\* cells not yet freed (a cell kept for reuse is one), and every allocation is
\* live or was freed exactly once.
MetricsExact ==
    /\ metrics.live = Cardinality({a \in Addr : heap[a].st \in {"live", "token"}})
    /\ metrics.frees = Cardinality({a \in Addr : heap[a].st = "freed"})
    /\ top = metrics.live + metrics.frees

\* The cells that can be reached from the slots of the program and from the
\* fields that a running cascade still holds.
Reachable ==
    LET Out(S) == {ref[p] : p \in {q \in Addr \X Index : q[1] \in S}} \cap Addr
        roots == {ref[s] : s \in Slot} \cap Addr
        reach[n \in Nat] == IF n = 0
                            THEN roots \cup Out({work[i] : i \in 1..Len(work)})
                            ELSE reach[n - 1] \cup Out(reach[n - 1])
    IN  reach[MaxCells]

\* Garbage-free at every step, not only at exit: a live cell is reachable (so
\* none is lost, and no cycle, which counting could not reclaim, is ever tied
\* by an in-place update).
GarbageFree == \A a \in Addr : Live(a) => a \in Reachable

\* The trees that the slots of the program denote.
Nothing == [tag |-> Nil, fields |-> <<>>]
Denoted ==
    LET tree[n \in Nat] ==
            IF n = 0 THEN [a \in Addr |-> Nothing]
            ELSE [a \in Addr |->
                    IF ~Live(a) THEN Nothing
                    ELSE [tag |-> heap[a].tag,
                          fields |-> [i \in 1..heap[a].len |->
                              IF Fld(a, i) \in Addr THEN tree[n - 1][Fld(a, i)]
                                                    ELSE Fld(a, i)]]]
        dropped == {todo[i] : i \in 1..Len(todo)}
    IN  [s \in Slot |-> IF ref[s] = Nil \/ s \in dropped THEN Nothing
                        ELSE tree[MaxCells][ref[s]]]

Values == INSTANCE AriaValues WITH val <- Denoted

\* In-place overwriting (array_set, array_push, CtorReuse) is unobservable:
\* the slots behave as immutable values, whatever they share.
ImplementsValues == Values!Spec

\* A cascade runs to its end: each of its steps consumes one of the references
\* there are, or returns from one level of the recursion.
CascadeWork == 2 * Cardinality({p \in Place : ref[p] \in Addr}) + Len(work)
CascadeShrinks ==
    [][work # <<>> \/ todo # <<>> =>
          CascadeWork' < CascadeWork \/ status' = "double free"]_vars
=============================================================================
