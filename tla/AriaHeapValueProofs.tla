------------------------- MODULE AriaHeapValueProofs -------------------------
(***************************************************************************)
(* Proofs about AriaHeap that go through the fields of cells, for every    *)
(* value of its constants: cells never refer to each other in a circle, so *)
(* that whatever is live is reachable; every cascade of releases ends; and *)
(* the slots behave as immutable values, whatever is overwritten in place. *)
(***************************************************************************)
EXTENDS AriaHeapProofs, AriaInduction, SequenceTheorems

-----------------------------------------------------------------------------
(* Cells do not refer to each other in a circle                            *)

\* In any set of cells there is one that no cell of the set refers to.
Acyclic ==
    \A S \in SUBSET Addr : S # {} =>
        \E a \in S : \A b \in S, i \in Index : Fld(b, i) # a

\* A field is a place of its own.
LEMMA FieldPlace ==
  ASSUME NEW a \in Addr, NEW i \in Index
  PROVE  <<a, i>> \in Place /\ <<a, i>> \notin Slot
BY KindsAssumption DEF Place

\* A step that only clears fields, or moves scalars into them, ties no circle.
LEMMA FieldsClear ==
  ASSUME Acyclic, \A a \in Addr, i \in Index :
                     Fld(a, i)' \in Addr => Fld(a, i)' = Fld(a, i)
  PROVE  Acyclic'
<1> SUFFICES ASSUME NEW S \in SUBSET Addr, S # {}
             PROVE  \E a \in S : \A b \in S, i \in Index : Fld(b, i)' # a
  BY DEF Acyclic
<1>1. PICK a \in S : \A b \in S, i \in Index : Fld(b, i) # a
  BY DEF Acyclic
<1>2. \A b \in S, i \in Index : Fld(b, i)' # a
  BY <1>1
<1>3. QED
  BY <1>2

\* Nor does one that fills the fields of a single cell, which no cell refers to
\* afterwards.
LEMMA FieldsOfOne ==
  ASSUME Acyclic, NEW n \in Addr,
         \A a \in Addr, i \in Index : Fld(a, i)' # n,
         \A a \in Addr \ {n}, i \in Index :
            Fld(a, i)' \in Addr => Fld(a, i)' = Fld(a, i)
  PROVE  Acyclic'
<1> SUFFICES ASSUME NEW S \in SUBSET Addr, S # {}
             PROVE  \E a \in S : \A b \in S, i \in Index : Fld(b, i)' # a
  BY DEF Acyclic
<1>1. CASE n \in S
  BY <1>1
<1>2. CASE n \notin S
  <2>1. PICK a \in S : \A b \in S, i \in Index : Fld(b, i) # a
    BY DEF Acyclic
  <2>2. \A b \in S, i \in Index : Fld(b, i)' # a
    BY <2>1, <1>2
  <2>3. QED
    BY <2>2
<1>3. QED
  BY <1>1, <1>2

\* A cell that is not in use is nowhere referred to; one with count 1 only from
\* the slot that holds it.
LEMMA NoFieldHolds ==
  ASSUME IInv, NEW a \in Addr
  PROVE  /\ ~Live(a) => \A p \in Place : ref[p] # a
         /\ \A s \in Slot : ref[s] = a /\ Unique(a) =>
               \A p \in Place : ref[p] = a => p = s
<1>1. TypeOK /\ RcExact
  BY DEF IInv
<1>2. ~Live(a) => \A p \in Place : ref[p] # a
  BY <1>1, UnusedIsUnheld DEF Holders
<1>3. ASSUME NEW s \in Slot, ref[s] = a, Unique(a), NEW p \in Place, ref[p] = a
      PROVE  p = s
  <2>1. IsFiniteSet(Holders(a)) /\ Cardinality(Holders(a)) = 1
    BY <1>1, <1>3, HoldersFinite DEF Unique, RcExact
  <2>2. PICK x : Holders(a) = {x}
    BY <2>1, FS_Singleton
  <2>3. s \in Holders(a) /\ p \in Holders(a)
    BY <1>3 DEF Holders, Place
  <2>4. QED
    BY <2>2, <2>3
<1>4. QED
  BY <1>2, <1>3

\* The next cell to be allocated.
LEMMA NextCell ==
  ASSUME TypeOK, Pushed, top < MaxCells
  PROVE  top + 1 \in Addr /\ ~Live(top + 1)
<1>1. top \in 0..MaxCells
  BY DEF TypeOK
<1>2. top + 1 \in Addr /\ top + 1 > top
  BY <1>1, BoundsAssumption DEF Addr
<1>3. heap[top + 1].st = "absent"
  BY <1>2 DEF Pushed
<1>4. QED
  BY <1>2, <1>3 DEF Live

\* The number of fields of a cell.
LEMMA Length ==
  ASSUME TypeOK, NEW a, Live(a)
  PROVE  heap[a].len \in 0..MaxLen
BY DEF TypeOK, Cell, Live

LEMMA InitAcyclic == Init => Acyclic
<1> SUFFICES ASSUME Init PROVE Acyclic
  OBVIOUS
<1>1. \A b \in Addr, i \in Index : Fld(b, i) = Nil
  BY FieldPlace DEF Init, Fld
<1>2. Nil \notin Addr
  BY KindsAssumption
<1>3. QED
  BY <1>1, <1>2 DEF Acyclic

\* The operands of an instruction move into cell a, which was not in use.
LEMMA MoveAcyclic ==
  ASSUME IInv, Acyclic, NEW a \in Addr, ~Live(a), NEW n \in Nat, NEW g \in Operands(n),
         NEW t \in Slot, ref' = MoveInto(a, g, t)
  PROVE  Acyclic'
<1>1. \A p \in Place : ref[p] # a
  BY NoFieldHolds
<1>2. \A i \in DOMAIN g : Val(g[i]) # a
  BY <1>1, KindsAssumption DEF Operands, Val, Place
<1>3. ASSUME NEW b \in Addr, NEW i \in Index
      PROVE  /\ Fld(b, i)' # a
             /\ b # a => Fld(b, i)' = Fld(b, i)
  BY <1>1, <1>2, FieldPlace DEF Fld, MoveInto
<1>4. QED
  BY <1>3, FieldsOfOne

\* An element moves into an array that only slot s refers to.
LEMMA InPlaceAcyclic ==
  ASSUME IInv, Acyclic, NEW s \in Slot, Live(ref[s]), Unique(ref[s]),
         NEW x \in Slot \cup Scalar, x # s, NEW k, NEW y,
         ref' = [p \in Place |-> IF p = <<ref[s], k>> THEN Val(x)
                                 ELSE IF p = x THEN y ELSE ref[p]]
  PROVE  Acyclic'
<1>1. PICK a \in Addr : a = ref[s]
  BY DEF Live
<1>2. \A p \in Place : ref[p] = a => p = s
  BY <1>1, NoFieldHolds
<1>3. Val(x) # a
  BY <1>1, <1>2, KindsAssumption DEF Val, Place
<1>4. ASSUME NEW b \in Addr, NEW i \in Index
      PROVE  /\ Fld(b, i)' # a
             /\ b # a => Fld(b, i)' = Fld(b, i)
  <2>1. <<b, i>> \in Place /\ <<b, i>> \notin Slot \cup Scalar
    BY KindsAssumption DEF Place
  <2>2. Fld(b, i) # a
    BY <1>2, <2>1 DEF Fld
  <2>3. QED
    BY <1>1, <1>3, <2>1, <2>2 DEF Fld
<1>5. QED
  BY <1>4, FieldsOfOne

\* The copy of an array is a new cell.
LEMMA CopyAcyclic ==
  ASSUME IInv, Acyclic, NEW s \in Slot, Live(ref[s]), NEW x \in Slot \cup Scalar,
         NEW n \in 0..MaxLen, NEW i, NEW t \in Slot,
         n = heap[ref[s]].len \/ (n = heap[ref[s]].len + 1 /\ i = n),
         CopyWith(s, n, i, x, t)
  PROVE  Acyclic'
<1> DEFINE b == top + 1
<1>1. PICK a \in Addr : a = ref[s]
  BY DEF Live
<1>2. b \in Addr /\ ~Live(b)
  BY NextCell DEF IInv, CopyWith
<1>3. \A p \in Place : ref[p] # b
  BY <1>2, NoFieldHolds
<1>4. Val(x) # b
  BY <1>2, <1>3, KindsAssumption DEF Val, Place
<1>5. ref' = [p \in Place |->
              IF p \in Slot THEN IF p = t THEN b ELSE IF p = x THEN Nil ELSE ref[p]
              ELSE IF p[1] # b \/ p[2] \notin 1..n THEN ref[p]
              ELSE IF p[2] = i THEN Val(x) ELSE Fld(a, p[2])]
  BY <1>1 DEF CopyWith
<1> HIDE DEF b
<1>6. ASSUME NEW c \in Addr, NEW j \in Index
      PROVE  /\ Fld(c, j)' # b
             /\ c # b => Fld(c, j)' = Fld(c, j)
  <2>1. <<c, j>> \in Place /\ <<c, j>> \notin Slot /\ <<a, j>> \in Place
    BY <1>1, FieldPlace
  <2>2. Fld(c, j) # b /\ Fld(a, j) # b
    BY <1>3, <2>1 DEF Fld
  <2>3. Fld(c, j)' = IF c # b \/ j \notin 1..n THEN Fld(c, j)
                     ELSE IF j = i THEN Val(x) ELSE Fld(a, j)
    BY <1>5, <2>1 DEF Fld
  <2>4. QED
    BY <1>4, <2>2, <2>3
<1>7. QED
  BY <1>2, <1>6, FieldsOfOne

\* No instruction and no step of a cascade ties a circle: an array that is
\* overwritten in place is referred to by no cell, so that it cannot come to lie
\* within an element of its own.
LEMMA NextAcyclic == IInv /\ Acyclic /\ [Next]_vars => Acyclic'
<1> SUFFICES ASSUME IInv, Acyclic, [Next]_vars PROVE Acyclic'
  OBVIOUS
<1>0. TypeOK /\ Pushed
  BY DEF IInv
<1>1. ASSUME \A p \in Place \ Slot : ref'[p] \in {ref[p], Nil} PROVE Acyclic'
  <2>1. \A a \in Addr, i \in Index : Fld(a, i)' \in {Fld(a, i), Nil}
    BY <1>1, FieldPlace DEF Fld
  <2>2. QED
    BY <2>1, FieldsClear, KindsAssumption
<1>2. ASSUME UNCHANGED ref PROVE Acyclic'
  BY <1>1, <1>2
<1>3. ASSUME NEW t \in Slot, NEW y, ref' = [ref EXCEPT ![t] = y] PROVE Acyclic'
  BY <1>0, <1>1, <1>3 DEF TypeOK
<1>4. ASSUME NEW c, NEW n \in Nat, NEW t \in Slot, NEW g \in Operands(n), PushCell(c, n, g, t)
      PROVE  Acyclic'
  <2>1. top + 1 \in Addr /\ ~Live(top + 1)
    BY <1>0, <1>4, NextCell DEF PushCell
  <2>2. QED
    BY <1>4, <2>1, MoveAcyclic DEF PushCell
<1>5. ASSUME NEW c \in Tags, NEW n \in 0..MaxLen, NEW t \in Slot, Construct(c, n, t)
      PROVE  Acyclic'
  BY <1>4, <1>5 DEF Construct
<1>6. ASSUME NEW s \in Slot, NEW t \in Slot, Dup(s, t) PROVE Acyclic'
  BY <1>3, <1>6 DEF Dup, Share
<1>7. ASSUME NEW s \in Slot, NEW t \in Slot, NEW i \in Index, DupField(s, i, t) PROVE Acyclic'
  BY <1>3, <1>7 DEF DupField, Share
<1>8. ASSUME NEW s \in Slot, NEW t \in Slot, NEW i \in Index, ArrayGet(s, i, t) PROVE Acyclic'
  BY <1>3, <1>8 DEF ArrayGet, Share
<1>9. ASSUME ReleaseSlot PROVE Acyclic'
  <2>1. Head(todo) \in Slot
    BY <1>0, <1>9 DEF ReleaseSlot, TypeOK
  <2>2. QED
    BY <1>3, <1>9, <2>1 DEF ReleaseSlot
<1>10. ASSUME ReleaseField PROVE Acyclic'
  <2>1. PICK i : ref' = [ref EXCEPT ![<<Head(work), i>>] = Nil]
    BY <1>10 DEF ReleaseField
  <2>2. QED
    BY <1>0, <1>1, <2>1 DEF TypeOK
<1>11. ASSUME FinishCell PROVE Acyclic'
  BY <1>1, <1>11 DEF FinishCell
<1>12. ASSUME NEW s \in Slot, NEW k \in Token, DropReuse(s, k) PROVE Acyclic'
  BY <1>3, <1>12 DEF DropReuse
<1>13. ASSUME NEW k \in Token, NEW c \in Ctors, NEW t \in Slot, CtorReuse(k, c, t)
       PROVE  Acyclic'
  <2>1. Arity[c] \in Nat
    BY KindsAssumption, BoundsAssumption DEF DataTags
  <2>2. PICK g \in Operands(Arity[c]) :
             IF tok[k] = Spent THEN PushCell(c, Arity[c], g, t)
             ELSE ref' = MoveInto(tok[k], g, t)
    BY <1>13 DEF CtorReuse
  <2>3. CASE tok[k] = Spent
    BY <1>4, <2>1, <2>2, <2>3
  <2>4. CASE tok[k] # Spent
    <3>1. tok[k] \in Addr /\ ~Live(tok[k])
      BY <1>0, <1>13, <2>4 DEF CtorReuse, TypeOK, IInv, TokensMatch, Live
    <3>2. QED
      BY <2>1, <2>2, <2>4, <3>1, MoveAcyclic
  <2>5. QED
    BY <2>3, <2>4
<1>14. ASSUME NEW s \in Slot, Apply(s) PROVE Acyclic'
  <2> DEFINE a == ref[s]
             I == Unreleased(a)
  <2>1. PICK m \in [I -> {t \in Slot : ref[t] = Nil}] :
             ref' = [p \in Place |-> IF \E i \in I : m[i] = p
                                     THEN Fld(a, CHOOSE i \in I : m[i] = p) ELSE ref[p]]
    BY <1>14 DEF Apply
  <2> HIDE DEF I
  <2>2. \A p \in Place \ Slot : ref'[p] = ref[p]
    BY <2>1
  <2>3. QED
    BY <1>1, <2>2
<1>15. ASSUME NEW s \in Slot, NEW t \in Slot, NEW i \in Index, NEW x \in Slot \cup Scalar,
              ArraySet(s, i, x, t)
       PROVE  Acyclic'
  <2>1. Live(ref[s]) /\ x # s /\ heap[ref[s]].len \in 0..MaxLen
    BY <1>0, <1>15, Length DEF ArraySet, Tagged
  <2>2. CASE Unique(ref[s])
    <3>1. ref' = [p \in Place |-> IF p = <<ref[s], i>> THEN Val(x)
                                  ELSE IF p = x THEN Fld(ref[s], i) ELSE ref[p]]
      BY <1>15, <2>2 DEF ArraySet
    <3>2. QED
      BY <2>1, <2>2, <3>1, InPlaceAcyclic
  <2>3. CASE ~Unique(ref[s])
    <3>1. CopyWith(s, heap[ref[s]].len, i, x, t)
      BY <1>15, <2>3 DEF ArraySet
    <3>2. QED
      BY <2>1, <3>1, CopyAcyclic
  <2>4. QED
    BY <2>2, <2>3
<1>16. ASSUME NEW s \in Slot, NEW t \in Slot, NEW x \in Slot \cup Scalar, ArrayPush(s, x, t)
       PROVE  Acyclic'
  <2> DEFINE n == heap[ref[s]].len + 1
  <2>1. Live(ref[s]) /\ x # s /\ n <= MaxLen
    BY <1>16 DEF ArrayPush, Tagged
  <2>2. CASE Unique(ref[s])
    <3>1. ref' = [p \in Place |-> IF p = <<ref[s], n>> THEN Val(x)
                                  ELSE IF p = x THEN Nil ELSE ref[p]]
      BY <1>16, <2>2 DEF ArrayPush
    <3>2. QED
      BY <2>1, <2>2, <3>1, InPlaceAcyclic, ZenonT(40)
  <2>3. CASE ~Unique(ref[s])
    <3>1. CopyWith(s, n, n, x, t)
      BY <1>16, <2>3 DEF ArrayPush
    <3>2. n \in 0..MaxLen
      BY <1>0, <2>1, Length, BoundsAssumption
    <3>3. QED
      BY <2>1, <3>1, <3>2, CopyAcyclic
  <2>4. QED
    BY <2>2, <2>3
<1>17. ASSUME \/ \E s \in Slot : Drop(s)
              \/ \E x, y \in Slot : DropCompared(x, y)
              \/ Return \/ Fail \/ UNCHANGED vars
       PROVE  Acyclic'
  BY <1>2, <1>17 DEF Drop, DropCompared, Return, Fail, vars
<1>18. QED
  BY <1>5, <1>6, <1>7, <1>8, <1>9, <1>10, <1>11, <1>12, <1>13, <1>14, <1>15, <1>16, <1>17
     DEF Next

\* Cells never refer to each other in a circle (array_set and array_push).
THEOREM NoCircle == Spec => []Acyclic
<1>1. Init => Acyclic
  BY InitAcyclic
<1>2. IInv /\ Acyclic /\ [Next]_vars => Acyclic'
  BY NextAcyclic
<1>3. QED
  BY <1>1, <1>2, Invariance, PTL DEF Spec

-----------------------------------------------------------------------------
(* What is live is reachable                                               *)

\* The parts of Reachable.
Out(S) == {ref[p] : p \in {q \in Addr \X Index : q[1] \in S}} \cap Addr
FromProgram == {ref[s] : s \in Slot} \cap Addr
FromCascade == Out({work[i] : i \in 1..Len(work)})
Steps == CHOOSE reach : reach = [n \in Nat |-> IF n = 0 THEN FromProgram \cup FromCascade
                                               ELSE reach[n - 1] \cup Out(reach[n - 1])]

LEMMA ReachableIs == Reachable = Steps[MaxCells]
BY DEF Reachable, Steps, FromProgram, FromCascade, Out

LEMMA StepsDef ==
  /\ Steps \in [Nat -> SUBSET Addr]
  /\ Steps[0] = FromProgram \cup FromCascade
  /\ \A n \in Nat : Steps[n + 1] = Steps[n] \cup Out(Steps[n])
<1> DEFINE V == SUBSET Addr
           start == FromProgram \cup FromCascade
           next == [n \in Nat |-> [X \in V |-> X \cup Out(X)]]
           Def(f) == f = [n \in Nat |-> IF n = 0 THEN start ELSE f[n - 1] \cup Out(f[n - 1])]
<1>1. start \in V /\ \A X \in V : X \cup Out(X) \in V
  BY DEF FromProgram, FromCascade, Out
<1> HIDE DEF V
<1>2. next \in [Nat -> [V -> V]]
  BY <1>1
<1>3. \A n \in Nat, X \in V : next[n][X] = X \cup Out(X)
  OBVIOUS
<1> HIDE DEF start, next
<1>4. PICK f : Course(f, V, start, next)
  BY <1>1, <1>2, RecursiveFunction
<1>5. /\ f \in [Nat -> V] /\ f[0] = start
      /\ \A n \in Nat : f[n + 1] = f[n] \cup Out(f[n])
  BY <1>3, <1>4 DEF Course
<1>6. Def(f)
  <2>1. \A n \in Nat : f[n] = IF n = 0 THEN start ELSE f[n - 1] \cup Out(f[n - 1])
    <3> SUFFICES ASSUME NEW n \in Nat, n # 0 PROVE f[n] = f[n - 1] \cup Out(f[n - 1])
      BY <1>5
    <3>1. n - 1 \in Nat /\ n = (n - 1) + 1
      OBVIOUS
    <3>2. QED
      BY <1>5, <3>1
  <2>2. QED
    BY <1>5, <2>1
<1>7. Def(Steps)
  <2>1. Steps = CHOOSE g : Def(g)
    BY DEF Steps, start
  <2>2. QED
    BY <1>6, <2>1, Zenon
<1>8. Steps[0] = start /\ \A n \in Nat : Steps[n + 1] = Steps[n] \cup Out(Steps[n])
  <2>1. Steps[0] = start
    BY <1>7
  <2>2. ASSUME NEW n \in Nat PROVE Steps[n + 1] = Steps[n] \cup Out(Steps[n])
    <3>1. n + 1 \in Nat /\ n + 1 # 0 /\ (n + 1) - 1 = n
      OBVIOUS
    <3>2. Steps[n + 1] = Steps[(n + 1) - 1] \cup Out(Steps[(n + 1) - 1])
      BY <1>7, <3>1
    <3>3. QED
      BY <3>1, <3>2
  <2>3. QED
    BY <2>1, <2>2
<1>9. Steps \in [Nat -> V]
  <2> DEFINE G == {n \in Nat : Steps[n] \in V}
  <2>1. 0 \in G
    BY <1>1, <1>8
  <2>2. ASSUME NEW n \in Nat, n \in G PROVE n + 1 \in G
    BY <1>1, <1>8, <2>2
  <2> HIDE DEF G
  <2>3. \A n \in Nat : n \in G
    BY <2>1, <2>2, Induction
  <2>4. \A n \in Nat : Steps[n] \in V
    BY <2>3 DEF G
  <2>5. Steps = [n \in Nat |-> Steps[n]]
    BY <1>7
  <2> HIDE DEF Def
  <2>6. QED
    BY <2>4, <2>5
<1>10. QED
  BY <1>8, <1>9 DEF V, start

\* After as many steps as there are cells, a further step reaches nothing new.
LEMMA ReachableClosed == Out(Reachable) \subseteq Reachable
<1> DEFINE G == {n \in Nat : \/ Out(Steps[n]) \subseteq Steps[n]
                             \/ Cardinality(Steps[n]) >= n}
<1>1. IsFiniteSet(Addr) /\ Cardinality(Addr) = MaxCells /\ MaxCells \in Nat
  BY BoundsAssumption, FS_Interval DEF Addr
<1>2. ASSUME NEW n \in Nat PROVE /\ Steps[n] \subseteq Addr /\ IsFiniteSet(Steps[n])
                                 /\ Cardinality(Steps[n]) \in Nat
  <2>1. Steps[n] \subseteq Addr
    BY StepsDef
  <2>2. QED
    BY <1>1, <2>1, FS_Subset, FS_CardinalityType
<1>3. 0 \in G
  BY <1>2
<1>4. ASSUME NEW n \in Nat, n \in G PROVE n + 1 \in G
  <2>1. Steps[n + 1] = Steps[n] \cup Out(Steps[n]) /\ n + 1 \in Nat
    BY StepsDef
  <2>2. CASE Out(Steps[n]) \subseteq Steps[n]
    <3>1. Steps[n + 1] = Steps[n]
      BY <2>1, <2>2
    <3>2. QED
      BY <2>1, <2>2, <3>1
  <2>3. CASE ~(Out(Steps[n]) \subseteq Steps[n])
    <3>1. Cardinality(Steps[n]) >= n
      BY <1>4, <2>3
    <3>2. Steps[n] \subseteq Steps[n + 1] /\ Steps[n] # Steps[n + 1]
      BY <2>1, <2>3
    <3>3. /\ IsFiniteSet(Steps[n + 1])
          /\ Cardinality(Steps[n]) \in Nat /\ Cardinality(Steps[n + 1]) \in Nat
      BY <1>2, <2>1
    <3>4. Cardinality(Steps[n]) < Cardinality(Steps[n + 1])
      BY <3>2, <3>3, FS_Subset
    <3>5. Cardinality(Steps[n + 1]) >= n + 1
      BY <3>1, <3>3, <3>4
    <3>6. QED
      BY <2>1, <3>5
  <2>4. QED
    BY <2>2, <2>3
<1> HIDE DEF G
<1>5. MaxCells \in G
  BY <1>1, <1>3, <1>4, Induction
<1>6. CASE Cardinality(Steps[MaxCells]) >= MaxCells
  <2>1. Steps[MaxCells] = Addr
    BY <1>1, <1>2, <1>6, FS_Subset
  <2>2. QED
    BY <2>1, ReachableIs DEF Out
<1>7. QED
  BY <1>5, <1>6, ReachableIs DEF G

\* Where reaching begins.
LEMMA ReachableRoots == FromProgram \cup FromCascade \subseteq Reachable
<1> DEFINE G == {n \in Nat : FromProgram \cup FromCascade \subseteq Steps[n]}
<1>1. 0 \in G /\ \A n \in Nat : n \in G => n + 1 \in G
  BY StepsDef
<1> HIDE DEF G
<1>2. MaxCells \in G
  BY <1>1, Induction, BoundsAssumption
<1>3. QED
  BY <1>2, ReachableIs DEF G

\* A live cell is reachable: a set of live cells that are not has a member that
\* no cell of the set refers to, and its count is not 0.
LEMMA LiveIsReachable ==
  ASSUME IInv, Acyclic
  PROVE  GarbageFree
<1>0. TypeOK /\ RcExact /\ Linked
  BY DEF IInv
<1> DEFINE S == {a \in Addr : Live(a) /\ a \notin Reachable}
<1>1. SUFFICES ASSUME S # {} PROVE FALSE
  BY DEF GarbageFree
<1>2. PICK a \in S : \A b \in S, i \in Index : Fld(b, i) # a
  <2>1. S \in SUBSET Addr
    OBVIOUS
  <2> HIDE DEF S
  <2>2. QED
    BY <1>1, <2>1 DEF Acyclic
<1>3. Holders(a) # {}
  <2>1. heap[a].rc > 0 /\ heap[a].rc = Cardinality(Holders(a))
    BY <1>0, <1>2 DEF RcExact, Live
  <2>2. QED
    BY <2>1, FS_EmptySet
<1>4. PICK p \in Place : ref[p] = a
  BY <1>3 DEF Holders
<1>5. p \notin Slot
  <2>1. p \in Slot => a \in FromProgram
    BY <1>2, <1>4 DEF FromProgram
  <2>2. QED
    BY <1>2, <2>1, ReachableRoots
<1>6. PICK b \in Addr, i \in Index : p = <<b, i>>
  BY <1>5 DEF Place
<1>7. Fld(b, i) = a /\ a # Nil
  BY <1>2, <1>4, <1>6, KindsAssumption DEF Fld
<1>8. \A X : b \in X => a \in Out(X)
  BY <1>2, <1>4, <1>6 DEF Out
<1>9. Live(b) \/ Releasing(b)
  BY <1>0, <1>7 DEF Linked
<1>10. CASE Releasing(b)
  <2>1. a \in FromCascade
    BY <1>8, <1>10 DEF Releasing, FromCascade
  <2>2. QED
    BY <1>2, <2>1, ReachableRoots
<1>11. CASE Live(b)
  <2>1. b \in Reachable
    BY <1>2, <1>7, <1>11
  <2>2. a \in Out(Reachable)
    BY <1>8, <2>1
  <2>3. QED
    BY <1>2, <2>2, ReachableClosed
<1>12. QED
  BY <1>9, <1>10, <1>11

\* Every live cell can be reached from the slots of the program and what a
\* cascade still holds, at every step: nothing leaks, and counting never meets a
\* circle that it could not reclaim (drop_cell, array_set, CtorReuse).
THEOREM NothingLost == Spec => []GarbageFree
<1>1. IInv /\ Acyclic => GarbageFree
  BY LiveIsReachable
<1>2. QED
  BY <1>1, Invariance, NoCircle, PTL

-----------------------------------------------------------------------------
(* Every cascade ends                                                      *)

\* The places that hold a reference.
Holding == {p \in Place : ref[p] \in Addr}

LEMMA HoldingFinite ==
  /\ IsFiniteSet(Holding) /\ Cardinality(Holding) \in Nat
  /\ IsFiniteSet(Holding') /\ Cardinality(Holding') \in Nat
<1>1. Holding \in SUBSET Place /\ Holding' \in SUBSET Place
  BY DEF Holding
<1>2. QED
  BY <1>1, PlaceFinite, FS_Subset, FS_CardinalityType

\* One reference fewer.
LEMMA OneFewer ==
  ASSUME TypeOK, NEW q \in Place, ref[q] \in Addr, ref' = [ref EXCEPT ![q] = Nil]
  PROVE  Cardinality(Holding') = Cardinality(Holding) - 1
<1>1. Holding' = Holding \ {q}
  BY KindsAssumption DEF Holding, TypeOK
<1>2. q \in Holding
  BY DEF Holding
<1>3. QED
  BY <1>1, <1>2, HoldingFinite, FS_RemoveElement

\* drop_cell enters at most one cell.
LEMMA Entered ==
  ASSUME NEW a, NEW rest \in Seq(Addr), a \in Addr, DropCell(a, rest)
  PROVE  \/ status' = "double free"
         \/ work' \in Seq(Addr) /\ Len(work') <= Len(rest) + 1
<1>1. CASE ~Live(a)
  BY <1>1 DEF DropCell
<1>2. CASE Live(a) /\ heap[a].rc = 1
  <2>1. work' = <<a>> \o rest
    BY <1>2 DEF DropCell
  <2>2. <<a>> \in Seq(Addr) /\ Len(<<a>>) = 1
    OBVIOUS
  <2>3. work' \in Seq(Addr) /\ Len(work') = Len(<<a>>) + Len(rest) /\ Len(rest) \in Nat
    BY <2>1, <2>2, ConcatProperties, LenProperties
  <2>4. Len(work') <= Len(rest) + 1
    BY <2>2, <2>3
  <2>5. QED
    BY <2>3, <2>4, Zenon
<1>3. CASE Live(a) /\ heap[a].rc # 1
  <2>1. work' = rest /\ Len(rest) \in Nat
    BY <1>3, LenProperties DEF DropCell
  <2>2. Len(work') <= Len(rest) + 1
    BY <2>1
  <2>3. QED
    BY <2>1, <2>2, Zenon
<1>4. QED
  BY <1>1, <1>2, <1>3

LEMMA StepShrinks ==
  ASSUME IInv, Next, work # <<>> \/ todo # <<>>
  PROVE  CascadeWork' < CascadeWork \/ status' = "double free"
<1>0. TypeOK /\ InFlight /\ Linked /\ work \in Seq(Addr) /\ todo \in Seq(Slot)
  BY DEF IInv, TypeOK
<1>1. ~Idle
  BY DEF Idle
<1>2. ReleaseSlot \/ ReleaseField \/ FinishCell
  BY <1>1 DEF Next, Construct, Dup, DupField, Drop, DropCompared, DropReuse, CtorReuse,
              Apply, Return, ArrayGet, ArraySet, ArrayPush, Fail
<1> DEFINE c == Cardinality(Holding)
           d == Cardinality(Holding')
<1>3. /\ CascadeWork = 2 * c + Len(work) /\ CascadeWork' = 2 * d + Len(work')
      /\ c \in Nat /\ d \in Nat
  BY HoldingFinite DEF CascadeWork, Holding
<1> HIDE DEF c, d
<1>4. CASE ReleaseSlot
  <2>1. /\ work = <<>> /\ todo # <<>> /\ ref' = [ref EXCEPT ![Head(todo)] = Nil]
        /\ DropCell(ref[Head(todo)], <<>>)
    BY <1>4 DEF ReleaseSlot
  <2>2. Head(todo) \in Slot /\ ref[Head(todo)] \in Addr
    BY <1>0, <2>1 DEF InFlight
  <2>3. d = c - 1
    BY <1>0, <2>1, <2>2, OneFewer DEF Place, c, d
  <2>4. \/ status' = "double free"
        \/ work' \in Seq(Addr) /\ Len(work') <= Len(work) + 1
    BY <1>0, <2>1, <2>2, Entered
  <2>5. Len(work) = 0
    BY <2>1
  <2>6. work' \in Seq(Addr) => Len(work') \in Nat
    OBVIOUS
  <2>7. work' \in Seq(Addr) /\ Len(work') <= Len(work) + 1 =>
          2 * d + Len(work') < 2 * c + Len(work)
    BY <1>3, <2>3, <2>5, <2>6
  <2>8. QED
    BY <1>3, <2>4, <2>7, Zenon
<1>5. CASE ReleaseField
  <2>1. PICK i \in Unreleased(Head(work)) :
            /\ ref' = [ref EXCEPT ![<<Head(work), i>>] = Nil]
            /\ DropCell(Fld(Head(work), i), work)
    BY <1>5 DEF ReleaseField
  <2>2. Head(work) \in Addr
    BY <1>0, <1>5 DEF ReleaseField
  <2>3. heap[Head(work)].len \in 0..MaxLen
    BY <1>0, <2>2 DEF TypeOK, Cell
  <2>4. i \in Index /\ Fld(Head(work), i) \in Addr
    BY <2>1, <2>3, BoundsAssumption DEF Unreleased, Index
  <2>5. d = c - 1
    BY <1>0, <2>1, <2>2, <2>4, FieldPlace, OneFewer DEF Fld, c, d
  <2>6. \/ status' = "double free"
        \/ work' \in Seq(Addr) /\ Len(work') <= Len(work) + 1
    BY <1>0, <2>1, <2>4, Entered
  <2>7. Len(work) \in Nat /\ (work' \in Seq(Addr) => Len(work') \in Nat)
    BY <1>0
  <2>8. work' \in Seq(Addr) /\ Len(work') <= Len(work) + 1 =>
          2 * d + Len(work') < 2 * c + Len(work)
    BY <1>3, <2>5, <2>7
  <2>9. QED
    BY <1>3, <2>6, <2>8, Zenon
<1>6. CASE FinishCell
  <2> DEFINE a == Head(work)
  <2>1. a \in Addr /\ Unreleased(a) = {} /\ work # <<>> /\ work' = Tail(work)
    BY <1>0, <1>6 DEF FinishCell
  <2>2. ref' = [p \in Place |-> IF p \notin Slot /\ p[1] = a THEN Nil ELSE ref[p]]
    BY <1>6 DEF FinishCell
  <2>3. \A i \in Index : Fld(a, i) \notin Addr
    <3>1. heap[a].len \in 0..MaxLen
      BY <1>0, <2>1 DEF TypeOK, Cell
    <3>2. \A i \in Index : Fld(a, i) # Nil => i \in 1..heap[a].len
      BY <1>0, <2>1, <3>1, BoundsAssumption DEF Linked, Index
    <3>3. QED
      BY <2>1, <3>2, KindsAssumption DEF Unreleased
  <2> HIDE DEF a
  <2>4. Holding' = Holding
    <3>1. ASSUME NEW p \in Place PROVE ref'[p] \in Addr <=> ref[p] \in Addr
      <4>1. CASE p \notin Slot /\ p[1] = a
        <5>1. PICK i \in Index : p = <<a, i>>
          BY <4>1 DEF Place
        <5>2. ref[p] \notin Addr /\ ref'[p] = Nil
          BY <2>2, <2>3, <4>1, <5>1 DEF Fld
        <5>3. QED
          BY <5>2, KindsAssumption
      <4>2. CASE ~(p \notin Slot /\ p[1] = a)
        BY <2>2, <4>2
      <4>3. QED
        BY <4>1, <4>2
    <3>2. QED
      BY <3>1 DEF Holding
  <2>5. d = c
    BY <2>4 DEF c, d
  <2>6. Len(work') = Len(work) - 1 /\ Len(work) \in Nat
    BY <1>0, <2>1
  <2>7. 2 * d + Len(work') < 2 * c + Len(work)
    BY <1>3, <2>5, <2>6
  <2>8. QED
    BY <1>3, <2>7, Zenon
<1>7. QED
  BY <1>2, <1>4, <1>5, <1>6

\* Every step of a cascade uses up a reference or leaves a level of the recursion,
\* so that drop_cell returns, whatever the heap looks like.
THEOREM CascadesEnd == Spec => CascadeShrinks
<1>1. IInv /\ [Next]_vars =>
        [work # <<>> \/ todo # <<>> =>
            CascadeWork' < CascadeWork \/ status' = "double free"]_vars
  BY StepShrinks
<1>2. QED
  BY <1>1, Invariance, PTL DEF Spec, CascadeShrinks

-----------------------------------------------------------------------------
(* The values that cells stand for                                         *)

\* The value of cell a, when D gives those of the cells it refers to.
Node(D, a) ==
    [tag |-> heap[a].tag,
     fields |-> [i \in 1..heap[a].len |->
                    IF Fld(a, i) \in Addr THEN D[Fld(a, i)] ELSE Fld(a, i)]]
Unfold(D) == [a \in Addr |-> IF ~Live(a) THEN Nothing ELSE Node(D, a)]

\* The values of the cells, cut off at depth n, for every n.
NoTrees == [a \in Addr |-> Nothing]
Grows(f, N) == f = [n \in N |-> IF n = 0 THEN NoTrees ELSE Unfold(f[n - 1])]
Trees == CHOOSE f : Grows(f, Nat)

\* What the slots denote when D gives the values of the cells.
Dropped == {todo[i] : i \in 1..Len(todo)}
Shown(D) == [s \in Slot |-> IF ref[s] = Nil \/ s \in Dropped THEN Nothing ELSE D[ref[s]]]

\* The parts of Denoted.
LEMMA DenotedIs == Denoted = Shown(Trees[MaxCells])
BY DEF Denoted, Shown, Dropped, Trees, Grows, NoTrees, Unfold, Node

\* There are such functions up to every depth, ...
LEMMA GrowsUpTo ==
  ASSUME NEW n \in Nat
  PROVE  \E f : Grows(f, 0..n)
<1> DEFINE G == {m \in Nat : \E f : Grows(f, 0..m)}
<1>1. 0 \in G
  <2> DEFINE f == [k \in 0..0 |-> NoTrees]
  <2>1. f = [k \in 0..0 |-> IF k = 0 THEN NoTrees ELSE Unfold(f[k - 1])]
    OBVIOUS
  <2>2. Grows(f, 0..0)
    BY <2>1 DEF Grows
  <2> HIDE DEF f
  <2>3. QED
    BY <2>2
<1>2. ASSUME NEW m \in Nat, m \in G PROVE m + 1 \in G
  <2>1. PICK f : Grows(f, 0..m)
    BY <1>2
  <2> DEFINE g == [k \in 0..(m + 1) |-> IF k = m + 1 THEN Unfold(f[m]) ELSE f[k]]
  <2>2. ASSUME NEW k \in 0..(m + 1) PROVE g[k] = IF k = 0 THEN NoTrees ELSE Unfold(g[k - 1])
    <3>1. CASE k = m + 1
      <4>1. g[k] = Unfold(f[m]) /\ g[k - 1] = f[m] /\ k # 0
        BY <3>1
      <4>2. QED
        BY <4>1
    <3>2. CASE k # m + 1
      <4>1. k \in 0..m /\ k - 1 # m + 1 /\ (k # 0 => k - 1 \in 0..(m + 1))
        BY <3>2
      <4>2. g[k] = f[k] /\ (k # 0 => g[k - 1] = f[k - 1])
        BY <3>2, <4>1
      <4>3. f[k] = IF k = 0 THEN NoTrees ELSE Unfold(f[k - 1])
        BY <2>1, <4>1 DEF Grows
      <4>4. QED
        BY <4>2, <4>3
    <3>3. QED
      BY <3>1, <3>2
  <2>3. g = [k \in 0..(m + 1) |-> g[k]]
    OBVIOUS
  <2> HIDE DEF g
  <2>4. [k \in 0..(m + 1) |-> g[k]]
          = [k \in 0..(m + 1) |-> IF k = 0 THEN NoTrees ELSE Unfold(g[k - 1])]
    BY <2>2
  <2>5. Grows(g, 0..(m + 1))
    BY <2>3, <2>4 DEF Grows
  <2>6. QED
    BY <2>5
<1> HIDE DEF G
<1>3. n \in G
  BY <1>1, <1>2, Induction
<1>4. QED
  BY <1>3 DEF G

\* ... they agree, ...
LEMMA GrowsAlike ==
  ASSUME NEW k \in Nat, NEW m \in Nat, k <= m, NEW f, NEW g,
         Grows(f, 0..k), Grows(g, 0..m)
  PROVE  f[k] = g[k]
<1> DEFINE G == {j \in Nat : j <= k => f[j] = g[j]}
<1>1. 0 \in G
  BY DEF Grows
<1>2. ASSUME NEW j \in Nat, j \in G PROVE j + 1 \in G
  <2> SUFFICES ASSUME j + 1 <= k PROVE f[j + 1] = g[j + 1]
    OBVIOUS
  <2>1. j + 1 \in 0..k /\ j + 1 \in 0..m /\ j + 1 # 0 /\ (j + 1) - 1 = j /\ j <= k
    OBVIOUS
  <2>2. f[j] = g[j]
    BY <1>2, <2>1
  <2>3. f[j + 1] = Unfold(f[(j + 1) - 1]) /\ g[j + 1] = Unfold(g[(j + 1) - 1])
    BY <2>1 DEF Grows
  <2>4. QED
    BY <2>1, <2>2, <2>3
<1> HIDE DEF G
<1>3. k \in G
  BY <1>1, <1>2, Induction
<1>4. QED
  BY <1>3 DEF G

\* ... and so there is one for all depths.
LEMMA TreesDef ==
  /\ Trees[0] = NoTrees
  /\ \A n \in Nat : Trees[n + 1] = Unfold(Trees[n])
<1> DEFINE upto(n) == CHOOSE f : Grows(f, 0..n)
           F == [n \in Nat |-> upto(n)[n]]
<1>1. ASSUME NEW n \in Nat PROVE Grows(upto(n), 0..n)
  BY GrowsUpTo
<1> HIDE DEF upto
<1>2. F[0] = NoTrees
  BY <1>1 DEF Grows
<1>3. ASSUME NEW n \in Nat, n # 0 PROVE F[n] = Unfold(F[n - 1])
  <2>1. n - 1 \in Nat /\ n - 1 <= n /\ n \in 0..n
    BY <1>3
  <2>2. upto(n)[n] = Unfold(upto(n)[n - 1])
    BY <1>1, <1>3, <2>1 DEF Grows
  <2>3. upto(n - 1)[n - 1] = upto(n)[n - 1]
    BY <1>1, <2>1, GrowsAlike
  <2>4. QED
    BY <2>1, <2>2, <2>3
<1>4. Grows(F, Nat)
  <2>1. F = [n \in Nat |-> F[n]]
    OBVIOUS
  <2> HIDE DEF F
  <2>2. [n \in Nat |-> F[n]] = [n \in Nat |-> IF n = 0 THEN NoTrees ELSE Unfold(F[n - 1])]
    BY <1>2, <1>3
  <2>3. QED
    BY <2>1, <2>2 DEF Grows
<1>5. Grows(Trees, Nat)
  BY <1>4 DEF Trees
<1>6. Trees[0] = NoTrees
  BY <1>5 DEF Grows
<1>7. ASSUME NEW n \in Nat PROVE Trees[n + 1] = Unfold(Trees[n])
  <2>1. n + 1 \in Nat /\ n + 1 # 0 /\ (n + 1) - 1 = n
    OBVIOUS
  <2>2. Trees[n + 1] = Unfold(Trees[(n + 1) - 1])
    BY <1>5, <2>1 DEF Grows
  <2>3. QED
    BY <2>1, <2>2
<1>8. QED
  BY <1>6, <1>7

\* In any set of cells there is one that refers to no cell of the set.
LEMMA Sinks ==
  ASSUME Acyclic, NEW S \in SUBSET Addr, S # {}
  PROVE  \E a \in S : \A i \in Index : Fld(a, i) \notin S
<1> DEFINE Has(T) == \E a \in T : \A i \in Index : Fld(a, i) \notin T
           G == {n \in Nat : \A T \in SUBSET Addr : Cardinality(T) = n /\ T # {} => Has(T)}
<1>1. ASSUME NEW T \in SUBSET Addr PROVE IsFiniteSet(T) /\ Cardinality(T) \in Nat
  <2>1. IsFiniteSet(Addr)
    BY FS_Interval, BoundsAssumption DEF Addr
  <2>2. QED
    BY <2>1, FS_Subset, FS_CardinalityType
<1>2. 0 \in G
  BY <1>1, FS_EmptySet
<1>3. ASSUME NEW n \in Nat, n \in G PROVE n + 1 \in G
  <2> SUFFICES ASSUME NEW T \in SUBSET Addr, Cardinality(T) = n + 1, T # {} PROVE Has(T)
    OBVIOUS
  <2>1. PICK a \in T : \A b \in T, i \in Index : Fld(b, i) # a
    BY DEF Acyclic
  <2> DEFINE R == T \ {a}
  <2>2. R \in SUBSET Addr /\ Cardinality(R) = n
    BY <1>1, FS_RemoveElement, SMTT(40)
  <2>3. CASE R = {}
    BY <2>1, <2>3
  <2>4. CASE R # {}
    <3>1. Has(R)
      BY <1>3, <2>2, <2>4
    <3>2. PICK b \in R : \A i \in Index : Fld(b, i) \notin R
      BY <3>1
    <3>3. QED
      BY <2>1, <3>2
  <2>5. QED
    BY <2>3, <2>4
<1>4. Cardinality(S) \in G
  <2> HIDE DEF G
  <2>1. QED
    BY <1>1, <1>2, <1>3, Induction
<1>5. QED
  BY <1>4

\* At depth MaxCells the values of all cells are complete: with every step of
\* depth, a cell that refers to completed ones is completed.
LEMMA Complete ==
  ASSUME TypeOK, Acyclic
  PROVE  Trees[MaxCells] = Unfold(Trees[MaxCells])
<1> DEFINE Stable(n) == {a \in Addr : \A m \in Nat : m >= n => Trees[m][a] = Trees[n][a]}
           G == {n \in Nat : Stable(n) = Addr \/ Cardinality(Stable(n)) >= n}
<1>1. IsFiniteSet(Addr) /\ Cardinality(Addr) = MaxCells /\ MaxCells \in Nat
  BY BoundsAssumption, FS_Interval DEF Addr
<1>2. ASSUME NEW n \in Nat
      PROVE  /\ Stable(n) \subseteq Addr /\ IsFiniteSet(Stable(n))
             /\ Cardinality(Stable(n)) \in Nat
  <2>1. Stable(n) \subseteq Addr
    OBVIOUS
  <2>2. QED
    BY <1>1, <2>1, FS_Subset, FS_CardinalityType
<1>3. 0 \in G
  BY <1>2
<1>4. ASSUME NEW n \in Nat PROVE Stable(n) \subseteq Stable(n + 1)
  <2> SUFFICES ASSUME NEW a \in Stable(n), NEW m \in Nat, m >= n + 1
               PROVE  Trees[m][a] = Trees[n + 1][a]
    OBVIOUS
  <2>1. Trees[m][a] = Trees[n][a] /\ Trees[n + 1][a] = Trees[n][a]
    OBVIOUS
  <2>2. QED
    BY <2>1
<1>5. ASSUME NEW n \in Nat, Stable(n) # Addr
      PROVE  \E a \in Addr \ Stable(n) : a \in Stable(n + 1)
  <2>1. Addr \ Stable(n) \in SUBSET Addr /\ Addr \ Stable(n) # {}
    BY <1>2, <1>5
  <2>2. PICK a \in Addr \ Stable(n) : \A i \in Index : Fld(a, i) \notin Addr \ Stable(n)
    BY <2>1, Sinks
  <2>3. ASSUME NEW m \in Nat, m >= n + 1 PROVE Trees[m][a] = Trees[n + 1][a]
    <3>1. m - 1 \in Nat /\ m - 1 >= n /\ m = (m - 1) + 1
      BY <2>3
    <3>2. Trees[m] = Unfold(Trees[m - 1]) /\ Trees[n + 1] = Unfold(Trees[n])
      <4>1. Trees[(m - 1) + 1] = Unfold(Trees[m - 1])
        BY <3>1, TreesDef
      <4>2. QED
        BY <3>1, <4>1, TreesDef
    <3>3. \A i \in 1..heap[a].len :
             Fld(a, i) \in Addr => Trees[m - 1][Fld(a, i)] = Trees[n][Fld(a, i)]
      <4>1. heap[a].len \in 0..MaxLen
        BY DEF TypeOK, Cell
      <4>2. \A i \in 1..heap[a].len : i \in Index
        BY <4>1, BoundsAssumption DEF Index
      <4>3. QED
        BY <2>2, <3>1, <4>2
    <3>4. Node(Trees[m - 1], a) = Node(Trees[n], a)
      BY <3>3 DEF Node
    <3>5. QED
      BY <3>2, <3>4 DEF Unfold
  <2>4. QED
    BY <2>3
<1>6. ASSUME NEW n \in Nat, n \in G PROVE n + 1 \in G
  <2>1. CASE Stable(n) = Addr
    <3>1. Stable(n + 1) = Addr
      BY <1>2, <1>4, <2>1
    <3>2. QED
      BY <3>1
  <2>2. CASE Stable(n) # Addr
    <3>1. Cardinality(Stable(n)) >= n
      BY <1>6, <2>2
    <3>2. Stable(n) \subseteq Stable(n + 1) /\ Stable(n) # Stable(n + 1)
      BY <1>4, <1>5, <2>2
    <3>3. n + 1 \in Nat
      OBVIOUS
    <3> HIDE DEF Stable
    <3>4. IsFiniteSet(Stable(n + 1)) /\ Cardinality(Stable(n + 1)) \in Nat
          /\ Cardinality(Stable(n)) \in Nat
      BY <1>2, <3>3
    <3>5. Cardinality(Stable(n)) < Cardinality(Stable(n + 1))
      BY <3>2, <3>4, FS_Subset
    <3>6. Cardinality(Stable(n + 1)) >= n + 1
      BY <3>1, <3>4, <3>5
    <3>7. QED
      BY <3>3, <3>6
  <2>3. QED
    BY <2>1, <2>2
<1>7. Stable(MaxCells) = Addr
  <2>1. MaxCells \in G
    <3> HIDE DEF G
    <3>1. QED
      BY <1>1, <1>3, <1>6, Induction
  <2>2. Cardinality(Stable(MaxCells)) >= MaxCells => Stable(MaxCells) = Addr
    <3> HIDE DEF Stable
    <3>1. QED
      BY <1>1, <1>2, FS_Subset
  <2>3. QED
    BY <2>1, <2>2
<1>8. \A a \in Addr : Trees[MaxCells + 1][a] = Trees[MaxCells][a]
  BY <1>1, <1>7
<1>9. Trees[MaxCells + 1] = Unfold(Trees[MaxCells])
  BY <1>1, TreesDef
<1>10. Trees[MaxCells] = [a \in Addr |-> Trees[MaxCells][a]]
  <2>1. CASE MaxCells = 0
    BY <2>1, TreesDef DEF NoTrees
  <2>2. CASE MaxCells # 0
    <3>1. MaxCells - 1 \in Nat /\ (MaxCells - 1) + 1 = MaxCells
      BY <1>1, <2>2
    <3>2. Trees[(MaxCells - 1) + 1] = Unfold(Trees[MaxCells - 1])
      BY <3>1, TreesDef
    <3>3. Trees[MaxCells] = Unfold(Trees[MaxCells - 1])
      BY <3>1, <3>2
    <3>4. QED
      BY <3>3 DEF Unfold
  <2>3. QED
    BY <2>1, <2>2
<1>11. Unfold(Trees[MaxCells]) = [a \in Addr |-> Unfold(Trees[MaxCells])[a]]
  BY DEF Unfold
<1>12. QED
  BY <1>8, <1>9, <1>10, <1>11

\* What the slots denote is read off complete values of the cells.
Represented == \E D : D = Unfold(D) /\ Denoted = Shown(D)

LEMMA Represents ==
  ASSUME TypeOK, Acyclic
  PROVE  Represented
BY Complete, DenotedIs DEF Represented

-----------------------------------------------------------------------------
(* Cells in use                                                            *)

\* A cell in use has a tag, and the cells a cascade is at work on are not in use.
Tidy ==
    /\ \A a \in Addr : Live(a) => heap[a].tag \in Tags
    /\ \A j \in 1..Len(work) : ~Live(work[j])

\* The cells in use, all but n, were in use and have the tag and length they had.
Keeps(n) ==
    \A a \in Addr \ {n} : Live(a)' =>
        Live(a) /\ heap'[a].tag = heap[a].tag /\ heap'[a].len = heap[a].len

\* dup_value changes a count only, ...
LEMMA ShareKeeps ==
  ASSUME TypeOK, NEW p \in Place, NEW t \in Slot, Share(p, t)
  PROVE  Keeps(0)
<1>1. heap \in [Addr -> Cell] /\ ref[p] \in Addr
  BY DEF TypeOK, Share, Live
<1>2. heap' = [heap EXCEPT ![ref[p]].rc = @ + 1]
  BY DEF Share
<1>3. QED
  BY <1>1, <1>2 DEF Keeps, Live, Cell

\* ... drop_cell takes cells out of use, ...
LEMMA DropKeeps ==
  ASSUME TypeOK, NEW a, NEW rest, DropCell(a, rest)
  PROVE  Keeps(0) /\ (Live(a)' => heap[a].rc # 1)
<1>1. heap \in [Addr -> Cell]
  BY DEF TypeOK
<1>2. CASE ~Live(a)
  BY <1>2 DEF DropCell, Keeps, Live
<1>3. CASE Live(a)
  <2>1. a \in Addr
    BY <1>3 DEF Live
  <2>2. \/ heap[a].rc = 1 /\ heap' = [heap EXCEPT ![a].rc = 0, ![a].st = "freed"]
        \/ heap[a].rc # 1 /\ heap' = [heap EXCEPT ![a].rc = @ - 1]
    BY <1>3 DEF DropCell
  <2>3. QED
    BY <1>1, <2>1, <2>2 DEF Keeps, Live, Cell
<1>4. QED
  BY <1>2, <1>3

\* ... drop_for_reuse does so too, or keeps the cell for reuse, ...
LEMMA DropReuseKeeps ==
  ASSUME TypeOK, NEW s \in Slot, NEW k \in Token, DropReuse(s, k)
  PROVE  Keeps(0) /\ (work' # work => work' = <<ref[s]>> /\ heap'[ref[s]].st # "live")
<1>1. heap \in [Addr -> Cell] /\ ref[s] \in Addr
  BY DEF TypeOK, DropReuse, Tagged, Live
<1>2. \/ /\ heap' = [heap EXCEPT ![ref[s]].rc = 0, ![ref[s]].st = "token"]
         /\ work' = <<ref[s]>>
      \/ heap' = [heap EXCEPT ![ref[s]].rc = @ - 1] /\ work' = work
  BY DEF DropReuse
<1>3. QED
  BY <1>1, <1>2 DEF Keeps, Live, Cell

\* ... and an allocation writes one cell.
LEMMA FreshKeeps ==
  ASSUME TypeOK, NEW a \in Addr, NEW c, NEW n, heap' = [heap EXCEPT ![a] = Fresh(c, n)]
  PROVE  Keeps(a) /\ heap'[a] = Fresh(c, n)
BY DEF TypeOK, Keeps, Live

\* An application and a copy count the references they duplicate.
LEMMA ApplyKeeps ==
  ASSUME TypeOK, NEW s \in Slot, Apply(s)
  PROVE  Keeps(0)
<1> DEFINE more(c) == Cardinality({i \in Unreleased(ref[s]) : Fld(ref[s], i) = c})
<1>1. heap' = [c \in Addr |-> [heap[c] EXCEPT !.rc = @ + more(c)]]
  BY DEF Apply
<1> HIDE DEF more
<1>2. QED
  BY <1>1 DEF Keeps, Live, TypeOK, Cell

LEMMA CopyKeeps ==
  ASSUME TypeOK, NEW s \in Slot, NEW n, NEW i, NEW x, NEW t,
         CopyWith(s, n, i, x, t), top + 1 \in Addr
  PROVE  Keeps(top + 1) /\ heap'[top + 1] = Fresh(heap[ref[s]].tag, n)
<1> DEFINE more(c) == Cardinality({j \in (1..heap[ref[s]].len) \ {i} : Fld(ref[s], j) = c})
           b == top + 1
<1>1. heap' = [c \in Addr |-> IF c = b THEN Fresh(heap[ref[s]].tag, n)
                              ELSE [heap[c] EXCEPT !.rc = @ + more(c)]]
  BY DEF CopyWith
<1>2. b \in Addr
  OBVIOUS
<1> HIDE DEF more, b
<1>3. Keeps(b) /\ heap'[b] = Fresh(heap[ref[s]].tag, n)
  BY <1>1, <1>2 DEF Keeps, Live, TypeOK, Cell
<1>4. QED
  BY <1>3 DEF b

LEMMA InitTidy == Init => Tidy
BY DEF Init, Tidy, Live, Absent

\* Every step keeps the tags and the cascade tidy.
LEMMA NextTidy == IInv /\ Tidy /\ [Next]_vars => Tidy'
<1> SUFFICES ASSUME IInv, Tidy, [Next]_vars PROVE Tidy'
  OBVIOUS
<1>0. TypeOK /\ Pushed /\ heap \in [Addr -> Cell] /\ work \in Seq(Addr)
  BY DEF IInv, TypeOK
<1>1. ASSUME NEW n, Keeps(n), n \in Addr => work = <<>> /\ heap'[n].tag \in Tags,
             work' = work
      PROVE  Tidy'
  <2>1. \A a \in Addr : Live(a)' => heap'[a].tag \in Tags
    BY <1>1 DEF Tidy, Keeps
  <2>2. ASSUME NEW j \in 1..Len(work) PROVE ~Live(work[j])'
    BY <1>0, <1>1, <2>2 DEF Tidy, Keeps
  <2>3. QED
    BY <1>1, <2>1, <2>2 DEF Tidy
<1>2. ASSUME UNCHANGED <<heap, work>> PROVE Tidy'
  BY <1>2 DEF Tidy, Live
<1>3. ASSUME NEW c \in Tags, NEW n, NEW t \in Slot, NEW g, PushCell(c, n, g, t), work = <<>>,
             work' = work
      PROVE  Tidy'
  <2>1. top + 1 \in Addr
    BY <1>0, <1>3, NextCell DEF PushCell
  <2>2. Keeps(top + 1) /\ heap'[top + 1] = Fresh(c, n)
    BY <1>0, <1>3, <2>1, FreshKeeps DEF PushCell
  <2>3. QED
    BY <1>1, <1>3, <2>2 DEF Fresh
<1>4. ASSUME NEW a, NEW rest \in Seq(Addr), a \in Addr, DropCell(a, rest),
             \A j \in 1..Len(rest) : ~Live(rest[j])
      PROVE  \/ work' = work
             \/ Tidy'
  <2>1. Keeps(0) /\ 0 \notin Addr
    BY <1>0, <1>4, DropKeeps DEF Addr
  <2>2. \A b \in Addr : Live(b)' => heap'[b].tag \in Tags /\ Live(b)
    BY <2>1 DEF Tidy, Keeps
  <2>3. CASE Live(a) /\ heap[a].rc = 1
    <3>1. work' = <<a>> \o rest /\ ~Live(a)'
      BY <1>0, <1>4, <2>3, DropKeeps DEF DropCell
    <3>2. \A j \in 1..Len(rest) : ~Live(rest[j])'
      BY <1>4, <2>2
    <3>3. \A j \in 1..Len(work') : ~Live(work[j])'
      <4> SUFFICES ASSUME NEW j \in 1..Len(work') PROVE ~Live(work[j])'
        OBVIOUS
      <4>1. work'[j] = a \/ \E i \in 1..Len(rest) : work'[j] = rest[i]
        <5>1. <<a>> \in Seq(Addr) /\ Len(<<a>>) = 1 /\ <<a>>[1] = a
          BY <1>4
        <5>2. Len(rest) \in Nat /\ Len(work') = 1 + Len(rest)
          BY <1>4, <3>1, <5>1, ConcatProperties, LenProperties
        <5>3. CASE j = 1
          BY <3>1, <5>1, <5>3
        <5>4. CASE j # 1
          <6>1. j - 1 \in 1..Len(rest) /\ work'[j] = rest[j - 1]
            BY <1>4, <3>1, <5>2, <5>4
          <6>2. QED
            BY <6>1
        <5>5. QED
          BY <5>3, <5>4
      <4>2. QED
        BY <3>1, <3>2, <4>1
    <3>4. QED
      BY <2>2, <3>3 DEF Tidy
  <2>4. CASE Live(a) /\ heap[a].rc # 1
    <3>1. work' = rest
      BY <1>4, <2>4 DEF DropCell
    <3>2. QED
      BY <1>4, <2>2, <3>1 DEF Tidy
  <2>5. CASE ~Live(a)
    BY <1>4, <2>5 DEF DropCell
  <2>6. QED
    BY <2>3, <2>4, <2>5
<1>5. ASSUME NEW c \in Tags, NEW n \in 0..MaxLen, NEW t \in Slot, Construct(c, n, t)
      PROVE  Tidy'
  BY <1>3, <1>5 DEF Construct, Idle
<1>6. 0 \notin Addr
  BY DEF Addr
<1>7. ASSUME NEW p \in Place, NEW t \in Slot, Share(p, t), work' = work PROVE Tidy'
  BY <1>0, <1>1, <1>6, <1>7, ShareKeeps
<1>8. ASSUME NEW s \in Slot, NEW t \in Slot, Dup(s, t) PROVE Tidy'
  BY <1>7, <1>8 DEF Dup, Place
<1>9. ASSUME NEW s \in Slot, NEW t \in Slot, NEW i \in Index, DupField(s, i, t) PROVE Tidy'
  BY <1>7, <1>9, FieldPlace DEF DupField, Tagged, Live
<1>10. ASSUME NEW s \in Slot, NEW t \in Slot, NEW i \in Index, ArrayGet(s, i, t) PROVE Tidy'
  BY <1>7, <1>10, FieldPlace DEF ArrayGet, Tagged, Live
<1>11. ASSUME ReleaseSlot PROVE Tidy'
  <2>1. work = <<>> /\ todo # <<>> /\ DropCell(ref[Head(todo)], <<>>)
    BY <1>11 DEF ReleaseSlot
  <2>2. ref[Head(todo)] \in Addr
    <3>1. InFlight /\ todo \in Seq(Slot)
      BY DEF IInv, TypeOK
    <3>2. QED
      BY <2>1, <3>1 DEF InFlight
  <2>3. Keeps(0)
    BY <1>0, <2>1, DropKeeps
  <2>4. CASE work' = work
    BY <1>1, <1>6, <2>3, <2>4
  <2>5. CASE work' # work
    <3>1. <<>> \in Seq(Addr) /\ Len(<<>>) = 0 /\ 1..0 = {} /\ work' # <<>>
      BY <2>1, <2>5
    <3>2. \A j \in 1..Len(<<>>) : ~Live(<<>>[j])
      BY <3>1
    <3>3. QED
      BY <1>4, <2>1, <2>2, <2>5, <3>1, <3>2
  <2>6. QED
    BY <2>4, <2>5
<1>12. ASSUME ReleaseField PROVE Tidy'
  <2>1. PICK i \in Unreleased(Head(work)) : DropCell(Fld(Head(work), i), work)
    BY <1>12 DEF ReleaseField
  <2>2. Fld(Head(work), i) \in Addr
    BY <2>1 DEF Unreleased
  <2>3. Keeps(0)
    BY <1>0, <2>1, DropKeeps
  <2>4. CASE work' = work
    BY <1>1, <1>6, <2>3, <2>4
  <2>5. CASE work' # work
    BY <1>0, <1>4, <2>1, <2>2, <2>5 DEF Tidy
  <2>6. QED
    BY <2>4, <2>5
<1>13. ASSUME FinishCell PROVE Tidy'
  <2>1. work # <<>> /\ work' = Tail(work) /\ heap' = heap
    BY <1>13 DEF FinishCell
  <2>2. \A j \in 1..Len(work') : j + 1 \in 1..Len(work) /\ work'[j] = work[j + 1]
    BY <1>0, <2>1
  <2>3. QED
    BY <2>1, <2>2 DEF Tidy, Live
<1>14. ASSUME NEW s \in Slot, NEW k \in Token, DropReuse(s, k) PROVE Tidy'
  <2>1. Keeps(0) /\ (work' # work => work' = <<ref[s]>> /\ heap'[ref[s]].st # "live")
    BY <1>0, <1>14, DropReuseKeeps
  <2>2. CASE work' = work
    BY <1>1, <1>6, <2>1, <2>2
  <2>3. CASE work' # work
    <3>1. \A j \in 1..Len(work') : ~Live(work[j])'
      <4>1. Len(work') = 1 /\ work'[1] = ref[s]
        BY <2>1, <2>3
      <4>2. QED
        BY <2>1, <2>3, <4>1 DEF Live
    <3>2. \A a \in Addr : Live(a)' => heap'[a].tag \in Tags
      BY <1>6, <2>1 DEF Tidy, Keeps
    <3>3. QED
      BY <3>1, <3>2 DEF Tidy
  <2>4. QED
    BY <2>2, <2>3
<1>15. ASSUME NEW k \in Token, NEW c \in Ctors, NEW t \in Slot, CtorReuse(k, c, t)
       PROVE  Tidy'
  <2>1. work = <<>> /\ work' = work /\ c \in Tags
    BY <1>15 DEF CtorReuse, Idle, Tags, DataTags
  <2>2. PICK g \in Operands(Arity[c]) :
             IF tok[k] = Spent THEN PushCell(c, Arity[c], g, t)
             ELSE heap' = [heap EXCEPT ![tok[k]] = Fresh(c, Arity[c])]
    BY <1>15 DEF CtorReuse
  <2>3. CASE tok[k] = Spent
    BY <1>3, <2>1, <2>2, <2>3
  <2>4. CASE tok[k] # Spent
    <3>1. tok[k] \in Addr
      BY <1>0, <1>15, <2>4 DEF CtorReuse, TypeOK
    <3>2. Keeps(tok[k]) /\ heap'[tok[k]] = Fresh(c, Arity[c])
      BY <1>0, <2>2, <2>4, <3>1, FreshKeeps
    <3>3. QED
      BY <1>1, <2>1, <3>2 DEF Fresh
  <2>5. QED
    BY <2>3, <2>4
<1>16. ASSUME NEW s \in Slot, Apply(s) PROVE Tidy'
  <2>1. Keeps(0) /\ work' = work
    BY <1>0, <1>16, ApplyKeeps DEF Apply
  <2>2. QED
    BY <1>1, <1>6, <2>1
<1>17. ASSUME NEW s \in Slot, NEW n, NEW i, NEW x, NEW t, CopyWith(s, n, i, x, t),
              Live(ref[s]), work = <<>>, work' = work
       PROVE  Tidy'
  <2>1. top + 1 \in Addr
    BY <1>0, <1>17, NextCell DEF CopyWith
  <2>2. Keeps(top + 1) /\ heap'[top + 1] = Fresh(heap[ref[s]].tag, n)
    BY <1>0, <1>17, <2>1, CopyKeeps
  <2>3. heap[ref[s]].tag \in Tags
    BY <1>17 DEF Tidy, Live
  <2>4. QED
    BY <1>1, <1>17, <2>2, <2>3 DEF Fresh
<1>18. ASSUME NEW s \in Slot, NEW t \in Slot, NEW i \in Index, NEW x \in Slot \cup Scalar,
              ArraySet(s, i, x, t)
       PROVE  Tidy'
  <2>1. Live(ref[s]) /\ work = <<>> /\ work' = work
    BY <1>18 DEF ArraySet, Tagged, Idle
  <2>2. CASE Unique(ref[s])
    BY <1>2, <1>18, <2>1, <2>2 DEF ArraySet
  <2>3. CASE ~Unique(ref[s])
    BY <1>17, <1>18, <2>1, <2>3 DEF ArraySet
  <2>4. QED
    BY <2>2, <2>3
<1>19. ASSUME NEW s \in Slot, NEW t \in Slot, NEW x \in Slot \cup Scalar, ArrayPush(s, x, t)
       PROVE  Tidy'
  <2>1. Live(ref[s]) /\ work = <<>> /\ work' = work
    BY <1>19 DEF ArrayPush, Tagged, Idle
  <2>2. CASE Unique(ref[s])
    <3>1. heap' = [heap EXCEPT ![ref[s]].len = heap[ref[s]].len + 1] /\ ref[s] \in Addr
      BY <1>19, <2>1, <2>2 DEF ArrayPush, Live
    <3>2. Keeps(ref[s]) /\ heap'[ref[s]].tag = heap[ref[s]].tag
      BY <1>0, <3>1 DEF Keeps, Live, Cell
    <3>3. QED
      BY <1>1, <2>1, <3>1, <3>2 DEF Tidy
  <2>3. CASE ~Unique(ref[s])
    BY <1>17, <1>19, <2>1, <2>3 DEF ArrayPush
  <2>4. QED
    BY <2>2, <2>3
<1>20. ASSUME \/ \E s \in Slot : Drop(s)
              \/ \E x, y \in Slot : DropCompared(x, y)
              \/ Return \/ Fail \/ UNCHANGED vars
       PROVE  Tidy'
  BY <1>2, <1>20 DEF Drop, DropCompared, Return, Fail, vars
<1>21. QED
  BY <1>5, <1>8, <1>9, <1>10, <1>11, <1>12, <1>13, <1>14, <1>15, <1>16, <1>18, <1>19, <1>20
     DEF Next

-----------------------------------------------------------------------------
(* What a step leaves alone                                                *)

\* The state is sound and D gives the values of the cells in it.
Good(D) == IInv /\ NoMemoryError /\ Acyclic /\ Tidy /\ D = Unfold(D)

\* The part of soundness that MemorySafe states, for both ends of a step.
LEMMA Safe == IInv => NoMemoryError
<1> SUFFICES ASSUME IInv PROVE NoMemoryError
  OBVIOUS
<1>1. TypeOK /\ RcExact /\ status # "double free"
  BY DEF IInv
<1>2. \A p \in Place : ref[p] \in Addr => Live(ref[p])
  BY <1>1, HeldIsLive
<1>3. \A s \in Slot : ref[s] # Nil => Live(ref[s])
  BY <1>1, <1>2 DEF TypeOK, Place
<1>4. ASSUME NEW a \in Addr, NEW i \in Unreleased(a) PROVE Live(Fld(a, i))
  <2>1. heap[a].len \in 0..MaxLen
    BY <1>1 DEF TypeOK, Cell
  <2>2. i \in Index
    BY <2>1, BoundsAssumption DEF Unreleased, Index
  <2>3. QED
    BY <1>2, <2>2 DEF Unreleased, Fld, Place
<1>5. QED
  BY <1>1, <1>3, <1>4 DEF NoMemoryError

\* The cells in use, all but n, have the fields they had.
FieldsKept(n) ==
    \A a \in Addr \ {n}, i \in Index : Live(a)' => Fld(a, i)' = Fld(a, i)

\* The value of a cell does not change with a cell n that no cell refers to: a
\* lowest cell whose value did change would refer to one whose value did not.
LEMMA Untouched ==
  ASSUME NEW D, NEW E, Good(D), Good(E)', NEW n, Keeps(n), FieldsKept(n),
         \A a \in Addr, i \in Index : n \in Addr => Fld(a, i) # n
  PROVE  \A a \in Addr : Live(a)' /\ a # n => E[a] = D[a]
<1> DEFINE S == {a \in Addr : Live(a)' /\ a # n /\ E[a] # D[a]}
<1>1. SUFFICES ASSUME S # {} PROVE FALSE
  OBVIOUS
<1>2. PICK b \in S : \A i \in Index : Fld(b, i) \notin S
  <2>1. S \in SUBSET Addr
    OBVIOUS
  <2> HIDE DEF S
  <2>2. QED
    BY <1>1, <2>1, Sinks DEF Good
<1>3. /\ b \in Addr /\ Live(b)' /\ b # n /\ Live(b)
      /\ heap'[b].tag = heap[b].tag /\ heap'[b].len = heap[b].len
  BY <1>2 DEF Keeps
<1>4. \A i \in 1..heap[b].len : i \in Index
  <2>1. heap[b].len \in 0..MaxLen
    BY <1>3, Length DEF Good, IInv
  <2>2. QED
    BY <2>1, BoundsAssumption DEF Index
<1>5. ASSUME NEW i \in 1..heap[b].len, Fld(b, i) \in Addr
      PROVE  E[Fld(b, i)] = D[Fld(b, i)]
  <2>1. i \in Index /\ Fld(b, i)' = Fld(b, i) /\ Fld(b, i) # n
    BY <1>3, <1>4, <1>5 DEF FieldsKept
  <2>2. heap'[Fld(b, i)].st = "live"
    <3>1. \A a \in Addr : Live(a)' => \A j \in 1..heap'[a].len :
             Fld(a, j)' \in Addr => heap'[Fld(a, j)'].st = "live"
      BY DEF Good, NoMemoryError, Unreleased, Live
    <3>2. QED
      BY <1>3, <1>5, <2>1, <3>1
  <2>3. QED
    BY <1>2, <1>5, <2>1, <2>2 DEF Live
<1>6. E[b] = Node(E, b)' /\ D[b] = Node(D, b)
  <2>1. D = Unfold(D) /\ E = Unfold(E)'
    BY DEF Good
  <2>2. Unfold(D)[b] = Node(D, b) /\ Unfold(E)'[b] = Node(E, b)'
    BY <1>3 DEF Unfold
  <2>3. QED
    BY <2>1, <2>2
<1>7. Node(E, b)' = Node(D, b)
  <2>1. \A i \in 1..heap[b].len : Fld(b, i)' = Fld(b, i)
    BY <1>3, <1>4 DEF FieldsKept
  <2>2. [i \in 1..heap[b].len |-> IF Fld(b, i)' \in Addr THEN E[Fld(b, i)'] ELSE Fld(b, i)']
        = [i \in 1..heap[b].len |-> IF Fld(b, i) \in Addr THEN D[Fld(b, i)] ELSE Fld(b, i)]
    BY <1>5, <2>1
  <2>3. QED
    BY <1>3, <2>2 DEF Node
<1>8. QED
  BY <1>2, <1>6, <1>7

\* What a slot denotes.
LEMMA SlotValue ==
  ASSUME NEW D, Good(D), NEW s \in Slot
  PROVE  /\ ref[s] = Nil \/ s \in Dropped => Shown(D)[s] = Nothing
         /\ ref[s] # Nil /\ s \notin Dropped =>
              /\ ref[s] \in Addr /\ Live(ref[s])
              /\ Shown(D)[s] = D[ref[s]] /\ D[ref[s]] = Node(D, ref[s])
              /\ Shown(D)[s] # Nothing
<1>1. ref[s] = Nil \/ s \in Dropped => Shown(D)[s] = Nothing
  BY DEF Shown
<1>2. ASSUME ref[s] # Nil, s \notin Dropped
      PROVE  /\ ref[s] \in Addr /\ Live(ref[s])
             /\ Shown(D)[s] = D[ref[s]] /\ D[ref[s]] = Node(D, ref[s])
             /\ Shown(D)[s] # Nothing
  <2>1. ref[s] \in Addr /\ Live(ref[s]) /\ heap[ref[s]].tag \in Tags
    BY <1>2 DEF Good, NoMemoryError, Live, Tidy
  <2>2. Shown(D)[s] = D[ref[s]]
    BY <1>2 DEF Shown
  <2>3. D[ref[s]] = Node(D, ref[s])
    <3>1. D = Unfold(D)
      BY DEF Good
    <3>2. Unfold(D)[ref[s]] = Node(D, ref[s])
      BY <2>1 DEF Unfold
    <3>3. QED
      BY <3>1, <3>2
  <2>4. Node(D, ref[s]).tag = heap[ref[s]].tag /\ Nothing.tag = Nil
    BY DEF Node, Nothing
  <2>5. Node(D, ref[s]) # Nothing
    BY <2>1, <2>4, KindsAssumption
  <2>6. QED
    BY <2>1, <2>2, <2>3, <2>5
<1>3. QED
  BY <1>1, <1>2

\* A slot is full in the store of values when it is owned and not yet dropped.
LEMMA FullMeans ==
  ASSUME NEW D, Good(D), NEW s \in Slot
  PROVE  Values!Full(Shown(D), s) <=> ref[s] # Nil /\ s \notin Dropped
<1>1. Values!Nothing = Nothing
  BY DEF Values!Nothing, Values!Tree, Nothing
<1>2. QED
  BY <1>1, SlotValue DEF Values!Full

\* What the slots denote afterwards, slot by slot.
LEMMA ShownAfter ==
  ASSUME NEW E, NEW s \in Slot
  PROVE  /\ Shown(E)' = [x \in Slot |-> Shown(E)'[x]]
         /\ ref'[s] = Nil \/ s \in Dropped' => Shown(E)'[s] = Nothing
         /\ ref'[s] # Nil /\ s \notin Dropped' => Shown(E)'[s] = E[ref'[s]]
BY DEF Shown, Nothing

\* A slot denotes what it denoted, if it holds what it held, other than cell n.
LEMMA SlotKept ==
  ASSUME NEW D, NEW E, Good(D), Good(E)', NEW n,
         \A a \in Addr : Live(a)' /\ a # n => E[a] = D[a],
         NEW s \in Slot, ref'[s] = ref[s], s \in Dropped' <=> s \in Dropped,
         n \in Addr /\ s \notin Dropped => ref[s] # n
  PROVE  Shown(E)'[s] = Shown(D)[s]
<1>1. CASE ref[s] = Nil \/ s \in Dropped
  BY <1>1, ShownAfter, SlotValue
<1>2. CASE ref[s] # Nil /\ s \notin Dropped
  <2>1. ref[s] \in Addr /\ Live(ref[s])'
    <3>1. ref[s] \in Addr
      BY <1>2, SlotValue
    <3>2. \A x \in Slot : ref'[x] # Nil => heap'[ref'[x]].st = "live"
      BY DEF Good, NoMemoryError, Live
    <3>3. QED
      BY <1>2, <3>1, <3>2 DEF Live
  <2>2. Shown(E)'[s] = E[ref[s]] /\ Shown(D)[s] = D[ref[s]]
    BY <1>2, ShownAfter, SlotValue
  <2>3. heap'[ref[s]].st = "live"
    BY <1>2, <2>1 DEF Live
  <2>4. QED
    BY <1>2, <2>1, <2>2, <2>3 DEF Live
<1>3. QED
  BY <1>1, <1>2

-----------------------------------------------------------------------------
(* Every step is a step of the immutable values                            *)

\* The slots an instruction has yet to drop.
LEMMA NoDrops ==
  ASSUME NEW s
  PROVE  /\ todo = <<>> => Dropped = {}
         /\ todo' = <<>> => Dropped' = {}
         /\ todo' = <<s>> => Dropped' = {s}
<1>1. ASSUME todo' = <<s>> PROVE Dropped' = {s}
  <2>1. Len(todo') = 1 /\ todo'[1] = s
    BY <1>1
  <2>2. QED
    BY <2>1 DEF Dropped
<1>2. ASSUME todo = <<>> PROVE Dropped = {}
  BY <1>2 DEF Dropped
<1>3. ASSUME todo' = <<>> PROVE Dropped' = {}
  BY <1>3 DEF Dropped
<1>4. QED
  BY <1>1, <1>2, <1>3

\* The slots of S end empty, and no other slot and no cell in use changes.
LEMMA Discards ==
  ASSUME NEW D, NEW E, Good(D), Good(E)', Keeps(0), FieldsKept(0), NEW S \in SUBSET Slot,
         \A s \in S : ref'[s] = Nil \/ s \in Dropped',
         \A s \in Slot \ S : ref'[s] = ref[s] /\ (s \in Dropped' <=> s \in Dropped)
  PROVE  Values!Step(Shown(D), Shown(E)')
<1>1. 0 \notin Addr
  BY DEF Addr
<1>2. \A a \in Addr : Live(a)' /\ a # 0 => E[a] = D[a]
  BY <1>1, Untouched
<1>3. ASSUME NEW s \in S PROVE Shown(E)'[s] = Nothing
  BY <1>3, ShownAfter
<1>4. ASSUME NEW s \in Slot \ S PROVE Shown(E)'[s] = Shown(D)[s]
  BY <1>1, <1>2, <1>4, SlotKept
<1>5. Shown(E)' = [s \in Slot |-> IF s \in S THEN Nothing ELSE Shown(D)[s]]
  BY <1>3, <1>4 DEF Shown
<1>6. Values!Nothing = Nothing
  BY DEF Values!Nothing, Values!Tree, Nothing
<1>7. Values!Discard(Shown(D), Shown(E)', S)
  BY <1>5, <1>6 DEF Values!Discard
<1>8. QED
  BY <1>7 DEF Values!Step

\* The operands g move into cell a, which was not in use.
LEMMA Builds ==
  ASSUME NEW D, NEW E, Good(D), Good(E)', Idle, NEW a \in Addr, ~Live(a),
         NEW c \in Tags, NEW n \in 0..MaxLen, NEW t \in Slot,
         NEW g \in Operands(n), Landing(g, t),
         heap' = [heap EXCEPT ![a] = Fresh(c, n)], ref' = MoveInto(a, g, t), todo' = todo
  PROVE  Values!Step(Shown(D), Shown(E)')
<1> DEFINE v == Shown(D)
           w == Shown(E)'
<1>0. TypeOK /\ 1..n \subseteq Index /\ DOMAIN g = 1..n
  <2>1. 1..n \subseteq Index
    BY BoundsAssumption DEF Index
  <2>2. g \in [1..n -> Slot \cup Scalar]
    BY DEF Operands
  <2>3. QED
    BY <2>1, <2>2 DEF Good, IInv
<1>1. Keeps(a) /\ heap'[a] = Fresh(c, n)
  BY <1>0, FreshKeeps
<1>2. \A p \in Place : ref[p] # a
  BY NoFieldHolds DEF Good
<1>3. ASSUME NEW b \in Addr, NEW i \in Index
      PROVE  /\ Fld(b, i) # a
             /\ b # a => Fld(b, i)' = Fld(b, i)
             /\ b = a /\ i \in 1..n => Fld(b, i)' = Val(g[i])
  BY <1>0, <1>2, FieldPlace DEF Fld, MoveInto
<1>4. \A b \in Addr : Live(b)' /\ b # a => E[b] = D[b]
  BY <1>1, <1>3, Untouched DEF FieldsKept
<1>5. Dropped = {} /\ Dropped' = {}
  BY NoDrops DEF Idle
<1>6. ASSUME NEW i \in 1..n
      PROVE  (IF Fld(a, i)' \in Addr THEN E[Fld(a, i)'] ELSE Fld(a, i)')
                = Values!Value(v, g[i])
  <2>1. Fld(a, i)' = Val(g[i]) /\ g[i] \in Slot \cup Scalar
    BY <1>0, <1>3 DEF Operands
  <2>2. CASE g[i] \in Slot
    <3>1. ref[g[i]] # Nil /\ Val(g[i]) = ref[g[i]]
      BY <1>0, <2>2 DEF Operands, Owned, Val
    <3>2. ref[g[i]] \in Addr /\ Live(ref[g[i]]) /\ v[g[i]] = D[ref[g[i]]]
      BY <1>5, <2>2, <3>1, SlotValue
    <3>3. ref[g[i]] # a /\ heap'[ref[g[i]]] = heap[ref[g[i]]]
      BY <1>0, <1>2, <2>2, <3>2 DEF Place, TypeOK
    <3>4. E[ref[g[i]]] = D[ref[g[i]]]
      BY <1>4, <3>2, <3>3 DEF Live
    <3>5. QED
      BY <2>1, <2>2, <3>1, <3>2, <3>4 DEF Values!Value
  <2>3. CASE g[i] \notin Slot
    <3>1. Val(g[i]) = g[i] /\ g[i] \notin Addr
      BY <2>1, <2>3, KindsAssumption DEF Val
    <3>2. QED
      BY <2>1, <2>3, <3>1 DEF Values!Value
  <2>4. QED
    BY <2>2, <2>3
<1>7. E[a] = Values!Tree(c, [i \in 1..n |-> Values!Value(v, g[i])])
  <2>1. E[a] = Node(E, a)'
    <3>1. E = Unfold(E)' /\ heap'[a].st = "live"
      BY <1>1 DEF Good, Fresh
    <3>2. Unfold(E)'[a] = Node(E, a)'
      BY <3>1 DEF Unfold, Live
    <3>3. QED
      BY <3>1, <3>2
  <2>2. heap'[a].tag = c /\ heap'[a].len = n
    BY <1>1 DEF Fresh
  <2> HIDE DEF v, w
  <2>3. [i \in 1..n |-> IF Fld(a, i)' \in Addr THEN E[Fld(a, i)'] ELSE Fld(a, i)']
          = [i \in 1..n |-> Values!Value(v, g[i])]
    BY <1>6
  <2>4. QED
    BY <2>1, <2>2, <2>3 DEF Node, Values!Tree
<1>8. Values!Nothing = Nothing
  BY DEF Values!Nothing, Values!Tree, Nothing
<1>9. ASSUME NEW s \in Slot
      PROVE  w[s] = IF s = t THEN E[a]
                    ELSE IF \E i \in DOMAIN g : g[i] = s THEN Nothing ELSE v[s]
  <2>1. ref'[s] = IF s = t THEN a ELSE IF \E i \in DOMAIN g : g[i] = s THEN Nil ELSE ref[s]
    BY DEF MoveInto, Place
  <2>2. a # Nil
    BY KindsAssumption
  <2>3. CASE s = t \/ \E i \in DOMAIN g : g[i] = s
    BY <1>5, <2>1, <2>2, <2>3, ShownAfter
  <2>4. CASE ~(s = t \/ \E i \in DOMAIN g : g[i] = s)
    <3>1. ref'[s] = ref[s] /\ ref[s] # a
      BY <1>2, <2>1, <2>4 DEF Place
    <3>2. QED
      BY <1>4, <1>5, <2>4, <3>1, SlotKept
  <2>5. QED
    BY <2>3, <2>4
<1>10. w = Values!Yield(v, g, t, E[a])
  <2>1. w = [s \in Slot |-> w[s]]
    BY DEF Shown
  <2> HIDE DEF v, w
  <2>2. QED
    BY <1>8, <1>9, <2>1 DEF Values!Yield
<1>11. g \in Values!Operands(v, n) /\ Values!Landing(v, g, t)
  <2>1. \A s \in Slot : Values!Full(v, s) <=> ref[s] # Nil
    BY <1>5, FullMeans
  <2> HIDE DEF v, w
  <2>2. g \in Values!Operands(v, n)
    BY <2>1 DEF Operands, Values!Operands, Owned
  <2>3. Values!Landing(v, g, t)
    BY <2>1 DEF Landing, Values!Landing
  <2>4. QED
    BY <2>2, <2>3
<1>12. Values!Build(v, w, c, n, t)
  <2> HIDE DEF v, w
  <2>1. QED
    BY <1>7, <1>10, <1>11 DEF Values!Build
<1>13. QED
  BY <1>12 DEF Values!Step

\* A further reference to the cell in p is put in slot t.
LEMMA Shares ==
  ASSUME NEW D, NEW E, Good(D), Good(E)', Idle, NEW p \in Place, NEW t \in Slot, Share(p, t)
  PROVE  /\ \A s \in Slot \ {t} : s \notin Dropped' => Shown(E)'[s] = Shown(D)[s]
         /\ t \notin Dropped' => Shown(E)'[t] = D[ref[p]]
         /\ ~Values!Full(Shown(D), t)
<1>1. ref \in [Place -> Value] /\ t \in Place /\ ref' = [ref EXCEPT ![t] = ref[p]]
  BY DEF Good, IInv, TypeOK, Place, Share
<1>2. Keeps(0) /\ 0 \notin Addr
  <2>1. TypeOK
    BY DEF Good, IInv
  <2>2. 0 \notin Addr
    BY DEF Addr
  <2>3. QED
    BY <2>1, <2>2, ShareKeeps
<1>3. FieldsKept(0)
  BY <1>1, FieldPlace DEF FieldsKept, Fld
<1>4. \A a \in Addr : Live(a)' /\ a # 0 => E[a] = D[a]
  BY <1>2, <1>3, Untouched
<1>5. Dropped = {}
  BY NoDrops DEF Idle
<1>6. ASSUME NEW s \in Slot \ {t}, s \notin Dropped' PROVE Shown(E)'[s] = Shown(D)[s]
  BY <1>1, <1>2, <1>4, <1>5, <1>6, SlotKept DEF Place
<1>7. ASSUME t \notin Dropped' PROVE Shown(E)'[t] = D[ref[p]]
  <2>1. ref'[t] = ref[p] /\ ref[p] \in Addr /\ ref[p] # 0
    BY <1>1, <1>2 DEF Share, Live
  <2>2. ref'[t] # Nil
    BY <2>1, KindsAssumption
  <2>3. heap'[ref'[t]].st = "live"
    BY <2>2 DEF Good, NoMemoryError, Live
  <2>4. E[ref[p]] = D[ref[p]]
    BY <1>4, <2>1, <2>3 DEF Live
  <2>5. QED
    BY <1>7, <2>1, <2>2, <2>4, ShownAfter
<1>8. ~Values!Full(Shown(D), t)
  BY FullMeans DEF Share
<1>9. QED
  BY <1>6, <1>7, <1>8

\* What a slot holds, while it is owned, is a tree with the fields of its cell.
LEMMA TreeOf ==
  ASSUME NEW D, Good(D), Idle, NEW s \in Slot, ref[s] # Nil
  PROVE  /\ Values!Full(Shown(D), s) /\ ref[s] \in Addr /\ Live(ref[s])
         /\ heap[ref[s]].len \in 0..MaxLen /\ 1..heap[ref[s]].len \subseteq Index
         /\ Shown(D)[s].tag = heap[ref[s]].tag
         /\ DOMAIN Shown(D)[s].fields = 1..heap[ref[s]].len
         /\ \A i \in 1..heap[ref[s]].len : Shown(D)[s].fields[i] =
               IF Fld(ref[s], i) \in Addr THEN D[Fld(ref[s], i)] ELSE Fld(ref[s], i)
<1>1. Dropped = {}
  BY NoDrops DEF Idle
<1>2. /\ ref[s] \in Addr /\ Live(ref[s]) /\ Values!Full(Shown(D), s)
      /\ Shown(D)[s] = Node(D, ref[s])
  BY <1>1, SlotValue, FullMeans
<1>3. heap[ref[s]].len \in 0..MaxLen
  BY <1>2, Length DEF Good, IInv
<1>4. 1..heap[ref[s]].len \subseteq Index
  BY <1>3, BoundsAssumption DEF Index
<1>5. QED
  BY <1>2, <1>3, <1>4 DEF Node

\* A field of the cell in s is read into t; s stays or is dropped.
LEMMA Projects ==
  ASSUME NEW D, NEW E, Good(D), Good(E)', Idle, NEW s \in Slot, Owned(s), NEW t \in Slot,
         NEW i \in Index, i \in 1..heap[ref[s]].len, Share(<<ref[s], i>>, t),
         NEW consume \in BOOLEAN, todo' = IF consume THEN <<s>> ELSE <<>>
  PROVE  Values!Step(Shown(D), Shown(E)')
<1> DEFINE v == Shown(D)
           w == Shown(E)'
           a == ref[s]
<1>1. a # Nil /\ Values!Full(v, s) /\ a \in Addr /\ DOMAIN v[s].fields = 1..heap[a].len
  BY TreeOf DEF Owned
<1>2. v[s].fields[i] = D[Fld(a, i)]
  <2>1. Fld(a, i) \in Addr
    BY DEF Share, Live, Fld
  <2>2. QED
    BY <1>1, <2>1, TreeOf
<1>3. <<a, i>> \in Place /\ t # s
  BY <1>1, FieldPlace DEF Share
<1>4. Dropped' = IF consume THEN {s} ELSE {}
  BY NoDrops
<1>5. /\ \A x \in Slot \ {t} : x \notin Dropped' => w[x] = v[x]
      /\ w[t] = D[Fld(a, i)] /\ ~Values!Full(v, t)
  BY <1>3, <1>4, Shares DEF Fld
<1>6. consume => w[s] = Nothing
  BY <1>4, ShownAfter
<1>7. Values!Nothing = Nothing
  BY DEF Values!Nothing, Values!Tree, Nothing
<1>8. w = [v EXCEPT ![t] = v[s].fields[i], ![s] = IF consume THEN Values!Nothing ELSE @]
  <2>1. w = [x \in Slot |-> w[x]] /\ v = [x \in Slot |-> v[x]]
    BY DEF Shown
  <2> HIDE DEF v, w, a
  <2>2. \A x \in Slot : w[x] = IF x = s THEN IF consume THEN Nothing ELSE v[s]
                               ELSE IF x = t THEN v[s].fields[i] ELSE v[x]
    BY <1>2, <1>3, <1>4, <1>5, <1>6
  <2>3. QED
    BY <1>3, <1>7, <2>1, <2>2
<1>9. Values!Project(v, w, s, i, t, consume)
  <2>1. i \in DOMAIN v[s].fields
    BY <1>1
  <2> HIDE DEF v, w, a
  <2>2. QED
    BY <1>1, <1>5, <1>8, <2>1 DEF Values!Project
<1>10. QED
  BY <1>9 DEF Values!Step, Index

\* Dup is a Copy.
LEMMA DupCopies ==
  ASSUME NEW D, NEW E, Good(D), Good(E)', NEW s \in Slot, NEW t \in Slot, Dup(s, t)
  PROVE  Values!Step(Shown(D), Shown(E)')
<1> DEFINE v == Shown(D)
           w == Shown(E)'
<1>1. Idle /\ ref[s] # Nil /\ Share(s, t) /\ todo' = <<>> /\ s \in Place
  BY DEF Dup, Idle, Owned, Place
<1>2. Dropped = {} /\ Dropped' = {}
  BY <1>1, NoDrops DEF Idle
<1>3. Values!Full(v, s) /\ v[s] = D[ref[s]]
  BY <1>1, <1>2, SlotValue, FullMeans
<1>4. /\ \A x \in Slot \ {t} : w[x] = v[x]
      /\ w[t] = v[s] /\ ~Values!Full(v, t)
  BY <1>1, <1>2, <1>3, Shares
<1>5. w = [x \in Slot |-> w[x]] /\ v = [x \in Slot |-> v[x]]
  BY DEF Shown
<1> HIDE DEF v, w
<1>6. w = [v EXCEPT ![t] = v[s]]
  BY <1>4, <1>5
<1>7. Values!Copy(v, w, s, t)
  BY <1>3, <1>4, <1>6 DEF Values!Copy
<1>8. Values!Step(v, w)
  BY <1>7 DEF Values!Step
<1>9. QED
  BY <1>8 DEF v, w

\* An application reads the captures into empty slots.
LEMMA ApplyProjects ==
  ASSUME NEW D, NEW E, Good(D), Good(E)', NEW s \in Slot, Apply(s)
  PROVE  Values!Step(Shown(D), Shown(E)')
<1> DEFINE v == Shown(D)
           w == Shown(E)'
           a == ref[s]
           I == Unreleased(a)
<1>1. Idle /\ ref[s] # Nil /\ todo' = todo
  BY DEF Apply, Tagged, Owned
<1>2. Dropped = {} /\ Dropped' = {}
  BY <1>1, NoDrops DEF Idle
<1>3. /\ Values!Full(v, s) /\ a \in Addr /\ DOMAIN v[s].fields = 1..heap[a].len
      /\ \A i \in I : i \in Index /\ i \in 1..heap[a].len /\ v[s].fields[i] = D[Fld(a, i)]
  <2>1. /\ Values!Full(v, s) /\ a \in Addr /\ DOMAIN v[s].fields = 1..heap[a].len
        /\ 1..heap[a].len \subseteq Index
    BY <1>1, TreeOf
  <2>2. ASSUME NEW i \in I
        PROVE  i \in Index /\ i \in 1..heap[a].len /\ v[s].fields[i] = D[Fld(a, i)]
    <3>1. Fld(a, i) \in Addr /\ i \in 1..heap[a].len
      BY DEF Unreleased
    <3>2. QED
      BY <1>1, <2>1, <3>1, TreeOf
  <2> HIDE DEF v, w, a, I
  <2>3. QED
    BY <2>1, <2>2
<1>4. PICK m \in [I -> {t \in Slot : ref[t] = Nil}] :
           ref' = [p \in Place |-> IF \E i \in I : m[i] = p
                                   THEN Fld(a, CHOOSE i \in I : m[i] = p) ELSE ref[p]]
  BY DEF Apply
<1> DEFINE T == {m[i] : i \in I}
           from == [t \in T |-> CHOOSE i \in I : m[i] = t]
<1>5. \A i \in I : Fld(a, i) \in Addr
  BY DEF Unreleased
<1> HIDE DEF I
<1>6. T \subseteq Slot /\ from \in [T -> I]
  BY <1>4
<1>7. \A p \in Place : ref'[p] = IF p \in T THEN Fld(a, from[p]) ELSE ref[p]
  BY <1>4
<1> HIDE DEF T, from
<1>8. Keeps(0) /\ 0 \notin Addr
  <2>1. TypeOK
    BY DEF Good, IInv
  <2>2. 0 \notin Addr
    BY DEF Addr
  <2>3. QED
    BY <2>1, <2>2, ApplyKeeps
<1>9. FieldsKept(0)
  <2>1. \A b \in Addr, i \in Index : <<b, i>> \in Place /\ <<b, i>> \notin T
    BY <1>6, FieldPlace
  <2>2. QED
    BY <1>7, <2>1 DEF FieldsKept, Fld
<1>10. \A b \in Addr : Live(b)' /\ b # 0 => E[b] = D[b]
  BY <1>8, <1>9, Untouched
<1>11. ASSUME NEW t \in T PROVE ~Values!Full(v, t) /\ w[t] = v[s].fields[from[t]]
  <2>1. t \in Slot /\ from[t] \in I /\ ref[t] = Nil
    BY <1>4, <1>6 DEF T
  <2>2. ref'[t] = Fld(a, from[t]) /\ Fld(a, from[t]) \in Addr
    BY <1>5, <1>7, <2>1 DEF Place
  <2>3. ref'[t] # Nil
    BY <2>2, KindsAssumption
  <2>4. heap'[ref'[t]].st = "live"
    BY <2>1, <2>3 DEF Good, NoMemoryError, Live
  <2>5. E[Fld(a, from[t])] = D[Fld(a, from[t])]
    BY <1>8, <1>10, <2>2, <2>4 DEF Live
  <2>6. w[t] = E[ref'[t]]
    BY <1>2, <2>1, <2>3, ShownAfter
  <2>7. ~Values!Full(v, t)
    BY <2>1, FullMeans
  <2> HIDE DEF v, w, a
  <2>8. QED
    BY <1>3, <2>1, <2>2, <2>5, <2>6, <2>7
<1>12. ASSUME NEW x \in Slot \ T PROVE w[x] = v[x]
  BY <1>2, <1>7, <1>8, <1>10, <1>12, SlotKept DEF Place
<1>13. w = [x \in Slot |-> w[x]]
  BY DEF Shown
<1> HIDE DEF v, w, a
<1>14. w = [t \in Slot |-> IF t \in T THEN v[s].fields[from[t]] ELSE v[t]]
  BY <1>11, <1>12, <1>13
<1>15. from \in [T -> DOMAIN v[s].fields]
  BY <1>3, <1>6
<1>16. Values!ProjectAll(v, w, s, T)
  BY <1>3, <1>11, <1>14, <1>15 DEF Values!ProjectAll
<1>17. Values!Step(v, w)
  BY <1>6, <1>16 DEF Values!Step
<1>18. QED
  BY <1>17 DEF v, w

\* Cell b receives the elements of the array in s with the i-th replaced (or
\* added), and is delivered in t; b is the array itself or a new cell.
Receives(b, s, i, x, t, n) ==
    /\ heap'[b].tag = heap[ref[s]].tag /\ heap'[b].len = n
    /\ \A j \in 1..n : Fld(b, j)' = IF j = i THEN Val(x) ELSE Fld(ref[s], j)
    /\ ref'[t] = b /\ t \notin Dropped'
    /\ \A y \in Slot \ {t} :
          IF y \in {s, x} THEN ref'[y] = Nil \/ y \in Dropped'
                          ELSE ref'[y] = ref[y] /\ y \notin Dropped'

LEMMA Updates ==
  ASSUME NEW D, NEW E, Good(D), Good(E)', Idle, NEW s \in Slot, NEW t \in Slot,
         NEW x \in Slot \cup Scalar, x # s, Tagged(s, ArrayTags), x \in Slot => Owned(x),
         ref[t] = Nil \/ t \in {s, x}, NEW b \in Addr, NEW i \in Index, NEW n \in 0..MaxLen,
         i \in 1..n, n = heap[ref[s]].len \/ (n = heap[ref[s]].len + 1 /\ i = n),
         Receives(b, s, i, x, t, n), Keeps(b), FieldsKept(b),
         \A p \in Place \ {s} : ref[p] # b
  PROVE  Values!Step(Shown(D), Shown(E)')
<1> DEFINE v == Shown(D)
           w == Shown(E)'
           a == ref[s]
           fs == v[s].fields
           m == heap[a].len
<1>1. /\ a \in Addr /\ Values!Full(v, s) /\ m \in 0..MaxLen /\ 1..m \subseteq Index
      /\ v[s].tag = heap[a].tag /\ DOMAIN fs = 1..m /\ heap[a].tag \in ArrayTags
      /\ \A j \in 1..m : fs[j] = IF Fld(a, j) \in Addr THEN D[Fld(a, j)] ELSE Fld(a, j)
  BY TreeOf DEF Tagged, Owned
<1>2. Len(fs) = m
  <2>1. fs = [j \in 1..m |-> fs[j]]
    <3>1. v[s] = Node(D, a)
      BY SlotValue, NoDrops DEF Idle, Tagged, Owned
    <3>2. fs = [j \in 1..m |-> IF Fld(a, j) \in Addr THEN D[Fld(a, j)] ELSE Fld(a, j)]
      BY <3>1 DEF Node
    <3> HIDE DEF fs, m, a
    <3>3. QED
      BY <3>2
  <2> HIDE DEF fs, m
  <2>2. m \in Nat /\ fs \in [1..m -> {fs[j] : j \in 1..m}]
    BY <1>1, <2>1
  <2> DEFINE R == {fs[j] : j \in 1..m}
  <2> HIDE DEF R
  <2>3. fs \in Seq(R)
    <3>1. fs \in UNION {[1..k -> R] : k \in Nat}
      BY <2>2 DEF R
    <3>2. QED
      BY <3>1, SeqDef
  <2>4. Len(fs) \in Nat /\ DOMAIN fs = 1..Len(fs) /\ DOMAIN fs = 1..m
    BY <1>1, <2>3, LenProperties
  <2>5. QED
    BY <2>2, <2>4
<1>3. Dropped = {}
  BY NoDrops DEF Idle
<1>4. \A c \in Addr, j \in Index : b \in Addr => Fld(c, j) # b
  BY FieldPlace DEF Fld
<1>5. \A c \in Addr : Live(c)' /\ c # b => E[c] = D[c]
  BY <1>4, Untouched
<1>6. Live(b)' /\ \A j \in 1..n : Fld(b, j)' \in Addr => heap'[Fld(b, j)'].st = "live"
  <2>1. heap'[b].st = "live"
    <3>1. b # Nil /\ ref'[t] = b
      BY KindsAssumption DEF Receives
    <3>2. QED
      BY <3>1 DEF Good, NoMemoryError, Live
  <2>2. heap'[b].len = n
    BY DEF Receives
  <2>3. \A j \in Unreleased(b)' : heap'[Fld(b, j)'].st = "live"
    BY <2>1 DEF Good, NoMemoryError, Live
  <2>4. QED
    BY <2>1, <2>2, <2>3 DEF Unreleased, Live
<1>7. \A j \in 1..n : j = i \/ j \in 1..m
  BY <1>1
<1>8. ASSUME NEW j \in 1..n
      PROVE  (IF Fld(b, j)' \in Addr THEN E[Fld(b, j)'] ELSE Fld(b, j)')
                = IF j = i THEN Values!Value(v, x) ELSE fs[j]
  <2>1. Fld(b, j)' = IF j = i THEN Val(x) ELSE Fld(a, j)
    BY DEF Receives
  <2>2. CASE j # i
    <3>1. j \in 1..m /\ j \in Index /\ Fld(b, j)' = Fld(a, j)
      BY <1>1, <1>7, <2>1, <2>2
    <3>2. Fld(a, j) \in Addr => E[Fld(a, j)] = D[Fld(a, j)]
      BY <1>1, <1>4, <1>5, <1>6, <3>1 DEF Live
    <3> HIDE DEF fs, a
    <3>3. QED
      BY <1>1, <2>2, <3>1, <3>2
  <2>3. CASE j = i /\ x \in Slot
    <3>1. ref[x] # Nil /\ x # s
      BY <2>3 DEF Owned
    <3>2. ref[x] \in Addr /\ v[x] = D[ref[x]]
      BY <1>3, <2>3, <3>1, SlotValue
    <3>3. Fld(b, j)' = ref[x] /\ ref[x] # b
      BY <2>1, <2>3, <3>1 DEF Val, Place
    <3>4. E[ref[x]] = D[ref[x]]
      BY <1>5, <1>6, <3>2, <3>3 DEF Live
    <3>5. QED
      BY <2>3, <3>2, <3>3, <3>4 DEF Values!Value
  <2>4. CASE j = i /\ x \notin Slot
    <3>1. Val(x) = x /\ x \notin Addr
      BY <2>4, KindsAssumption DEF Val
    <3>2. QED
      BY <2>1, <2>4, <3>1 DEF Values!Value
  <2>5. QED
    BY <2>2, <2>3, <2>4
<1> DEFINE upd == [j \in DOMAIN fs \cup {i} |-> IF j = i THEN Values!Value(v, x) ELSE fs[j]]
<1>9. E[b] = Values!Tree(v[s].tag, upd)
  <2>1. E[b] = Node(E, b)'
    <3>1. E = Unfold(E)'
      BY DEF Good
    <3>2. Unfold(E)'[b] = Node(E, b)'
      BY <1>6 DEF Unfold
    <3>3. QED
      BY <3>1, <3>2
  <2>2. heap'[b].tag = v[s].tag /\ heap'[b].len = n
    BY <1>1 DEF Receives
  <2>3. DOMAIN fs \cup {i} = 1..n
    <3>1. \A j : j \in (1..m) \cup {i} <=> j \in 1..n
      BY <1>1
    <3>2. QED
      BY <1>1, <3>1
  <2> DEFINE fld(j) == IF Fld(b, j)' \in Addr THEN E[Fld(b, j)'] ELSE Fld(b, j)'
             new(j) == IF j = i THEN Values!Value(v, x) ELSE fs[j]
  <2>4. \A j \in 1..n : fld(j) = new(j)
    BY <1>8
  <2>5. upd = [j \in 1..n |-> new(j)]
    BY <2>3
  <2>6. Node(E, b)' = [tag |-> v[s].tag, fields |-> [j \in 1..n |-> fld(j)]]
    BY <2>2 DEF Node
  <2> HIDE DEF v, fs, upd, fld, new
  <2>7. QED
    BY <2>1, <2>4, <2>5, <2>6 DEF Values!Tree
<1>10. Values!Nothing = Nothing
  BY DEF Values!Nothing, Values!Tree, Nothing
<1>11. ASSUME NEW y \in Slot
       PROVE  w[y] = IF y = t THEN E[b] ELSE IF y \in {s, x} THEN Nothing ELSE v[y]
  <2>1. CASE y = t
    <3>1. ref'[t] = b /\ b # Nil /\ t \notin Dropped'
      BY KindsAssumption DEF Receives
    <3>2. QED
      BY <2>1, <3>1, ShownAfter
  <2>2. CASE y # t /\ y \in {s, x}
    <3>1. ref'[y] = Nil \/ y \in Dropped'
      BY <2>2 DEF Receives
    <3>2. QED
      BY <2>2, <3>1, ShownAfter
  <2>3. CASE y # t /\ y \notin {s, x}
    <3>1. ref'[y] = ref[y] /\ y \notin Dropped' /\ ref[y] # b
      BY <2>3 DEF Receives, Place
    <3>2. QED
      BY <1>3, <1>5, <2>3, <3>1, SlotKept
  <2>4. QED
    BY <2>1, <2>2, <2>3
<1>12. w = [y \in Slot |-> w[y]]
  BY DEF Shown
<1>13. \A y : (\E j \in DOMAIN <<s, x>> : <<s, x>>[j] = y) <=> y \in {s, x}
  <2>1. DOMAIN <<s, x>> = {1, 2} /\ <<s, x>>[1] = s /\ <<s, x>>[2] = x
    OBVIOUS
  <2>2. QED
    BY <2>1
<1>14. (x \in Slot => Values!Full(v, x)) /\ Values!Landing(v, <<s, x>>, t)
  <2>1. \A y \in Slot : Values!Full(v, y) <=> ref[y] # Nil
    BY <1>3, FullMeans
  <2> HIDE DEF v
  <2>2. QED
    BY <1>13, <2>1 DEF Values!Landing, Owned
<1>15. i \in 1..(Len(fs) + 1) /\ i \in 1..MaxLen
  BY <1>1, <1>2 DEF Index
<1>16. v[s].tag \in {ARRAY_TAG, BYTES_TAG}
  BY <1>1 DEF ArrayTags
<1>17. w = Values!Yield(v, <<s, x>>, t, Values!Tree(v[s].tag, upd))
  <2> HIDE DEF v, w, upd
  <2>1. QED
    BY <1>9, <1>10, <1>11, <1>12, <1>13 DEF Values!Yield
<1>18. Values!Update(v, w, s, i, x, t)
  <2> HIDE DEF v, w
  <2>1. QED
    BY <1>1, <1>14, <1>15, <1>16, <1>17 DEF Values!Update
<1> HIDE DEF v, w
<1>19. Values!Step(v, w)
  BY <1>15, <1>18 DEF Values!Step
<1>20. QED
  BY <1>19 DEF v, w

\* An array that only slot s refers to is overwritten in place.
LEMMA Overwrites ==
  ASSUME NEW D, NEW E, Good(D), Good(E)', Idle, NEW s \in Slot, Unique(ref[s]),
         NEW x \in Slot \cup Scalar, x # s, Tagged(s, ArrayTags), x \in Slot => Owned(x),
         NEW i \in Index, NEW n \in 0..MaxLen, i \in 1..n,
         n = heap[ref[s]].len \/ (n = heap[ref[s]].len + 1 /\ i = n),
         heap' = [heap EXCEPT ![ref[s]].len = n], NEW old,
         ref' = [p \in Place |-> IF p = <<ref[s], i>> THEN Val(x)
                                 ELSE IF p = x THEN old ELSE ref[p]],
         Dropped' \subseteq {x}, x \in Slot => old = Nil \/ x \in Dropped'
  PROVE  Values!Step(Shown(D), Shown(E)')
<1>0. PICK a \in Addr : a = ref[s]
  BY DEF Tagged, Live
<1>1. Live(a) /\ TypeOK /\ 1..n \subseteq Index /\ s \in Place
  <2>1. 1..n \subseteq Index
    BY BoundsAssumption DEF Index
  <2>2. QED
    BY <1>0, <2>1 DEF Tagged, Live, Good, IInv, Place
<1>2. \A p \in Place \ {s} : ref[p] # a
  BY <1>0, NoFieldHolds DEF Good
<1>3. Keeps(a) /\ heap'[a].tag = heap[a].tag /\ heap'[a].len = n
  BY <1>0, <1>1 DEF Keeps, Live, TypeOK, Cell
<1>4. ASSUME NEW b \in Addr, NEW j \in Index
      PROVE  Fld(b, j)' = IF b = a /\ j = i THEN Val(x) ELSE Fld(b, j)
  <2>1. <<b, j>> \in Place /\ <<b, j>> \notin Slot \cup Scalar
    BY KindsAssumption DEF Place
  <2>2. QED
    BY <1>0, <2>1 DEF Fld
<1>5. FieldsKept(a)
  BY <1>4 DEF FieldsKept
<1>6. Receives(a, s, i, x, s, n)
  <2>1. ASSUME NEW j \in 1..n PROVE Fld(a, j)' = IF j = i THEN Val(x) ELSE Fld(a, j)
    <3>1. j \in Index
      BY <1>1
    <3>2. QED
      BY <1>4, <3>1
  <2>2. ref'[s] = a /\ s \notin Dropped'
    <3>1. s # <<a, i>>
      BY FieldPlace
    <3>2. QED
      BY <1>0, <1>1, <3>1
  <2>3. ASSUME NEW y \in Slot \ {s}
        PROVE  IF y \in {s, x} THEN ref'[y] = Nil \/ y \in Dropped'
                               ELSE ref'[y] = ref[y] /\ y \notin Dropped'
    <3>1. y \in Place /\ y # <<a, i>>
      BY FieldPlace DEF Place
    <3>2. QED
      BY <1>0, <3>1
  <2>4. QED
    BY <1>0, <1>3, <2>1, <2>2, <2>3 DEF Receives
<1>7. QED
  BY <1>0, <1>2, <1>3, <1>5, <1>6, Updates

\* Any other array is copied.
LEMMA Copies ==
  ASSUME NEW D, NEW E, Good(D), Good(E)', Idle, NEW s \in Slot, NEW t \in Slot,
         NEW x \in Slot \cup Scalar, x # s, Tagged(s, ArrayTags), x \in Slot => Owned(x),
         NEW i \in Index, NEW n \in 0..MaxLen, i \in 1..n,
         n = heap[ref[s]].len \/ (n = heap[ref[s]].len + 1 /\ i = n),
         CopyWith(s, n, i, x, t)
  PROVE  Values!Step(Shown(D), Shown(E)')
<1>0. TypeOK /\ Pushed /\ IInv
  BY DEF Good, IInv
<1>11. PICK a \in Addr : a = ref[s]
  BY DEF Tagged, Live
<1>12. PICK b \in Addr : b = top + 1
  BY <1>0, NextCell DEF CopyWith
<1>1. Live(a) /\ a # Nil /\ 1..n \subseteq Index
  <2>1. 1..n \subseteq Index
    BY BoundsAssumption DEF Index
  <2>2. QED
    BY <1>11, <2>1, KindsAssumption DEF Tagged, Live
<1>2. ~Live(b)
  BY <1>0, <1>12, NextCell DEF CopyWith
<1>3. \A p \in Place : ref[p] # b
  BY <1>0, <1>2, NoFieldHolds
<1>4. Keeps(b) /\ heap'[b] = Fresh(heap[a].tag, n)
  BY <1>0, <1>11, <1>12, CopyKeeps
<1>5. ref' = [p \in Place |->
              IF p \in Slot THEN IF p = t THEN b ELSE IF p = x THEN Nil ELSE ref[p]
              ELSE IF p[1] # b \/ p[2] \notin 1..n THEN ref[p]
              ELSE IF p[2] = i THEN Val(x) ELSE Fld(a, p[2])]
  BY <1>11, <1>12 DEF CopyWith
<1>6. (ref[t] = Nil \/ t \in {s, x}) /\ s # t /\ Dropped' = {s}
  <2>1. (ref[t] = Nil \/ t = x) /\ todo' = <<s>>
    BY DEF CopyWith
  <2>2. QED
    BY <1>11, <1>1, <2>1, NoDrops
<1>7. ASSUME NEW c \in Addr, NEW j \in Index
      PROVE  Fld(c, j)' = IF c # b \/ j \notin 1..n THEN Fld(c, j)
                          ELSE IF j = i THEN Val(x) ELSE Fld(a, j)
  <2>1. <<c, j>> \in Place /\ <<c, j>> \notin Slot
    BY FieldPlace
  <2>2. QED
    BY <1>5, <2>1 DEF Fld
<1>8. FieldsKept(b)
  BY <1>7 DEF FieldsKept
<1>9. Receives(b, s, i, x, t, n)
  <2>1. heap'[b].tag = heap[ref[s]].tag /\ heap'[b].len = n
    BY <1>11, <1>4 DEF Fresh
  <2>2. ASSUME NEW j \in 1..n PROVE Fld(b, j)' = IF j = i THEN Val(x) ELSE Fld(ref[s], j)
    <3>1. j \in Index
      BY <1>1
    <3>2. Fld(b, j)' = IF j = i THEN Val(x) ELSE Fld(a, j)
      BY <1>7, <3>1
    <3>3. QED
      BY <1>11, <3>2
  <2>3. ref'[t] = b /\ t \notin Dropped'
    BY <1>5, <1>6 DEF Place
  <2>4. \A y \in Slot \ {t} : IF y \in {s, x} THEN ref'[y] = Nil \/ y \in Dropped'
                              ELSE ref'[y] = ref[y] /\ y \notin Dropped'
    BY <1>5, <1>6 DEF Place
  <2>5. QED
    BY <2>1, <2>2, <2>3, <2>4 DEF Receives
<1>10. QED
  BY <1>3, <1>4, <1>6, <1>8, <1>9, Updates

\* array_set and array_push, in place or not, are an Update.
LEMMA SetUpdates ==
  ASSUME NEW D, NEW E, Good(D), Good(E)', NEW s \in Slot, NEW t \in Slot, NEW i \in Index,
         NEW x \in Slot \cup Scalar, ArraySet(s, i, x, t)
  PROVE  Values!Step(Shown(D), Shown(E)')
<1> DEFINE n == heap[ref[s]].len
<1>1. /\ Idle /\ Tagged(s, ArrayTags) /\ x # s /\ (x \in Slot => Owned(x)) /\ i \in 1..n
      /\ IF Unique(ref[s])
         THEN /\ t = s
              /\ ref' = [p \in Place |-> IF p = <<ref[s], i>> THEN Val(x)
                                         ELSE IF p = x THEN Fld(ref[s], i) ELSE ref[p]]
              /\ todo' = IF x \in Slot THEN <<x>> ELSE <<>>
              /\ heap' = heap
         ELSE CopyWith(s, n, i, x, t)
  BY DEF ArraySet, Element, InRange
<1>2. TypeOK /\ ref[s] \in Addr /\ Live(ref[s]) /\ n \in 0..MaxLen
  BY <1>1, Length DEF Good, IInv, Tagged, Live
<1>3. CASE Unique(ref[s])
  <2>1. heap' = [heap EXCEPT ![ref[s]].len = n]
    BY <1>1, <1>2, <1>3 DEF TypeOK, Cell
  <2>2. Dropped' = IF x \in Slot THEN {x} ELSE {}
    BY <1>1, <1>3, NoDrops
  <2>3. PICK old : old = Fld(ref[s], i)
    OBVIOUS
  <2>4. /\ ref' = [p \in Place |-> IF p = <<ref[s], i>> THEN Val(x)
                                     ELSE IF p = x THEN old ELSE ref[p]]
        /\ Dropped' \subseteq {x} /\ (x \in Slot => old = Nil \/ x \in Dropped')
    BY <1>1, <1>3, <2>2, <2>3
  <2> HIDE DEF n
  <2>5. n = heap[ref[s]].len \/ (n = heap[ref[s]].len + 1 /\ i = n)
    BY DEF n
  <2>6. Idle /\ Tagged(s, ArrayTags) /\ x # s /\ (x \in Slot => Owned(x)) /\ i \in 1..n
    BY <1>1
  <2>7. n \in 0..MaxLen
    BY <1>2
  <2>8. QED
    BY <1>3, <2>1, <2>4, <2>5, <2>6, <2>7, Overwrites
<1>4. CASE ~Unique(ref[s])
  BY <1>1, <1>2, <1>4, Copies
<1>5. QED
  BY <1>3, <1>4

LEMMA PushUpdates ==
  ASSUME NEW D, NEW E, Good(D), Good(E)', NEW s \in Slot, NEW t \in Slot,
         NEW x \in Slot \cup Scalar, ArrayPush(s, x, t)
  PROVE  Values!Step(Shown(D), Shown(E)')
<1> DEFINE n == heap[ref[s]].len + 1
<1>1. /\ Idle /\ Tagged(s, ArrayTags) /\ x # s /\ (x \in Slot => Owned(x)) /\ n <= MaxLen
      /\ IF Unique(ref[s])
         THEN /\ t = s
              /\ ref' = [p \in Place |-> IF p = <<ref[s], n>> THEN Val(x)
                                         ELSE IF p = x THEN Nil ELSE ref[p]]
              /\ heap' = [heap EXCEPT ![ref[s]].len = n]
              /\ todo' = todo
         ELSE CopyWith(s, n, n, x, t)
  BY DEF ArrayPush, Element
<1>2. ref[s] \in Addr /\ heap[ref[s]].len \in 0..MaxLen
  BY <1>1, Length DEF Good, IInv, Tagged, Live
<1>3. n \in Index /\ n \in 0..MaxLen /\ n \in 1..n
  BY <1>1, <1>2, BoundsAssumption DEF Index
<1>4. CASE Unique(ref[s])
  <2>1. Dropped' = {}
    BY <1>1, <1>4, NoDrops DEF Idle
  <2>2. PICK old : old = Nil
    OBVIOUS
  <2>3. /\ ref' = [p \in Place |-> IF p = <<ref[s], n>> THEN Val(x)
                                     ELSE IF p = x THEN old ELSE ref[p]]
        /\ Dropped' \subseteq {x} /\ (x \in Slot => old = Nil \/ x \in Dropped')
        /\ heap' = [heap EXCEPT ![ref[s]].len = n]
    BY <1>1, <1>4, <2>1, <2>2
  <2> HIDE DEF n
  <2>4. n = heap[ref[s]].len \/ (n = heap[ref[s]].len + 1 /\ n = n)
    BY DEF n
  <2>5. QED
    BY <1>1, <1>3, <1>4, <2>3, <2>4, Overwrites
<1>5. CASE ~Unique(ref[s])
  BY <1>1, <1>3, <1>5, Copies
<1>6. QED
  BY <1>4, <1>5

\* Every step of the heap, under the values the cells stand for before and after.
LEMMA StepSimulates ==
  ASSUME NEW D, NEW E, Good(D), Good(E)', [Next]_vars
  PROVE  Values!Step(Shown(D), Shown(E)')
<1>0. TypeOK /\ InFlight /\ Tidy
  BY DEF Good, IInv
<1>1. ASSUME heap' = heap, ref' = ref PROVE Keeps(0) /\ FieldsKept(0)
  BY <1>1 DEF Keeps, FieldsKept, Live, Fld
<1>2. ASSUME heap' = heap, ref' = ref, NEW S \in SUBSET Slot, S \subseteq Dropped',
             \A s \in Slot \ S : s \in Dropped' <=> s \in Dropped
      PROVE  Values!Step(Shown(D), Shown(E)')
  BY <1>1, <1>2, Discards
<1>3. ASSUME NEW c \in Tags, NEW n \in 0..MaxLen, NEW t \in Slot, NEW g \in Operands(n),
             Idle, Landing(g, t), PushCell(c, n, g, t), todo' = todo
      PROVE  Values!Step(Shown(D), Shown(E)')
  <2>1. PICK a \in Addr : a = top + 1 /\ ~Live(a)
    BY <1>3, NextCell DEF PushCell, Good, IInv
  <2>2. heap' = [heap EXCEPT ![a] = Fresh(c, n)] /\ ref' = MoveInto(a, g, t)
    BY <1>3, <2>1 DEF PushCell
  <2>3. QED
    BY <1>3, <2>1, <2>2, Builds
<1>4. ASSUME NEW c \in Tags, NEW n \in 0..MaxLen, NEW t \in Slot, Construct(c, n, t)
      PROVE  Values!Step(Shown(D), Shown(E)')
  BY <1>3, <1>4 DEF Construct
<1>5. ASSUME NEW s \in Slot, NEW t \in Slot, Dup(s, t)
      PROVE  Values!Step(Shown(D), Shown(E)')
  BY <1>5, DupCopies
<1>6. ASSUME NEW s \in Slot, NEW t \in Slot, NEW i \in Index, DupField(s, i, t)
      PROVE  Values!Step(Shown(D), Shown(E)')
  <2>1. /\ Idle /\ Owned(s) /\ i \in 1..heap[ref[s]].len /\ Share(<<ref[s], i>>, t)
        /\ todo' = IF FALSE THEN <<s>> ELSE <<>>
    BY <1>6 DEF DupField, Tagged, Idle
  <2>2. QED
    BY <2>1, Projects
<1>7. ASSUME NEW s \in Slot, NEW t \in Slot, NEW i \in Index, ArrayGet(s, i, t)
      PROVE  Values!Step(Shown(D), Shown(E)')
  <2>1. /\ Idle /\ Owned(s) /\ i \in 1..heap[ref[s]].len /\ Share(<<ref[s], i>>, t)
        /\ todo' = IF TRUE THEN <<s>> ELSE <<>>
    BY <1>7 DEF ArrayGet, Tagged, InRange
  <2>2. QED
    BY <2>1, Projects
<1>8. ASSUME NEW s \in Slot, Drop(s) PROVE Values!Step(Shown(D), Shown(E)')
  <2>1. Dropped = {} /\ Dropped' = {s}
    BY <1>8, NoDrops DEF Drop, Idle
  <2>2. QED
    BY <1>2, <1>8, <2>1 DEF Drop
<1>9. ASSUME NEW x \in Slot, NEW y \in Slot, DropCompared(x, y)
      PROVE  Values!Step(Shown(D), Shown(E)')
  <2>1. Dropped = {}
    BY <1>9, NoDrops DEF DropCompared, Idle
  <2>2. Dropped' = {x, y}
    <3>1. todo' = <<x, y>>
      BY <1>9 DEF DropCompared
    <3>2. Len(todo') = 2 /\ todo'[1] = x /\ todo'[2] = y /\ 1..2 = {1, 2}
      BY <3>1
    <3>3. Dropped' = {todo'[i] : i \in {1, 2}}
      BY <3>2 DEF Dropped
    <3>4. QED
      BY <3>2, <3>3
  <2>3. QED
    BY <1>2, <1>9, <2>1, <2>2 DEF DropCompared
<1>10. ASSUME Return PROVE Values!Step(Shown(D), Shown(E)')
  <2>1. PICK s \in Slot : todo' = <<s>>
    <3>1. frames \in Seq(Slot) /\ frames # <<>> /\ todo' = <<frames[Len(frames)]>>
      BY <1>0, <1>10 DEF Return, TypeOK
    <3>2. frames[Len(frames)] \in Slot
      BY <3>1
    <3>3. QED
      BY <3>1, <3>2
  <2>2. Dropped = {} /\ Dropped' = {s}
    BY <1>10, <2>1, NoDrops DEF Return, Idle
  <2>3. QED
    BY <1>2, <1>10, <2>2 DEF Return
<1>11. ASSUME Fail \/ UNCHANGED vars PROVE Values!Step(Shown(D), Shown(E)')
  <2>1. heap' = heap /\ ref' = ref /\ Dropped' = Dropped
    BY <1>11 DEF Fail, vars, Dropped
  <2>2. \A s \in Slot \ {} : s \in Dropped' <=> s \in Dropped
    BY <2>1
  <2>3. {} \in SUBSET Slot /\ {} \subseteq Dropped'
    OBVIOUS
  <2>4. QED
    BY <1>2, <2>1, <2>2, <2>3
<1>12. ASSUME ReleaseSlot PROVE Values!Step(Shown(D), Shown(E)')
  <2>1. PICK h \in Slot : h = Head(todo)
    BY <1>0, <1>12 DEF ReleaseSlot, TypeOK
  <2>2. /\ todo \in Seq(Slot) /\ todo # <<>> /\ todo' = Tail(todo)
        /\ ref' = [ref EXCEPT ![h] = Nil] /\ DropCell(ref[Head(todo)], <<>>)
    BY <1>0, <1>12, <2>1 DEF ReleaseSlot, TypeOK
  <2>3. Keeps(0)
    BY <1>0, <2>2, DropKeeps
  <2>4. ref \in [Place -> Value] /\ h \in Place
    BY <1>0 DEF TypeOK, Place
  <2>5. FieldsKept(0)
    BY <2>2, <2>4, FieldPlace DEF FieldsKept, Fld
  <2>6. \A s \in Slot \ {h} : s \in Dropped' <=> s \in Dropped
    <3>1. \A i \in 1..Len(todo) : i # 1 => i - 1 \in 1..Len(todo') /\ todo'[i - 1] = todo[i]
      BY <2>2
    <3>2. \A i \in 1..Len(todo') : i + 1 \in 1..Len(todo) /\ todo'[i] = todo[i + 1]
      BY <2>2
    <3>3. todo[1] = h
      BY <2>1, <2>2
    <3>4. \A s \in Slot \ {h} : s \in Dropped => s \in Dropped'
      BY <3>1, <3>3 DEF Dropped
    <3>5. \A s \in Slot \ {h} : s \in Dropped' => s \in Dropped
      BY <3>2 DEF Dropped
    <3>6. QED
      BY <3>4, <3>5
  <2>7. /\ \A s \in {h} : ref'[s] = Nil \/ s \in Dropped'
        /\ \A s \in Slot \ {h} : ref'[s] = ref[s] /\ (s \in Dropped' <=> s \in Dropped)
    BY <2>2, <2>4, <2>6 DEF Place
  <2>8. {h} \in SUBSET Slot
    OBVIOUS
  <2>9. QED
    BY <2>3, <2>5, <2>7, <2>8, Discards
<1>13. ASSUME Keeps(0), FieldsKept(0), todo' = todo, \A s \in Slot : ref'[s] = ref[s]
       PROVE  Values!Step(Shown(D), Shown(E)')
  <2>1. Dropped' = Dropped
    BY <1>13 DEF Dropped
  <2>2. \A s \in Slot \ {} : ref'[s] = ref[s] /\ (s \in Dropped' <=> s \in Dropped)
    BY <1>13, <2>1
  <2>3. {} \in SUBSET Slot /\ \A s \in {} : ref'[s] = Nil \/ s \in Dropped'
    OBVIOUS
  <2>4. QED
    BY <1>13, <2>2, <2>3, Discards
<1>14. ASSUME ReleaseField PROVE Values!Step(Shown(D), Shown(E)')
  <2>1. PICK h \in Addr : h = Head(work) /\ ~Live(h)
    <3>1. work \in Seq(Addr) /\ work # <<>>
      BY <1>0, <1>14 DEF ReleaseField, TypeOK
    <3>2. Head(work) = work[1] /\ Head(work) \in Addr /\ 1 \in 1..Len(work)
      BY <3>1
    <3>3. QED
      BY <1>0, <3>2 DEF Tidy
  <2>2. PICK i \in Unreleased(Head(work)) :
            /\ ref' = [ref EXCEPT ![<<h, i>>] = Nil]
            /\ DropCell(Fld(Head(work), i), work)
    BY <1>14, <2>1 DEF ReleaseField
  <2>3. Keeps(0)
    BY <1>0, <2>2, DropKeeps
  <2>4. i \in Index
    <3>1. heap[h].len \in 0..MaxLen
      BY <1>0, <2>1 DEF TypeOK, Cell
    <3>2. QED
      BY <2>1, <3>1, BoundsAssumption DEF Unreleased, Index
  <2>5. ref \in [Place -> Value] /\ \A s \in Slot : s \in Place /\ s # <<h, i>>
    BY <1>0, <2>4, FieldPlace DEF TypeOK, Place
  <2>6. \A s \in Slot : ref'[s] = ref[s]
    BY <2>2, <2>5
  <2>7. FieldsKept(0)
    <3>1. \A a \in Addr, j \in Index : Live(a)' /\ a # 0 => a # h
      BY <2>1, <2>3 DEF Keeps
    <3>2. \A a \in Addr, j \in Index : a # h => Fld(a, j)' = Fld(a, j)
      BY <2>2, <2>5, FieldPlace DEF Fld
    <3>3. QED
      BY <3>1, <3>2 DEF FieldsKept
  <2>8. QED
    BY <1>13, <1>14, <2>3, <2>6, <2>7 DEF ReleaseField
<1>15. ASSUME FinishCell PROVE Values!Step(Shown(D), Shown(E)')
  <2>1. PICK h \in Addr : h = Head(work) /\ ~Live(h)
    <3>1. work \in Seq(Addr) /\ work # <<>>
      BY <1>0, <1>15 DEF FinishCell, TypeOK
    <3>2. Head(work) = work[1] /\ Head(work) \in Addr /\ 1 \in 1..Len(work)
      BY <3>1
    <3>3. QED
      BY <1>0, <3>2 DEF Tidy
  <2>2. heap' = heap /\ todo' = todo
        /\ ref' = [p \in Place |-> IF p \notin Slot /\ p[1] = h THEN Nil ELSE ref[p]]
    BY <1>15, <2>1 DEF FinishCell
  <2>3. Keeps(0)
    BY <2>2 DEF Keeps, Live
  <2>4. FieldsKept(0)
    BY <2>1, <2>2, FieldPlace DEF FieldsKept, Fld, Live
  <2>5. QED
    BY <1>13, <2>2, <2>3, <2>4 DEF Place
<1>16. ASSUME NEW s \in Slot, NEW k \in Token, DropReuse(s, k)
       PROVE  Values!Step(Shown(D), Shown(E)')
  <2>1. ref' = [ref EXCEPT ![s] = Nil] /\ todo' = todo /\ ref \in [Place -> Value]
    BY <1>0, <1>16 DEF DropReuse, TypeOK
  <2>2. Keeps(0)
    BY <1>0, <1>16, DropReuseKeeps
  <2>3. FieldsKept(0)
    BY <2>1, FieldPlace DEF FieldsKept, Fld
  <2>4. Dropped' = Dropped
    BY <2>1 DEF Dropped
  <2>5. /\ \A x \in {s} : ref'[x] = Nil \/ x \in Dropped'
        /\ \A x \in Slot \ {s} : ref'[x] = ref[x] /\ (x \in Dropped' <=> x \in Dropped)
    BY <2>1, <2>4 DEF Place
  <2>6. {s} \in SUBSET Slot
    OBVIOUS
  <2>7. QED
    BY <2>2, <2>3, <2>5, <2>6, Discards
<1>17. ASSUME NEW k \in Token, NEW c \in Ctors, NEW t \in Slot, CtorReuse(k, c, t)
       PROVE  Values!Step(Shown(D), Shown(E)')
  <2>1. Idle /\ todo' = todo /\ c \in Tags
    BY <1>17 DEF CtorReuse, Tags, DataTags
  <2>2. PICK n \in 0..MaxLen : n = Arity[c]
    BY KindsAssumption DEF DataTags
  <2>3. PICK g \in Operands(n) :
            /\ Landing(g, t)
            /\ IF tok[k] = Spent THEN PushCell(c, n, g, t)
               ELSE /\ heap' = [heap EXCEPT ![tok[k]] = Fresh(c, n)]
                    /\ ref' = MoveInto(tok[k], g, t)
    BY <1>17, <2>2 DEF CtorReuse
  <2>4. CASE tok[k] = Spent
    BY <1>3, <2>1, <2>3, <2>4
  <2>5. CASE tok[k] # Spent
    <3>1. PICK a \in Addr : a = tok[k] /\ ~Live(a)
      <4>1. tok \in [Token -> Addr \cup {Nil, Spent}] /\ tok[k] # Nil
        BY <1>0, <1>17 DEF CtorReuse, TypeOK
      <4>2. tok[k] \in Addr
        BY <2>5, <4>1
      <4>3. heap[tok[k]].st = "token"
        BY <4>2 DEF Good, IInv, TokensMatch
      <4>4. QED
        BY <4>2, <4>3 DEF Live
    <3>2. heap' = [heap EXCEPT ![a] = Fresh(c, n)] /\ ref' = MoveInto(a, g, t)
      BY <2>3, <2>5, <3>1
    <3>3. QED
      BY <2>1, <2>3, <3>1, <3>2, Builds
  <2>6. QED
    BY <2>4, <2>5
<1>18. ASSUME NEW s \in Slot, Apply(s) PROVE Values!Step(Shown(D), Shown(E)')
  BY <1>18, ApplyProjects
<1>19. ASSUME NEW s \in Slot, NEW t \in Slot, NEW i \in Index, NEW x \in Slot \cup Scalar,
              ArraySet(s, i, x, t)
       PROVE  Values!Step(Shown(D), Shown(E)')
  BY <1>19, SetUpdates
<1>20. ASSUME NEW s \in Slot, NEW t \in Slot, NEW x \in Slot \cup Scalar, ArrayPush(s, x, t)
       PROVE  Values!Step(Shown(D), Shown(E)')
  BY <1>20, PushUpdates
<1>21. QED
  BY <1>4, <1>5, <1>6, <1>7, <1>8, <1>9, <1>10, <1>11, <1>12, <1>14, <1>15, <1>16, <1>17,
     <1>18, <1>19, <1>20 DEF Next

\* Nothing is denoted before the first step.
LEMMA InitSimulates == Init => Values!Init
<1> SUFFICES ASSUME Init PROVE Values!Init
  OBVIOUS
<1>1. \A s \in Slot : ref[s] = Nil
  BY DEF Init, Place
<1>2. Shown(Trees[MaxCells]) = [s \in Slot |-> Nothing]
  BY <1>1 DEF Shown
<1>3. QED
  BY <1>2, DenotedIs DEF Values!Init, Values!Nothing, Values!Tree, Nothing

\* In-place overwriting is unobservable (array_set, array_push, drop_for_reuse and
\* CtorReuse): under the values that the slots denote, every step of the heap is a
\* step of a store of immutable values or none at all.
THEOREM SlotsAreValues == Spec => ImplementsValues
<1> DEFINE Sound == IInv /\ NoMemoryError /\ Acyclic /\ Tidy /\ Represented
<1>1. Init => Values!Init
  BY InitSimulates
<1>2. IInv /\ Acyclic => NoMemoryError /\ Represented
  BY Safe, Represents DEF IInv
<1>3. Spec => []Sound
  <2>1. Init => Tidy
    BY InitTidy
  <2>2. IInv /\ Tidy /\ [Next]_vars => Tidy'
    BY NextTidy
  <2>3. QED
    BY <1>2, <2>1, <2>2, Invariance, NoCircle, PTL DEF Spec
<1>4. Sound /\ Sound' /\ [Next]_vars => [Values!Next]_Denoted
  <2> SUFFICES ASSUME Sound, Sound', [Next]_vars PROVE Values!Next
    OBVIOUS
  <2>1. PICK D : D = Unfold(D) /\ Denoted = Shown(D)
    BY DEF Represented
  <2>2. PICK E : E = Unfold(E)' /\ Denoted' = Shown(E)'
    BY DEF Represented
  <2>3. Good(D) /\ Good(E)'
    BY <2>1, <2>2 DEF Good
  <2>4. Values!Step(Denoted, Denoted')
    BY <2>1, <2>2, <2>3, StepSimulates
  <2>5. QED
    BY <2>4 DEF Values!Next
<1>5. QED
  BY <1>1, <1>3, <1>4, PTL DEF Spec, ImplementsValues, Values!Spec
=============================================================================
