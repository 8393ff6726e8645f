---------------------------- MODULE AriaHeapProofs ----------------------------
(***************************************************************************)
(* Proofs about AriaHeap: for every number of slots, tokens, cells and     *)
(* fields, counts are exact, no cell is used after it was freed, tokens    *)
(* are exclusive and the reported metrics are right.                       *)
(***************************************************************************)
EXTENDS AriaHeap, FiniteSetTheorems, TLAPS

-----------------------------------------------------------------------------
(* Counting                                                                *)

\* There are finitely many places, so the holders of a cell can be counted.
LEMMA PlaceFinite == IsFiniteSet(Place)
<1>1. IsFiniteSet(Addr) /\ IsFiniteSet(Index)
  BY FS_Interval, BoundsAssumption DEF Addr, Index
<1>2. IsFiniteSet(Addr \X Index)
  BY <1>1, FS_Product
<1>3. QED
  BY <1>2, BoundsAssumption, FS_Union DEF Place

\* Before and after a step, the count of a cell is a natural number.
LEMMA HoldersFinite ==
  ASSUME NEW a
  PROVE  /\ IsFiniteSet(Holders(a)) /\ Cardinality(Holders(a)) \in Nat
         /\ IsFiniteSet(Holders(a)') /\ Cardinality(Holders(a)') \in Nat
<1>1. Holders(a) \in SUBSET Place /\ Holders(a)' \in SUBSET Place
  BY DEF Holders
<1>2. IsFiniteSet(Holders(a)) /\ IsFiniteSet(Holders(a)')
  BY <1>1, PlaceFinite, FS_Subset
<1>3. QED
  BY <1>2, FS_CardinalityType

\* Sets in one-to-one correspondence have as many elements.
LEMMA ImageCard ==
  ASSUME NEW J, NEW I, NEW f \in [J -> I], IsFiniteSet(J),
         \A i, j \in J : f[i] = f[j] => i = j,
         \A x \in I : \E j \in J : f[j] = x
  PROVE  IsFiniteSet(I) /\ Cardinality(I) = Cardinality(J)
<1>1. f \in Bijection(J, I)
  BY DEF Bijection, Injection, Surjection, IsInjective
<1>2. ExistsBijection(J, I)
  BY <1>1 DEF ExistsBijection
<1>3. QED
  BY <1>2, FS_Bijection

\* R leaves the set S and Q, which is new, enters it.
LEMMA Exchange ==
  ASSUME NEW S, IsFiniteSet(S), NEW R \in SUBSET S,
         NEW Q, IsFiniteSet(Q), Q \cap S = {}
  PROVE  Cardinality((S \ R) \cup Q)
            = Cardinality(S) - Cardinality(R) + Cardinality(Q)
<1>1. /\ IsFiniteSet(S \ R)
      /\ Cardinality(S \ R) = Cardinality(S) - Cardinality(S \cap R)
  BY FS_Difference
<1>2. S \cap R = R /\ (S \ R) \cap Q = {}
  OBVIOUS
<1>3. Cardinality((S \ R) \cup Q)
         = Cardinality(S \ R) + Cardinality(Q) - Cardinality((S \ R) \cap Q)
  BY <1>1, FS_Union
<1>4. /\ Cardinality(S) \in Nat /\ Cardinality(Q) \in Nat
      /\ Cardinality(S \ R) \in Nat /\ Cardinality({}) = 0
  BY <1>1, FS_CardinalityType, FS_EmptySet
<1>5. IsFiniteSet(R) /\ Cardinality(R) \in Nat
  BY FS_Subset, FS_CardinalityType
<1>6. /\ Cardinality(S \ R) = Cardinality(S) - Cardinality(R)
      /\ Cardinality((S \ R) \cup Q) = Cardinality(S \ R) + Cardinality(Q) - 0
  BY <1>1, <1>2, <1>3, <1>4
<1>7. QED
  BY <1>4, <1>5, <1>6

\* A place that held no cell now holds a.
LEMMA GainOne ==
  ASSUME NEW p \in Place, NEW a \in Addr, ref \in [Place -> Value],
         ref[p] \notin Addr, ref' = [ref EXCEPT ![p] = a]
  PROVE  /\ Cardinality(Holders(a)') = Cardinality(Holders(a)) + 1
         /\ \A c \in Addr \ {a} : Holders(c)' = Holders(c)
<1>1. Holders(a)' = Holders(a) \cup {p} /\ p \notin Holders(a)
  BY DEF Holders
<1>2. \A c \in Addr \ {a} : Holders(c)' = Holders(c)
  BY DEF Holders
<1>3. QED
  BY <1>1, <1>2, HoldersFinite, FS_AddElement

\* A place that held a now holds nothing.
LEMMA LoseOne ==
  ASSUME NEW p \in Place, NEW a \in Addr, ref \in [Place -> Value],
         ref[p] = a, ref' = [ref EXCEPT ![p] = Nil]
  PROVE  /\ Cardinality(Holders(a)') = Cardinality(Holders(a)) - 1
         /\ \A c \in Addr \ {a} : Holders(c)' = Holders(c)
<1>1. Holders(a)' = Holders(a) \ {p} /\ p \in Holders(a)
  BY KindsAssumption DEF Holders
<1>2. \A c \in Addr \ {a} : Holders(c)' = Holders(c)
  BY KindsAssumption DEF Holders
<1>3. QED
  BY ZenonT(60), <1>1, <1>2, HoldersFinite, FS_RemoveElement

-----------------------------------------------------------------------------
(* The inductive invariant                                                 *)

\* Only cells in use, or being released, have fields that hold something.
Releasing(a) == \E j \in 1..Len(work) : work[j] = a
Linked ==
    \A a \in Addr, i \in Index : Fld(a, i) # Nil =>
        i <= heap[a].len /\ (Live(a) \/ Releasing(a))

\* A slot that waits to be dropped, or that is being applied, holds a cell and
\* does so once.
InFlight ==
    /\ \A i \in 1..Len(todo) : ref[todo[i]] \in Addr
    /\ \A i \in 1..Len(frames) : ref[frames[i]] \in Addr
    /\ \A i, j \in 1..Len(todo) : i # j => todo[i] # todo[j]
    /\ \A i, j \in 1..Len(frames) : i # j => frames[i] # frames[j]
    /\ \A i \in 1..Len(todo), j \in 1..Len(frames) : todo[i] # frames[j]

\* Tokens and the cells kept for reuse correspond to each other.
TokensMatch ==
    /\ \A k \in Token : tok[k] \in Addr => heap[tok[k]].st = "token"
    /\ \A k, l \in Token : k # l /\ tok[k] \in Addr => tok[l] # tok[k]
    /\ \A a \in Addr : heap[a].st = "token" => \E k \in Token : tok[k] = a

\* Cells are allocated in the order of their addresses.
Pushed == \A a \in Addr : heap[a].st = "absent" <=> a > top

\* Every cell in use or kept for reuse is counted as live.
InUse == {a \in Addr : heap[a].st \in {"live", "token"}}
Gone == {a \in Addr : heap[a].st = "freed"}
CountsMatch ==
    metrics.live = Cardinality(InUse) /\ metrics.frees = Cardinality(Gone)

IInv ==
    /\ TypeOK /\ RcExact /\ status # "double free"
    /\ Linked /\ InFlight /\ TokensMatch /\ Pushed /\ CountsMatch

\* A place that refers to a cell refers to a cell in use.
LEMMA HeldIsLive ==
  ASSUME TypeOK, RcExact, NEW p \in Place, ref[p] \in Addr
  PROVE  /\ Live(ref[p])
         /\ heap[ref[p]].rc \in Nat /\ heap[ref[p]].rc > 0
<1>1. Holders(ref[p]) # {}
  BY DEF Holders
<1>2. Cardinality(Holders(ref[p])) # 0
  BY <1>1, HoldersFinite, FS_EmptySet
<1>3. heap[ref[p]].rc = Cardinality(Holders(ref[p]))
  BY DEF RcExact
<1>4. heap[ref[p]].rc \in Nat /\ heap[ref[p]].rc > 0
  BY <1>2, <1>3, HoldersFinite
<1>5. QED
  BY <1>4 DEF RcExact, Live

\* Nothing refers to a cell that is not in use.
LEMMA UnusedIsUnheld ==
  ASSUME TypeOK, RcExact, NEW a \in Addr, ~Live(a)
  PROVE  heap[a].rc = 0 /\ Holders(a) = {}
<1>1. heap[a].rc = 0
  <2>1. heap[a].rc \in Nat
    BY DEF TypeOK, Cell
  <2>2. ~(heap[a].rc > 0)
    BY DEF RcExact, Live
  <2>3. QED
    BY <2>1, <2>2
<1>2. Cardinality(Holders(a)) = 0
  BY <1>1 DEF RcExact
<1>3. QED
  BY <1>1, <1>2, HoldersFinite, FS_EmptySet

\* There are finitely many cells.
LEMMA CellsFinite ==
  /\ IsFiniteSet(InUse) /\ Cardinality(InUse) \in Nat
  /\ IsFiniteSet(Gone) /\ Cardinality(Gone) \in Nat
  /\ IsFiniteSet(InUse') /\ Cardinality(InUse') \in Nat
  /\ IsFiniteSet(Gone') /\ Cardinality(Gone') \in Nat
<1>1. IsFiniteSet(Addr)
  BY FS_Interval, BoundsAssumption DEF Addr
<1>2. /\ InUse \in SUBSET Addr /\ Gone \in SUBSET Addr
      /\ InUse' \in SUBSET Addr /\ Gone' \in SUBSET Addr
  BY DEF InUse, Gone
<1>3. QED
  BY <1>1, <1>2, FS_Subset, FS_CardinalityType

\* Nothing is in use before the first step.
LEMMA InitIInv == Init => IInv
<1> SUFFICES ASSUME Init PROVE IInv
  OBVIOUS
<1> USE DEF Init
<1>1. TypeOK
  <2>1. Absent \in Cell
    BY BoundsAssumption DEF Absent, Cell, States
  <2>2. heap \in [Addr -> Cell] /\ ref \in [Place -> Value]
    BY <2>1 DEF Value
  <2>3. \A s \in Slot : ref[s] \in Addr \cup {Nil}
    BY DEF Place
  <2>4. /\ top \in 0..MaxCells /\ tok \in [Token -> Addr \cup {Nil, Spent}]
        /\ metrics \in [frees : Nat, live : Nat]
    BY BoundsAssumption
  <2>5. work \in Seq(Addr) /\ todo \in Seq(Slot) /\ frames \in Seq(Slot)
    OBVIOUS
  <2>6. QED
    BY <2>2, <2>3, <2>4, <2>5 DEF TypeOK
<1>2. \A a \in Addr : Holders(a) = {}
  BY KindsAssumption DEF Holders
<1>3. RcExact
  <2>1. \A a \in Addr : heap[a].rc = 0 /\ heap[a].st # "live"
    BY DEF Absent
  <2>2. \A a \in Addr : Cardinality(Holders(a)) = 0
    BY <1>2, FS_EmptySet
  <2>3. QED
    BY <2>1, <2>2 DEF RcExact
<1>4. Linked
  BY DEF Linked, Fld, Place
<1>5. InFlight /\ Pushed
  BY BoundsAssumption DEF InFlight, Pushed, Absent, Addr
<1>6. TokensMatch
  BY KindsAssumption DEF TokensMatch, Absent
<1>7. InUse = {} /\ Gone = {}
  BY DEF InUse, Gone, Absent
<1>8. CountsMatch
  BY <1>7, FS_EmptySet DEF CountsMatch
<1>9. QED
  BY <1>1, <1>3, <1>4, <1>5, <1>6, <1>8 DEF IInv

\* The elements of the three sequences.
LEMMA Elements ==
  ASSUME TypeOK
  PROVE  /\ \A i \in 1..Len(todo) : todo[i] \in Slot
         /\ \A i \in 1..Len(frames) : frames[i] \in Slot
         /\ \A i \in 1..Len(work) : work[i] \in Addr
<1>1. todo \in Seq(Slot) /\ frames \in Seq(Slot) /\ work \in Seq(Addr)
  BY DEF TypeOK
<1>2. ASSUME NEW T, NEW q \in Seq(T) PROVE \A i \in 1..Len(q) : q[i] \in T
  OBVIOUS
<1>3. QED
  BY <1>1, <1>2

\* A step that leaves the slots and the pending operands alone.
LEMMA FlightKept ==
  ASSUME TypeOK, InFlight, UNCHANGED <<todo, frames>>, \A s \in Slot : ref'[s] = ref[s]
  PROVE  InFlight'
<1>1. /\ \A i \in 1..Len(todo) : todo[i] \in Slot
      /\ \A i \in 1..Len(frames) : frames[i] \in Slot
  BY Elements
<1>2. \A i \in 1..Len(todo) : ref'[todo[i]] \in Addr
  BY <1>1 DEF InFlight
<1>3. \A i \in 1..Len(frames) : ref'[frames[i]] \in Addr
  BY <1>1 DEF InFlight
<1>4. /\ \A i, j \in 1..Len(todo) : i # j => todo[i] # todo[j]
      /\ \A i, j \in 1..Len(frames) : i # j => frames[i] # frames[j]
      /\ \A i \in 1..Len(todo), j \in 1..Len(frames) : todo[i] # frames[j]
  BY DEF InFlight
<1>5. todo' = todo /\ frames' = frames
  OBVIOUS
<1>6. QED
  BY <1>2, <1>3, <1>4, <1>5 DEF InFlight

-----------------------------------------------------------------------------
(* Steps that leave the states of the cells alone                          *)

\* What depends on the states of the cells alone is kept with them.
LEMMA StatesKept ==
  ASSUME TokensMatch, Pushed, CountsMatch,
         \A a \in Addr : heap'[a].st = heap[a].st,
         UNCHANGED <<top, tok, metrics>>
  PROVE  TokensMatch' /\ Pushed' /\ CountsMatch'
<1>1. TokensMatch'
  BY DEF TokensMatch
<1>2. Pushed'
  BY DEF Pushed
<1>3. InUse' = InUse /\ Gone' = Gone
  BY DEF InUse, Gone
<1>4. QED
  BY <1>1, <1>2, <1>3 DEF CountsMatch

\* Fields that held something stay where they are, in cells that are still in
\* use or have begun to be released.
LEMMA StillLinked ==
  ASSUME Linked,
         \A a \in Addr, i \in Index :
            ref'[<<a, i>>] = ref[<<a, i>>] \/ ref'[<<a, i>>] = Nil,
         \A a \in Addr : heap'[a].len = heap[a].len,
         \A a \in Addr : heap'[a].st = heap[a].st \/ Releasing(a)',
         \A a \in Addr : Releasing(a) => Releasing(a)'
  PROVE  Linked'
<1> SUFFICES ASSUME NEW a \in Addr, NEW i \in Index, ref'[<<a, i>>] # Nil
             PROVE  i <= heap'[a].len /\ (heap'[a].st = "live" \/ Releasing(a)')
  BY DEF Linked, Fld, Live
<1>1. i <= heap[a].len /\ (heap[a].st = "live" \/ Releasing(a))
  BY DEF Linked, Fld, Live
<1>2. QED
  BY <1>1

\* dup: the count follows the new reference.
LEMMA ShareStep ==
  ASSUME TypeOK, RcExact, NEW p \in Place, NEW t \in Slot, Share(p, t)
  PROVE  /\ RcExact'
         /\ heap' \in [Addr -> Cell]
         /\ ref' = [ref EXCEPT ![t] = ref[p]]
         /\ ref' \in [Place -> Value]
         /\ ref[p] \in Addr
         /\ \A a \in Addr : heap'[a].st = heap[a].st /\ heap'[a].len = heap[a].len
<1>0. PICK a \in Addr : a = ref[p]
  BY DEF Share, Live
<1>1. Live(a) /\ t \in Place /\ ref[t] \notin Addr
  BY <1>0, KindsAssumption DEF Share, Place
<1>2. ref' = [ref EXCEPT ![t] = a] /\ heap' = [heap EXCEPT ![a].rc = @ + 1]
  BY <1>0 DEF Share
<1>3. /\ Cardinality(Holders(a)') = Cardinality(Holders(a)) + 1
      /\ \A c \in Addr \ {a} : Holders(c)' = Holders(c)
  BY <1>1, <1>2, GainOne DEF TypeOK
<1>4. heap' \in [Addr -> Cell]
  <2>1. heap \in [Addr -> Cell] /\ heap[a] \in Cell
    BY <1>1 DEF TypeOK
  <2>2. [heap[a] EXCEPT !.rc = @ + 1] \in Cell
    BY <2>1 DEF Cell
  <2>3. QED
    BY <1>1, <1>2, <2>1, <2>2
<1>5. ref' \in [Place -> Value]
  BY <1>1, <1>2 DEF TypeOK, Value
<1>6. \A c \in Addr : heap'[c].st = heap[c].st /\ heap'[c].len = heap[c].len
  BY <1>1, <1>2 DEF TypeOK, Cell
<1>7. RcExact'
  <2> SUFFICES ASSUME NEW c \in Addr
               PROVE  /\ heap'[c].rc = Cardinality(Holders(c)')
                      /\ heap'[c].st = "live" <=> heap'[c].rc > 0
    BY DEF RcExact
  <2>1. CASE c = a
    <3>1. heap[a].rc \in Nat /\ heap'[a].rc = heap[a].rc + 1 /\ heap'[a].st = "live"
      BY <1>1, <1>2 DEF TypeOK, Cell, Live
    <3>2. heap[a].rc = Cardinality(Holders(a))
      BY <1>1 DEF RcExact
    <3>3. heap'[a].rc = Cardinality(Holders(a)') /\ heap'[a].rc > 0
      BY <3>1, <3>2, <1>3
    <3>4. QED
      BY <2>1, <3>1, <3>3
  <2>2. CASE c # a
    <3>1. heap'[c] = heap[c]
      BY <2>2, <1>1, <1>2 DEF TypeOK
    <3>2. QED
      BY <2>2, <3>1, <1>3 DEF RcExact
  <2>3. QED
    BY <2>1, <2>2
<1>8. QED
  BY <1>0, <1>2, <1>4, <1>5, <1>6, <1>7

\* What else a dup preserves, when it leaves the other variables alone.
LEMMA SharePreserves ==
  ASSUME IInv, NEW p \in Place, NEW t \in Slot, Share(p, t),
         UNCHANGED <<top, tok, work, frames, metrics, status>>,
         \/ todo' = todo
         \/ \E s \in Slot : Owned(s) /\ s # t /\ todo' = <<s>>
  PROVE  IInv'
<1>0. /\ TypeOK /\ RcExact /\ status # "double free"
      /\ Linked /\ InFlight /\ TokensMatch /\ Pushed /\ CountsMatch
  BY DEF IInv
<1>1. /\ RcExact'
      /\ heap' \in [Addr -> Cell]
      /\ ref' = [ref EXCEPT ![t] = ref[p]]
      /\ ref' \in [Place -> Value]
      /\ ref[p] \in Addr
      /\ \A a \in Addr : heap'[a].st = heap[a].st /\ heap'[a].len = heap[a].len
  BY <1>0, ShareStep
<1>2. ref[t] = Nil
  BY DEF Share
<1>3. TokensMatch' /\ Pushed' /\ CountsMatch'
  BY <1>0, <1>1, StatesKept
<1>4. TypeOK'
  <2>1. \A s \in Slot : ref'[s] \in Addr \cup {Nil}
    BY <1>0, <1>1 DEF TypeOK, Place
  <2>2. todo' \in Seq(Slot)
    <3>1. todo \in Seq(Slot)
      BY <1>0 DEF TypeOK
    <3>2. \A s \in Slot : <<s>> \in Seq(Slot)
      OBVIOUS
    <3>3. QED
      BY <3>1, <3>2
  <2>3. QED
    BY <1>0, <1>1, <2>1, <2>2 DEF TypeOK
<1>5. Linked'
  <2>1. \A a \in Addr, i \in Index : <<a, i>> \in Place /\ <<a, i>> # t
    BY KindsAssumption DEF Place
  <2>2. \A a \in Addr, i \in Index : ref'[<<a, i>>] = ref[<<a, i>>]
    BY <1>0, <1>1, <2>1 DEF TypeOK
  <2>3. QED
    BY <1>0, <1>1, <2>2, StillLinked DEF Releasing
<1>6. InFlight'
  <2>1. \A s \in Slot : ref[s] \in Addr => s # t /\ ref'[s] = ref[s]
    BY <1>0, <1>1, <1>2, KindsAssumption DEF TypeOK, Place
  <2>2. /\ \A i \in 1..Len(todo) : todo[i] \in Slot
        /\ \A i \in 1..Len(frames) : frames[i] \in Slot
    BY <1>0, Elements
  <2>3. CASE todo' = todo
    BY ZenonT(60), <2>1, <2>2, <2>3, <1>0 DEF InFlight
  <2>4. ASSUME NEW s \in Slot, Owned(s), s # t, todo' = <<s>>
        PROVE  InFlight'
    <3>1. ref[s] \in Addr /\ \A i \in 1..Len(frames) : frames[i] # s
      BY <1>0, <2>4 DEF TypeOK, Owned, Applied
    <3>2. Len(todo') = 1 /\ todo'[1] = s
      BY <2>4
    <3>3. /\ \A i \in 1..Len(frames) : ref[frames[i]] \in Addr
          /\ \A i, j \in 1..Len(frames) : i # j => frames[i] # frames[j]
      BY <1>0 DEF InFlight
    <3>4. ref'[s] \in Addr /\ \A i \in 1..Len(frames) : ref'[frames[i]] \in Addr
      BY <2>1, <2>2, <3>1, <3>3
    <3>5. QED
      BY <3>1, <3>2, <3>3, <3>4 DEF InFlight
  <2>5. QED
    BY <2>3, <2>4
<1>7. QED
  BY <1>0, <1>1, <1>3, <1>4, <1>5, <1>6 DEF IInv

\* Dup of an owned slot, and of a field of a matched or read cell.
LEMMA DupStep ==
  ASSUME IInv, NEW s \in Slot, NEW t \in Slot, Dup(s, t)
  PROVE  IInv'
<1>1. s \in Place /\ Share(s, t)
  BY DEF Dup, Place
<1>2. UNCHANGED <<top, tok, work, todo, frames, metrics, status>>
  BY DEF Dup
<1>3. QED
  BY <1>1, <1>2, SharePreserves

\* The dup of a field of a matched cell.
LEMMA DupFieldStep ==
  ASSUME IInv, NEW s \in Slot, NEW i \in Index, NEW t \in Slot, DupField(s, i, t)
  PROVE  IInv'
<1>1. PICK a \in Addr : a = ref[s]
  BY DEF DupField, Tagged, Live
<1>2. <<a, i>> \in Place /\ Share(<<a, i>>, t)
  BY <1>1 DEF DupField, Place
<1>3. UNCHANGED <<top, tok, work, todo, frames, metrics, status>>
  BY DEF DupField
<1>4. QED
  BY <1>2, <1>3, SharePreserves

\* array_get dups the element before its array is dropped.
LEMMA ArrayGetStep ==
  ASSUME IInv, NEW s \in Slot, NEW i \in Index, NEW t \in Slot, ArrayGet(s, i, t)
  PROVE  IInv'
<1>1. PICK a \in Addr : a = ref[s]
  BY DEF ArrayGet, Tagged, Live
<1>2. <<a, i>> \in Place /\ Share(<<a, i>>, t)
  BY <1>1 DEF ArrayGet, Place
<1>3. UNCHANGED <<top, tok, work, frames, metrics, status>> /\ todo' = <<s>>
  BY DEF ArrayGet
<1>4. Owned(s) /\ s # t
  BY DEF ArrayGet, Tagged, Owned, Share
<1>5. QED
  BY <1>2, <1>3, <1>4, SharePreserves

\* Steps that only say what is to be dropped or applied next.
LEMMA ControlStep ==
  ASSUME IInv, UNCHANGED <<heap, ref, top, tok, work, metrics>>, InFlight',
         todo' \in Seq(Slot), frames' \in Seq(Slot), status' \in {"running", "error"}
  PROVE  IInv'
<1>0. /\ TypeOK /\ RcExact /\ status # "double free"
      /\ Linked /\ InFlight /\ TokensMatch /\ Pushed /\ CountsMatch
  BY DEF IInv
<1>1. TypeOK'
  BY <1>0 DEF TypeOK
<1>2. RcExact' /\ Linked'
  BY <1>0 DEF RcExact, Holders, Linked, Fld, Live, Releasing
<1>3. TokensMatch' /\ Pushed' /\ CountsMatch'
  BY <1>0, StatesKept
<1>4. QED
  BY <1>1, <1>2, <1>3 DEF IInv

\* A dropped slot waits in todo.
LEMMA DropStep ==
  ASSUME IInv, NEW s \in Slot, Drop(s)
  PROVE  IInv'
<1>1. ref[s] \in Addr /\ \A i \in 1..Len(frames) : frames[i] # s
  BY DEF Drop, Owned, Applied, IInv, TypeOK
<1>2. UNCHANGED <<heap, ref, top, tok, work, frames, metrics, status>> /\ todo' = <<s>>
  BY DEF Drop
<1>3. Len(todo') = 1 /\ todo'[1] = s /\ todo' \in Seq(Slot)
  BY <1>2
<1>4. InFlight'
  <2>1. /\ \A i \in 1..Len(frames) : ref[frames[i]] \in Addr
        /\ \A i, j \in 1..Len(frames) : i # j => frames[i] # frames[j]
    BY DEF IInv, InFlight
  <2>2. QED
    BY <1>1, <1>2, <1>3, <2>1 DEF InFlight
<1>5. frames' \in Seq(Slot) /\ status' \in {"running", "error"}
  BY <1>2 DEF IInv, TypeOK
<1>6. QED
  BY <1>2, <1>3, <1>4, <1>5, ControlStep

\* The two operands of a comparison wait in todo.
LEMMA DropComparedStep ==
  ASSUME IInv, NEW x \in Slot, NEW y \in Slot, DropCompared(x, y)
  PROVE  IInv'
<1>1. /\ x # y /\ ref[x] \in Addr /\ ref[y] \in Addr
      /\ \A i \in 1..Len(frames) : frames[i] # x /\ frames[i] # y
  BY DEF DropCompared, Owned, Applied, IInv, TypeOK
<1>2. UNCHANGED <<heap, ref, top, tok, work, frames, metrics, status>> /\ todo' = <<x, y>>
  BY DEF DropCompared
<1>3. Len(todo') = 2 /\ todo'[1] = x /\ todo'[2] = y /\ todo' \in Seq(Slot)
  BY <1>2
<1>4. InFlight'
  <2>1. /\ \A i \in 1..Len(frames) : ref[frames[i]] \in Addr
        /\ \A i, j \in 1..Len(frames) : i # j => frames[i] # frames[j]
    BY DEF IInv, InFlight
  <2>2. QED
    BY <1>1, <1>2, <1>3, <2>1 DEF InFlight
<1>5. frames' \in Seq(Slot) /\ status' \in {"running", "error"}
  BY <1>2 DEF IInv, TypeOK
<1>6. QED
  BY <1>2, <1>3, <1>4, <1>5, ControlStep

\* The slot of the closure whose body returned waits in todo.
LEMMA ReturnStep ==
  ASSUME IInv, Return
  PROVE  IInv'
<1>1. /\ UNCHANGED <<heap, ref, top, tok, work, metrics, status>>
      /\ frames # <<>> /\ frames' = SubSeq(frames, 1, Len(frames) - 1)
      /\ todo' = <<frames[Len(frames)]>>
  BY DEF Return
<1>2. frames \in Seq(Slot) /\ status' \in {"running", "error"}
  BY <1>1 DEF IInv, TypeOK
<1>3. /\ frames' \in Seq(Slot) /\ Len(frames) \in Nat /\ Len(frames) > 0
      /\ Len(frames') = Len(frames) - 1
      /\ \A i \in 1..Len(frames') : frames'[i] = frames[i]
  BY <1>1, <1>2
<1>4. frames[Len(frames)] \in Slot
  BY <1>2, <1>3
<1>5. todo' \in Seq(Slot) /\ Len(todo') = 1 /\ todo'[1] = frames[Len(frames)]
  BY <1>1, <1>4
<1>6. InFlight'
  <2>1. /\ \A i \in 1..Len(frames) : ref[frames[i]] \in Addr
        /\ \A i, j \in 1..Len(frames) : i # j => frames[i] # frames[j]
    BY DEF IInv, InFlight
  <2>2. /\ Len(frames) \in 1..Len(frames) /\ ref' = ref
        /\ \A i \in 1..Len(frames') :
              i \in 1..Len(frames) /\ i # Len(frames) /\ frames'[i] = frames[i]
    BY <1>1, <1>3
  <2>3. /\ ref'[todo'[1]] \in Addr
        /\ \A i \in 1..Len(frames') : todo'[1] # frames'[i] /\ ref'[frames'[i]] \in Addr
        /\ \A i, j \in 1..Len(frames') : i # j => frames'[i] # frames'[j]
    BY <1>5, <2>1, <2>2
  <2>4. \A i \in 1..Len(todo') : i = 1
    BY <1>5
  <2>5. QED
    BY <2>3, <2>4 DEF InFlight
<1>7. QED
  BY <1>1, <1>2, <1>3, <1>5, <1>6, ControlStep

\* A reported error changes nothing but the status.
LEMMA FailStep ==
  ASSUME IInv, Fail
  PROVE  IInv'
<1>1. UNCHANGED <<heap, ref, top, tok, work, todo, frames, metrics>> /\ status' = "error"
  BY DEF Fail
<1>2. InFlight' /\ todo' \in Seq(Slot) /\ frames' \in Seq(Slot)
  BY <1>1 DEF IInv, InFlight, TypeOK
<1>3. QED
  BY <1>1, <1>2, ControlStep

-----------------------------------------------------------------------------
(* Steps of a release                                                      *)

\* The place p gives up its reference to a, and drop_cell runs on a.
LEMMA DropCellStep ==
  ASSUME IInv, NEW p \in Place, NEW a \in Addr, NEW rest \in Seq(Addr),
         ref[p] = a, ref' = [ref EXCEPT ![p] = Nil],
         DropCell(a, rest), UNCHANGED <<top, tok>>
  PROVE  /\ RcExact' /\ TokensMatch' /\ Pushed' /\ CountsMatch'
         /\ heap' \in [Addr -> Cell] /\ ref' \in [Place -> Value]
         /\ work' \in Seq(Addr) /\ metrics' \in [frees : Nat, live : Nat]
         /\ UNCHANGED status
         /\ \A c \in Addr : heap'[c].len = heap[c].len
         /\ \A c \in Addr : heap'[c].st = heap[c].st \/ Releasing(c)'
         /\ \A j \in 1..Len(rest) : Releasing(rest[j])'
<1>0. /\ TypeOK /\ RcExact /\ TokensMatch /\ Pushed /\ CountsMatch
  BY DEF IInv
<1>1. Live(a) /\ heap[a].rc \in Nat /\ heap[a].rc > 0
  BY <1>0, HeldIsLive
<1>2. heap \in [Addr -> Cell] /\ ref \in [Place -> Value] /\ heap[a] \in Cell
  BY <1>0 DEF TypeOK
<1>3. /\ Cardinality(Holders(a)') = Cardinality(Holders(a)) - 1
      /\ \A c \in Addr \ {a} : Holders(c)' = Holders(c)
  BY <1>2, LoseOne
<1>4. ref' \in [Place -> Value]
  BY <1>2 DEF Value
<1>5. heap[a].st = "live" /\ heap[a].rc = Cardinality(Holders(a))
  BY <1>0, <1>1 DEF RcExact, Live
<1>6. ASSUME heap'[a].rc = heap[a].rc - 1, heap'[a].st = "live" <=> heap'[a].rc > 0,
             \A c \in Addr \ {a} : heap'[c] = heap[c]
      PROVE  RcExact'
  <2> SUFFICES ASSUME NEW c \in Addr
               PROVE  /\ heap'[c].rc = Cardinality(Holders(c)')
                      /\ heap'[c].st = "live" <=> heap'[c].rc > 0
    BY DEF RcExact
  <2>1. CASE c = a
    BY <2>1, <1>3, <1>5, <1>6
  <2>2. CASE c # a
    <3>1. heap'[c] = heap[c] /\ Holders(c)' = Holders(c)
      BY <2>2, <1>3, <1>6
    <3>2. QED
      BY <3>1, <1>0 DEF RcExact
  <2>3. QED
    BY <2>1, <2>2
<1>7. CASE heap[a].rc = 1
  <2>1. /\ heap' = [heap EXCEPT ![a].rc = 0, ![a].st = "freed"]
        /\ work' = <<a>> \o rest /\ status' = status
        /\ metrics' = [frees |-> metrics.frees + 1, live |-> metrics.live - 1]
    BY <1>1, <1>7 DEF DropCell
  <2>2. /\ heap'[a].rc = 0 /\ heap'[a].st = "freed" /\ heap'[a].len = heap[a].len
        /\ heap'[a] \in Cell
    BY <1>2, <2>1 DEF Cell, States
  <2>3. /\ heap' \in [Addr -> Cell]
        /\ \A c \in Addr \ {a} : heap'[c] = heap[c]
    BY <1>2, <2>1, <2>2
  <2>4. RcExact'
    BY <1>6, <1>7, <2>2, <2>3
  <2>5. work' \in Seq(Addr) /\ Len(work') = Len(rest) + 1 /\ work'[1] = a
        /\ \A j \in 1..Len(rest) : work'[j + 1] = rest[j]
    BY <2>1
  <2>6. Releasing(a)' /\ \A j \in 1..Len(rest) : Releasing(rest[j])'
    <3>1. Len(rest) \in Nat /\ 1 \in 1..Len(work')
      BY <2>5
    <3>2. \A j \in 1..Len(rest) : j + 1 \in 1..Len(work')
      BY <2>5, <3>1
    <3>3. QED
      BY <2>5, <3>1, <3>2 DEF Releasing
  <2>7. TokensMatch'
    <3>1. \A c \in Addr : heap'[c].st = "token" <=> heap[c].st = "token"
      BY <1>5, <2>2, <2>3
    <3>2. QED
      BY <1>0, <3>1 DEF TokensMatch
  <2>8. Pushed'
    BY <1>0, <1>5, <2>2, <2>3 DEF Pushed
  <2>9. CountsMatch' /\ metrics' \in [frees : Nat, live : Nat]
    <3>1. InUse' = InUse \ {a} /\ a \in InUse
      BY <1>5, <2>2, <2>3 DEF InUse
    <3>2. Gone' = Gone \cup {a} /\ a \notin Gone
      BY <1>5, <2>2, <2>3 DEF Gone
    <3>3. /\ IsFiniteSet(InUse) /\ Cardinality(InUse) \in Nat
          /\ IsFiniteSet(Gone) /\ Cardinality(Gone) \in Nat
      BY CellsFinite
    <3>4. /\ Cardinality(InUse') = Cardinality(InUse) - 1 /\ Cardinality(InUse') \in Nat
          /\ Cardinality(Gone') = Cardinality(Gone) + 1
      BY <3>1, <3>2, <3>3, FS_RemoveElement, FS_AddElement, FS_CardinalityType
    <3>5. metrics.live = Cardinality(InUse) /\ metrics.frees = Cardinality(Gone)
      BY <1>0 DEF CountsMatch
    <3>6. QED
      BY <2>1, <3>3, <3>4, <3>5 DEF CountsMatch
  <2>10. QED
    BY <1>4, <2>1, <2>2, <2>3, <2>4, <2>5, <2>6, <2>7, <2>8, <2>9
<1>8. CASE heap[a].rc # 1
  <2>1. /\ heap' = [heap EXCEPT ![a].rc = @ - 1]
        /\ work' = rest /\ status' = status /\ metrics' = metrics
    BY <1>1, <1>8 DEF DropCell
  <2>2. /\ heap'[a].rc = heap[a].rc - 1 /\ heap'[a].st = heap[a].st
        /\ heap'[a].len = heap[a].len /\ heap'[a].rc \in Nat /\ heap'[a].rc > 0
        /\ heap'[a] \in Cell
    <3>1. heap[a].rc - 1 \in Nat /\ heap[a].rc - 1 > 0
      BY <1>1, <1>8
    <3>2. QED
      BY <1>2, <2>1, <3>1 DEF Cell
  <2>3. /\ heap' \in [Addr -> Cell]
        /\ \A c \in Addr \ {a} : heap'[c] = heap[c]
    BY <1>2, <2>1, <2>2
  <2>4. RcExact'
    BY <1>5, <1>6, <2>2, <2>3
  <2>5. \A c \in Addr : heap'[c].st = heap[c].st /\ heap'[c].len = heap[c].len
    BY <2>2, <2>3
  <2>6. TokensMatch' /\ Pushed' /\ CountsMatch'
    BY <1>0, <2>1, <2>5, StatesKept
  <2>7. \A j \in 1..Len(rest) : Releasing(rest[j])'
    BY <2>1 DEF Releasing
  <2>8. metrics' \in [frees : Nat, live : Nat]
    BY <1>0, <2>1 DEF TypeOK
  <2>9. QED
    BY <1>4, <2>1, <2>3, <2>4, <2>5, <2>6, <2>7, <2>8
<1>9. QED
  BY <1>7, <1>8

\* A place gives up its reference: nothing else changes place.
LEMMA FieldsAfterRelease ==
  ASSUME TypeOK, NEW p \in Place, ref' = [ref EXCEPT ![p] = Nil]
  PROVE  /\ \A a \in Addr, i \in Index :
               ref'[<<a, i>>] = ref[<<a, i>>] \/ ref'[<<a, i>>] = Nil
         /\ \A s \in Slot : ref'[s] \in Addr \cup {Nil}
         /\ \A s \in Slot : s # p => ref'[s] = ref[s]
<1>1. /\ ref \in [Place -> Value] /\ \A s \in Slot : ref[s] \in Addr \cup {Nil}
  BY DEF TypeOK
<1>2. /\ \A a \in Addr, i \in Index : <<a, i>> \in Place
      /\ \A s \in Slot : s \in Place
  BY DEF Place
<1>3. QED
  BY <1>1, <1>2

\* The slot that waits is emptied, and its cell loses one reference.
LEMMA ReleaseSlotStep ==
  ASSUME IInv, ReleaseSlot
  PROVE  IInv'
<1>0. TypeOK /\ Linked /\ InFlight /\ status # "double free"
  BY DEF IInv
<1>1. /\ work = <<>> /\ todo # <<>> /\ todo' = Tail(todo)
      /\ ref' = [ref EXCEPT ![Head(todo)] = Nil]
      /\ DropCell(ref[Head(todo)], <<>>) /\ UNCHANGED <<top, tok, frames>>
  BY DEF ReleaseSlot
<1>2. todo \in Seq(Slot) /\ frames \in Seq(Slot)
  BY <1>0 DEF TypeOK
<1>3. /\ Len(todo) \in Nat /\ Len(todo) > 0 /\ Len(todo') = Len(todo) - 1
      /\ todo' \in Seq(Slot) /\ Head(todo) = todo[1] /\ Head(todo) \in Slot
      /\ \A i \in 1..Len(todo') : todo'[i] = todo[i + 1]
  BY <1>1, <1>2
<1>4. PICK p \in Slot, a \in Addr : p = Head(todo) /\ a = ref[p]
  <2>1. 1 \in 1..Len(todo)
    BY <1>3
  <2>2. \A i \in 1..Len(todo) : ref[todo[i]] \in Addr
    BY <1>0 DEF InFlight
  <2>3. QED
    BY <1>3, <2>1, <2>2
<1>5. p \in Place /\ ref[p] = a /\ ref' = [ref EXCEPT ![p] = Nil] /\ DropCell(a, <<>>)
  BY <1>1, <1>4 DEF Place
<1>6. <<>> \in Seq(Addr)
  OBVIOUS
<1>7. /\ RcExact' /\ TokensMatch' /\ Pushed' /\ CountsMatch'
      /\ heap' \in [Addr -> Cell] /\ ref' \in [Place -> Value]
      /\ work' \in Seq(Addr) /\ metrics' \in [frees : Nat, live : Nat]
      /\ UNCHANGED status
      /\ \A c \in Addr : heap'[c].len = heap[c].len
      /\ \A c \in Addr : heap'[c].st = heap[c].st \/ Releasing(c)'
  BY <1>1, <1>5, <1>6, DropCellStep
<1>8. /\ \A b \in Addr, i \in Index :
            ref'[<<b, i>>] = ref[<<b, i>>] \/ ref'[<<b, i>>] = Nil
      /\ \A s \in Slot : ref'[s] \in Addr \cup {Nil}
      /\ \A s \in Slot : s # p => ref'[s] = ref[s]
  BY <1>0, <1>5, FieldsAfterRelease
<1>9. TypeOK'
  BY <1>0, <1>1, <1>3, <1>7, <1>8 DEF TypeOK
<1>10. Linked'
  <2>1. \A b \in Addr : ~Releasing(b)
    BY <1>1 DEF Releasing
  <2>2. QED
    BY <1>0, <1>7, <1>8, <2>1, StillLinked
<1>11. InFlight'
  <2>1. /\ \A i \in 1..Len(todo) : todo[i] \in Slot /\ ref[todo[i]] \in Addr
        /\ \A i \in 1..Len(frames) : frames[i] \in Slot /\ ref[frames[i]] \in Addr
        /\ \A i, j \in 1..Len(todo) : i # j => todo[i] # todo[j]
        /\ \A i, j \in 1..Len(frames) : i # j => frames[i] # frames[j]
        /\ \A i \in 1..Len(todo), j \in 1..Len(frames) : todo[i] # frames[j]
    BY <1>0, Elements DEF InFlight
  <2>2. /\ 1 \in 1..Len(todo) /\ p = todo[1]
        /\ \A i \in 1..Len(todo') : i + 1 \in 1..Len(todo) /\ i + 1 # 1
    BY <1>3, <1>4
  <2>3. \A i \in 1..Len(todo') : todo'[i] # p /\ ref'[todo'[i]] \in Addr
    BY <1>3, <1>8, <2>1, <2>2
  <2>4. \A i \in 1..Len(frames) : frames[i] # p /\ ref'[frames[i]] \in Addr
    BY <1>8, <2>1, <2>2
  <2>5. \A i, j \in 1..Len(todo') : i # j => todo'[i] # todo'[j]
    <3> SUFFICES ASSUME NEW i \in 1..Len(todo'), NEW j \in 1..Len(todo'), i # j
                 PROVE  todo'[i] # todo'[j]
      OBVIOUS
    <3>1. i + 1 # j + 1
      BY <1>3
    <3>2. QED
      BY <1>3, <2>1, <2>2, <3>1
  <2>6. \A i \in 1..Len(todo'), j \in 1..Len(frames) : todo'[i] # frames[j]
    BY <1>3, <2>1, <2>2
  <2>7. QED
    BY <1>1, <2>1, <2>3, <2>4, <2>5, <2>6 DEF InFlight
<1>12. QED
  BY <1>0, <1>7, <1>9, <1>10, <1>11 DEF IInv

\* One step of a cascade empties a field of a cell that was taken out.
LEMMA ReleaseFieldStep ==
  ASSUME IInv, ReleaseField
  PROVE  IInv'
<1>0. TypeOK /\ Linked /\ InFlight /\ status # "double free"
  BY DEF IInv
<1>1. work # <<>> /\ work \in Seq(Addr) /\ UNCHANGED <<top, tok, todo, frames>>
  BY <1>0 DEF ReleaseField, TypeOK
<1>2. PICK i \in Unreleased(Head(work)) :
         /\ ref' = [ref EXCEPT ![<<Head(work), i>>] = Nil]
         /\ DropCell(Fld(Head(work), i), work)
  BY DEF ReleaseField
<1>3. PICK b \in Addr, w \in Seq(Addr) : b = Head(work) /\ w = work
  BY <1>1
<1>4. heap[b].len \in 0..MaxLen
  BY <1>0 DEF TypeOK, Cell
<1>5. i \in Index /\ ref[<<b, i>>] \in Addr
  BY <1>2, <1>3, <1>4, BoundsAssumption DEF Unreleased, Index, Fld
<1>6. PICK p \in Place, a \in Addr : p = <<b, i>> /\ a = ref[p]
  BY <1>5 DEF Place
<1>7. ref' = [ref EXCEPT ![p] = Nil] /\ DropCell(a, w)
  BY <1>2, <1>3, <1>6 DEF Fld
<1>8. /\ RcExact' /\ TokensMatch' /\ Pushed' /\ CountsMatch'
      /\ heap' \in [Addr -> Cell] /\ ref' \in [Place -> Value]
      /\ work' \in Seq(Addr) /\ metrics' \in [frees : Nat, live : Nat]
      /\ UNCHANGED status
      /\ \A c \in Addr : heap'[c].len = heap[c].len
      /\ \A c \in Addr : heap'[c].st = heap[c].st \/ Releasing(c)'
      /\ \A j \in 1..Len(w) : Releasing(w[j])'
  BY <1>1, <1>6, <1>7, DropCellStep
<1>9. /\ \A c \in Addr, j \in Index :
            ref'[<<c, j>>] = ref[<<c, j>>] \/ ref'[<<c, j>>] = Nil
      /\ \A s \in Slot : ref'[s] \in Addr \cup {Nil}
      /\ \A s \in Slot : s # p => ref'[s] = ref[s]
  BY <1>0, <1>7, FieldsAfterRelease
<1>10. TypeOK'
  BY <1>0, <1>1, <1>8, <1>9 DEF TypeOK
<1>11. Linked'
  <2>1. \A c \in Addr : Releasing(c) => Releasing(c)'
    BY SMTT(40), <1>3, <1>8 DEF Releasing
  <2>2. QED
    BY <1>0, <1>8, <1>9, <2>1, StillLinked
<1>12. InFlight'
  <2>1. \A s \in Slot : ref'[s] = ref[s]
    BY <1>6, <1>9, KindsAssumption, <1>5
  <2>2. QED
    BY <1>0, <1>1, <2>1, FlightKept
<1>13. QED
  BY <1>0, <1>8, <1>10, <1>11, <1>12 DEF IInv

\* A level of the cascade ends when no field refers to a cell.
LEMMA FinishCellStep ==
  ASSUME IInv, FinishCell
  PROVE  IInv'
<1>0. /\ TypeOK /\ RcExact /\ status # "double free"
      /\ Linked /\ InFlight /\ TokensMatch /\ Pushed /\ CountsMatch
  BY DEF IInv
<1>1. /\ work # <<>> /\ Unreleased(Head(work)) = {} /\ work' = Tail(work)
      /\ ref' = [p \in Place |->
                    IF p \notin Slot /\ p[1] = Head(work) THEN Nil ELSE ref[p]]
      /\ UNCHANGED <<heap, top, tok, todo, frames, metrics, status>>
  BY DEF FinishCell
<1>2. work \in Seq(Addr) /\ ref \in [Place -> Value]
  BY <1>0 DEF TypeOK
<1>3. PICK b \in Addr : b = Head(work)
  BY <1>1, <1>2
<1>4. /\ Len(work) \in Nat /\ Len(work) > 0 /\ work[1] = b
      /\ work' \in Seq(Addr) /\ Len(work') = Len(work) - 1
      /\ \A j \in 1..Len(work') : work'[j] = work[j + 1]
  BY <1>1, <1>2, <1>3
\* only fields that hold no cell are cleared
<1>5. \A i \in Index : ref[<<b, i>>] \notin Addr
  <2>0. heap[b].len \in 0..MaxLen
    BY <1>0 DEF TypeOK, Cell
  <2>1. \A i \in Index : i <= heap[b].len => i \in 1..heap[b].len
    BY <2>0, BoundsAssumption DEF Index
  <2>2. \A i \in Index : i <= heap[b].len => ref[<<b, i>>] \notin Addr
    BY <1>1, <1>3, <2>1 DEF Unreleased, Fld
  <2>3. \A i \in Index : ref[<<b, i>>] \in Addr => i <= heap[b].len
    BY <1>0, KindsAssumption DEF Linked, Fld
  <2>4. QED
    BY <2>2, <2>3
<1>6. /\ \A s \in Slot : ref'[s] = ref[s]
      /\ \A i \in Index : ref'[<<b, i>>] = Nil
      /\ \A c \in Addr \ {b}, i \in Index : ref'[<<c, i>>] = ref[<<c, i>>]
      /\ ref' \in [Place -> Value]
  <2>1. \A c \in Addr, i \in Index : <<c, i>> \in Place /\ <<c, i>> \notin Slot
    BY KindsAssumption DEF Place
  <2>2. \A s \in Slot : s \in Place
    BY DEF Place
  <2>3. QED
    BY <1>1, <1>2, <1>3, <2>1, <2>2 DEF Value
<1>7. \A p \in Place : ref'[p] = ref[p] \/ (ref'[p] \notin Addr /\ ref[p] \notin Addr)
  <2> SUFFICES ASSUME NEW p \in Place, p \notin Slot
               PROVE  ref'[p] = ref[p] \/ (ref'[p] \notin Addr /\ ref[p] \notin Addr)
    BY <1>6
  <2>1. PICK c \in Addr, i \in Index : p = <<c, i>>
    BY DEF Place
  <2>2. QED
    BY <1>5, <1>6, <2>1, KindsAssumption
<1>8. RcExact'
  <2>1. \A c \in Addr : Holders(c)' = Holders(c)
    BY <1>7 DEF Holders
  <2>2. QED
    BY <1>0, <1>1, <2>1 DEF RcExact
<1>9. TypeOK'
  BY <1>0, <1>1, <1>4, <1>6 DEF TypeOK
<1>10. Linked'
  <2> SUFFICES ASSUME NEW c \in Addr, NEW i \in Index, ref'[<<c, i>>] # Nil
               PROVE  i <= heap'[c].len /\ (heap'[c].st = "live" \/ Releasing(c)')
    BY DEF Linked, Fld, Live
  <2>1. c # b /\ ref[<<c, i>>] # Nil
    BY <1>6
  <2>2. i <= heap[c].len /\ (heap[c].st = "live" \/ Releasing(c))
    BY <1>0, <2>1 DEF Linked, Fld, Live
  <2>3. Releasing(c) => Releasing(c)'
    <3> SUFFICES ASSUME NEW j \in 1..Len(work), work[j] = c
                 PROVE  Releasing(c)'
      BY DEF Releasing
    <3>1. j # 1
      BY <1>4, <2>1
    <3>2. j - 1 \in 1..Len(work') /\ (j - 1) + 1 = j
      BY <1>4, <3>1
    <3>3. work'[j - 1] = c
      BY <1>4, <3>2
    <3>4. QED
      BY <3>2, <3>3 DEF Releasing
  <2>4. QED
    BY <1>1, <2>2, <2>3
<1>11. InFlight'
  BY <1>0, <1>1, <1>6, FlightKept
<1>12. TokensMatch' /\ Pushed' /\ CountsMatch'
  BY <1>0, <1>1, StatesKept
<1>13. QED
  BY <1>0, <1>1, <1>8, <1>9, <1>10, <1>11, <1>12 DEF IInv

\* drop_for_reuse keeps an unshared cell for the token k.
LEMMA DropReuseStep ==
  ASSUME IInv, NEW s \in Slot, NEW k \in Token, DropReuse(s, k)
  PROVE  IInv'
<1>0. /\ TypeOK /\ RcExact /\ status # "double free"
      /\ Linked /\ InFlight /\ TokensMatch /\ Pushed /\ CountsMatch
  BY DEF IInv
<1>1. /\ work = <<>> /\ todo = <<>> /\ tok[k] = Nil /\ Owned(s) /\ Live(ref[s])
      /\ ref' = [ref EXCEPT ![s] = Nil]
      /\ UNCHANGED <<top, todo, frames, metrics, status>>
  BY DEF DropReuse, Idle, Tagged
<1>2. PICK a \in Addr : a = ref[s]
  BY <1>1 DEF Live
<1>3. heap \in [Addr -> Cell] /\ ref \in [Place -> Value] /\ heap[a] \in Cell
  BY <1>0 DEF TypeOK
<1>4. s \in Place /\ heap[a].rc \in Nat /\ heap[a].rc > 0 /\ heap[a].st = "live"
  BY <1>0, <1>2, HeldIsLive DEF Place, Live
<1>5. /\ Cardinality(Holders(a)') = Cardinality(Holders(a)) - 1
      /\ \A c \in Addr \ {a} : Holders(c)' = Holders(c)
  BY <1>1, <1>2, <1>3, <1>4, LoseOne
<1>6. /\ \A b \in Addr, i \in Index :
            ref'[<<b, i>>] = ref[<<b, i>>] \/ ref'[<<b, i>>] = Nil
      /\ \A t \in Slot : ref'[t] \in Addr \cup {Nil}
      /\ \A t \in Slot : t # s => ref'[t] = ref[t]
  BY <1>0, <1>1, <1>4, FieldsAfterRelease
<1>7. ref' \in [Place -> Value]
  BY <1>1, <1>3 DEF Value
<1>8. InFlight'
  <2>1. \A i \in 1..Len(frames) : frames[i] # s /\ frames[i] \in Slot
    BY <1>0, <1>1, Elements DEF Owned, Applied
  <2>2. \A i \in 1..Len(frames) : ref'[frames[i]] = ref[frames[i]]
    BY <1>6, <2>1
  <2>3. /\ \A i \in 1..Len(frames) : ref[frames[i]] \in Addr
        /\ \A i, j \in 1..Len(frames) : i # j => frames[i] # frames[j]
    BY <1>0 DEF InFlight
  <2>4. todo' = <<>> /\ 1..Len(todo') = {} /\ frames' = frames
    BY <1>1
  <2>5. QED
    BY <2>2, <2>3, <2>4 DEF InFlight
<1>9. /\ heap'[a].rc = heap[a].rc - 1 /\ heap'[a].len = heap[a].len /\ heap'[a] \in Cell
      /\ \A c \in Addr \ {a} : heap'[c] = heap[c]
      /\ heap' \in [Addr -> Cell]
      /\ \/ /\ heap'[a].rc = 0 /\ heap'[a].st = "token"
            /\ tok' = [tok EXCEPT ![k] = a] /\ work' = <<a>>
         \/ /\ heap'[a].rc > 0 /\ heap'[a].st = "live"
            /\ tok' = [tok EXCEPT ![k] = Spent] /\ work' = <<>>
  <2>1. CASE heap[a].rc = 1
    <3>1. /\ heap' = [heap EXCEPT ![a].rc = 0, ![a].st = "token"]
          /\ tok' = [tok EXCEPT ![k] = a] /\ work' = <<a>>
      BY <1>2, <2>1 DEF DropReuse
    <3>2. /\ heap'[a].rc = 0 /\ heap'[a].st = "token" /\ heap'[a].len = heap[a].len
          /\ heap'[a] \in Cell
      BY <1>3, <3>1 DEF Cell, States
    <3>3. /\ heap' \in [Addr -> Cell]
          /\ \A c \in Addr \ {a} : heap'[c] = heap[c]
      BY <1>3, <3>1, <3>2
    <3>4. QED
      BY <2>1, <3>1, <3>2, <3>3
  <2>2. CASE heap[a].rc # 1
    <3>1. /\ heap' = [heap EXCEPT ![a].rc = @ - 1]
          /\ tok' = [tok EXCEPT ![k] = Spent] /\ work' = <<>>
      BY <1>1, <1>2, <2>2 DEF DropReuse
    <3>2. heap[a].rc - 1 \in Nat /\ heap[a].rc - 1 > 0
      BY <1>4, <2>2
    <3>3. QED
      BY <1>3, <1>4, <3>1, <3>2 DEF Cell
  <2>3. QED
    BY <2>1, <2>2
<1>10. RcExact'
  <2> SUFFICES ASSUME NEW c \in Addr
               PROVE  /\ heap'[c].rc = Cardinality(Holders(c)')
                      /\ heap'[c].st = "live" <=> heap'[c].rc > 0
    BY DEF RcExact
  <2>1. CASE c = a
    <3>1. heap[a].rc = Cardinality(Holders(a))
      BY <1>0 DEF RcExact
    <3>2. QED
      BY <2>1, <3>1, <1>5, <1>9
  <2>2. CASE c # a
    <3>1. heap'[c] = heap[c] /\ Holders(c)' = Holders(c)
      BY <2>2, <1>5, <1>9
    <3>2. QED
      BY <3>1, <1>0 DEF RcExact
  <2>3. QED
    BY <2>1, <2>2
<1>11. TypeOK'
  <2>1. tok' \in [Token -> Addr \cup {Nil, Spent}]
    BY <1>0, <1>9 DEF TypeOK
  <2>2. work' \in Seq(Addr)
    <3>1. <<a>> \in Seq(Addr) /\ <<>> \in Seq(Addr)
      OBVIOUS
    <3>2. QED
      BY <1>9, <3>1
  <2>3. QED
    BY <1>0, <1>1, <1>6, <1>7, <1>9, <2>1, <2>2 DEF TypeOK
<1>12. Linked'
  <2>1. /\ \A c \in Addr : heap'[c].len = heap[c].len
        /\ \A c \in Addr : ~Releasing(c)
    BY <1>1, <1>9 DEF Releasing
  <2>2. \A c \in Addr : heap'[c].st = heap[c].st \/ Releasing(c)'
    <3>1. work' = <<a>> => Releasing(a)'
      BY DEF Releasing
    <3>2. QED
      BY <1>4, <1>9, <3>1
  <2>3. QED
    BY <1>0, <1>6, <2>1, <2>2, StillLinked
<1>13. TokensMatch'
  <2>1. tok \in [Token -> Addr \cup {Nil, Spent}] /\ Spent \notin Addr
    BY <1>0, KindsAssumption DEF TypeOK
  <2>2. /\ tok'[k] \in {a, Spent} /\ (tok'[k] = a <=> heap'[a].st = "token")
        /\ \A l \in Token \ {k} : tok'[l] = tok[l]
    BY <1>9, <2>1
  <2>3. \A l \in Token : tok[l] # a
    BY <1>0, <1>4 DEF TokensMatch
  <2>4. /\ \A l \in Token : tok[l] \in Addr => heap[tok[l]].st = "token"
        /\ \A l, m \in Token : l # m /\ tok[l] \in Addr => tok[m] # tok[l]
        /\ \A c \in Addr : heap[c].st = "token" => \E l \in Token : tok[l] = c
    BY <1>0 DEF TokensMatch
  <2>5. \A l \in Token : tok'[l] \in Addr => heap'[tok'[l]].st = "token"
    BY <1>9, <2>1, <2>2, <2>3, <2>4
  <2>6. \A l, m \in Token : l # m /\ tok'[l] \in Addr => tok'[m] # tok'[l]
    BY <2>1, <2>2, <2>3, <2>4
  <2>7. \A c \in Addr : heap'[c].st = "token" => \E l \in Token : tok'[l] = c
    <3> SUFFICES ASSUME NEW c \in Addr, heap'[c].st = "token"
                 PROVE  \E l \in Token : tok'[l] = c
      OBVIOUS
    <3>1. CASE c = a
      BY <2>2, <3>1
    <3>2. CASE c # a
      <4>1. PICK l \in Token : tok[l] = c
        BY <1>9, <2>4, <3>2
      <4>2. l # k
        BY <1>1, <4>1, KindsAssumption
      <4>3. QED
        BY <2>2, <4>1, <4>2
    <3>3. QED
      BY <3>1, <3>2
  <2>8. QED
    BY <2>5, <2>6, <2>7 DEF TokensMatch
<1>14. Pushed'
  BY <1>0, <1>1, <1>4, <1>9 DEF Pushed
<1>15. CountsMatch'
  <2>1. InUse' = InUse /\ Gone' = Gone
    BY <1>4, <1>9 DEF InUse, Gone
  <2>2. QED
    BY <1>0, <1>1, <2>1 DEF CountsMatch
<1>16. QED
  BY <1>0, <1>1, <1>8, <1>10, <1>11, <1>12, <1>13, <1>14, <1>15 DEF IInv

-----------------------------------------------------------------------------
(* Steps that build a cell                                                 *)

\* A cell pushed on the heap is the next address, and is counted.
LEMMA AllocCounts ==
  ASSUME TypeOK, TokensMatch, Pushed, CountsMatch,
         top < MaxCells, top' = top + 1, metrics' = [metrics EXCEPT !.live = @ + 1],
         heap'[top + 1].st = "live",
         \A c \in Addr \ {top + 1} : heap'[c].st = heap[c].st
  PROVE  /\ Pushed' /\ CountsMatch'
         /\ top' \in 0..MaxCells /\ metrics' \in [frees : Nat, live : Nat]
         /\ \A c \in Addr : heap'[c].st = "token" <=> heap[c].st = "token"
<1>a. top \in 0..MaxCells /\ metrics \in [frees : Nat, live : Nat]
  BY DEF TypeOK
<1>1. PICK b \in Addr : b = top + 1
  BY <1>a, BoundsAssumption DEF Addr
<1>2. top \in Nat /\ metrics \in [frees : Nat, live : Nat]
  BY <1>a, BoundsAssumption
<1>3. heap[b].st = "absent"
  BY <1>1, <1>2 DEF Pushed
<1>4. heap'[b].st = "live" /\ \A c \in Addr \ {b} : heap'[c].st = heap[c].st
  BY <1>1
<1>5. Pushed'
  <2> SUFFICES ASSUME NEW c \in Addr
               PROVE  heap'[c].st = "absent" <=> c > top'
    BY DEF Pushed
  <2>1. c \in Nat
    BY DEF Addr
  <2>2. CASE c = b
    BY <1>1, <1>2, <1>4, <2>2
  <2>3. CASE c # b
    <3>1. c > top <=> c > top'
      BY <1>1, <1>2, <2>1, <2>3
    <3>2. QED
      BY <1>4, <2>3, <3>1 DEF Pushed
  <2>4. QED
    BY <2>2, <2>3
<1>6. InUse' = InUse \cup {b} /\ b \notin InUse /\ Gone' = Gone
  BY <1>3, <1>4 DEF InUse, Gone
<1>7. Cardinality(InUse') = Cardinality(InUse) + 1
  BY <1>6, CellsFinite, FS_AddElement
<1>8. CountsMatch' /\ metrics' \in [frees : Nat, live : Nat]
  BY <1>2, <1>6, <1>7, CellsFinite DEF CountsMatch
<1>9. top' \in 0..MaxCells
  BY <1>2, BoundsAssumption
<1>10. \A c \in Addr : heap'[c].st = "token" <=> heap[c].st = "token"
  BY <1>3, <1>4
<1>11. QED
  BY <1>5, <1>8, <1>9, <1>10

\* A token that is no cell may come and go.
LEMMA TokensKept ==
  ASSUME TokensMatch,
         \A c \in Addr : heap'[c].st = "token" <=> heap[c].st = "token",
         \A l \in Token : tok'[l] = tok[l] \/ (tok'[l] \notin Addr /\ tok[l] \notin Addr)
  PROVE  TokensMatch'
  BY DEF TokensMatch

\* The operands g move into the fields of the cell a.
LEMMA MoveStep ==
  ASSUME IInv, work = <<>>, todo = <<>>, UNCHANGED <<work, todo, frames>>,
         NEW a \in Addr, ~Live(a), NEW tag \in Tags, NEW n \in 0..MaxLen,
         NEW t \in Slot, NEW g, g \in Operands(n), Landing(g, t),
         heap' = [heap EXCEPT ![a] = Fresh(tag, n)], ref' = MoveInto(a, g, t)
  PROVE  /\ RcExact' /\ Linked' /\ InFlight'
         /\ heap' \in [Addr -> Cell] /\ ref' \in [Place -> Value]
         /\ \A s \in Slot : ref'[s] \in Addr \cup {Nil}
         /\ heap'[a].st = "live" /\ \A c \in Addr \ {a} : heap'[c] = heap[c]
<1>0. TypeOK /\ RcExact /\ Linked /\ InFlight
  BY DEF IInv
<1>1. /\ heap \in [Addr -> Cell] /\ ref \in [Place -> Value]
      /\ \A s \in Slot : s \in Place /\ ref[s] \in Addr \cup {Nil}
  BY <1>0 DEF TypeOK, Place
<1>2. /\ n \in Nat /\ 1..n \subseteq Index
      /\ \A c \in Addr, i \in Index : <<c, i>> \in Place /\ <<c, i>> \notin Slot
  BY BoundsAssumption, KindsAssumption DEF Index, Place
<1>3. /\ g \in [1..n -> Slot \cup Scalar] /\ DOMAIN g = 1..n
      /\ \A i \in 1..n : g[i] \in Slot => Owned(g[i])
      /\ \A i, j \in 1..n : i # j /\ g[i] \in Slot => g[i] # g[j]
  BY DEF Operands
<1>4. Holders(a) = {} /\ \A i \in Index : ref[<<a, i>>] = Nil
  <2>1. ~Releasing(a)
    BY DEF Releasing
  <2>2. QED
    BY <1>0, <2>1, UnusedIsUnheld DEF Linked, Fld
<1>5. \A i \in 1..n : Val(g[i]) \in Value /\ Val(g[i]) # a
  BY <1>1, <1>3, <1>4, KindsAssumption DEF Val, Value, Holders
<1>6. /\ ref'[t] = a
      /\ \A s \in Slot : s # t =>
            ref'[s] = IF \E i \in 1..n : g[i] = s THEN Nil ELSE ref[s]
      /\ \A i \in 1..n : ref'[<<a, i>>] = Val(g[i])
      /\ \A i \in Index \ 1..n : ref'[<<a, i>>] = Nil
      /\ \A c \in Addr \ {a}, i \in Index : ref'[<<c, i>>] = ref[<<c, i>>]
  BY <1>1, <1>2, <1>3, <1>4 DEF MoveInto
<1>7. ref' \in [Place -> Value]
  <2>1. ref' = [p \in Place |-> ref'[p]]
    BY DEF MoveInto
  <2>2. ASSUME NEW p \in Place PROVE ref'[p] \in Value
    <3>1. CASE p \in Slot
      BY <3>1, <1>1, <1>6 DEF Value
    <3>2. ASSUME NEW c \in Addr, NEW i \in Index, p = <<c, i>> PROVE ref'[p] \in Value
      <4>1. ref[<<c, i>>] \in Value /\ Nil \in Value
        BY <1>1, <1>2 DEF Value
      <4>2. QED
        BY <3>2, <4>1, <1>5, <1>6
    <3>3. QED
      BY <3>1, <3>2 DEF Place
  <2>3. QED
    BY <2>1, <2>2
<1>8. \A s \in Slot : ref'[s] \in Addr \cup {Nil}
  BY <1>1, <1>6
<1>9. /\ heap' \in [Addr -> Cell]
      /\ heap'[a].st = "live" /\ heap'[a].rc = 1 /\ heap'[a].len = n
      /\ \A c \in Addr \ {a} : heap'[c] = heap[c]
  <2>1. Fresh(tag, n) \in Cell
    BY DEF Fresh, Cell, States
  <2>2. QED
    BY <1>1, <2>1 DEF Fresh
<1>10. Holders(a)' = {t}
  <2>1. \A p \in Place : ref[p] # a
    BY <1>4 DEF Holders
  <2>2. ASSUME NEW p \in Place, p # t PROVE ref'[p] # a
    <3>1. CASE p \in Slot
      BY <3>1, <2>1, <2>2, <1>6, KindsAssumption
    <3>2. ASSUME NEW c \in Addr, NEW i \in Index, p = <<c, i>> PROVE ref'[p] # a
      <4>1. CASE c = a
        BY <3>2, <4>1, <1>5, <1>6, KindsAssumption
      <4>2. CASE c # a
        BY <3>2, <4>2, <2>1, <1>6
      <4>3. QED
        BY <4>1, <4>2
    <3>3. QED
      BY <3>1, <3>2 DEF Place
  <2>3. QED
    BY <2>2, <1>1, <1>6 DEF Holders
\* the references to another cell move from operand slots to fields of a
<1>11. ASSUME NEW c \in Addr \ {a}
       PROVE  Cardinality(Holders(c)') = Cardinality(Holders(c))
  <2> DEFINE J == {i \in 1..n : g[i] \in Slot /\ ref[g[i]] = c}
             R == {g[j] : j \in J}
             Q == {<<a, j>> : j \in J}
  <2>1. IsFiniteSet(J) /\ J \in SUBSET (1..n)
    BY <1>2, FS_Interval, FS_Subset
  <2>2. Cardinality(R) = Cardinality(J)
    <3> DEFINE f == [j \in J |-> g[j]]
    <3>1. f \in [J -> R] /\ \A x \in R : \E j \in J : f[j] = x
      OBVIOUS
    <3>2. \A i, j \in J : f[i] = f[j] => i = j
      BY <1>3
    <3> HIDE DEF f, J, R
    <3>3. QED
      BY <2>1, <3>1, <3>2, ImageCard
  <2>3. Cardinality(Q) = Cardinality(J) /\ IsFiniteSet(Q)
    <3> DEFINE f == [j \in J |-> <<a, j>>]
    <3>1. f \in [J -> Q] /\ \A x \in Q : \E j \in J : f[j] = x
      OBVIOUS
    <3>2. \A i, j \in J : f[i] = f[j] => i = j
      OBVIOUS
    <3> HIDE DEF f, J, Q
    <3>3. QED
      BY <2>1, <3>1, <3>2, ImageCard
  <2>4. R \in SUBSET Holders(c)
    BY <1>1 DEF Holders
  <2>5. Q \cap Holders(c) = {}
    <3>1. \A i \in Index : ref[<<a, i>>] # c
      BY <1>4, KindsAssumption
    <3>2. QED
      BY <3>1, <1>2 DEF Holders
  <2>6. Holders(c)' = (Holders(c) \ R) \cup Q
    <3>1. ASSUME NEW s \in Slot
          PROVE  ref'[s] = c <=> (ref[s] = c /\ s \notin R)
      <4>1. s \in R <=> ref[s] = c /\ \E i \in 1..n : g[i] = s
        OBVIOUS
      <4>2. CASE s = t
        <5>1. ref[t] = Nil \/ \E i \in 1..n : g[i] = t
          BY <1>3 DEF Landing
        <5>2. ref'[t] # c /\ Nil # c
          BY <1>6, KindsAssumption
        <5>3. QED
          BY <4>1, <4>2, <5>1, <5>2
      <4>3. CASE s # t
        BY <4>1, <4>3, <1>6, KindsAssumption
      <4>4. QED
        BY <4>2, <4>3
    <3>2. ASSUME NEW b \in Addr, NEW i \in Index
          PROVE  ref'[<<b, i>>] = c <=> (ref[<<b, i>>] = c \/ <<b, i>> \in Q)
      <4>1. CASE b = a /\ i \in 1..n
        <5>1. ref'[<<b, i>>] = Val(g[i]) /\ ref[<<b, i>>] # c
          BY <4>1, <1>4, <1>6, KindsAssumption
        <5>2. Val(g[i]) = c <=> i \in J
          BY <4>1, <1>3, KindsAssumption DEF Val
        <5>3. QED
          BY <4>1, <5>1, <5>2
      <4>2. CASE b = a /\ i \notin 1..n
        <5>1. ref'[<<b, i>>] # c /\ ref[<<b, i>>] # c /\ i \notin J
          BY <4>2, <1>4, <1>6, KindsAssumption
        <5>2. QED
          BY <5>1
      <4>3. CASE b # a
        BY <4>3, <1>6
      <4>4. QED
        BY <4>1, <4>2, <4>3
    <3>3. \A s \in Slot : s \notin Q
      BY <1>2, <2>1
    <3>4. \A b \in Addr, i \in Index : <<b, i>> \notin R
      BY <1>2
    <3>5. Q \in SUBSET Place
      BY <1>2, <2>1
    <3> HIDE DEF Q, R, J
    <3>6. ASSUME NEW p \in Place
          PROVE  ref'[p] = c <=> ((ref[p] = c /\ p \notin R) \/ p \in Q)
      <4>1. CASE p \in Slot
        BY <4>1, <3>1, <3>3
      <4>2. CASE p \in Addr \X Index
        <5>1. PICK b \in Addr, i \in Index : p = <<b, i>>
          BY <4>2
        <5>2. QED
          BY <5>1, <3>2, <3>4
      <4>3. QED
        BY <4>1, <4>2 DEF Place
    <3>7. QED
      BY <3>5, <3>6 DEF Holders
  <2> HIDE DEF Q, R, J
  <2>7. Cardinality(Holders(c)') = Cardinality(Holders(c)) - Cardinality(R) + Cardinality(Q)
    BY <2>3, <2>4, <2>5, <2>6, HoldersFinite, Exchange
  <2>8. Cardinality(J) \in Nat
    BY <2>1, FS_CardinalityType
  <2>9. QED
    BY <2>2, <2>3, <2>7, <2>8, HoldersFinite
<1>12. RcExact'
  <2> SUFFICES ASSUME NEW c \in Addr
               PROVE  /\ heap'[c].rc = Cardinality(Holders(c)')
                      /\ heap'[c].st = "live" <=> heap'[c].rc > 0
    BY DEF RcExact
  <2>1. CASE c = a
    <3>1. Cardinality(Holders(a)') = 1
      BY <1>10, FS_Singleton
    <3>2. QED
      BY <2>1, <3>1, <1>9
  <2>2. CASE c # a
    BY <2>2, <1>0, <1>9, <1>11 DEF RcExact
  <2>3. QED
    BY <2>1, <2>2
<1>13. Linked'
  <2> SUFFICES ASSUME NEW c \in Addr, NEW i \in Index, ref'[<<c, i>>] # Nil
               PROVE  i <= heap'[c].len /\ heap'[c].st = "live"
    BY DEF Linked, Fld, Live
  <2>1. CASE c = a
    <3>1. i \in 1..n
      BY <2>1, <1>6
    <3>2. QED
      BY <2>1, <3>1, <1>2, <1>9
  <2>2. CASE c # a
    <3>1. ~Releasing(c) /\ ref[<<c, i>>] # Nil /\ heap'[c] = heap[c]
      BY <2>2, <1>6, <1>9 DEF Releasing
    <3>2. i <= heap[c].len /\ heap[c].st = "live"
      BY <1>0, <3>1 DEF Linked, Fld, Live
    <3>3. QED
      BY <3>1, <3>2
  <2>3. QED
    BY <2>1, <2>2
<1>14. InFlight'
  <2>1. /\ \A i \in 1..Len(frames) : ref[frames[i]] \in Addr
        /\ \A i, j \in 1..Len(frames) : i # j => frames[i] # frames[j]
    BY <1>0 DEF InFlight
  <2>2. \A i \in 1..Len(frames) : ref'[frames[i]] \in Addr
    <3> SUFFICES ASSUME NEW i \in 1..Len(frames), frames[i] # t
                 PROVE  ref'[frames[i]] \in Addr
      BY <1>6
    <3>1. PICK s \in Slot : s = frames[i]
      BY <1>0, Elements
    <3>2. \A j \in 1..n : g[j] # s
      BY <3>1, <1>3 DEF Owned, Applied
    <3>3. ref'[s] = ref[s]
      BY <3>1, <3>2, <1>6
    <3>4. QED
      BY <2>1, <3>1, <3>3
  <2>3. todo' = <<>> /\ 1..Len(todo') = {} /\ frames' = frames
    OBVIOUS
  <2>4. QED
    BY <2>1, <2>2, <2>3 DEF InFlight
<1>15. QED
  BY <1>7, <1>8, <1>9, <1>12, <1>13, <1>14

\* A pushed cell preserves the invariant, whatever becomes of a spent token.
LEMMA PushStep ==
  ASSUME IInv, work = <<>>, todo = <<>>, UNCHANGED <<work, todo, frames, status>>,
         NEW c \in Tags, NEW n \in 0..MaxLen, NEW t \in Slot,
         NEW g, g \in Operands(n), Landing(g, t), PushCell(c, n, g, t),
         tok' \in [Token -> Addr \cup {Nil, Spent}],
         \A l \in Token : tok'[l] = tok[l] \/ (tok'[l] \notin Addr /\ tok[l] \notin Addr)
  PROVE  IInv'
<1>0. TypeOK /\ RcExact /\ TokensMatch /\ Pushed /\ CountsMatch /\ status # "double free"
  BY DEF IInv
<1>1. /\ top < MaxCells /\ top' = top + 1
      /\ heap' = [heap EXCEPT ![top + 1] = Fresh(c, n)] /\ ref' = MoveInto(top + 1, g, t)
      /\ metrics' = [metrics EXCEPT !.live = @ + 1]
  BY DEF PushCell
<1>2. top \in 0..MaxCells /\ metrics \in [frees : Nat, live : Nat]
  BY <1>0 DEF TypeOK
<1>3. PICK a \in Addr : a = top + 1
  BY <1>1, <1>2, BoundsAssumption DEF Addr
<1>4. a > top
  BY <1>2, <1>3
<1>5. ~Live(a)
  BY <1>0, <1>4 DEF Pushed, Live
<1>6. heap' = [heap EXCEPT ![a] = Fresh(c, n)] /\ ref' = MoveInto(a, g, t)
  BY <1>1, <1>3
<1>7. /\ RcExact' /\ Linked' /\ InFlight'
      /\ heap' \in [Addr -> Cell] /\ ref' \in [Place -> Value]
      /\ \A s \in Slot : ref'[s] \in Addr \cup {Nil}
      /\ heap'[a].st = "live" /\ \A b \in Addr \ {a} : heap'[b] = heap[b]
  BY <1>5, <1>6, MoveStep
<1>8. heap'[top + 1].st = "live" /\ \A b \in Addr \ {top + 1} : heap'[b].st = heap[b].st
  BY <1>3, <1>7
<1>9. /\ Pushed' /\ CountsMatch'
      /\ top' \in 0..MaxCells /\ metrics' \in [frees : Nat, live : Nat]
      /\ \A b \in Addr : heap'[b].st = "token" <=> heap[b].st = "token"
  BY <1>0, <1>1, <1>8, AllocCounts
<1>10. TokensMatch'
  BY <1>0, <1>9, TokensKept
<1>11. TypeOK'
  BY <1>0, <1>7, <1>9 DEF TypeOK
<1>12. QED
  BY <1>0, <1>7, <1>9, <1>10, <1>11 DEF IInv

\* Constructors, closures and array literals.
LEMMA ConstructStep ==
  ASSUME IInv, NEW c \in Tags, NEW n \in 0..MaxLen, NEW t \in Slot, Construct(c, n, t)
  PROVE  IInv'
<1>1. /\ work = <<>> /\ todo = <<>>
      /\ UNCHANGED <<tok, work, todo, frames, status>>
  BY DEF Construct, Idle
<1>2. PICK g \in Operands(n) : Landing(g, t) /\ PushCell(c, n, g, t)
  BY DEF Construct
<1>3. tok' \in [Token -> Addr \cup {Nil, Spent}] /\ \A l \in Token : tok'[l] = tok[l]
  BY <1>1 DEF IInv, TypeOK
<1>4. QED
  BY <1>1, <1>2, <1>3, PushStep

\* A constructor that was given a token: the cell kept for it is rebuilt, or,
\* with a spent token, a new one is pushed.
LEMMA CtorReuseStep ==
  ASSUME IInv, NEW k \in Token, NEW c \in Ctors, NEW t \in Slot, CtorReuse(k, c, t)
  PROVE  IInv'
<1>0. /\ TypeOK /\ TokensMatch /\ Pushed /\ CountsMatch /\ status # "double free"
  BY DEF IInv
<1>1. /\ work = <<>> /\ todo = <<>> /\ tok[k] # Nil
      /\ tok' = [tok EXCEPT ![k] = Nil]
      /\ UNCHANGED <<work, todo, frames, status>>
  BY DEF CtorReuse, Idle
<1>2. tok \in [Token -> Addr \cup {Nil, Spent}] /\ Nil \notin Addr /\ Spent \notin Addr
  BY <1>0, KindsAssumption DEF TypeOK
<1>3. c \in Tags /\ Arity[c] \in 0..MaxLen
  BY KindsAssumption DEF Tags, DataTags
<1>4. /\ tok' \in [Token -> Addr \cup {Nil, Spent}] /\ tok'[k] = Nil
      /\ \A l \in Token \ {k} : tok'[l] = tok[l]
  BY <1>1, <1>2
<1>5. PICK g \in Operands(Arity[c]) :
        /\ Landing(g, t)
        /\ IF tok[k] = Spent
           THEN PushCell(c, Arity[c], g, t)
           ELSE /\ heap' = [heap EXCEPT ![tok[k]] = Fresh(c, Arity[c])]
                /\ ref' = MoveInto(tok[k], g, t)
                /\ UNCHANGED <<top, metrics>>
  BY DEF CtorReuse
<1>6. CASE tok[k] = Spent
  <2>1. \A l \in Token : tok'[l] = tok[l] \/ (tok'[l] \notin Addr /\ tok[l] \notin Addr)
    BY <1>2, <1>4, <1>6
  <2>2. PushCell(c, Arity[c], g, t)
    BY <1>5, <1>6
  <2> DEFINE n == Arity[c]
  <2>3. n \in 0..MaxLen /\ g \in Operands(n) /\ Landing(g, t) /\ PushCell(c, n, g, t)
    BY <1>3, <1>5, <2>2
  <2> HIDE DEF n
  <2>4. QED
    BY <1>1, <1>3, <1>4, <2>1, <2>3, PushStep
<1>7. CASE tok[k] # Spent
  <2>1. PICK a \in Addr : a = tok[k]
    BY <1>1, <1>2, <1>7
  <2>2. heap[a].st = "token" /\ ~Live(a)
    BY <1>0, <2>1 DEF TokensMatch, Live
  <2> DEFINE n == Arity[c]
  <2>3. /\ n \in 0..MaxLen /\ g \in Operands(n) /\ Landing(g, t)
        /\ heap' = [heap EXCEPT ![a] = Fresh(c, n)] /\ ref' = MoveInto(a, g, t)
        /\ UNCHANGED <<top, metrics>>
    BY <1>3, <1>5, <1>7, <2>1
  <2> HIDE DEF n
  <2>4. /\ RcExact' /\ Linked' /\ InFlight'
        /\ heap' \in [Addr -> Cell] /\ ref' \in [Place -> Value]
        /\ \A s \in Slot : ref'[s] \in Addr \cup {Nil}
        /\ heap'[a].st = "live" /\ \A b \in Addr \ {a} : heap'[b] = heap[b]
    BY <1>1, <1>3, <2>2, <2>3, MoveStep
  <2>5. TypeOK'
    BY <1>0, <1>1, <1>4, <2>3, <2>4 DEF TypeOK
  <2>6. TokensMatch'
    <3>1. /\ \A l \in Token : tok[l] \in Addr => heap[tok[l]].st = "token"
          /\ \A l, m \in Token : l # m /\ tok[l] \in Addr => tok[m] # tok[l]
          /\ \A b \in Addr : heap[b].st = "token" => \E l \in Token : tok[l] = b
      BY <1>0 DEF TokensMatch
    <3>2. \A l \in Token \ {k} : tok[l] # a
      BY <2>1, <3>1
    <3>3. \A l \in Token : tok'[l] \in Addr => heap'[tok'[l]].st = "token"
      BY <1>2, <1>4, <2>4, <3>1, <3>2
    <3>4. \A l, m \in Token : l # m /\ tok'[l] \in Addr => tok'[m] # tok'[l]
      BY <1>2, <1>4, <3>1
    <3>5. \A b \in Addr : heap'[b].st = "token" => \E l \in Token : tok'[l] = b
      BY <1>4, <2>1, <2>4, <3>1
    <3>6. QED
      BY <3>3, <3>4, <3>5 DEF TokensMatch
  <2>7. Pushed'
    BY <1>0, <2>2, <2>3, <2>4 DEF Pushed
  <2>8. CountsMatch'
    <3>1. InUse' = InUse /\ Gone' = Gone
      BY <2>2, <2>4 DEF InUse, Gone
    <3>2. QED
      BY <1>0, <2>3, <3>1 DEF CountsMatch
  <2>9. QED
    BY <1>0, <1>1, <2>4, <2>5, <2>6, <2>7, <2>8 DEF IInv
<1>8. QED
  BY <1>6, <1>7

-----------------------------------------------------------------------------
(* Steps that share several fields at once                                 *)

\* To the places that refer to a cell come as many as J has elements.
LEMMA GainMany ==
  ASSUME NEW S, IsFiniteSet(S), NEW J, IsFiniteSet(J), NEW T, NEW f \in [J -> T],
         \A i, j \in J : f[i] = f[j] => i = j,
         \A x \in T : \E j \in J : f[j] = x,
         T \cap S = {}
  PROVE  Cardinality(S \cup T) = Cardinality(S) + Cardinality(J)
<1>1. IsFiniteSet(T) /\ Cardinality(T) = Cardinality(J)
  BY ImageCard
<1>2. Cardinality(S \cup T) = Cardinality(S) + Cardinality(T) - Cardinality(S \cap T)
  BY <1>1, FS_Union
<1>3. S \cap T = {} /\ Cardinality({}) = 0
  BY FS_EmptySet
<1>4. Cardinality(S) \in Nat /\ Cardinality(T) \in Nat
  BY <1>1, FS_CardinalityType
<1>5. Cardinality(S \cup T) = Cardinality(S) + Cardinality(T) - 0
  BY <1>2, <1>3
<1>6. QED
  BY <1>1, <1>4, <1>5

\* The boxed fields of the closure a are dup'd into the slots m.
LEMMA ApplyStep ==
  ASSUME IInv, NEW s \in Slot, Apply(s)
  PROVE  IInv'
<1>0. /\ TypeOK /\ RcExact /\ status # "double free"
      /\ Linked /\ InFlight /\ TokensMatch /\ Pushed /\ CountsMatch
  BY DEF IInv
<1>1. /\ work = <<>> /\ todo = <<>> /\ Owned(s) /\ Live(ref[s])
      /\ frames' = Append(frames, s)
      /\ UNCHANGED <<top, tok, work, todo, metrics, status>>
  BY DEF Apply, Idle, Tagged
<1>2. PICK a \in Addr : a = ref[s]
  BY <1>1 DEF Live
<1> DEFINE I == Unreleased(a)
<1>3. PICK m \in [I -> {t \in Slot : ref[t] = Nil}] :
        /\ \A i, j \in I : i # j => m[i] # m[j]
        /\ ref' = [p \in Place |->
              IF \E i \in I : m[i] = p
              THEN Fld(a, CHOOSE i \in I : m[i] = p) ELSE ref[p]]
        /\ heap' = [c \in Addr |-> [heap[c] EXCEPT
              !.rc = @ + Cardinality({i \in I : Fld(a, i) = c})]]
  BY <1>2 DEF Apply
<1>4. /\ heap \in [Addr -> Cell] /\ ref \in [Place -> Value]
      /\ \A t \in Slot : t \in Place /\ ref[t] \in Addr \cup {Nil}
      /\ frames \in Seq(Slot)
  BY <1>0 DEF TypeOK, Place
<1>5. /\ IsFiniteSet(I)
      /\ \A i \in I : <<a, i>> \in Place /\ Fld(a, i) \in Addr
  <2>1. PICK n \in 0..MaxLen : n = heap[a].len
    BY <1>4 DEF Cell
  <2>a. n \in Nat /\ 1..n \subseteq Index /\ IsFiniteSet(1..n)
    BY BoundsAssumption, FS_Interval DEF Index
  <2>2. 1..heap[a].len \subseteq Index /\ IsFiniteSet(1..heap[a].len)
    BY <2>1, <2>a
  <2>3. IsFiniteSet(I)
    BY <2>2, FS_Subset DEF Unreleased
  <2>4. QED
    BY <2>2, <2>3 DEF Unreleased, Place
<1>6. /\ \A i \in I : m[i] \in Slot /\ ref[m[i]] = Nil /\ ref'[m[i]] = Fld(a, i)
      /\ \A p \in Place : (\A i \in I : m[i] # p) => ref'[p] = ref[p]
  <2> HIDE DEF I
  <2>1. \A i \in I : m[i] \in Slot /\ ref[m[i]] = Nil
    BY <1>3
  <2>2. ASSUME NEW i \in I PROVE ref'[m[i]] = Fld(a, i)
    <3>1. (CHOOSE j \in I : m[j] = m[i]) = i
      BY <1>3
    <3>2. QED
      BY <1>3, <1>4, <2>1, <3>1
  <2>3. QED
    BY <1>3, <2>1, <2>2
<1> HIDE DEF I
<1>7. /\ \A p \in Place : ref[p] # Nil => ref'[p] = ref[p]
      /\ \A b \in Addr, i \in Index : ref'[<<b, i>>] = ref[<<b, i>>]
  <2>1. \A b \in Addr, i \in Index : <<b, i>> \in Place /\ <<b, i>> \notin Slot
    BY KindsAssumption DEF Place
  <2>2. QED
    BY <1>6, <2>1
<1>8. ref' \in [Place -> Value] /\ \A t \in Slot : ref'[t] \in Addr \cup {Nil}
  <2>1. ref' = [p \in Place |-> ref'[p]]
    BY <1>3
  <2>a. \A p \in Place : ref'[p] = ref[p] \/ ref'[p] \in Addr
    <3> SUFFICES ASSUME NEW p \in Place, ref'[p] # ref[p] PROVE ref'[p] \in Addr
      OBVIOUS
    <3>1. PICK i \in I : m[i] = p
      BY <1>6
    <3>2. QED
      BY <1>5, <1>6, <3>1
  <2>2. \A p \in Place : ref'[p] \in Value
    BY <1>4, <2>a DEF Value
  <2>3. \A t \in Slot : ref'[t] \in Addr \cup {Nil}
    BY <1>4, <2>a
  <2>4. QED
    BY <2>1, <2>2, <2>3
<1>9. ASSUME NEW c \in Addr
      PROVE  /\ heap'[c] \in Cell
             /\ heap'[c].st = heap[c].st /\ heap'[c].len = heap[c].len
             /\ heap'[c].rc = Cardinality(Holders(c)')
             /\ heap'[c].st = "live" <=> heap'[c].rc > 0
  <2> DEFINE J == {i \in I : Fld(a, i) = c}
             T == {m[i] : i \in J}
             d == Cardinality(J)
  <2>1. IsFiniteSet(J) /\ d \in Nat
    BY <1>5, FS_Subset, FS_CardinalityType
  <2>2. heap'[c] = [heap[c] EXCEPT !.rc = @ + d]
    BY <1>3
  <2>3. heap[c] \in Cell /\ heap[c].rc \in Nat
    BY <1>4 DEF Cell
  <2>4. /\ heap'[c] \in Cell /\ heap'[c].rc = heap[c].rc + d
        /\ heap'[c].st = heap[c].st /\ heap'[c].len = heap[c].len
    <3> HIDE DEF d
    <3>1. QED
      BY <2>1, <2>2, <2>3 DEF Cell
  <2>5. Holders(c)' = Holders(c) \cup T
    <3>1. ASSUME NEW p \in Place PROVE ref'[p] = c <=> (ref[p] = c \/ p \in T)
      <4>1. CASE \E i \in I : m[i] = p
        <5>1. PICK i \in I : m[i] = p
          BY <4>1
        <5>2. ref[p] # c /\ (ref'[p] = c <=> i \in J)
          BY <1>6, <5>1, KindsAssumption
        <5>3. p \in T <=> i \in J
          BY <1>3, <5>1
        <5>4. QED
          BY <5>2, <5>3
      <4>2. CASE \A i \in I : m[i] # p
        <5>1. p \notin T
          BY <4>2
        <5>2. QED
          BY <4>2, <5>1, <1>6
      <4>3. QED
        BY <4>1, <4>2
    <3>2. T \in SUBSET Place
      BY <1>4, <1>6
    <3> HIDE DEF T
    <3>3. QED
      BY <3>1, <3>2 DEF Holders
  <2>6. T \cap Holders(c) = {}
    BY <1>6, KindsAssumption DEF Holders
  <2>7. Cardinality(Holders(c)') = Cardinality(Holders(c)) + d
    <3> DEFINE f == [i \in J |-> m[i]]
    <3>1. f \in [J -> T] /\ \A x \in T : \E j \in J : f[j] = x
      OBVIOUS
    <3>2. \A i, j \in J : f[i] = f[j] => i = j
      BY <1>3
    <3> HIDE DEF f, J, T
    <3>3. IsFiniteSet(Holders(c))
      BY HoldersFinite
    <3>4. Cardinality(Holders(c) \cup T) = Cardinality(Holders(c)) + Cardinality(J)
      BY <2>1, <2>6, <3>1, <3>2, <3>3, GainMany
    <3>5. QED
      BY <2>5, <3>4
  <2>8. heap[c].rc = Cardinality(Holders(c)) /\ (heap[c].st = "live" <=> heap[c].rc > 0)
    BY <1>0 DEF RcExact
  <2>9. d > 0 => heap[c].st = "live"
    <3>1. J = {} => d = 0
      BY FS_EmptySet
    <3>2. \A i \in J : ref[<<a, i>>] = c /\ <<a, i>> \in Place
      BY <1>5 DEF Fld
    <3>3. J # {} => heap[c].st = "live"
      BY <1>0, <3>2, HeldIsLive DEF Live
    <3>4. QED
      BY <2>1, <3>1, <3>3
  <2> HIDE DEF d
  <2>10. QED
    BY <2>1, <2>3, <2>4, <2>7, <2>8, <2>9
<1>10. heap' \in [Addr -> Cell]
  BY <1>3, <1>9
<1>11. RcExact'
  BY <1>9 DEF RcExact
<1>12. TokensMatch' /\ Pushed' /\ CountsMatch'
  BY <1>0, <1>1, <1>9, StatesKept
<1>13. TypeOK'
  <2>1. frames' \in Seq(Slot)
    BY <1>1, <1>4
  <2>2. QED
    BY <1>0, <1>1, <1>8, <1>10, <2>1 DEF TypeOK
<1>14. Linked'
  BY <1>0, <1>1, <1>7, <1>9, StillLinked DEF Releasing
<1>15. InFlight'
  <2>1. /\ \A i \in 1..Len(frames) : ref[frames[i]] \in Addr /\ frames[i] \in Place
        /\ \A i, j \in 1..Len(frames) : i # j => frames[i] # frames[j]
    BY <1>0, <1>4, Elements DEF InFlight
  <2>2. /\ \A i \in 1..Len(frames) : ref'[frames[i]] \in Addr /\ frames[i] # s
        /\ ref'[s] \in Addr
    BY <1>1, <1>2, <1>4, <1>7, <2>1, KindsAssumption DEF Owned, Applied
  <2>3. /\ Len(frames') = Len(frames) + 1 /\ Len(frames) \in Nat
        /\ frames'[Len(frames) + 1] = s
        /\ \A i \in 1..Len(frames) : frames'[i] = frames[i]
    BY <1>1, <1>4
  <2>4. \A i \in 1..Len(frames') : i \in 1..Len(frames) \/ i = Len(frames) + 1
    BY <2>3
  <2>5. \A i \in 1..Len(frames') : ref'[frames'[i]] \in Addr
    BY <2>2, <2>3, <2>4
  <2>6. \A i, j \in 1..Len(frames') : i # j => frames'[i] # frames'[j]
    BY <2>1, <2>2, <2>3, <2>4
  <2>7. 1..Len(todo') = {}
    BY <1>1
  <2>8. QED
    BY <2>5, <2>6, <2>7 DEF InFlight
<1>16. QED
  BY <1>0, <1>1, <1>11, <1>12, <1>13, <1>14, <1>15 DEF IInv

\* Copy-on-write: the new cell b shares the kept elements of a, which is then
\* dropped; x moves into the i-th field of b and b is delivered in t.
LEMMA CopyWithStep ==
  ASSUME IInv, work = <<>>, todo = <<>>, UNCHANGED <<tok, work, frames, status>>,
         NEW s \in Slot, Owned(s), Live(ref[s]),
         NEW x \in Slot \cup Scalar, x # s, x \in Slot => Owned(x),
         NEW t \in Slot, NEW n \in 0..MaxLen, NEW i \in 1..n,
         (1..heap[ref[s]].len) \ {i} = (1..n) \ {i},
         CopyWith(s, n, i, x, t)
  PROVE  IInv'
<1>0. /\ TypeOK /\ RcExact /\ status # "double free"
      /\ Linked /\ InFlight /\ TokensMatch /\ Pushed /\ CountsMatch
  BY DEF IInv
<1>1. PICK a \in Addr : a = ref[s]
  BY DEF Live
<1>2. top \in 0..MaxCells
  BY <1>0 DEF TypeOK
<1>3. PICK b \in Addr : b = top + 1
  <2>1. top < MaxCells
    BY DEF CopyWith
  <2>2. QED
    BY <1>2, <2>1, BoundsAssumption DEF Addr
<1> DEFINE kept == (1..n) \ {i}
<1>4. /\ top < MaxCells /\ top' = top + 1
      /\ ref[t] = Nil \/ t = x
      /\ ref' = [p \in Place |->
            IF p \in Slot THEN IF p = t THEN b ELSE IF p = x THEN Nil ELSE ref[p]
            ELSE IF p[1] # b \/ p[2] \notin 1..n THEN ref[p]
            ELSE IF p[2] = i THEN Val(x) ELSE Fld(a, p[2])]
      /\ heap' = [c \in Addr |->
            IF c = b THEN Fresh(heap[a].tag, n)
            ELSE [heap[c] EXCEPT
                   !.rc = @ + Cardinality({j \in kept : Fld(a, j) = c})]]
      /\ metrics' = [metrics EXCEPT !.live = @ + 1]
      /\ todo' = <<s>>
  BY <1>1, <1>3 DEF CopyWith
<1>5. /\ heap \in [Addr -> Cell] /\ ref \in [Place -> Value]
      /\ \A r \in Slot : r \in Place /\ ref[r] \in Addr \cup {Nil}
  BY <1>0 DEF TypeOK, Place
<1>6. /\ n \in Nat /\ 1..n \subseteq Index /\ IsFiniteSet(kept)
      /\ \A c \in Addr, j \in Index : <<c, j>> \in Place /\ <<c, j>> \notin Slot
  <2>1. n \in Nat /\ 1..n \subseteq Index
    BY BoundsAssumption DEF Index
  <2>2. IsFiniteSet(kept)
    <3>1. IsFiniteSet(1..n) /\ kept \in SUBSET (1..n)
      BY <2>1, FS_Interval
    <3>2. QED
      BY <3>1, FS_Subset
  <2>3. QED
    BY <2>1, <2>2, KindsAssumption DEF Place
<1>7. /\ ~Live(b) /\ Holders(b) = {}
      /\ \A j \in Index : ref[<<b, j>>] = Nil
      /\ \A p \in Place : ref[p] # b
  <2>1. b > top
    BY <1>2, <1>3
  <2>a. heap[b].st = "absent"
    BY <1>0, <2>1 DEF Pushed
  <2>2. ~Live(b) /\ ~Releasing(b)
    BY <2>a DEF Live, Releasing
  <2>3. Holders(b) = {}
    BY <1>0, <2>2, UnusedIsUnheld
  <2>4. QED
    BY <1>0, <2>2, <2>3 DEF Linked, Fld, Holders
<1>8. Val(x) \in Value /\ Val(x) # b /\ (x \in Scalar => Val(x) \notin Addr)
  BY <1>5, <1>7, KindsAssumption DEF Val, Value
<1>9. /\ ref'[t] = b
      /\ \A r \in Slot : r # t => ref'[r] = IF r = x THEN Nil ELSE ref[r]
      /\ ref'[<<b, i>>] = Val(x)
      /\ \A j \in kept : ref'[<<b, j>>] = ref[<<a, j>>]
      /\ \A j \in Index \ 1..n : ref'[<<b, j>>] = Nil
      /\ \A c \in Addr \ {b}, j \in Index : ref'[<<c, j>>] = ref[<<c, j>>]
  BY <1>4, <1>5, <1>6, <1>7 DEF Fld
<1>10. ref' \in [Place -> Value] /\ \A r \in Slot : ref'[r] \in Addr \cup {Nil}
  <2>1. ref' = [p \in Place |-> ref'[p]]
    BY <1>4
  <2>2. ASSUME NEW p \in Place PROVE ref'[p] \in Value
    <3>1. CASE p \in Slot
      BY <3>1, <1>5, <1>9 DEF Value
    <3>2. ASSUME NEW c \in Addr, NEW j \in Index, p = <<c, j>> PROVE ref'[p] \in Value
      <4>1. ref[<<c, j>>] \in Value /\ ref[<<a, j>>] \in Value /\ Nil \in Value
        BY <1>5, <1>6 DEF Value
      <4>2. QED
        BY <3>2, <4>1, <1>8, <1>9
    <3>3. QED
      BY <3>1, <3>2 DEF Place
  <2>3. \A r \in Slot : ref'[r] \in Addr \cup {Nil}
    BY <1>5, <1>9
  <2>4. QED
    BY <2>1, <2>2, <2>3
<1>11. heap'[b] \in Cell /\ heap'[b].st = "live" /\ heap'[b].rc = 1 /\ heap'[b].len = n
  <2>1. heap[a].tag \in Tags \cup {Nil}
    BY <1>5 DEF Cell
  <2>2. heap'[b] = Fresh(heap[a].tag, n)
    BY <1>4
  <2>3. QED
    BY <2>1, <2>2 DEF Fresh, Cell, States
<1>12. Cardinality(Holders(b)') = 1
  <2>1. ASSUME NEW p \in Place, p # t PROVE ref'[p] # b
    <3>1. CASE p \in Slot
      BY <3>1, <2>1, <1>7, <1>9, KindsAssumption
    <3>2. ASSUME NEW c \in Addr, NEW j \in Index, p = <<c, j>> PROVE ref'[p] # b
      <4>1. CASE c # b
        BY <3>2, <4>1, <1>7, <1>9
      <4>2. CASE c = b
        <5>1. j = i \/ j \in kept \/ j \in Index \ 1..n
          OBVIOUS
        <5>2. ref[<<a, j>>] # b /\ Nil # b
          BY <1>6, <1>7, KindsAssumption
        <5>3. QED
          BY <3>2, <4>2, <5>1, <5>2, <1>8, <1>9
      <4>3. QED
        BY <4>1, <4>2
    <3>3. QED
      BY <3>1, <3>2 DEF Place
  <2>2. Holders(b)' = {t}
    BY <2>1, <1>5, <1>9 DEF Holders
  <2>3. QED
    BY <2>2, FS_Singleton
<1>13. ASSUME NEW c \in Addr \ {b}
       PROVE  /\ heap'[c] \in Cell
              /\ heap'[c].st = heap[c].st /\ heap'[c].len = heap[c].len
              /\ heap'[c].rc = Cardinality(Holders(c)')
              /\ heap'[c].st = "live" <=> heap'[c].rc > 0
  <2> DEFINE J == {j \in kept : Fld(a, j) = c}
             T == {<<b, j>> : j \in J}
             R == {p \in Slot : p = x /\ ref[p] = c}
             Q == {<<b, j>> : j \in {k \in {i} : Val(x) = c}}
             S == (Holders(c) \ R) \cup Q
             d == Cardinality(J)
  <2>1. IsFiniteSet(J) /\ d \in Nat
    BY <1>6, FS_Subset, FS_CardinalityType
  <2>2. heap'[c] = [heap[c] EXCEPT !.rc = @ + d]
    BY <1>4
  <2>3. heap[c] \in Cell /\ heap[c].rc \in Nat
    BY <1>5 DEF Cell
  <2>4. /\ heap'[c] \in Cell /\ heap'[c].rc = heap[c].rc + d
        /\ heap'[c].st = heap[c].st /\ heap'[c].len = heap[c].len
    <3> HIDE DEF d
    <3>1. QED
      BY <2>1, <2>2, <2>3 DEF Cell
  <2>5. Holders(c)' = S \cup T
    <3>1. ASSUME NEW r \in Slot
          PROVE  ref'[r] = c <=> (ref[r] = c /\ r \notin R)
      BY <1>4, <1>9, KindsAssumption
    <3>2. ASSUME NEW e \in Addr, NEW j \in Index
          PROVE  ref'[<<e, j>>] = c <=> (ref[<<e, j>>] = c \/ <<e, j>> \in Q \cup T)
      <4>1. CASE e = b /\ j = i
        <5>1. <<e, j>> \in Q <=> Val(x) = c
          BY <4>1
        <5>2. <<e, j>> \notin T /\ ref[<<e, j>>] # c /\ ref'[<<e, j>>] = Val(x)
          BY <4>1, <1>7, <1>9, KindsAssumption
        <5>3. QED
          BY <5>1, <5>2
      <4>2. CASE e = b /\ j \in kept
        <5>1. <<e, j>> \in T <=> ref[<<a, j>>] = c
          BY <4>2 DEF Fld
        <5>2. <<e, j>> \notin Q /\ ref[<<e, j>>] # c /\ ref'[<<e, j>>] = ref[<<a, j>>]
          BY <4>2, <1>7, <1>9, KindsAssumption
        <5>3. QED
          BY <5>1, <5>2
      <4>3. CASE e = b /\ j \notin 1..n
        <5>1. <<e, j>> \notin Q /\ <<e, j>> \notin T
          BY <4>3
        <5>2. ref'[<<e, j>>] # c /\ ref[<<e, j>>] # c
          BY <4>3, <1>7, <1>9, KindsAssumption
        <5>3. QED
          BY <5>1, <5>2
      <4>4. CASE e # b
        <5>1. <<e, j>> \notin Q /\ <<e, j>> \notin T
          BY <4>4
        <5>2. QED
          BY <4>4, <5>1, <1>9
      <4>5. QED
        BY <4>1, <4>2, <4>3, <4>4
    <3>3. /\ Q \cup T \in SUBSET Place /\ R \in SUBSET Slot
          /\ \A r \in Slot : r \notin Q \cup T
      BY <1>6
    <3>4. \A e \in Addr, j \in Index : <<e, j>> \notin R
      BY <1>6
    <3> HIDE DEF Q, T, R, J
    <3>5. ASSUME NEW p \in Place
          PROVE  ref'[p] = c <=> ((ref[p] = c /\ p \notin R) \/ p \in Q \cup T)
      <4>1. CASE p \in Slot
        BY <4>1, <3>1, <3>3
      <4>2. CASE p \in Addr \X Index
        <5>1. PICK e \in Addr, j \in Index : p = <<e, j>>
          BY <4>2
        <5>2. QED
          BY <5>1, <3>2, <3>4
      <4>3. QED
        BY <4>1, <4>2 DEF Place
    <3>6. QED
      BY <3>3, <3>5 DEF Holders
  <2>6. /\ Q \cap Holders(c) = {} /\ R \in SUBSET Holders(c)
        /\ T \cap Holders(c) = {} /\ T \cap Q = {}
    <3>1. \A j \in Index : ref[<<b, j>>] # c
      BY <1>7, KindsAssumption
    <3>2. T \cap Holders(c) = {} /\ Q \cap Holders(c) = {}
      BY <3>1, <1>6 DEF Holders
    <3>3. T \cap Q = {}
      OBVIOUS
    <3>4. R \in SUBSET Holders(c)
      BY <1>5 DEF Holders
    <3>5. QED
      BY <3>2, <3>3, <3>4
  <2>7. IsFiniteSet(S) /\ Cardinality(S) = Cardinality(Holders(c))
    <3>1. CASE x \in Slot /\ ref[x] = c
      <4>1. R = {x} /\ Q = {<<b, i>>}
        BY <3>1 DEF Val
      <4>2. /\ IsFiniteSet(R) /\ Cardinality(R) = 1
            /\ IsFiniteSet(Q) /\ Cardinality(Q) = 1
        <5>1. IsFiniteSet({x}) /\ Cardinality({x}) = 1
          BY FS_Singleton
        <5>2. IsFiniteSet({<<b, i>>}) /\ Cardinality({<<b, i>>}) = 1
          BY FS_Singleton
        <5> HIDE DEF R, Q
        <5>3. QED
          BY <4>1, <5>1, <5>2
      <4> HIDE DEF R, Q
      <4>3. Cardinality(S) = Cardinality(Holders(c)) - Cardinality(R) + Cardinality(Q)
        BY <2>6, <4>2, HoldersFinite, Exchange
      <4>4. IsFiniteSet(S)
        BY <4>2, HoldersFinite, FS_Union, FS_Difference
      <4>5. QED
        BY <4>2, <4>3, <4>4, HoldersFinite
    <3>2. CASE ~(x \in Slot /\ ref[x] = c)
      <4>1. R = {} /\ Q = {}
        BY <3>2, <1>8 DEF Val
      <4>2. S = Holders(c)
        BY <4>1
      <4>3. QED
        BY <4>2, HoldersFinite
    <3>3. QED
      BY <3>1, <3>2
  <2>8. Cardinality(Holders(c)') = Cardinality(Holders(c)) + d
    <3> DEFINE f == [j \in J |-> <<b, j>>]
    <3>1. f \in [J -> T] /\ \A y \in T : \E j \in J : f[j] = y
      OBVIOUS
    <3>2. \A j, k \in J : f[j] = f[k] => j = k
      OBVIOUS
    <3>3. T \cap S = {} /\ IsFiniteSet(S) /\ IsFiniteSet(J)
      BY <2>1, <2>6, <2>7
    <3> HIDE DEF f, J, T, S
    <3>4. Cardinality(S \cup T) = Cardinality(S) + Cardinality(J)
      BY ZenonT(60), <3>1, <3>2, <3>3, GainMany
    <3>5. QED
      BY <2>5, <2>7, <3>4
  <2>9. heap[c].rc = Cardinality(Holders(c)) /\ (heap[c].st = "live" <=> heap[c].rc > 0)
    BY <1>0 DEF RcExact
  <2>10. d > 0 => heap[c].st = "live"
    <3>1. J = {} => d = 0
      BY FS_EmptySet
    <3>2. \A j \in J : ref[<<a, j>>] = c /\ <<a, j>> \in Place
      BY <1>6 DEF Fld
    <3>3. J # {} => heap[c].st = "live"
      BY <1>0, <3>2, HeldIsLive DEF Live
    <3>4. QED
      BY <2>1, <3>1, <3>3
  <2> HIDE DEF d
  <2>11. QED
    BY <2>1, <2>3, <2>4, <2>8, <2>9, <2>10
<1>14. heap' \in [Addr -> Cell]
  <2>1. heap' = [c \in Addr |-> heap'[c]]
    BY <1>4
  <2>2. QED
    BY <2>1, <1>11, <1>13
<1>15. RcExact'
  <2> SUFFICES ASSUME NEW c \in Addr
               PROVE  /\ heap'[c].rc = Cardinality(Holders(c)')
                      /\ heap'[c].st = "live" <=> heap'[c].rc > 0
    BY DEF RcExact
  <2>1. CASE c = b
    BY <2>1, <1>11, <1>12
  <2>2. CASE c # b
    BY <2>2, <1>13
  <2>3. QED
    BY <2>1, <2>2
<1>16. /\ Pushed' /\ CountsMatch'
       /\ top' \in 0..MaxCells /\ metrics' \in [frees : Nat, live : Nat]
       /\ \A c \in Addr : heap'[c].st = "token" <=> heap[c].st = "token"
  <2>1. heap'[top + 1].st = "live" /\ \A c \in Addr \ {top + 1} : heap'[c].st = heap[c].st
    BY <1>3, <1>11, <1>13
  <2>2. QED
    BY <1>0, <1>4, <2>1, AllocCounts
<1>17. TokensMatch'
  BY <1>0, <1>16, TokensKept
<1>18. TypeOK'
  <2>1. todo' \in Seq(Slot)
    BY <1>4
  <2>2. QED
    BY <1>0, <1>10, <1>14, <1>16, <2>1 DEF TypeOK
<1>19. Linked'
  <2> SUFFICES ASSUME NEW c \in Addr, NEW j \in Index, ref'[<<c, j>>] # Nil
               PROVE  j <= heap'[c].len /\ heap'[c].st = "live"
    BY DEF Linked, Fld, Live
  <2>1. CASE c = b
    <3>1. j \in 1..n
      BY <2>1, <1>9
    <3>2. QED
      BY <2>1, <3>1, <1>6, <1>11
  <2>2. CASE c # b
    <3>1. ~Releasing(c) /\ ref[<<c, j>>] # Nil
      BY <2>2, <1>9 DEF Releasing
    <3>2. j <= heap[c].len /\ heap[c].st = "live"
      BY <1>0, <3>1 DEF Linked, Fld, Live
    <3>3. QED
      BY <2>2, <3>2, <1>13
  <2>3. QED
    BY <2>1, <2>2
<1>20. InFlight'
  <2>1. /\ \A j \in 1..Len(frames) : ref[frames[j]] \in Addr /\ frames[j] \in Slot
        /\ \A j, k \in 1..Len(frames) : j # k => frames[j] # frames[k]
        /\ \A j \in 1..Len(frames) : frames[j] # s /\ (x \in Slot => frames[j] # x)
    BY <1>0, Elements DEF InFlight, Owned, Applied
  <2>2. \A r \in Slot : r # x /\ ref[r] # Nil => ref'[r] = ref[r]
    BY <1>4, <1>9
  <2>3. /\ \A j \in 1..Len(frames) : ref'[frames[j]] \in Addr
        /\ ref'[s] \in Addr
    BY <2>1, <2>2, <1>1, KindsAssumption
  <2>4. Len(todo') = 1 /\ todo'[1] = s
    BY <1>4
  <2>5. QED
    BY <2>1, <2>3, <2>4 DEF InFlight
<1>21. QED
  BY <1>0, <1>15, <1>16, <1>17, <1>18, <1>19, <1>20 DEF IInv

-----------------------------------------------------------------------------
(* Steps that overwrite an array in place                                  *)

\* The i-th field of the live cell a and the operand x are exchanged.
LEMMA SwapStep ==
  ASSUME IInv, work = <<>>, UNCHANGED work,
         NEW a \in Addr, Live(a), NEW i \in Index, i <= heap'[a].len,
         heap'[a].len \in Nat, heap[a].len <= heap'[a].len,
         NEW x \in Slot \cup Scalar,
         IF x \in Slot THEN Fld(a, i) \in Addr \cup {Nil} ELSE Fld(a, i) \notin Addr,
         ref' = [p \in Place |-> IF p = <<a, i>> THEN Val(x)
                                 ELSE IF p = x THEN Fld(a, i) ELSE ref[p]],
         \A c \in Addr : heap'[c].st = heap[c].st /\ heap'[c].rc = heap[c].rc,
         \A c \in Addr \ {a} : heap'[c].len = heap[c].len
  PROVE  /\ RcExact' /\ Linked'
         /\ ref' \in [Place -> Value] /\ \A r \in Slot : ref'[r] \in Addr \cup {Nil}
         /\ \A r \in Slot : r # x => ref'[r] = ref[r]
         /\ x \in Slot => ref'[x] = Fld(a, i)
<1>0. TypeOK /\ RcExact /\ Linked
  BY DEF IInv
<1>1. /\ ref \in [Place -> Value]
      /\ \A r \in Slot : r \in Place /\ ref[r] \in Addr \cup {Nil}
      /\ \A c \in Addr, j \in Index : <<c, j>> \in Place /\ <<c, j>> \notin Slot
  <2>1. ref \in [Place -> Value] /\ \A r \in Slot : ref[r] \in Addr \cup {Nil}
    BY <1>0 DEF TypeOK
  <2>2. QED
    BY <2>1, KindsAssumption DEF Place
<1> DEFINE q == <<a, i>>
<1>2. q \in Place /\ q # x /\ Fld(a, i) = ref[q] /\ ref[q] \in Value
  BY <1>1, KindsAssumption DEF Fld
<1>3. Val(x) \in Value /\ (x \in Slot => Val(x) = ref[x]) /\ (x \notin Slot => Val(x) \notin Addr)
  BY <1>1, KindsAssumption DEF Val, Value
<1>4. ref'[q] = Val(x)
  BY <1>2
<1> HIDE DEF q
<1>5. ref' = [p \in Place |-> IF p = q THEN Val(x) ELSE IF p = x THEN ref[q] ELSE ref[p]]
  BY <1>2 DEF q
<1>6. /\ ref' \in [Place -> Value] /\ \A r \in Slot : ref'[r] \in Addr \cup {Nil}
      /\ \A r \in Slot : r # x => ref'[r] = ref[r]
      /\ x \in Slot => ref'[x] = Fld(a, i)
  <2>1. ref' \in [Place -> Value]
    BY <1>1, <1>2, <1>3, <1>5
  <2>2. \A r \in Slot : r # q
    BY <1>1 DEF q
  <2>3. /\ \A r \in Slot : r # x => ref'[r] = ref[r]
        /\ x \in Slot => ref'[x] = Fld(a, i)
    BY <1>1, <1>2, <1>5, <2>2
  <2>4. QED
    BY <1>1, <2>1, <2>3
<1>7. ASSUME NEW c \in Addr
      PROVE  Cardinality(Holders(c)') = Cardinality(Holders(c))
  <2>1. CASE x \in Slot
    <3> DEFINE H == Holders(c)
               K == {p \in Place : ref'[p] = c}
               f == [p \in H |-> IF p = x THEN q ELSE IF p = q THEN x ELSE p]
    <3>1. x \in Place /\ ref'[q] = ref[x] /\ ref'[x] = ref[q]
          /\ \A p \in Place : p # x /\ p # q => ref'[p] = ref[p]
      BY <2>1, <1>1, <1>2, <1>3, <1>5
    <3>2. f \in [H -> K]
      BY <3>1, <1>2 DEF Holders
    <3>3. \A p, r \in H : f[p] = f[r] => p = r
      BY <1>2
    <3>4. ASSUME NEW y \in K PROVE \E p \in H : f[p] = y
      <4> DEFINE p == IF y = x THEN q ELSE IF y = q THEN x ELSE y
      <4>1. p \in Place /\ ref[p] = c
        BY <3>1, <1>2
      <4>2. p \in H
        BY <4>1 DEF Holders
      <4>3. f[p] = y
        BY <4>2, <1>2
      <4>4. QED
        BY <4>2, <4>3
    <3>5. K = Holders(c)' /\ IsFiniteSet(H)
      BY HoldersFinite DEF Holders
    <3> HIDE DEF f, H, K
    <3>6. Cardinality(K) = Cardinality(H)
      BY ZenonT(60), <3>2, <3>3, <3>4, <3>5, ImageCard
    <3>7. QED
      BY <3>5, <3>6 DEF H
  <2>2. CASE x \notin Slot
    <3>1. x \notin Place
      BY <2>2, KindsAssumption DEF Place
    <3>2. \A p \in Place : ref'[p] = ref[p] \/ (ref'[p] \notin Addr /\ ref[p] \notin Addr)
      BY <2>2, <3>1, <1>2, <1>3, <1>5
    <3>3. Holders(c)' = Holders(c)
      BY <3>2 DEF Holders
    <3>4. QED
      BY <3>3
  <2>3. QED
    BY <2>1, <2>2
<1>8. RcExact'
  BY <1>0, <1>7 DEF RcExact
<1>9. Linked'
  <2> SUFFICES ASSUME NEW c \in Addr, NEW j \in Index, ref'[<<c, j>>] # Nil
               PROVE  j <= heap'[c].len /\ heap'[c].st = "live"
    BY DEF Linked, Fld, Live
  <2>1. CASE <<c, j>> = q
    BY <2>1 DEF q, Live
  <2>2. CASE <<c, j>> # q
    <3>1. ref[<<c, j>>] # Nil /\ ~Releasing(c)
      BY <2>2, <1>1, <1>5, KindsAssumption DEF Releasing
    <3>2. j <= heap[c].len /\ heap[c].st = "live"
      BY <1>0, <3>1 DEF Linked, Fld, Live
    <3>3. CASE c = a
      <4>a. heap[a].len \in 0..MaxLen
        BY <1>0 DEF TypeOK, Cell
      <4>1. heap[a].len \in Nat /\ j \in Nat
        BY <4>a, BoundsAssumption DEF Index
      <4>2. QED
        BY <3>2, <3>3, <4>1
    <3>4. CASE c # a
      BY <3>2, <3>4
    <3>5. QED
      BY <3>3, <3>4
  <2>3. QED
    BY <2>1, <2>2
<1>10. QED
  BY <1>6, <1>8, <1>9

\* array_set and bytes_set, in place or on a copy.
LEMMA ArraySetStep ==
  ASSUME IInv, NEW s \in Slot, NEW i \in Index, NEW x \in Slot \cup Scalar,
         NEW t \in Slot, ArraySet(s, i, x, t)
  PROVE  IInv'
<1>0. /\ TypeOK /\ InFlight /\ TokensMatch /\ Pushed /\ CountsMatch
      /\ status # "double free"
  BY DEF IInv
<1>1. /\ work = <<>> /\ todo = <<>> /\ Owned(s) /\ Live(ref[s]) /\ x # s
      /\ Element(ref[s], x) /\ (x \in Slot => Owned(x))
      /\ UNCHANGED <<tok, work, frames, status>>
  BY DEF ArraySet, Idle, Tagged, Element
<1>2. PICK a \in Addr : a = ref[s]
  BY <1>1 DEF Live
<1>3. /\ i \in 1..heap[a].len
      /\ IF Unique(a)
         THEN /\ ref' = [p \in Place |-> IF p = <<a, i>> THEN Val(x)
                                          ELSE IF p = x THEN Fld(a, i) ELSE ref[p]]
              /\ todo' = IF x \in Slot THEN <<x>> ELSE <<>>
              /\ UNCHANGED <<heap, top, metrics>>
         ELSE CopyWith(s, heap[a].len, i, x, t)
  BY <1>2 DEF ArraySet, InRange
<1>4. PICK n \in 0..MaxLen : n = heap[a].len
  BY <1>0 DEF TypeOK, Cell
<1>5. CASE Unique(a)
  <2>1. /\ i <= heap'[a].len /\ heap'[a].len \in Nat /\ heap[a].len <= heap'[a].len
    BY <1>3, <1>4, <1>5, BoundsAssumption
  <2>2. x \in Slot <=> Fld(a, i) \in Addr
    BY <1>1, <1>2, <1>3 DEF Element
  <2>3. /\ RcExact' /\ Linked'
        /\ ref' \in [Place -> Value] /\ \A r \in Slot : ref'[r] \in Addr \cup {Nil}
        /\ \A r \in Slot : r # x => ref'[r] = ref[r]
        /\ x \in Slot => ref'[x] = Fld(a, i)
    <3>1. /\ IF x \in Slot THEN Fld(a, i) \in Addr \cup {Nil} ELSE Fld(a, i) \notin Addr
          /\ Live(a)
          /\ \A c \in Addr : heap'[c].st = heap[c].st /\ heap'[c].rc = heap[c].rc
          /\ \A c \in Addr \ {a} : heap'[c].len = heap[c].len
      BY <1>1, <1>2, <1>3, <1>5, <2>2
    <3>2. QED
      BY <1>1, <1>3, <1>5, <2>1, <3>1, SwapStep
  <2>4. InFlight'
    <3>1. /\ \A j \in 1..Len(frames) : ref[frames[j]] \in Addr /\ frames[j] \in Slot
          /\ \A j, k \in 1..Len(frames) : j # k => frames[j] # frames[k]
          /\ \A j \in 1..Len(frames) : x \in Slot => frames[j] # x
      BY <1>0, <1>1, Elements DEF InFlight, Owned, Applied
    <3>2. \A j \in 1..Len(frames) : ref'[frames[j]] \in Addr
      BY <2>3, <3>1, KindsAssumption
    <3>3. CASE x \in Slot
      <4>1. Len(todo') = 1 /\ todo'[1] = x /\ ref'[x] \in Addr
        BY <1>3, <1>5, <2>2, <2>3, <3>3
      <4>2. QED
        BY <1>1, <3>1, <3>2, <3>3, <4>1 DEF InFlight
    <3>4. CASE x \notin Slot
      <4>1. 1..Len(todo') = {}
        BY <1>3, <1>5, <3>4
      <4>2. QED
        BY <1>1, <3>1, <3>2, <4>1 DEF InFlight
    <3>5. QED
      BY <3>3, <3>4
  <2>5. TypeOK'
    <3>a. <<>> \in Seq(Slot) /\ (x \in Slot => <<x>> \in Seq(Slot))
      OBVIOUS
    <3>1. todo' \in Seq(Slot)
      BY <1>3, <1>5, <3>a
    <3>2. QED
      BY <1>0, <1>1, <1>3, <1>5, <2>3, <3>1 DEF TypeOK
  <2>6. TokensMatch' /\ Pushed' /\ CountsMatch'
    BY <1>0, <1>1, <1>3, <1>5, StatesKept
  <2>7. QED
    BY <1>0, <1>1, <2>3, <2>4, <2>5, <2>6 DEF IInv
<1>6. CASE ~Unique(a)
  BY <1>1, <1>2, <1>3, <1>4, <1>6, CopyWithStep
<1>7. QED
  BY <1>5, <1>6

\* array_push and bytes_push, in place or on a copy.
LEMMA ArrayPushStep ==
  ASSUME IInv, NEW s \in Slot, NEW x \in Slot \cup Scalar, NEW t \in Slot,
         ArrayPush(s, x, t)
  PROVE  IInv'
<1>0. /\ TypeOK /\ Linked /\ InFlight /\ TokensMatch /\ Pushed /\ CountsMatch
      /\ status # "double free"
  BY DEF IInv
<1>1. /\ work = <<>> /\ todo = <<>> /\ Owned(s) /\ Live(ref[s]) /\ x # s
      /\ (x \in Slot => Owned(x))
      /\ UNCHANGED <<tok, work, frames, status>>
  BY DEF ArrayPush, Idle, Tagged, Element
<1>2. PICK a \in Addr : a = ref[s]
  BY <1>1 DEF Live
<1>3. heap \in [Addr -> Cell] /\ heap[a].len \in 0..MaxLen
  BY <1>0 DEF TypeOK, Cell
<1>4. PICK n : n = heap[a].len + 1
  OBVIOUS
<1>5. /\ n <= MaxLen
      /\ IF Unique(a)
         THEN /\ ref' = [p \in Place |-> IF p = <<a, n>> THEN Val(x)
                                          ELSE IF p = x THEN Nil ELSE ref[p]]
              /\ heap' = [heap EXCEPT ![a].len = n]
              /\ UNCHANGED <<top, metrics, todo>>
         ELSE CopyWith(s, n, n, x, t)
  BY <1>2, <1>4 DEF ArrayPush
<1>6. /\ n \in 0..MaxLen /\ n \in 1..n /\ n \in Index /\ n \in Nat
      /\ heap[a].len \in Nat /\ heap[a].len < n
      /\ (1..heap[a].len) \ {n} = (1..n) \ {n}
  <2>1. /\ n \in 0..MaxLen /\ n \in 1..n /\ n \in Index /\ n \in Nat
        /\ heap[a].len \in Nat /\ heap[a].len < n
    BY <1>3, <1>4, <1>5, BoundsAssumption DEF Index
  <2>2. \A j : j \in (1..heap[a].len) \ {n} <=> j \in (1..n) \ {n}
    BY <1>4, <2>1
  <2>3. QED
    BY <2>1, <2>2
<1>7. CASE Unique(a)
  <2>1. Fld(a, n) = Nil
    <3>1. ~(n <= heap[a].len)
      BY <1>6
    <3>2. QED
      BY <1>0, <1>6, <3>1 DEF Linked
  <2>2. /\ heap' \in [Addr -> Cell] /\ heap'[a].len = n
        /\ \A c \in Addr : heap'[c].st = heap[c].st /\ heap'[c].rc = heap[c].rc
        /\ \A c \in Addr \ {a} : heap'[c].len = heap[c].len
    <3>1. heap' = [heap EXCEPT ![a].len = n]
      BY <1>5, <1>7
    <3>2. heap[a] \in Cell
      BY <1>3
    <3>3. [heap[a] EXCEPT !.len = n] \in Cell
      BY <1>6, <3>2 DEF Cell
    <3>4. heap' \in [Addr -> Cell]
      BY <1>3, <3>1, <3>3
    <3>5. QED
      BY <1>3, <3>1, <3>2, <3>4 DEF Cell
  <2>3. ref' = [p \in Place |-> IF p = <<a, n>> THEN Val(x)
                                ELSE IF p = x THEN Fld(a, n) ELSE ref[p]]
    BY <1>5, <1>7, <2>1
  <2>4. /\ n <= heap'[a].len /\ heap'[a].len \in Nat /\ heap[a].len <= heap'[a].len
        /\ Live(a)
        /\ IF x \in Slot THEN Fld(a, n) \in Addr \cup {Nil} ELSE Fld(a, n) \notin Addr
    BY <1>1, <1>2, <1>6, <2>1, <2>2, KindsAssumption
  <2>5. /\ RcExact' /\ Linked'
        /\ ref' \in [Place -> Value] /\ \A r \in Slot : ref'[r] \in Addr \cup {Nil}
        /\ \A r \in Slot : r # x => ref'[r] = ref[r]
    <3>1. n \in Index
      BY <1>6
    <3>2. QED
      BY SMTT(40), <1>1, <3>1, <2>2, <2>3, <2>4, SwapStep
  <2>6. InFlight'
    <3>1. /\ \A j \in 1..Len(frames) : ref[frames[j]] \in Addr /\ frames[j] \in Slot
          /\ \A j, k \in 1..Len(frames) : j # k => frames[j] # frames[k]
          /\ \A j \in 1..Len(frames) : x \in Slot => frames[j] # x
      BY <1>0, <1>1, Elements DEF InFlight, Owned, Applied
    <3>2. \A j \in 1..Len(frames) : ref'[frames[j]] \in Addr
      BY <2>5, <3>1, KindsAssumption
    <3>3. 1..Len(todo') = {}
      BY <1>1, <1>5, <1>7
    <3>4. QED
      BY <1>1, <3>1, <3>2, <3>3 DEF InFlight
  <2>7. TypeOK'
    BY <1>0, <1>1, <1>5, <1>7, <2>2, <2>5 DEF TypeOK
  <2>8. TokensMatch' /\ Pushed' /\ CountsMatch'
    BY <1>0, <1>1, <1>5, <1>7, <2>2, StatesKept
  <2>9. QED
    BY <1>0, <1>1, <2>5, <2>6, <2>7, <2>8 DEF IInv
<1>8. CASE ~Unique(a)
  BY <1>1, <1>2, <1>5, <1>6, <1>8, CopyWithStep
<1>9. QED
  BY <1>7, <1>8

-----------------------------------------------------------------------------
(* The theorems                                                            *)

\* Every step of the heap preserves the inductive invariant.
LEMMA NextIInv == IInv /\ [Next]_vars => IInv'
<1> SUFFICES ASSUME IInv, [Next]_vars PROVE IInv'
  OBVIOUS
<1>1. ASSUME NEW c \in Tags, NEW n \in 0..MaxLen, NEW t \in Slot, Construct(c, n, t)
      PROVE  IInv'
  BY <1>1, ConstructStep
<1>2. ASSUME NEW s \in Slot, NEW t \in Slot, Dup(s, t) PROVE IInv'
  BY <1>2, DupStep
<1>3. ASSUME NEW s \in Slot, NEW t \in Slot, NEW i \in Index, DupField(s, i, t)
      PROVE  IInv'
  BY <1>3, DupFieldStep
<1>4. ASSUME NEW s \in Slot, Drop(s) PROVE IInv'
  BY <1>4, DropStep
<1>5. ASSUME NEW x \in Slot, NEW y \in Slot, DropCompared(x, y) PROVE IInv'
  BY <1>5, DropComparedStep
<1>6. ASSUME ReleaseSlot PROVE IInv'
  BY <1>6, ReleaseSlotStep
<1>7. ASSUME ReleaseField PROVE IInv'
  BY <1>7, ReleaseFieldStep
<1>8. ASSUME FinishCell PROVE IInv'
  BY <1>8, FinishCellStep
<1>9. ASSUME NEW s \in Slot, NEW k \in Token, DropReuse(s, k) PROVE IInv'
  BY <1>9, DropReuseStep
<1>10. ASSUME NEW k \in Token, NEW c \in Ctors, NEW t \in Slot, CtorReuse(k, c, t)
       PROVE  IInv'
  BY <1>10, CtorReuseStep
<1>11. ASSUME NEW s \in Slot, Apply(s) PROVE IInv'
  BY <1>11, ApplyStep
<1>12. ASSUME Return PROVE IInv'
  BY <1>12, ReturnStep
<1>13. ASSUME NEW s \in Slot, NEW t \in Slot, NEW i \in Index, ArrayGet(s, i, t)
       PROVE  IInv'
  BY <1>13, ArrayGetStep
<1>14. ASSUME NEW s \in Slot, NEW t \in Slot, NEW i \in Index,
              NEW x \in Slot \cup Scalar, ArraySet(s, i, x, t)
       PROVE  IInv'
  BY <1>14, ArraySetStep
<1>15. ASSUME NEW s \in Slot, NEW t \in Slot, NEW x \in Slot \cup Scalar, ArrayPush(s, x, t)
       PROVE  IInv'
  BY <1>15, ArrayPushStep
<1>16. ASSUME Fail PROVE IInv'
  BY <1>16, FailStep
<1>17. ASSUME UNCHANGED vars PROVE IInv'
  <2>1. UNCHANGED <<heap, ref, top, tok, work, todo, frames, metrics, status>>
    BY <1>17 DEF vars
  <2>2. /\ InFlight /\ todo \in Seq(Slot) /\ frames \in Seq(Slot)
        /\ status \in {"running", "error"}
    BY DEF IInv, TypeOK
  <2>3. InFlight'
    BY <2>1, <2>2 DEF InFlight
  <2>4. QED
    BY <2>1, <2>2, <2>3, ControlStep
<1>18. QED
  BY <1>1, <1>2, <1>3, <1>4, <1>5, <1>6, <1>7, <1>8, <1>9, <1>10, <1>11, <1>12,
     <1>13, <1>14, <1>15, <1>16, <1>17 DEF Next

\* The inductive invariant holds in every state of every run.
THEOREM Invariance == Spec => []IInv
<1>1. Init => IInv
  BY InitIInv
<1>2. IInv /\ [Next]_vars => IInv'
  BY NextIInv
<1>3. QED
  BY <1>1, <1>2, PTL DEF Spec

\* The variables have their types.
THEOREM TypeCorrect == Spec => []TypeOK
<1>1. IInv => TypeOK
  BY DEF IInv
<1>2. QED
  BY <1>1, Invariance, PTL

\* Between any two steps the count of every cell is its number of references
\* (push_cell, dup_value, drop_cell, drop_for_reuse and the array builtins).
THEOREM CountsExact == Spec => []RcExact
<1>1. IInv => RcExact
  BY DEF IInv
<1>2. QED
  BY <1>1, Invariance, PTL

\* drop_cell never reports a double free, and no slot of the program or field
\* of a live cell refers to a freed cell.
THEOREM MemorySafe == Spec => []NoMemoryError
<1>1. IInv => NoMemoryError
  <2> SUFFICES ASSUME IInv PROVE NoMemoryError
    OBVIOUS
  <2>1. TypeOK /\ RcExact /\ status # "double free"
    BY DEF IInv
  <2>2. \A p \in Place : ref[p] \in Addr => Live(ref[p])
    BY <2>1, HeldIsLive
  <2>3. \A s \in Slot : ref[s] # Nil => Live(ref[s])
    BY <2>1, <2>2 DEF TypeOK, Place
  <2>4. ASSUME NEW a \in Addr, NEW i \in Unreleased(a) PROVE Live(Fld(a, i))
    <3>1. PICK n \in 0..MaxLen : n = heap[a].len
      BY <2>1 DEF TypeOK, Cell
    <3>2. i \in Index
      BY <3>1, BoundsAssumption DEF Unreleased, Index
    <3>3. QED
      BY <2>2, <3>2 DEF Unreleased, Fld, Place
  <2>5. QED
    BY <2>1, <2>3, <2>4 DEF NoMemoryError
<1>2. QED
  BY <1>1, Invariance, PTL

\* A cell kept for reuse belongs to one token and nothing refers to it, so that
\* CtorReuse overwrites memory nobody can observe.
THEOREM TokensSafe == Spec => []TokensExclusive
<1>1. IInv => TokensExclusive
  <2> SUFFICES ASSUME IInv PROVE TokensExclusive
    OBVIOUS
  <2>1. TypeOK /\ RcExact /\ TokensMatch
    BY DEF IInv
  <2>2. \A a \in Addr : heap[a].st = "token" => Holders(a) = {}
    BY <2>1, UnusedIsUnheld DEF Live
  <2>3. QED
    BY <2>1, <2>2 DEF TokensMatch, TokensExclusive
<1>2. QED
  BY <1>1, Invariance, PTL

\* What `aria mem` reports is true: live counts the cells in use or kept for
\* reuse, and every allocated cell is one of them or was freed exactly once.
THEOREM MetricsRight == Spec => []MetricsExact
<1>1. IInv => MetricsExact
  <2> SUFFICES ASSUME IInv PROVE MetricsExact
    OBVIOUS
  <2>1. TypeOK /\ Pushed /\ CountsMatch
    BY DEF IInv
  <2>2. top \in 0..MaxCells /\ heap \in [Addr -> Cell]
    BY <2>1 DEF TypeOK
  <2>3. top \in Nat /\ 1..top \subseteq Addr
    BY <2>2, BoundsAssumption DEF Addr
  <2>4. InUse \cup Gone = 1..top
    <3>1. \A a \in Addr : a \in 1..top <=> heap[a].st # "absent"
      BY <2>1, <2>3 DEF Pushed, Addr
    <3>2. \A a \in Addr : heap[a].st \in States
      BY <2>2 DEF Cell
    <3>3. QED
      BY <2>3, <3>1, <3>2 DEF InUse, Gone, States
  <2>5. InUse \cap Gone = {}
    BY DEF InUse, Gone
  <2>6. Cardinality(1..top) = Cardinality(InUse) + Cardinality(Gone) - Cardinality({})
    BY <2>4, <2>5, CellsFinite, FS_Union
  <2>7. Cardinality(1..top) = top /\ Cardinality({}) = 0
    BY <2>3, FS_Interval, FS_EmptySet
  <2>8. top = Cardinality(InUse) + Cardinality(Gone)
    BY <2>6, <2>7, CellsFinite
  <2>9. QED
    BY <2>1, <2>8 DEF MetricsExact, CountsMatch, InUse, Gone
<1>2. QED
  BY <1>1, Invariance, PTL

=============================================================================
