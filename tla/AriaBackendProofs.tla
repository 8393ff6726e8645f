--------------------------- MODULE AriaBackendProofs ---------------------------
(***************************************************************************)
(* Two parts of the backends, for every size: checked arithmetic, which    *)
(* AriaArith has three times, and the allocator of WebAssembly.            *)
(***************************************************************************)
EXTENDS AriaArith, AriaWasmAlloc, AriaInduction, FiniteSetTheorems, SequenceTheorems

-----------------------------------------------------------------------------
(* Checked arithmetic, for words of every size                             *)

\* The integers of one word: two halves, one of them negative.
LEMMA WordFacts ==
  /\ I64_MIN \in Int /\ I64_MIN < -1 /\ WORD = -2 * I64_MIN
  /\ \A n \in Int : n \in Words <=> I64_MIN <= n /\ n < -I64_MIN
  /\ 0 \in Words /\ -1 \in Words
BY WordIsEven DEF I64_MIN, Words

LEMMA DivModInt ==
  ASSUME NEW a \in Int, NEW d \in Nat, d > 0
  PROVE  a % d \in 0..(d - 1) /\ a = d * (a \div d) + (a % d) /\ a \div d \in Int
OBVIOUS

\* A wrapped number is a word that differs by a multiple of the words.
LEMMA WrapFacts ==
  ASSUME NEW n \in Int
  PROVE  /\ Wrapped(n) \in Words
         /\ \E k \in Int : Wrapped(n) = n + k * WORD
<1> DEFINE m == n - I64_MIN
<1>1. m \in Int /\ WORD \in Nat /\ WORD > 0
  BY WordFacts
<1>2. m % WORD \in 0..(WORD - 1) /\ m = WORD * (m \div WORD) + (m % WORD) /\ m \div WORD \in Int
  <2> HIDE DEF m
  <2> QED
    BY <1>1, DivModInt
<1>3. Wrapped(n) = (m % WORD) + I64_MIN
  BY DEF Wrapped
<1> DEFINE q == m \div WORD
           r == m % WORD
<1> HIDE DEF q, r
<1>4. q \in Int /\ r \in 0..(WORD - 1) /\ n - I64_MIN = WORD * q + r
  BY <1>2 DEF q, r
<1>5. r + I64_MIN \in Words
  BY <1>4, WordFacts
<1>6. -q \in Int /\ r + I64_MIN = n + (-q) * WORD
  BY <1>4, WordFacts
<1> QED
  BY <1>3, <1>5, <1>6 DEF r

\* A multiple of a word that is less than a word is zero.
LEMMA Multiple ==
  ASSUME NEW k \in Int, -WORD < k * WORD, k * WORD < WORD
  PROVE  k = 0
<1>1. WORD \in Nat /\ WORD > 0
  BY WordFacts
<1>2. CASE k >= 1
  <2>1. k * WORD >= WORD
    BY <1>1, <1>2
  <2> QED
    BY <1>1, <2>1
<1>3. CASE k <= -1
  <2>1. (-k) * WORD >= WORD
    BY <1>1, <1>3
  <2>2. k * WORD = -((-k) * WORD) /\ (-k) * WORD \in Int
    BY <1>1
  <2> QED
    BY <1>1, <2>1, <2>2
<1> QED
  BY <1>2, <1>3

\* Wrapping a number keeps a word and moves a number that is at most half the
\* words too large, or too small, by all the words.
LEMMA WrapNear ==
  ASSUME NEW n \in Int, 2 * I64_MIN <= n, n <= -2 * I64_MIN
  PROVE  Wrapped(n) = IF n < I64_MIN THEN n + WORD
                      ELSE IF n >= -I64_MIN THEN n - WORD ELSE n
<1>1. PICK k \in Int : Wrapped(n) = n + k * WORD
  BY WrapFacts
<1>2. Wrapped(n) \in Int /\ I64_MIN <= Wrapped(n) /\ Wrapped(n) < -I64_MIN
  BY WrapFacts, WordFacts DEF Words
<1>3. WORD \in Nat /\ WORD > 0 /\ I64_MIN \in Int
  BY WordFacts
<1> DEFINE near(j) == n + j * WORD
<1>4. CASE n < I64_MIN
  <2>1. (k - 1) * WORD = k * WORD - WORD /\ k * WORD \in Int /\ k - 1 \in Int
    BY <1>3
  <2>2. -WORD < (k - 1) * WORD /\ (k - 1) * WORD < WORD
    BY <1>1, <1>2, <1>4, <2>1, WordFacts
  <2>3. k - 1 = 0
    BY <2>1, <2>2, Multiple
  <2> QED
    BY <1>1, <1>3, <1>4, <2>3
<1>5. CASE n >= -I64_MIN
  <2>1. (k + 1) * WORD = k * WORD + WORD /\ k * WORD \in Int /\ k + 1 \in Int
    BY <1>3
  <2>2. -WORD < (k + 1) * WORD /\ (k + 1) * WORD < WORD
    BY <1>1, <1>2, <1>5, <2>1, WordFacts
  <2>3. k + 1 = 0
    BY <2>1, <2>2, Multiple
  <2>4. k = -1
    BY <2>3
  <2> QED
    BY <1>1, <1>3, <1>5, <2>4, WordFacts
<1>6. CASE I64_MIN <= n /\ n < -I64_MIN
  <2>1. -WORD < k * WORD /\ k * WORD < WORD /\ k * WORD \in Int
    BY <1>1, <1>2, <1>3, <1>6, WordFacts
  <2>2. k = 0
    BY <2>1, Multiple
  <2> QED
    BY <1>1, <1>3, <1>6, <2>2
<1> QED
  BY <1>3, <1>4, <1>5, <1>6
-----------------------------------------------------------------------------
(* Quotients                                                               *)

LEMMA DivOfMultiple ==
  ASSUME NEW d \in Nat, d > 0, NEW q \in Nat
  PROVE  (d * q) \div d = q
OBVIOUS

\* A quotient by a number other than zero is an integer, and the remainder is
\* closer to zero than the divisor.
LEMMA QuotientFacts ==
  ASSUME NEW a \in Int, NEW b \in Int, b # 0
  PROVE  /\ Quotient(a, b) \in Int
         /\ -Magnitude(b) < a - b * Quotient(a, b)
         /\ a - b * Quotient(a, b) < Magnitude(b)
<1> DEFINE x == Magnitude(a)
           y == Magnitude(b)
           q == x \div y
           r == x % y
<1>1. x \in Nat /\ y \in Nat /\ y > 0 /\ (x = IF a < 0 THEN -a ELSE a) /\ (y = IF b < 0 THEN -b ELSE b)
  BY DEF Magnitude
<1>2. r \in 0..(y - 1) /\ x = y * q + r /\ q \in Int
  <2> HIDE DEF x, y
  <2>1. x \in Int /\ y \in Nat /\ y > 0
    BY <1>1
  <2>2. x % y \in 0..(y - 1) /\ x = y * (x \div y) + (x % y) /\ x \div y \in Int
    BY <2>1, DivModInt
  <2> QED
    BY <2>2
<1>3. Quotient(a, b) = IF (a < 0) = (b < 0) THEN q ELSE -q
  BY DEF Quotient
<1> HIDE DEF x, y, q, r
<1>4. \/ b * Quotient(a, b) = y * q /\ a >= 0
      \/ b * Quotient(a, b) = -(y * q) /\ a < 0
  <2>1. CASE a < 0 /\ b < 0
    BY <1>1, <1>2, <1>3, <2>1
  <2>2. CASE a < 0 /\ b >= 0
    BY <1>1, <1>2, <1>3, <2>2
  <2>3. CASE a >= 0 /\ b < 0
    BY <1>1, <1>2, <1>3, <2>3
  <2>4. CASE a >= 0 /\ b >= 0
    BY <1>1, <1>2, <1>3, <2>4
  <2> QED
    BY <2>1, <2>2, <2>3, <2>4
<1>5. y * q \in Int
  BY <1>1, <1>2
<1>6. Magnitude(b) = y
  BY DEF y
<1> QED
  BY <1>1, <1>2, <1>3, <1>4, <1>5, <1>6

\* A product divided by a factor gives the other one.
LEMMA QuotientOfProduct ==
  ASSUME NEW a \in Int, NEW b \in Int, a # 0
  PROVE  Quotient(a * b, a) = b
<1> DEFINE x == Magnitude(a)
           y == Magnitude(b)
<1>1. x \in Nat /\ y \in Nat /\ x > 0 /\ (x = IF a < 0 THEN -a ELSE a) /\ (y = IF b < 0 THEN -b ELSE b)
  BY DEF Magnitude
<1>2. a * b \in Int /\ Magnitude(a * b) = x * y
  <2>1. CASE b = 0
    BY <1>1, <2>1 DEF Magnitude
  <2>2. CASE a < 0 /\ b < 0
    <3>1. a * b = (-a) * (-b) /\ (-a) * (-b) > 0
      BY <2>2
    <3> QED
      BY <1>1, <2>2, <3>1 DEF Magnitude
  <2>3. CASE a < 0 /\ b > 0
    <3>1. a * b = -((-a) * b) /\ (-a) * b > 0
      BY <2>3
    <3> QED
      BY <1>1, <2>3, <3>1 DEF Magnitude
  <2>4. CASE a > 0 /\ b < 0
    <3>1. a * b = -(a * (-b)) /\ a * (-b) > 0
      BY <2>4
    <3> QED
      BY <1>1, <2>4, <3>1 DEF Magnitude
  <2>5. CASE a > 0 /\ b > 0
    <3>1. a * b > 0
      BY <2>5
    <3> QED
      BY <1>1, <2>5, <3>1 DEF Magnitude
  <2> QED
    BY <2>1, <2>2, <2>3, <2>4, <2>5
<1>3. (x * y) \div x = y
  <2> HIDE DEF x, y
  <2> QED
    BY <1>1, DivOfMultiple
<1>4. Quotient(a * b, a) = IF (a * b < 0) = (a < 0) THEN y ELSE -y
  BY <1>2, <1>3 DEF Quotient
<1>5. \/ b = 0
      \/ b > 0 /\ (a * b < 0) = (a < 0)
      \/ b < 0 /\ (a * b < 0) # (a < 0)
  <2>1. CASE a > 0 /\ b > 0
    BY <2>1
  <2>2. CASE a < 0 /\ b > 0
    BY <2>2
  <2>3. CASE a > 0 /\ b < 0
    BY <2>3
  <2>4. CASE a < 0 /\ b < 0
    BY <2>4
  <2> QED
    BY <2>1, <2>2, <2>3, <2>4
<1> QED
  BY <1>1, <1>4, <1>5

-----------------------------------------------------------------------------
(* The helpers                                                             *)

LEMMA AddExact ==
  ASSUME NEW a \in Words, NEW b \in Words
  PROVE  AddOvf(a, b) = Checked(a + b)
<1>1. a \in Int /\ b \in Int /\ I64_MIN <= a /\ a < -I64_MIN /\ I64_MIN <= b /\ b < -I64_MIN
  BY WordFacts DEF Words
<1>2. Wrapped(a + b) = IF a + b < I64_MIN THEN a + b + WORD
                       ELSE IF a + b >= -I64_MIN THEN a + b - WORD ELSE a + b
  BY <1>1, WrapNear, WordFacts
<1>3. a + b \in Words <=> I64_MIN <= a + b /\ a + b < -I64_MIN
  BY <1>1, WordFacts
<1> QED
  BY <1>1, <1>2, <1>3, WordFacts DEF AddOvf, Checked, SignsDiffer

LEMMA SubExact ==
  ASSUME NEW a \in Words, NEW b \in Words
  PROVE  SubOvf(a, b) = Checked(a - b)
<1>1. a \in Int /\ b \in Int /\ I64_MIN <= a /\ a < -I64_MIN /\ I64_MIN <= b /\ b < -I64_MIN
  BY WordFacts DEF Words
<1>2. Wrapped(a - b) = IF a - b < I64_MIN THEN a - b + WORD
                       ELSE IF a - b >= -I64_MIN THEN a - b - WORD ELSE a - b
  BY <1>1, WrapNear, WordFacts
<1>3. a - b \in Words <=> I64_MIN <= a - b /\ a - b < -I64_MIN
  BY <1>1, WordFacts
<1> QED
  BY <1>1, <1>2, <1>3, WordFacts DEF SubOvf, Checked, SignsDiffer

LEMMA NegExact ==
  ASSUME NEW a \in Words
  PROVE  NegOvf(a) = Checked(-a) /\ NegOvf(a) = Checked(0 - a)
<1>1. a \in Int /\ I64_MIN <= a /\ a < -I64_MIN
  BY WordFacts DEF Words
<1>2. 0 - a = -a /\ (-a \in Words <=> a # I64_MIN)
  BY <1>1, WordFacts
<1>3. a # I64_MIN => Wrapped(0 - a) = -a
  BY <1>1, WrapNear, WordFacts
<1> QED
  BY <1>2, <1>3 DEF NegOvf, Checked

LEMMA MulExact ==
  ASSUME NEW a \in Words, NEW b \in Words
  PROVE  MulOvf(a, b) = Checked(a * b)
<1>1. a \in Int /\ b \in Int /\ I64_MIN <= a /\ a < -I64_MIN /\ I64_MIN <= b /\ b < -I64_MIN
  BY WordFacts DEF Words
<1>2. CASE a = 0
  <2>1. a * b = 0
    BY <1>1, <1>2
  <2> QED
    BY <1>2, <2>1, WordFacts DEF MulOvf, Checked
<1>3. CASE a = -1
  <2>1. a * b = 0 - b
    BY <1>1, <1>3
  <2>2. MulOvf(a, b) = NegOvf(b)
    BY <1>3 DEF MulOvf, NegOvf
  <2> QED
    BY <2>1, <2>2, NegExact
<1>4. CASE a # 0 /\ a # -1
  <2> DEFINE p == a * b
             r == Wrapped(p)
  <2>1. p \in Int
    BY <1>1
  <2>2. MulOvf(a, b) = IF Quotient(r, a) = b THEN <<r>> ELSE <<>>
    BY <1>4 DEF MulOvf
  <2>3. r \in Words /\ r \in Int /\ \E k \in Int : r = p + k * WORD
    <3> HIDE DEF p
    <3>1. r \in Words /\ \E k \in Int : r = p + k * WORD
      BY <2>1, WrapFacts
    <3>2. r \in Int
      BY <3>1 DEF Words
    <3> QED
      BY <3>1, <3>2
  <2>4. CASE p \in Words
    <3>1. r = p
      <4>1. I64_MIN <= p /\ p < -I64_MIN
        BY <2>1, <2>4, WordFacts
      <4> HIDE DEF p
      <4> QED
        BY <2>1, <4>1, WrapNear, WordFacts
    <3>2. Quotient(r, a) = b
      BY <1>1, <1>4, <3>1, QuotientOfProduct
    <3> QED
      BY <2>2, <2>4, <3>1, <3>2 DEF Checked
  <2>5. CASE p \notin Words
    <3>1. SUFFICES ASSUME Quotient(r, a) = b PROVE FALSE
      BY <2>2, <2>5 DEF Checked
    <3>2. PICK k \in Int : r = p + k * WORD
      BY <2>3
    <3>3. -Magnitude(a) < r - p /\ r - p < Magnitude(a)
      <4> HIDE DEF r
      <4> QED
        BY <1>1, <1>4, <2>3, <3>1, QuotientFacts
    <3>4. Magnitude(a) \in Int /\ Magnitude(a) < WORD
      BY <1>1, WordFacts DEF Magnitude
    <3>5. r - p = k * WORD /\ k * WORD \in Int
      <4> HIDE DEF p, r
      <4>1. k * WORD \in Int
        BY WordFacts
      <4> QED
        BY <2>1, <2>3, <3>2, <4>1
    <3>6. k = 0
      <4> HIDE DEF p, r
      <4> QED
        BY <3>3, <3>4, <3>5, Multiple, WordFacts
    <3>7. r = p
      <4> HIDE DEF p, r
      <4> QED
        BY <2>1, <3>2, <3>6, WordFacts
    <3> QED
      BY <2>3, <2>5, <3>7
  <2> QED
    BY <2>4, <2>5
<1> QED
  BY <1>2, <1>3, <1>4

\* Every helper of WebAssembly fails exactly where Rust's checked operation
\* does and computes its result otherwise (emit_ovf_helper, int_op).
THEOREM HelpersExact ==
  \A a, b \in Words :
     /\ AddOvf(a, b) = Checked(a + b)
     /\ SubOvf(a, b) = Checked(a - b)
     /\ MulOvf(a, b) = Checked(a * b)
     /\ NegOvf(a) = Checked(-a)
BY AddExact, SubExact, MulExact, NegExact

\* A quotient of words is no word only if it is the least one divided by -1.
LEMMA QuotientIsWord ==
  ASSUME NEW a \in Words, NEW b \in Words, b # 0
  PROVE  Quotient(a, b) \in Words <=> ~(a = I64_MIN /\ b = -1)
<1> DEFINE q == Quotient(a, b)
<1>1. a \in Int /\ b \in Int /\ I64_MIN <= a /\ a < -I64_MIN /\ I64_MIN \in Int
  BY WordFacts DEF Words
<1>2. q \in Int /\ -Magnitude(b) < a - b * q /\ a - b * q < Magnitude(b)
  BY <1>1, QuotientFacts
<1> HIDE DEF q
<1>3. CASE b = 1 \/ b = -1
  <2>1. a - b * q = 0
    BY <1>1, <1>2, <1>3 DEF Magnitude
  <2>2. q = IF b = 1 THEN a ELSE -a
    BY <1>1, <1>2, <1>3, <2>1
  <2>3. q \in Words <=> I64_MIN <= q /\ q < -I64_MIN
    BY <1>2, WordFacts
  <2> QED
    BY <1>1, <1>3, <2>2, <2>3 DEF q
<1>4. CASE b # 1 /\ b # -1
  <2>1. CASE q = 0
    BY <1>4, <2>1, WordFacts DEF q
  <2> DEFINE m == Magnitude(b)
             n == Magnitude(q)
  <2>2. CASE q # 0
    <3>1. m \in Nat /\ n \in Nat /\ m >= 2 /\ n >= 1 /\ (m = IF b < 0 THEN -b ELSE b) /\ (n = IF q < 0 THEN -q ELSE q)
      BY <1>1, <1>2, <1>4, <2>2 DEF Magnitude
    <3>2. b * q = m * n \/ b * q = -(m * n)
      <4>1. CASE b < 0 /\ q < 0
        BY <1>1, <1>2, <3>1, <4>1
      <4>2. CASE b < 0 /\ q >= 0
        BY <1>1, <1>2, <3>1, <4>2
      <4>3. CASE b >= 0 /\ q < 0
        BY <1>1, <1>2, <3>1, <4>3
      <4>4. CASE b >= 0 /\ q >= 0
        BY <1>1, <1>2, <3>1, <4>4
      <4> QED
        BY <1>1, <1>2, <4>1, <4>2, <4>3, <4>4
    <3>3. m * n \in Nat /\ m * n - m = m * (n - 1) /\ m * (n - 1) >= 2 * (n - 1)
      BY <3>1
    <3>4. m * n - m < -I64_MIN
      <4> HIDE DEF m, n
      <4>1. -m < a - b * q /\ a - b * q < m
        BY <1>2 DEF m
      <4> QED
        BY <1>1, <3>1, <3>2, <3>3, <4>1
    <3>5. 2 * (n - 1) < -I64_MIN
      <4> HIDE DEF m, n
      <4> QED
        BY <1>1, <3>1, <3>3, <3>4
    <3>6. n < -I64_MIN
      <4> HIDE DEF m, n
      <4> QED
        BY <1>1, <3>1, <3>5, WordFacts
    <3>7. I64_MIN <= q /\ q < -I64_MIN
      BY <1>1, <1>2, <3>1, <3>6
    <3> QED
      BY <1>2, <1>4, <3>7, WordFacts DEF q
  <2> QED
    BY <2>1, <2>2
<1> QED
  BY <1>3, <1>4

\* Compiled arithmetic is the interpreter's, on all words: C's in every
\* operation, WebAssembly's in all but one remainder (int_op, emit_prim of both
\* backends).
THEOREM ArithmeticAgrees ==
  \A op \in ArithOps, a, b \in Words :
     /\ c_prim(op, a, b) = int_op(op, a, b)
     /\ ~(op = "mod" /\ a = I64_MIN /\ b = -1) => wasm_prim(op, a, b) = int_op(op, a, b)
<1> SUFFICES ASSUME NEW op \in ArithOps, NEW a \in Words, NEW b \in Words
             PROVE  /\ c_prim(op, a, b) = int_op(op, a, b)
                    /\ ~(op = "mod" /\ a = I64_MIN /\ b = -1) =>
                           wasm_prim(op, a, b) = int_op(op, a, b)
  OBVIOUS
<1>1. CASE op \in {"add", "sub", "mul", "neg"}
  BY <1>1, HelpersExact, NegExact DEF c_prim, wasm_prim, int_op
<1>2. CASE op \in {"div", "mod"}
  <2>1. CASE b = 0
    BY <1>2, <2>1 DEF c_prim, wasm_prim, int_op, DivisionFails, DivS, RemS
  <2>2. CASE b # 0
    <3>1. Checked(Quotient(a, b)) = IF a = I64_MIN /\ b = -1 THEN <<>> ELSE <<Quotient(a, b)>>
      BY <2>2, QuotientIsWord DEF Checked
    <3> QED
      BY <1>2, <2>2, <3>1 DEF c_prim, wasm_prim, int_op, DivisionFails, DivS, RemS
  <2> QED
    BY <2>1, <2>2
<1>3. CASE op \in {"lt", "le", "gt", "ge"}
  BY <1>3 DEF c_prim, wasm_prim, int_op
<1> QED
  BY <1>1, <1>2, <1>3 DEF ArithOps

-----------------------------------------------------------------------------
(* The allocator: blocks and free lists                                    *)

\* The layout of linear memory: its heap begins above address 0, which stands
\* for no block.
Layout ==
    /\ HEAP_BASE \in Nat \ {0} /\ MaxSlots \in Nat /\ HEAP_BASE <= MaxSlots + 1
    /\ {STR_MAX_CLASS, TENSOR_MAX_CLASS, MaxArity} \subseteq Nat

\* Heaps whose slots hold members of V.
Heaps(V) ==
    [mem : [HEAP_BASE..MaxSlots -> V], bump : HEAP_BASE..(MaxSlots + 1),
     fl : [FreeListClasses -> Nat], live : Nat, reuses : Nat]

\* A block is an address and a class.
Extent(b) == b[1]..(b[1] + CELL_HEADER + b[2] - 1)
Listed(h) == {b \in Nat \X FreeListClasses : b[1] \in FreeBlocks(h, b[2])}

Heap(mem, bump, fl, live, reuses) ==
    [mem |-> mem, bump |-> bump, fl |-> fl, live |-> live, reuses |-> reuses]

\* The links of the list of class n lead through s and then end.
Links(h, n, s) ==
    /\ s \in Seq(Nat \ {0})
    /\ h.fl[n] = IF s = <<>> THEN 0 ELSE s[1]
    /\ \A i \in 1..Len(s) : h.mem[s[i] + 1] = IF i = Len(s) THEN 0 ELSE s[i + 1]
    /\ \A i, j \in 1..Len(s) : s[i] = s[j] => i = j
Through(s) == {s[i] : i \in 1..Len(s)}

\* With these blocks in use: they are as many as the program counts, every free
\* list ends, no block in use is listed, and no block overlaps another one or
\* lies beyond the bump pointer.
Sound(h, blocks) ==
    LET all == blocks \cup Listed(h)
    IN  /\ Layout
        /\ \E V : h \in Heaps(V)
        /\ blocks \subseteq Nat \X FreeListClasses
        /\ IsFiniteSet(blocks) /\ h.live = Cardinality(blocks)
        /\ \A n \in FreeListClasses : \E s : Links(h, n, s)
        /\ blocks \cap Listed(h) = {}
        /\ \A b \in all : Extent(b) \subseteq HEAP_BASE..(h.bump - 1)
        /\ \A b, c \in all : b # c => Extent(b) \cap Extent(c) = {}

LEMMA HeapIs ==
  ASSUME NEW V, NEW h \in Heaps(V)
  PROVE  h = Heap(h.mem, h.bump, h.fl, h.live, h.reuses)
BY DEF Heaps, Heap

LEMMA HeapFl ==
  ASSUME NEW mem, NEW bump, NEW fl, NEW live, NEW reuses, NEW n, NEW x
  PROVE  [Heap(mem, bump, fl, live, reuses) EXCEPT !.fl[n] = x]
            = Heap(mem, bump, [fl EXCEPT ![n] = x], live, reuses)
BY DEF Heap

LEMMA Classes ==
  ASSUME Layout
  PROVE  FreeListClasses \subseteq Nat /\ 0 \in FreeListClasses
<1> DEFINE S == {STR_MAX_CLASS, TENSOR_MAX_CLASS, MaxArity}
           Most(m) == m \in S /\ \A k \in S : k <= m
<1>1. S \subseteq Nat
  BY DEF Layout
<1>2. \E m : Most(m)
  <2>1. CASE STR_MAX_CLASS >= TENSOR_MAX_CLASS /\ STR_MAX_CLASS >= MaxArity
    <3>1. Most(STR_MAX_CLASS)
      BY <1>1, <2>1
    <3>2. QED
      BY <3>1
  <2>2. CASE TENSOR_MAX_CLASS >= STR_MAX_CLASS /\ TENSOR_MAX_CLASS >= MaxArity
    <3>1. Most(TENSOR_MAX_CLASS)
      BY <1>1, <2>2
    <3>2. QED
      BY <3>1
  <2>3. CASE MaxArity >= STR_MAX_CLASS /\ MaxArity >= TENSOR_MAX_CLASS
    <3>1. Most(MaxArity)
      BY <1>1, <2>3
    <3>2. QED
      BY <3>1
  <2>4. QED
    BY <1>1, <2>1, <2>2, <2>3
<1>3. Most(CHOOSE m : Most(m))
  <2> HIDE DEF Most
  <2>1. QED
    BY <1>2
<1>4. FreeListClasses = 0..(CHOOSE m : Most(m))
  <2>1. (CHOOSE m : Most(m)) = CHOOSE m \in S : \A k \in S : k <= m
    OBVIOUS
  <2>2. QED
    BY <2>1 DEF FreeListClasses
<1>5. (CHOOSE m : Most(m)) \in Nat
  <2> HIDE DEF S
  <2>1. QED
    BY <1>1, <1>3
<1>6. QED
  <2> HIDE DEF Most
  <2>1. QED
    BY <1>4, <1>5

-----------------------------------------------------------------------------
(* A walk along the links meets the blocks of the list                     *)

\* After k steps the first k + 1 of them.
Met(s, k) == {s[i] : i \in {j \in 1..Len(s) : j <= k + 1}}

LEMMA MetNext ==
  ASSUME NEW h, NEW n, NEW s, Links(h, n, s), NEW k \in Nat, k # 0
  PROVE  Met(s, k) = Met(s, k - 1) \cup ({h.mem[p + 1] : p \in Met(s, k - 1)} \ {0})
<1> DEFINE m == Met(s, k - 1)
           next == {h.mem[p + 1] : p \in m} \ {0}
<1>0. /\ Len(s) \in Nat /\ \A i \in 1..Len(s) : s[i] \in Nat \ {0}
      /\ \A i \in 1..Len(s) : h.mem[s[i] + 1] = IF i = Len(s) THEN 0 ELSE s[i + 1]
  BY ElementOfSeq DEF Links
<1>1. ASSUME NEW x \in Met(s, k) PROVE x \in m \cup next
  <2>1. PICK i \in 1..Len(s) : x = s[i] /\ i <= k + 1
    BY DEF Met
  <2>2. CASE i <= k
    BY <2>1, <2>2 DEF Met
  <2>3. CASE i = k + 1
    <3>1. k \in 1..Len(s) /\ k # Len(s) /\ k <= (k - 1) + 1
      BY <1>0, <2>1, <2>3
    <3>2. s[k] \in m /\ h.mem[s[k] + 1] = s[k + 1]
      BY <1>0, <3>1 DEF Met
    <3>3. x # 0
      BY <1>0, <2>1
    <3>4. QED
      BY <2>1, <2>3, <3>2, <3>3
  <2>4. QED
    BY <1>0, <2>1, <2>2, <2>3
<1>2. m \subseteq Met(s, k)
  BY <1>0 DEF Met
<1>3. ASSUME NEW x \in next PROVE x \in Met(s, k)
  <2>1. PICK p \in m : x = h.mem[p + 1] /\ x # 0
    OBVIOUS
  <2>2. PICK i \in 1..Len(s) : p = s[i] /\ i <= (k - 1) + 1
    BY DEF Met
  <2>3. i # Len(s) /\ x = s[i + 1]
    BY <1>0, <2>1, <2>2
  <2>4. i + 1 \in 1..Len(s) /\ i + 1 <= k + 1
    BY <1>0, <2>2, <2>3
  <2>5. QED
    BY <2>3, <2>4 DEF Met
<1>4. QED
  BY <1>1, <1>2, <1>3

\* What the recursive function of FreeBlocks computes.
Walks(f, h, n) ==
    f = [k \in Nat |->
            IF k = 0 THEN {h.fl[n]} \ {0}
            ELSE LET met == f[k - 1] IN met \cup ({h.mem[p + 1] : p \in met} \ {0})]

LEMMA FreeBlocksIs ==
  ASSUME NEW h, NEW n
  PROVE  FreeBlocks(h, n) = (CHOOSE f : Walks(f, h, n))[h.bump]
BY DEF FreeBlocks, Walks

LEMMA WalkMeets ==
  ASSUME NEW h, NEW n, NEW s, Links(h, n, s), h.bump \in Nat
  PROVE  FreeBlocks(h, n) = Met(s, h.bump)
<1> DEFINE g == [k \in Nat |-> Met(s, k)]
           f == CHOOSE f : Walks(f, h, n)
<1>1. Met(s, 0) = {h.fl[n]} \ {0}
  <2>1. Len(s) \in Nat /\ \A i \in 1..Len(s) : s[i] \in Nat \ {0}
    BY ElementOfSeq DEF Links
  <2>2. CASE s = <<>>
    BY <2>2 DEF Met, Links
  <2>3. CASE s # <<>>
    <3>1. 1 \in 1..Len(s) /\ h.fl[n] = s[1] /\ s[1] # 0
      BY <2>1, <2>3, EmptySeq DEF Links
    <3>2. \A i \in 1..Len(s) : i <= 0 + 1 <=> i = 1
      BY <2>1
    <3>3. Met(s, 0) = {s[1]}
      BY <3>1, <3>2 DEF Met
    <3>4. QED
      BY <3>1, <3>3
  <2>4. QED
    BY <2>2, <2>3
<1>2. Walks(g, h, n)
  <2>1. ASSUME NEW k \in Nat
        PROVE  Met(s, k) = IF k = 0 THEN {h.fl[n]} \ {0}
                           ELSE g[k - 1] \cup ({h.mem[p + 1] : p \in g[k - 1]} \ {0})
    <3>1. CASE k = 0
      BY <1>1, <3>1
    <3>2. CASE k # 0
      <4>1. k - 1 \in Nat /\ g[k - 1] = Met(s, k - 1)
        BY <3>2
      <4> HIDE DEF g
      <4>2. QED
        BY <3>2, <4>1, MetNext
    <3>3. QED
      BY <3>1, <3>2
  <2>2. QED
    BY <2>1, Zenon DEF Walks
<1>3. Walks(f, h, n)
  BY <1>2, Zenon
<1> HIDE DEF f
<1> DEFINE S == {k \in Nat : f[k] = Met(s, k)}
<1>4. 0 \in S
  BY <1>1, <1>3 DEF Walks
<1>5. ASSUME NEW k \in Nat, k \in S PROVE k + 1 \in S
  <2>1. k + 1 \in Nat /\ k + 1 # 0 /\ (k + 1) - 1 = k
    OBVIOUS
  <2>2. f[k + 1] = f[k] \cup ({h.mem[p + 1] : p \in f[k]} \ {0})
    BY <1>3, <2>1 DEF Walks
  <2>3. f[k] = Met(s, k)
    BY <1>5
  <2>4. Met(s, k + 1) = Met(s, k) \cup ({h.mem[p + 1] : p \in Met(s, k)} \ {0})
    BY <2>1, MetNext
  <2>5. QED
    BY <2>1, <2>2, <2>3, <2>4
<1>6. h.bump \in S
  <2> HIDE DEF S
  <2>1. QED
    BY <1>4, <1>5, Induction
<1>7. QED
  BY <1>6, FreeBlocksIs DEF f

\* The list fits into the heap.
LEMMA Pigeons ==
  ASSUME NEW s \in Seq(Nat), NEW n \in Nat, NEW top \in Nat, n <= Len(s),
         \A i, j \in 1..Len(s) : s[i] = s[j] => i = j,
         \A i \in 1..n : s[i] \in 1..top
  PROVE  n <= top
<1>1. /\ IsFiniteSet(1..n) /\ Cardinality(1..n) = n
      /\ IsFiniteSet(1..top) /\ Cardinality(1..top) = top
  BY FS_Interval
<1> DEFINE f == [i \in 1..n |-> s[i]]
<1>2. f \in [1..n -> 1..top]
  OBVIOUS
<1>3. SUFFICES ASSUME n > top PROVE FALSE
  OBVIOUS
<1>4. \E i, j \in 1..n : i # j /\ f[i] = f[j]
  <2> HIDE DEF f
  <2>1. QED
    BY <1>1, <1>2, <1>3, FS_PigeonHole
<1>5. QED
  BY <1>4

LEMMA ListIs ==
  ASSUME NEW h, NEW n, NEW s, Links(h, n, s), h.bump \in Nat \ {0},
         \A p \in FreeBlocks(h, n) : p < h.bump
  PROVE  FreeBlocks(h, n) = Through(s)
<1>1. s \in Seq(Nat) /\ Len(s) \in Nat /\ \A i \in 1..Len(s) : s[i] \in Nat \ {0}
  BY ElementOfSeq DEF Links
<1>2. FreeBlocks(h, n) = Met(s, h.bump)
  BY WalkMeets
<1>3. Len(s) <= h.bump
  <2>1. SUFFICES ASSUME Len(s) > h.bump PROVE FALSE
    BY <1>1
  <2>2. \A i \in 1..h.bump : s[i] \in 1..(h.bump - 1)
    <3>1. \A i \in 1..h.bump : i \in 1..Len(s) /\ i <= h.bump + 1
      BY <1>1, <2>1
    <3>2. \A i \in 1..h.bump : s[i] \in Met(s, h.bump)
      BY <3>1 DEF Met
    <3>3. QED
      BY <1>1, <1>2, <3>1, <3>2
  <2>3. h.bump <= h.bump - 1
    <3>1. \A i, j \in 1..Len(s) : s[i] = s[j] => i = j
      BY DEF Links
    <3>2. h.bump \in Nat /\ h.bump - 1 \in Nat /\ h.bump <= Len(s)
      BY <2>1
    <3>3. QED
      BY <1>1, <2>2, <3>1, <3>2, Pigeons, ZenonT(30)
  <2>4. QED
    BY <2>3
<1>4. QED
  BY <1>1, <1>2, <1>3 DEF Met, Through

LEMMA ListOf ==
  ASSUME NEW h, NEW n, NEW s, Links(h, n, s), h.bump \in Nat \ {0},
         \A p \in Through(s) : p < h.bump
  PROVE  FreeBlocks(h, n) = Through(s)
<1>1. FreeBlocks(h, n) \subseteq Through(s)
  BY WalkMeets DEF Met, Through
<1>2. QED
  BY <1>1, ListIs

LEMMA SoundFacts ==
  ASSUME NEW h, NEW blocks, Sound(h, blocks)
  PROVE  /\ h.bump \in Nat \ {0} /\ HEAP_BASE <= h.bump /\ h.bump <= MaxSlots + 1
         /\ \A n \in FreeListClasses : \E s : Links(h, n, s) /\ FreeBlocks(h, n) = Through(s)
         /\ \A n \in FreeListClasses : \A p \in FreeBlocks(h, n) : <<p, n>> \in Listed(h)
<1>1. /\ HEAP_BASE \in Nat \ {0} /\ MaxSlots \in Nat
      /\ h.bump \in HEAP_BASE..(MaxSlots + 1)
  BY DEF Sound, Heaps, Layout
<1>2. h.bump \in Nat \ {0} /\ HEAP_BASE <= h.bump /\ h.bump <= MaxSlots + 1
  BY <1>1
<1>3. \A n \in FreeListClasses : \A p \in FreeBlocks(h, n) : <<p, n>> \in Listed(h)
  <2> SUFFICES ASSUME NEW n \in FreeListClasses, NEW p \in FreeBlocks(h, n) PROVE p \in Nat
    BY DEF Listed
  <2>1. PICK s : Links(h, n, s)
    BY DEF Sound
  <2>2. p \in Met(s, h.bump)
    BY <1>2, <2>1, WalkMeets
  <2>3. QED
    BY <2>1, <2>2, ElementOfSeq DEF Met, Links
<1>4. ASSUME NEW n \in FreeListClasses
      PROVE  \E s : Links(h, n, s) /\ FreeBlocks(h, n) = Through(s)
  <2>1. PICK s : Links(h, n, s)
    BY DEF Sound
  <2>2. ASSUME NEW p \in FreeBlocks(h, n) PROVE p < h.bump
    <3>1. <<p, n>> \in Listed(h)
      BY <1>3
    <3>2. p \in Nat /\ n \in Nat
      BY <3>1, Classes DEF Sound, Listed
    <3>3. Extent(<<p, n>>) \subseteq HEAP_BASE..(h.bump - 1)
      BY <3>1 DEF Sound
    <3>4. p \in Extent(<<p, n>>)
      BY <3>2 DEF Extent, CELL_HEADER
    <3>5. QED
      BY <1>1, <1>2, <3>2, <3>3, <3>4
  <2>3. QED
    BY <1>2, <2>1, <2>2, ListIs
<1>5. QED
  BY <1>2, <1>3, <1>4

\* Where a block lies: from its address on, with its link in its second slot.
LEMMA ExtentFacts ==
  ASSUME Layout, NEW p \in Nat, NEW n \in FreeListClasses
  PROVE  /\ n \in Nat /\ Extent(<<p, n>>) = p..(p + 1 + n)
         /\ p \in Extent(<<p, n>>) /\ p + 1 \in Extent(<<p, n>>)
<1>1. n \in Nat
  BY Classes
<1>2. QED
  BY <1>1 DEF Extent, CELL_HEADER

\* A heap is sound if the walks along its lists meet these blocks.
LEMMA SoundIf ==
  ASSUME Layout, NEW g, NEW V, g \in Heaps(V), NEW blocks, NEW free,
         blocks \subseteq Nat \X FreeListClasses, free \subseteq Nat \X FreeListClasses,
         IsFiniteSet(blocks), g.live = Cardinality(blocks), blocks \cap free = {},
         \A n \in FreeListClasses : \E s :
            Links(g, n, s) /\ \A p \in Nat : p \in Through(s) <=> <<p, n>> \in free,
         \A b \in blocks \cup free : Extent(b) \subseteq HEAP_BASE..(g.bump - 1),
         \A b, c \in blocks \cup free : b # c => Extent(b) \cap Extent(c) = {}
  PROVE  Sound(g, blocks) /\ Listed(g) = free
<1>1. HEAP_BASE \in Nat \ {0} /\ MaxSlots \in Nat /\ g.bump \in HEAP_BASE..(MaxSlots + 1)
  BY DEF Heaps, Layout
<1>2. g.bump \in Nat \ {0}
  BY <1>1
<1>3. ASSUME NEW n \in FreeListClasses
      PROVE  /\ \E s : Links(g, n, s)
             /\ \A p \in Nat : p \in FreeBlocks(g, n) <=> <<p, n>> \in free
  <2>1. PICK s : Links(g, n, s) /\ \A p \in Nat : p \in Through(s) <=> <<p, n>> \in free
    OBVIOUS
  <2>2. ASSUME NEW p \in Through(s) PROVE p < g.bump
    <3>1. p \in Nat
      BY <2>1, ElementOfSeq DEF Links, Through
    <3>2. Extent(<<p, n>>) \subseteq HEAP_BASE..(g.bump - 1)
      BY <2>1, <3>1
    <3>3. p \in HEAP_BASE..(g.bump - 1)
      BY <3>1, <3>2, ExtentFacts
    <3>4. QED
      BY <1>1, <1>2, <3>1, <3>3
  <2>3. FreeBlocks(g, n) = Through(s)
    BY <1>2, <2>1, <2>2, ListOf
  <2>4. QED
    BY <2>1, <2>3
<1>4. Listed(g) = free
  <2>1. \A b \in Nat \X FreeListClasses : b \in Listed(g) <=> b \in free
    <3> SUFFICES ASSUME NEW p \in Nat, NEW n \in FreeListClasses
                 PROVE  <<p, n>> \in Listed(g) <=> <<p, n>> \in free
      OBVIOUS
    <3>1. QED
      BY <1>3 DEF Listed
  <2>2. QED
    BY <2>1 DEF Listed
<1>5. QED
  BY <1>3, <1>4 DEF Sound

\* A list goes on through the same blocks if its links are not written to.
LEMMA LinksSame ==
  ASSUME NEW h, NEW blocks, Sound(h, blocks), NEW n \in FreeListClasses,
         NEW s, Links(h, n, s), FreeBlocks(h, n) = Through(s),
         NEW g, g.fl[n] = h.fl[n],
         \A p \in Nat : <<p, n>> \in Listed(h) => g.mem[p + 1] = h.mem[p + 1]
  PROVE  Links(g, n, s)
<1>1. ASSUME NEW i \in 1..Len(s) PROVE g.mem[s[i] + 1] = h.mem[s[i] + 1]
  <2>1. s[i] \in FreeBlocks(h, n) /\ s[i] \in Nat
    BY ElementOfSeq DEF Links, Through
  <2>2. <<s[i], n>> \in Listed(h)
    BY <2>1, SoundFacts
  <2>3. QED
    BY <2>1, <2>2
<1>2. QED
  BY <1>1 DEF Links

\* The link of a listed block lies below the bump pointer and in no other block.
LEMMA LinkPlace ==
  ASSUME NEW h, NEW blocks, Sound(h, blocks), NEW p \in Nat, NEW n \in FreeListClasses,
         <<p, n>> \in Listed(h)
  PROVE  /\ p + 1 \in HEAP_BASE..(h.bump - 1)
         /\ \A b \in blocks \cup Listed(h) : b # <<p, n>> => p + 1 \notin Extent(b)
<1>1. p + 1 \in Extent(<<p, n>>)
  BY ExtentFacts DEF Sound
<1>2. QED
  BY <1>1 DEF Sound

\* Steps that write into one block keep the links of the others.
LEMMA LinksKept ==
  ASSUME NEW h, NEW blocks, Sound(h, blocks), NEW b \in blocks \cup Listed(h),
         NEW n \in FreeListClasses, NEW s, Links(h, n, s), FreeBlocks(h, n) = Through(s),
         b \in blocks \/ b[2] # n,
         NEW g, g.fl[n] = h.fl[n],
         \A a \in HEAP_BASE..(h.bump - 1) : a \notin Extent(b) => g.mem[a] = h.mem[a]
  PROVE  Links(g, n, s)
<1>1. ASSUME NEW p \in Nat, <<p, n>> \in Listed(h) PROVE g.mem[p + 1] = h.mem[p + 1]
  <2>1. b # <<p, n>>
    BY <1>1 DEF Sound
  <2>2. QED
    BY <1>1, <2>1, LinkPlace
<1>2. QED
  BY <1>1, LinksSame

-----------------------------------------------------------------------------
(* The operations                                                          *)

\* What a step leaves as it is: the slots of every other block in use.
Leaves(h, g, blocks) ==
    \A b \in blocks : \A a \in Extent(b) : g.mem[a] = h.mem[a]

\* A heap without a block is sound: this is how a module starts.
THEOREM EmptyHeapSound ==
  ASSUME Layout
  PROVE  Sound(EmptyHeap, {})
<1> DEFINE V == Nat \cup {Stale}
<1>1. EmptyHeap \in Heaps(V)
  BY DEF EmptyHeap, Heaps, Layout
<1>2. EmptyHeap.live = 0 /\ \A n \in FreeListClasses : EmptyHeap.fl[n] = 0
  BY DEF EmptyHeap
<1>3. ASSUME NEW n \in FreeListClasses
      PROVE  Links(EmptyHeap, n, <<>>) /\ Through(<<>>) = {}
  BY <1>2 DEF Links, Through
<1>4. IsFiniteSet({}) /\ Cardinality({}) = 0
  BY FS_EmptySet
<1> HIDE DEF V
<1>5. \A n \in FreeListClasses : \E s :
         Links(EmptyHeap, n, s) /\ \A p \in Nat : p \in Through(s) <=> <<p, n>> \in {}
  BY <1>3
<1>6. /\ {} \subseteq Nat \X FreeListClasses /\ {} \cap {} = {}
      /\ \A b \in {} \cup {} : Extent(b) \subseteq HEAP_BASE..(EmptyHeap.bump - 1)
      /\ \A b, c \in {} \cup {} : b # c => Extent(b) \cap Extent(c) = {}
  OBVIOUS
<1>7. EmptyHeap.live = Cardinality({})
  BY <1>2, <1>4
<1>8. QED
  BY <1>1, <1>4, <1>5, <1>6, <1>7, SoundIf, ZenonT(30)

LEMMA AllocListed ==
  ASSUME NEW h, NEW blocks, Sound(h, blocks), NEW n \in FreeListClasses, h.fl[n] # 0
  PROVE  LET a == Alloc(h, n)
             b == <<a.p, n>>
         IN  /\ b \in Listed(h)
             /\ Sound(a.h, blocks \cup {b})
             /\ Leaves(h, a.h, blocks)
<1> DEFINE p == h.fl[n]
           b == <<p, n>>
           g == Alloc(h, n).h
           free == Listed(h) \ {b}
<1> HIDE DEF g
<1>1. PICK V : h \in Heaps(V)
  BY DEF Sound
<1>2. PICK s : Links(h, n, s) /\ FreeBlocks(h, n) = Through(s)
  BY SoundFacts
<1>3. /\ s \in Seq(Nat \ {0}) /\ s # <<>> /\ Len(s) \in Nat \ {0} /\ p = s[1] /\ p \in Nat
      /\ \A i \in 1..Len(s) : s[i] \in Nat \ {0}
      /\ h.mem[p + 1] = IF Len(s) = 1 THEN 0 ELSE s[2]
  <2>1. s \in Seq(Nat \ {0}) /\ s # <<>> /\ p = s[1]
    BY <1>2 DEF Links
  <2>2. Len(s) \in Nat \ {0} /\ \A i \in 1..Len(s) : s[i] \in Nat \ {0}
    BY <2>1, EmptySeq, ElementOfSeq
  <2>3. 1 \in 1..Len(s)
    BY <2>2
  <2>4. h.mem[s[1] + 1] = IF 1 = Len(s) THEN 0 ELSE s[1 + 1]
    BY <1>2, <2>3 DEF Links
  <2>5. QED
    BY <2>1, <2>2, <2>3, <2>4
<1>4. b \in Listed(h)
  <2>1. p \in Through(s)
    BY <1>3 DEF Through
  <2>2. QED
    BY <1>2, <2>1, SoundFacts
<1>5. Layout /\ Extent(b) \subseteq HEAP_BASE..(h.bump - 1)
  BY <1>4 DEF Sound
<1>6. /\ p \in HEAP_BASE..MaxSlots /\ h.mem[p + 1] \in Nat
      /\ p \in Extent(b)
  <2>1. p \in Extent(b)
    BY <1>3, <1>5, ExtentFacts
  <2>2. p \in HEAP_BASE..(h.bump - 1)
    BY <1>5, <2>1
  <2>3. h.bump \in Nat /\ h.bump <= MaxSlots + 1 /\ HEAP_BASE \in Nat /\ MaxSlots \in Nat
    BY <1>5, SoundFacts DEF Layout
  <2>4. h.mem[p + 1] \in Nat
    <3>1. Len(s) # 1 => 2 \in 1..Len(s)
      <4> DEFINE l == Len(s)
      <4>1. l \in Nat /\ l # 0
        BY <1>3
      <4> HIDE DEF l
      <4>2. l # 1 => 2 \in 1..l
        BY <4>1
      <4>3. QED
        BY <4>2 DEF l
    <3>2. Len(s) # 1 => s[2] \in Nat
      BY <1>3, <3>1
    <3>3. h.mem[p + 1] = IF Len(s) = 1 THEN 0 ELSE s[2]
      BY <1>3
    <3>4. QED
      BY <3>2, <3>3
  <2>5. QED
    BY <2>1, <2>2, <2>3, <2>4
<1>7. /\ Alloc(h, n).p = p
      /\ g = [mem |-> [h.mem EXCEPT ![p] = 1], bump |-> h.bump,
              fl |-> [h.fl EXCEPT ![n] = h.mem[p + 1]], live |-> h.live + 1, reuses |-> h.reuses]
  <2> DEFINE link == h.mem[p + 1]
             f == [h EXCEPT !.fl[n] = link]
  <2>1. Alloc(h, n) = [h |-> [f EXCEPT !.mem[p] = 1, !.live = @ + 1], p |-> p]
    BY DEF Alloc
  <2>2. h = Heap(h.mem, h.bump, h.fl, h.live, h.reuses)
    BY <1>1, HeapIs
  <2> HIDE DEF link, p
  <2>3. f = Heap(h.mem, h.bump, [h.fl EXCEPT ![n] = link], h.live, h.reuses)
    BY <2>2, HeapFl DEF f
  <2> HIDE DEF f
  <2>4. [f EXCEPT !.mem[p] = 1, !.live = @ + 1]
          = Heap([h.mem EXCEPT ![p] = 1], h.bump, [h.fl EXCEPT ![n] = link], h.live + 1, h.reuses)
    <3> DEFINE e == [f EXCEPT !.mem[p] = 1]
    <3>1. [f EXCEPT !.mem[p] = 1, !.live = @ + 1] = [e EXCEPT !.live = @ + 1]
      BY <2>3 DEF Heap
    <3>2. e = Heap([h.mem EXCEPT ![p] = 1], h.bump, [h.fl EXCEPT ![n] = link], h.live, h.reuses)
      BY <2>3 DEF Heap
    <3> HIDE DEF e
    <3>3. [e EXCEPT !.live = @ + 1]
            = Heap([h.mem EXCEPT ![p] = 1], h.bump, [h.fl EXCEPT ![n] = link], h.live + 1, h.reuses)
      BY <3>2 DEF Heap
    <3>4. QED
      BY <3>1, <3>3
  <2> DEFINE w == [f EXCEPT !.mem[p] = 1, !.live = @ + 1]
  <2> HIDE DEF w
  <2>5. Alloc(h, n) = [h |-> w, p |-> p]
    BY <2>1, Zenon DEF w
  <2>6. Alloc(h, n).p = p /\ g = w
    BY <2>5 DEF g
  <2>7. QED
    BY <2>4, <2>6, Zenon DEF Heap, link, w
<1>8. g \in Heaps(V \cup {1})
  BY <1>1, <1>6, <1>7 DEF Heaps
<1>9. /\ \A m \in FreeListClasses : g.fl[m] = IF m = n THEN h.mem[p + 1] ELSE h.fl[m]
      /\ \A a \in HEAP_BASE..(h.bump - 1) : g.mem[a] = IF a = p THEN 1 ELSE h.mem[a]
      /\ g.bump = h.bump /\ g.live = h.live + 1
  <2>1. /\ h.fl \in [FreeListClasses -> Nat] /\ h.mem \in [HEAP_BASE..MaxSlots -> V]
        /\ h.bump <= MaxSlots + 1 /\ h.bump \in Nat
        /\ HEAP_BASE \in Nat /\ MaxSlots \in Nat
    BY <1>1, <1>5, SoundFacts DEF Heaps, Layout
  <2>2. QED
    BY <1>7, <2>1
<1>10. ASSUME NEW m \in FreeListClasses
       PROVE  \E t : Links(g, m, t) /\ \A q \in Nat : q \in Through(t) <=> <<q, m>> \in free
  <2>1. CASE m = n
    <3> DEFINE t == Tail(s)
    <3>1. t \in Seq(Nat \ {0}) /\ Len(t) = Len(s) - 1 /\ \A i \in 1..Len(t) : t[i] = s[i + 1]
      BY <1>3
    <3> HIDE DEF t
    <3>2. g.fl[m] = IF t = <<>> THEN 0 ELSE t[1]
      <4>1. g.fl[m] = IF Len(s) = 1 THEN 0 ELSE s[2]
        BY <1>3, <1>9, <2>1
      <4>2. t = <<>> <=> Len(s) = 1
        BY <1>3, <3>1, EmptySeq
      <4>3. Len(s) # 1 => 1 \in 1..Len(t)
        BY <1>3, <3>1
      <4>4. Len(s) # 1 => t[1] = s[2]
        BY <3>1, <4>3
      <4>5. QED
        BY <4>1, <4>2, <4>4
    <3>3. ASSUME NEW i \in 1..Len(t)
          PROVE  /\ i + 1 \in 1..Len(s) /\ t[i] = s[i + 1] /\ t[i] \in Nat /\ t[i] # p
                 /\ g.mem[t[i] + 1] = h.mem[t[i] + 1]
      <4>1. i + 1 \in 1..Len(s) /\ 1 \in 1..Len(s) /\ i + 1 # 1
        BY <1>3, <3>1, SMTT(40)
      <4>2. t[i] = s[i + 1] /\ t[i] \in Nat /\ t[i] # p
        BY <1>2, <1>3, <3>1, <4>1 DEF Links
      <4>3. <<t[i], n>> \in Listed(h) /\ <<t[i], n>> # b
        BY <1>2, <4>1, <4>2, SoundFacts DEF Through
      <4>4. t[i] + 1 \in Extent(<<t[i], n>>)
        BY <1>5, <4>2, ExtentFacts
      <4>5. t[i] + 1 \notin Extent(b) /\ t[i] + 1 \in HEAP_BASE..(h.bump - 1)
        BY <1>4, <4>3, <4>4 DEF Sound
      <4>6. QED
        BY <1>6, <1>9, <4>1, <4>2, <4>5
    <3>4. ASSUME NEW i \in 1..Len(t)
          PROVE  g.mem[t[i] + 1] = IF i = Len(t) THEN 0 ELSE t[i + 1]
      <4>1. h.mem[s[i + 1] + 1] = IF i + 1 = Len(s) THEN 0 ELSE s[(i + 1) + 1]
        BY <1>2, <3>3 DEF Links
      <4>2. i # Len(t) => i + 1 \in 1..Len(t)
        BY <1>3, <3>1
      <4>3. i # Len(t) => t[i + 1] = s[(i + 1) + 1]
        BY <3>1, <4>2
      <4>4. i = Len(t) <=> i + 1 = Len(s)
        BY <1>3, <3>1
      <4>5. g.mem[t[i] + 1] = h.mem[s[i + 1] + 1]
        BY <3>3
      <4>6. QED
        BY <4>1, <4>3, <4>4, <4>5
    <3>5. ASSUME NEW i \in 1..Len(t), NEW j \in 1..Len(t), t[i] = t[j] PROVE i = j
      <4>1. i + 1 = j + 1
        BY <1>2, <3>3, <3>5 DEF Links
      <4>2. QED
        BY <1>3, <3>1, <4>1
    <3>6. Links(g, m, t)
      BY <3>1, <3>2, <3>4, <3>5 DEF Links
    <3>7. ASSUME NEW q \in Nat PROVE q \in Through(t) <=> <<q, m>> \in free
      <4>1. q \in Through(t) <=> q \in Through(s) /\ q # p
        <5>1. ASSUME q \in Through(t) PROVE q \in Through(s) /\ q # p
          BY <3>3, <5>1 DEF Through
        <5>2. ASSUME q \in Through(s), q # p PROVE q \in Through(t)
          <6>1. PICK i \in 1..Len(s) : q = s[i]
            BY <5>2 DEF Through
          <6>2. i # 1
            BY <1>3, <5>2, <6>1
          <6>3. i - 1 \in 1..Len(t) /\ (i - 1) + 1 = i
            BY <1>3, <3>1, <6>2
          <6>4. t[i - 1] = q
            BY <3>3, <6>1, <6>3
          <6>5. QED
            BY <6>3, <6>4 DEF Through
        <5>3. QED
          BY <5>1, <5>2
      <4>2. q \in Through(s) <=> <<q, n>> \in Listed(h)
        BY <1>2 DEF Listed
      <4>3. QED
        BY <2>1, <4>1, <4>2
    <3>8. QED
      BY <3>6, <3>7
  <2>2. CASE m # n
    <3>1. PICK t : Links(h, m, t) /\ FreeBlocks(h, m) = Through(t)
      BY SoundFacts
    <3>2. \A a \in HEAP_BASE..(h.bump - 1) : a \notin Extent(b) => g.mem[a] = h.mem[a]
      BY <1>6, <1>9
    <3>3. g.fl[m] = h.fl[m] /\ b[2] # m
      BY <1>9, <2>2
    <3>4. Links(g, m, t)
      BY <1>4, <3>1, <3>2, <3>3, LinksKept
    <3>5. \A q \in Nat : q \in Through(t) <=> <<q, m>> \in free
      BY <2>2, <3>1 DEF Listed
    <3>6. QED
      BY <3>4, <3>5
  <2>3. QED
    BY <2>1, <2>2
<1>11. /\ IsFiniteSet(blocks \cup {b}) /\ g.live = Cardinality(blocks \cup {b})
       /\ blocks \cup {b} \subseteq Nat \X FreeListClasses /\ free \subseteq Nat \X FreeListClasses
       /\ (blocks \cup {b}) \cap free = {} /\ (blocks \cup {b}) \cup free = blocks \cup Listed(h)
  <2>1. /\ IsFiniteSet(blocks) /\ h.live = Cardinality(blocks) /\ b \notin blocks
        /\ blocks \subseteq Nat \X FreeListClasses /\ blocks \cap Listed(h) = {}
    BY <1>4 DEF Sound
  <2>2. IsFiniteSet(blocks \cup {b}) /\ g.live = Cardinality(blocks \cup {b})
    BY <1>9, <2>1, FS_AddElement, SMTT(40)
  <2>3. QED
    BY <1>3, <1>4, <2>1, <2>2 DEF Listed
<1>12. /\ \A c \in blocks \cup Listed(h) : Extent(c) \subseteq HEAP_BASE..(g.bump - 1)
       /\ \A c, d \in blocks \cup Listed(h) : c # d => Extent(c) \cap Extent(d) = {}
  BY <1>9 DEF Sound
<1>13. Sound(g, blocks \cup {b})
  <2> HIDE DEF b, free
  <2>1. QED
    BY <1>5, <1>8, <1>10, <1>11, <1>12, SoundIf
<1>14. Leaves(h, g, blocks)
  <2> SUFFICES ASSUME NEW c \in blocks, NEW a \in Extent(c) PROVE g.mem[a] = h.mem[a]
    BY DEF Leaves
  <2>1. c # b /\ a \in HEAP_BASE..(h.bump - 1) /\ a \notin Extent(b)
    BY <1>4 DEF Sound
  <2>2. QED
    BY <1>6, <1>9, <2>1
<1>15. QED
  BY <1>4, <1>7, <1>13, <1>14 DEF g

LEMMA AllocBumps ==
  ASSUME NEW h, NEW blocks, Sound(h, blocks), NEW n \in FreeListClasses, h.fl[n] = 0,
         h.bump + CELL_HEADER + n <= MaxSlots + 1
  PROVE  LET a == Alloc(h, n)
             b == <<a.p, n>>
         IN  /\ b \notin blocks /\ \A c \in blocks : Extent(b) \cap Extent(c) = {}
             /\ Sound(a.h, blocks \cup {b})
             /\ Leaves(h, a.h, blocks)
<1> DEFINE p == h.bump
           b == <<p, n>>
           g == Alloc(h, n).h
           free == Listed(h)
           all == blocks \cup free
<1> HIDE DEF g
<1>1. PICK V : h \in Heaps(V)
  BY DEF Sound
<1>2. /\ Layout /\ n \in Nat /\ p \in Nat \ {0} /\ HEAP_BASE \in Nat \ {0} /\ MaxSlots \in Nat
      /\ HEAP_BASE <= p /\ p + 2 + n <= MaxSlots + 1 /\ p \in HEAP_BASE..MaxSlots
  <2>1. Layout /\ n \in Nat
    BY Classes DEF Sound
  <2>2. p \in Nat \ {0} /\ HEAP_BASE \in Nat \ {0} /\ MaxSlots \in Nat /\ HEAP_BASE <= p
    BY <2>1, SoundFacts DEF Layout
  <2>3. p + 2 + n <= MaxSlots + 1
    BY DEF CELL_HEADER
  <2>4. QED
    BY <2>1, <2>2, <2>3
<1>3. /\ Alloc(h, n).p = p
      /\ g = Heap([h.mem EXCEPT ![p] = 1], p + 2 + n, h.fl, h.live + 1, h.reuses)
  <2> DEFINE f == [h EXCEPT !.bump = @ + CELL_HEADER + n]
             w == [f EXCEPT !.mem[p] = 1, !.live = @ + 1]
  <2> HIDE DEF w
  <2>1. Alloc(h, n) = [h |-> w, p |-> p]
    BY Zenon DEF Alloc, w
  <2>2. h = Heap(h.mem, h.bump, h.fl, h.live, h.reuses)
    BY <1>1, HeapIs
  <2>3. f = Heap(h.mem, p + 2 + n, h.fl, h.live, h.reuses)
    BY <2>2 DEF Heap, CELL_HEADER
  <2> HIDE DEF f, p
  <2>4. w = Heap([h.mem EXCEPT ![p] = 1], p + 2 + n, h.fl, h.live + 1, h.reuses)
    <3> DEFINE e == [f EXCEPT !.mem[p] = 1]
    <3>1. w = [e EXCEPT !.live = @ + 1]
      BY <2>3 DEF Heap, w
    <3>2. e = Heap([h.mem EXCEPT ![p] = 1], p + 2 + n, h.fl, h.live, h.reuses)
      BY <2>3 DEF Heap
    <3> HIDE DEF e
    <3>3. [e EXCEPT !.live = @ + 1] = Heap([h.mem EXCEPT ![p] = 1], p + 2 + n, h.fl, h.live + 1, h.reuses)
      BY <3>2 DEF Heap
    <3>4. QED
      BY <3>1, <3>3
  <2>5. Alloc(h, n).p = p /\ g = w
    BY <2>1 DEF g
  <2>6. QED
    BY <2>4, <2>5, Zenon
<1>4. g \in Heaps(V \cup {1})
  BY <1>1, <1>2, <1>3, SMTT(40) DEF Heaps, Heap
<1>5. /\ g.fl = h.fl /\ g.bump = p + 2 + n /\ g.live = h.live + 1
      /\ \A a \in HEAP_BASE..(p - 1) : g.mem[a] = h.mem[a]
  <2>1. h.mem \in [HEAP_BASE..MaxSlots -> V]
    BY <1>1 DEF Heaps
  <2>2. QED
    BY <1>2, <1>3, <2>1 DEF Heap
<1>6. ASSUME NEW m \in FreeListClasses
      PROVE  \E t : Links(g, m, t) /\ \A q \in Nat : q \in Through(t) <=> <<q, m>> \in free
  <2>1. PICK t : Links(h, m, t) /\ FreeBlocks(h, m) = Through(t)
    BY SoundFacts
  <2>2. \A q \in Nat : <<q, m>> \in Listed(h) => g.mem[q + 1] = h.mem[q + 1]
    BY <1>5, LinkPlace
  <2>3. Links(g, m, t)
    BY <1>5, <2>1, <2>2, LinksSame
  <2>4. \A q \in Nat : q \in Through(t) <=> <<q, m>> \in free
    BY <2>1 DEF Listed
  <2>5. QED
    BY <2>3, <2>4
<1>7. Extent(b) = p..(p + 1 + n)
  BY <1>2, ExtentFacts
<1>8. \A c \in all : Extent(c) \subseteq HEAP_BASE..(p - 1) /\ Extent(b) \cap Extent(c) = {}
  <2>1. \A c \in all : Extent(c) \subseteq HEAP_BASE..(p - 1)
    BY DEF Sound
  <2>2. \A x \in Extent(b) : x \notin HEAP_BASE..(p - 1)
    BY <1>2, <1>7
  <2>3. QED
    BY <2>1, <2>2
<1>9. b \notin all
  <2>1. p \in Extent(b)
    BY <1>2, <1>7
  <2>2. QED
    BY <1>8, <2>1
<1>10. /\ IsFiniteSet(blocks \cup {b}) /\ g.live = Cardinality(blocks \cup {b})
       /\ blocks \cup {b} \subseteq Nat \X FreeListClasses /\ free \subseteq Nat \X FreeListClasses
       /\ (blocks \cup {b}) \cap free = {}
  <2>1. /\ IsFiniteSet(blocks) /\ h.live = Cardinality(blocks)
        /\ blocks \subseteq Nat \X FreeListClasses /\ blocks \cap Listed(h) = {}
    BY DEF Sound
  <2>2. IsFiniteSet(blocks \cup {b}) /\ g.live = Cardinality(blocks \cup {b})
    BY <1>5, <1>9, <2>1, FS_AddElement, SMTT(40)
  <2>3. QED
    BY <1>2, <1>9, <2>1, <2>2 DEF Listed
<1>11. ASSUME NEW c \in (blocks \cup {b}) \cup free
       PROVE  Extent(c) \subseteq HEAP_BASE..(g.bump - 1)
  <2>1. HEAP_BASE..(p - 1) \subseteq HEAP_BASE..(g.bump - 1)
    BY <1>2, <1>5
  <2>2. Extent(b) \subseteq HEAP_BASE..(g.bump - 1)
    BY <1>2, <1>5, <1>7
  <2>3. CASE c = b
    BY <2>2, <2>3
  <2>4. CASE c \in all
    BY <1>8, <2>1, <2>4
  <2>5. QED
    BY <2>3, <2>4
<1>12. ASSUME NEW c \in (blocks \cup {b}) \cup free, NEW d \in (blocks \cup {b}) \cup free, c # d
       PROVE  Extent(c) \cap Extent(d) = {}
  <2>1. CASE c \in all /\ d \in all
    BY <1>12, <2>1 DEF Sound
  <2>2. CASE c = b /\ d \in all
    BY <1>8, <2>2
  <2>3. CASE c \in all /\ d = b
    BY <1>8, <2>3
  <2>4. QED
    BY <1>12, <2>1, <2>2, <2>3
<1>13. Sound(g, blocks \cup {b})
  <2> HIDE DEF b, free
  <2>1. QED
    BY <1>2, <1>4, <1>6, <1>10, <1>11, <1>12, SoundIf
<1>14. Leaves(h, g, blocks)
  BY <1>5, <1>8 DEF Leaves
<1>15. QED
  BY <1>3, <1>8, <1>9, <1>13, <1>14 DEF g

\* Alloc gives a block that is not in use and overlaps none that is, leaves
\* what those hold, and keeps the heap sound, as long as the memory lasts.
THEOREM AllocSound ==
  ASSUME NEW h, NEW blocks, Sound(h, blocks), NEW n \in FreeListClasses,
         h.fl[n] # 0 \/ h.bump + CELL_HEADER + n <= MaxSlots + 1
  PROVE  LET a == Alloc(h, n)
             b == <<a.p, n>>
         IN  /\ b \notin blocks /\ \A c \in blocks : Extent(b) \cap Extent(c) = {}
             /\ Sound(a.h, blocks \cup {b})
             /\ Leaves(h, a.h, blocks)
<1> DEFINE b == <<Alloc(h, n).p, n>>
<1>1. CASE h.fl[n] # 0
  <2>1. b \in Listed(h) /\ Sound(Alloc(h, n).h, blocks \cup {b}) /\ Leaves(h, Alloc(h, n).h, blocks)
    BY <1>1, AllocListed
  <2> HIDE DEF b
  <2>2. b \notin blocks /\ \A c \in blocks : Extent(b) \cap Extent(c) = {}
    BY <2>1 DEF Sound
  <2>3. QED
    BY <2>1, <2>2 DEF b
<1>2. CASE h.fl[n] = 0
  BY <1>2, AllocBumps
<1>3. QED
  BY <1>1, <1>2

\* c is b behind a.
IsJoin(c, a, b) ==
    /\ Len(c) = Len(a) + Len(b)
    /\ \A i \in 1..Len(a) : c[i] = a[i]
    /\ \A i \in 1..Len(b) : c[Len(a) + i] = b[i]

LEMMA Joined ==
  ASSUME NEW S, NEW a \in Seq(S), NEW b \in Seq(S)
  PROVE  a \o b \in Seq(S) /\ IsJoin(a \o b, a, b)
<1>1. /\ a \o b \in Seq(S) /\ Len(a \o b) = Len(a) + Len(b)
      /\ \A i \in 1..(Len(a) + Len(b)) : (a \o b)[i] = IF i <= Len(a) THEN a[i] ELSE b[i - Len(a)]
  BY ConcatProperties
<1>2. Len(a) \in Nat /\ Len(b) \in Nat
  OBVIOUS
<1> DEFINE m == Len(a)
           n == Len(b)
<1>3. \A i \in 1..m : i \in 1..(m + n) /\ i <= m
  BY <1>2
<1>4. \A i \in 1..n : m + i \in 1..(m + n) /\ ~(m + i <= m) /\ (m + i) - m = i
  BY <1>2
<1>5. QED
  BY <1>1, <1>3, <1>4 DEF IsJoin

\* What Write does to the slots of a heap, and to nothing else.
Written(g, h, q, ws) ==
    /\ g = Heap(g.mem, h.bump, h.fl, h.live, h.reuses)
    /\ \A a \in HEAP_BASE..MaxSlots :
          g.mem[a] = IF a \in q..(q + Len(ws) - 1) THEN ws[a - q + 1] ELSE h.mem[a]

LEMMA WriteIs ==
  ASSUME Layout, NEW V, NEW h \in Heaps(V), NEW q \in Nat, NEW W, NEW ws \in Seq(W)
  PROVE  Write(h, q, ws) \in Heaps(V \cup W) /\ Written(Write(h, q, ws), h, q, ws)
<1> DEFINE mem == [a \in DOMAIN h.mem |->
                      IF a \in q..(q + Len(ws) - 1) THEN ws[a - q + 1] ELSE h.mem[a]]
<1>1. h.mem \in [HEAP_BASE..MaxSlots -> V] /\ HEAP_BASE \in Nat /\ MaxSlots \in Nat
  BY DEF Heaps, Layout
<1>2. mem \in [HEAP_BASE..MaxSlots -> V \cup W]
  <2>1. ASSUME NEW a \in HEAP_BASE..MaxSlots, a \in q..(q + Len(ws) - 1) PROVE ws[a - q + 1] \in W
    <3>1. a - q + 1 \in 1..Len(ws)
      BY <1>1, <2>1
    <3>2. QED
      BY <3>1, ElementOfSeq
  <2>2. QED
    BY <1>1, <2>1
<1>3. Write(h, q, ws) = [h EXCEPT !.mem = mem]
  BY DEF Write
<1>4. \A a \in HEAP_BASE..MaxSlots :
         mem[a] = IF a \in q..(q + Len(ws) - 1) THEN ws[a - q + 1] ELSE h.mem[a]
  BY <1>1
<1> HIDE DEF mem
<1>5. Write(h, q, ws) = Heap(mem, h.bump, h.fl, h.live, h.reuses)
  BY <1>3, HeapIs DEF Heap
<1>6. Write(h, q, ws) \in Heaps(V \cup W)
  BY <1>2, <1>5 DEF Heap, Heaps
<1>7. Write(h, q, ws).mem = mem
  BY <1>5 DEF Heap
<1>8. QED
  BY <1>4, <1>5, <1>6, <1>7 DEF Written

\* Writing into a block in use keeps the heap sound, and what the others hold.
THEOREM WriteSound ==
  ASSUME NEW h, NEW blocks, Sound(h, blocks), NEW b \in blocks,
         NEW q \in Nat, NEW W, NEW ws \in Seq(W), q..(q + Len(ws) - 1) \subseteq Extent(b)
  PROVE  LET g == Write(h, q, ws)
         IN  Sound(g, blocks) /\ Leaves(h, g, blocks \ {b})
<1> DEFINE g == Write(h, q, ws)
           free == Listed(h)
<1>1. PICK V : h \in Heaps(V)
  BY DEF Sound
<1>2. /\ Layout /\ HEAP_BASE \in Nat /\ MaxSlots \in Nat /\ h.bump \in Nat
      /\ h.bump <= MaxSlots + 1
  BY SoundFacts DEF Sound, Layout
<1>0. g \in Heaps(V \cup W) /\ Written(g, h, q, ws)
  BY <1>1, <1>2, WriteIs
<1> HIDE DEF g
<1>3. /\ g \in Heaps(V \cup W) /\ g = Heap(g.mem, h.bump, h.fl, h.live, h.reuses)
      /\ \A a \in HEAP_BASE..MaxSlots :
            g.mem[a] = IF a \in q..(q + Len(ws) - 1) THEN ws[a - q + 1] ELSE h.mem[a]
  BY <1>0 DEF Written
<1>4. g.bump = h.bump /\ g.fl = h.fl /\ g.live = h.live
  BY <1>3 DEF Heap
<1>5. \A a \in HEAP_BASE..(h.bump - 1) : a \notin Extent(b) => g.mem[a] = h.mem[a]
  BY <1>2, <1>3
<1>6. ASSUME NEW n \in FreeListClasses
      PROVE  \E s : Links(g, n, s) /\ \A p \in Nat : p \in Through(s) <=> <<p, n>> \in free
  <2>1. PICK s : Links(h, n, s) /\ FreeBlocks(h, n) = Through(s)
    BY SoundFacts
  <2>2. Links(g, n, s)
    BY <1>4, <1>5, <2>1, LinksKept
  <2>3. \A p \in Nat : p \in Through(s) <=> <<p, n>> \in free
    BY <2>1 DEF Listed
  <2>4. QED
    BY <2>2, <2>3
<1>7. /\ IsFiniteSet(blocks) /\ g.live = Cardinality(blocks) /\ blocks \cap free = {}
      /\ blocks \subseteq Nat \X FreeListClasses
      /\ \A c \in blocks \cup free : Extent(c) \subseteq HEAP_BASE..(g.bump - 1)
      /\ \A c, d \in blocks \cup free : c # d => Extent(c) \cap Extent(d) = {}
  BY <1>4 DEF Sound
<1>8. free \subseteq Nat \X FreeListClasses
  BY DEF Listed
<1>9. Sound(g, blocks)
  <2> HIDE DEF free
  <2>1. QED
    BY <1>2, <1>3, <1>6, <1>7, <1>8, SoundIf
<1>10. Leaves(h, g, blocks \ {b})
  <2> SUFFICES ASSUME NEW c \in blocks \ {b}, NEW a \in Extent(c) PROVE g.mem[a] = h.mem[a]
    BY DEF Leaves
  <2>1. a \in HEAP_BASE..(h.bump - 1) /\ a \notin Extent(b)
    BY DEF Sound
  <2>2. QED
    BY <1>5, <2>1
<1>11. QED
  BY <1>9, <1>10 DEF g

\* Free puts a block in use at the head of the list of its class.
Freed(g, h, p, n) ==
    /\ g = Heap(g.mem, h.bump, [h.fl EXCEPT ![n] = p], h.live - 1, h.reuses)
    /\ p + 1 \in HEAP_BASE..MaxSlots => g.mem[p + 1] = h.fl[n]
    /\ \A a \in HEAP_BASE..MaxSlots : a \notin Extent(<<p, n>>) => g.mem[a] = h.mem[a]

LEMMA FreeIs ==
  ASSUME Layout, NEW V, NEW h \in Heaps(V), NEW p \in Nat, NEW n \in FreeListClasses
  PROVE  /\ Free(h, p, n).mem \in [HEAP_BASE..MaxSlots -> V \cup (Nat \cup {Stale})]
         /\ Freed(Free(h, p, n), h, p, n)
<1> DEFINE g == Free(h, p, n)
           W == Nat \cup {Stale}
           ws == <<Stale, h.fl[n]>> \o [i \in 1..n |-> Stale]
           w == Write(h, p, ws)
<1>1. n \in Nat /\ h.fl \in [FreeListClasses -> Nat] /\ h.fl[n] \in Nat
  BY Classes DEF Heaps
<1>2. ws \in Seq(W) /\ Len(ws) = n + 2 /\ ws[2] = h.fl[n]
  <2> DEFINE rest == [i \in 1..n |-> Stale]
             two == <<Stale, h.fl[n]>>
  <2>1. rest \in Seq(W) /\ Len(rest) = n
    BY <1>1, SeqDef, LenProperties DEF W
  <2>2. two \in Seq(W) /\ Len(two) = 2 /\ two[2] = h.fl[n]
    BY <1>1
  <2> HIDE DEF rest, two, W
  <2>3. ws = two \o rest
    BY DEF rest, two
  <2> HIDE DEF ws
  <2>4. /\ ws \in Seq(W) /\ Len(ws) = Len(two) + Len(rest)
        /\ \A i \in 1..Len(two) : ws[i] = two[i]
    BY <2>1, <2>2, <2>3, Joined DEF IsJoin
  <2>5. 2 \in 1..Len(two)
    BY <2>2
  <2>6. QED
    BY <1>1, <2>1, <2>2, <2>4, <2>5
<1>3. g = [w EXCEPT !.fl[n] = p, !.live = @ - 1]
  BY DEF Free
<1> HIDE DEF W, ws, g
<1>0. w \in Heaps(V \cup W) /\ Written(w, h, p, ws)
  BY <1>2, WriteIs
<1> HIDE DEF w
<1>4. /\ w \in Heaps(V \cup W) /\ w = Heap(w.mem, h.bump, h.fl, h.live, h.reuses)
      /\ \A a \in HEAP_BASE..MaxSlots :
            w.mem[a] = IF a \in p..(p + Len(ws) - 1) THEN ws[a - p + 1] ELSE h.mem[a]
  BY <1>0 DEF Written
<1>5. g = Heap(w.mem, h.bump, [h.fl EXCEPT ![n] = p], h.live - 1, h.reuses)
  <2> DEFINE e == [w EXCEPT !.fl[n] = p]
  <2>1. g = [e EXCEPT !.live = @ - 1]
    BY <1>3, <1>4 DEF Heap
  <2>2. e = Heap(w.mem, h.bump, [h.fl EXCEPT ![n] = p], h.live, h.reuses)
    BY <1>4 DEF Heap
  <2> HIDE DEF e
  <2>3. [e EXCEPT !.live = @ - 1] = Heap(w.mem, h.bump, [h.fl EXCEPT ![n] = p], h.live - 1, h.reuses)
    BY <2>2 DEF Heap
  <2>4. QED
    BY <2>1, <2>3
<1>6. g.mem = w.mem
  BY <1>5 DEF Heap
<1>7. w.mem \in [HEAP_BASE..MaxSlots -> V \cup W]
  BY <1>4 DEF Heaps
<1>8. p + 1 \in HEAP_BASE..MaxSlots => w.mem[p + 1] = h.fl[n]
  <2>1. p + 1 \in p..(p + Len(ws) - 1)
    BY <1>1, <1>2
  <2>2. p + 1 \in HEAP_BASE..MaxSlots => w.mem[p + 1] = ws[(p + 1) - p + 1]
    BY <1>4, <2>1
  <2>3. (p + 1) - p + 1 = 2
    OBVIOUS
  <2>4. QED
    BY <1>2, <2>2, <2>3
<1>9. \A a \in HEAP_BASE..MaxSlots : a \notin Extent(<<p, n>>) => w.mem[a] = h.mem[a]
  <2>1. p..(p + Len(ws) - 1) = Extent(<<p, n>>)
    BY <1>1, <1>2, ExtentFacts
  <2>2. QED
    BY <1>4, <2>1
<1>10. QED
  BY <1>5, <1>6, <1>7, <1>8, <1>9 DEF g, W, Freed

\* Freeing a block in use takes it out of use, leaves what the others hold, and
\* keeps the heap sound.
THEOREM FreeSound ==
  ASSUME NEW h, NEW blocks, Sound(h, blocks), NEW p \in Nat, NEW n \in FreeListClasses,
         <<p, n>> \in blocks
  PROVE  LET g == Free(h, p, n)
             rest == blocks \ {<<p, n>>}
         IN  Sound(g, rest) /\ Leaves(h, g, rest)
<1> DEFINE b == <<p, n>>
           g == Free(h, p, n)
           rest == blocks \ {b}
           free == Listed(h) \cup {b}
<1>1. PICK V : h \in Heaps(V)
  BY DEF Sound
<1>2. /\ Layout /\ HEAP_BASE \in Nat \ {0} /\ MaxSlots \in Nat /\ h.bump \in Nat
      /\ h.bump <= MaxSlots + 1
  BY SoundFacts DEF Sound, Layout
<1>3. /\ p \in HEAP_BASE..(h.bump - 1) /\ p + 1 \in HEAP_BASE..(h.bump - 1)
      /\ p \in Extent(b)
  <2>1. p \in Extent(b) /\ p + 1 \in Extent(b)
    BY <1>2, ExtentFacts
  <2>2. Extent(b) \subseteq HEAP_BASE..(h.bump - 1)
    BY DEF Sound
  <2>3. QED
    BY <2>1, <2>2
<1>0. g.mem \in [HEAP_BASE..MaxSlots -> V \cup (Nat \cup {Stale})] /\ Freed(g, h, p, n)
  BY <1>1, <1>2, FreeIs
<1> HIDE DEF g
<1>4. /\ g.mem \in [HEAP_BASE..MaxSlots -> V \cup (Nat \cup {Stale})]
      /\ g = Heap(g.mem, h.bump, [h.fl EXCEPT ![n] = p], h.live - 1, h.reuses)
      /\ p + 1 \in HEAP_BASE..MaxSlots => g.mem[p + 1] = h.fl[n]
      /\ \A a \in HEAP_BASE..MaxSlots : a \notin Extent(b) => g.mem[a] = h.mem[a]
  BY <1>0 DEF Freed
<1>5. /\ h.fl \in [FreeListClasses -> Nat] /\ h.bump \in HEAP_BASE..(MaxSlots + 1)
      /\ h.live \in Nat /\ h.reuses \in Nat
  BY <1>1 DEF Heaps
<1>6. /\ g.bump = h.bump /\ g.live = h.live - 1
      /\ \A m \in FreeListClasses : g.fl[m] = IF m = n THEN p ELSE h.fl[m]
      /\ g.mem[p + 1] = h.fl[n]
      /\ \A a \in HEAP_BASE..(h.bump - 1) : a \notin Extent(b) => g.mem[a] = h.mem[a]
  <2>1. g.bump = h.bump /\ g.live = h.live - 1 /\ g.fl = [h.fl EXCEPT ![n] = p]
    BY <1>4 DEF Heap
  <2>2. \A a \in HEAP_BASE..(h.bump - 1) : a \in HEAP_BASE..MaxSlots
    BY <1>2
  <2>3. QED
    BY <1>3, <1>4, <1>5, <2>1, <2>2
<1>7. ASSUME NEW m \in FreeListClasses
      PROVE  \E t : Links(g, m, t) /\ \A q \in Nat : q \in Through(t) <=> <<q, m>> \in free
  <2>1. PICK s : Links(h, m, s) /\ FreeBlocks(h, m) = Through(s)
    BY SoundFacts
  <2>2. /\ s \in Seq(Nat \ {0}) /\ Len(s) \in Nat /\ \A i \in 1..Len(s) : s[i] \in Nat \ {0}
    BY <2>1, ElementOfSeq DEF Links
  <2>3. \A q \in Nat : q \in Through(s) <=> <<q, m>> \in Listed(h)
    BY <2>1 DEF Listed
  <2>4. CASE m # n
    <3>1. g.fl[m] = h.fl[m] /\ b[2] # m
      BY <1>6, <2>4
    <3>2. Links(g, m, s)
      BY <1>6, <2>1, <3>1, LinksKept
    <3>3. QED
      BY <2>3, <2>4, <3>2
  <2>5. CASE m = n
    <3> DEFINE t == <<p>> \o s
    <3>1. /\ t \in Seq(Nat \ {0}) /\ Len(t) = Len(s) + 1 /\ t[1] = p
          /\ \A i \in 1..Len(s) : t[i + 1] = s[i]
      <4>1. <<p>> \in Seq(Nat \ {0}) /\ Len(<<p>>) = 1 /\ <<p>>[1] = p
        BY <1>2, <1>3
      <4> DEFINE one == <<p>>
      <4> HIDE DEF one
      <4>2. t = one \o s
        BY DEF one
      <4> HIDE DEF t
      <4>3. one \in Seq(Nat \ {0}) /\ Len(one) = 1 /\ one[1] = p
        BY <4>1 DEF one
      <4>4. /\ t \in Seq(Nat \ {0}) /\ Len(t) = Len(one) + Len(s)
            /\ \A i \in 1..Len(one) : t[i] = one[i]
            /\ \A i \in 1..Len(s) : t[Len(one) + i] = s[i]
        <5>1. one \in Seq(Nat \ {0}) /\ s \in Seq(Nat \ {0})
          BY <2>2, <4>3
        <5>2. t \in Seq(Nat \ {0}) /\ IsJoin(t, one, s)
          BY <4>2, <5>1, Joined
        <5>3. QED
          BY <5>2, Zenon DEF IsJoin
      <4>5. t[1] = p
        BY <4>3, <4>4
      <4>6. ASSUME NEW i \in 1..Len(s) PROVE t[i + 1] = s[i]
        <5>1. t[1 + i] = s[i] /\ 1 + i = i + 1
          BY <4>3, <4>4
        <5>2. QED
          BY <5>1
      <4>7. QED
        BY <2>2, <4>3, <4>4, <4>5, <4>6
    <3> HIDE DEF t
    <3>2. ASSUME NEW i \in 1..Len(s)
          PROVE  s[i] # p /\ g.mem[s[i] + 1] = h.mem[s[i] + 1]
      <4>1. s[i] \in Nat /\ <<s[i], n>> \in Listed(h)
        BY <2>2, <2>3, <2>5 DEF Through
      <4>2. <<s[i], n>> # b
        BY <4>1 DEF Sound
      <4>3. QED
        BY <1>6, <4>1, <4>2, LinkPlace
    <3>3. ASSUME NEW i \in 1..Len(t)
          PROVE  g.mem[t[i] + 1] = IF i = Len(t) THEN 0 ELSE t[i + 1]
      <4>1. CASE i = 1
        <5>1. g.mem[t[i] + 1] = IF s = <<>> THEN 0 ELSE s[1]
          BY <1>6, <2>1, <2>5, <3>1, <4>1 DEF Links
        <5>2. s = <<>> <=> i = Len(t)
          BY <2>2, <3>1, <4>1, EmptySeq
        <5>3. i # Len(t) => 1 \in 1..Len(s)
          BY <2>2, <3>1, <4>1
        <5>4. i # Len(t) => t[i + 1] = s[1]
          BY <3>1, <4>1, <5>3
        <5>5. QED
          BY <5>1, <5>2, <5>4
      <4>2. CASE i # 1
        <5>1. i - 1 \in 1..Len(s) /\ (i - 1) + 1 = i /\ (i = Len(t) <=> i - 1 = Len(s))
          BY <2>2, <3>1, <4>2
        <5>2. t[i] = s[i - 1] /\ g.mem[t[i] + 1] = h.mem[s[i - 1] + 1]
          BY <3>1, <3>2, <5>1
        <5>3. h.mem[s[i - 1] + 1] = IF i - 1 = Len(s) THEN 0 ELSE s[i]
          BY <2>1, <5>1 DEF Links
        <5>4. i # Len(t) => i \in 1..Len(s)
          BY <2>2, <3>1
        <5>5. i # Len(t) => t[i + 1] = s[i]
          BY <3>1, <5>4
        <5>6. QED
          BY <5>1, <5>2, <5>3, <5>5
      <4>3. QED
        BY <4>1, <4>2
    <3>4. ASSUME NEW i \in 1..Len(t) PROVE i = 1 \/ (i - 1 \in 1..Len(s) /\ t[i] = s[i - 1])
      <4>1. i # 1 => i - 1 \in 1..Len(s) /\ (i - 1) + 1 = i
        BY <2>2, <3>1
      <4>2. QED
        BY <3>1, <4>1
    <3>5. ASSUME NEW i \in 1..Len(t), NEW j \in 1..Len(t), t[i] = t[j] PROVE i = j
      <4>1. CASE i = 1 \/ j = 1
        <5>1. ASSUME NEW k \in 1..Len(t), k # 1 PROVE t[k] # t[1]
          BY <3>1, <3>2, <3>4, <5>1, ZenonT(40)
        <5>2. QED
          BY <3>5, <4>1, <5>1
      <4>2. CASE i # 1 /\ j # 1
        <5>1. i - 1 = j - 1
          <6>1. /\ i - 1 \in 1..Len(s) /\ j - 1 \in 1..Len(s)
                /\ s[i - 1] = s[j - 1]
            BY <3>4, <3>5, <4>2
          <6>2. QED
            BY <2>1, <6>1 DEF Links
        <5>2. QED
          BY <2>2, <3>1, <5>1
      <4>3. QED
        BY <4>1, <4>2
    <3>6. g.fl[m] = IF t = <<>> THEN 0 ELSE t[1]
      BY <1>6, <2>2, <2>5, <3>1, EmptySeq
    <3>7. Links(g, m, t)
      BY <3>1, <3>3, <3>5, <3>6 DEF Links
    <3>8. ASSUME NEW q \in Nat PROVE q \in Through(t) <=> q = p \/ q \in Through(s)
      <4>1. ASSUME q \in Through(t) PROVE q = p \/ q \in Through(s)
        <5>1. PICK i \in 1..Len(t) : q = t[i]
          BY <4>1 DEF Through
        <5>2. i = 1 \/ (i - 1 \in 1..Len(s) /\ t[i] = s[i - 1])
          BY <3>4
        <5>3. QED
          BY <3>1, <5>1, <5>2 DEF Through
      <4>2. ASSUME q = p PROVE q \in Through(t)
        <5>1. 1 \in 1..Len(t)
          BY <2>2, <3>1
        <5>2. QED
          BY <3>1, <4>2, <5>1 DEF Through
      <4>3. ASSUME q \in Through(s) PROVE q \in Through(t)
        <5>1. PICK i \in 1..Len(s) : q = s[i]
          BY <4>3 DEF Through
        <5>2. i + 1 \in 1..Len(t)
          BY <2>2, <3>1
        <5>3. QED
          BY <3>1, <5>1, <5>2 DEF Through
      <4>4. QED
        BY <4>1, <4>2, <4>3
    <3>9. \A q \in Nat : q \in Through(t) <=> <<q, m>> \in free
      BY <2>3, <2>5, <3>8
    <3>10. QED
      BY <3>7, <3>9
  <2>6. QED
    BY <2>4, <2>5
<1>8. /\ IsFiniteSet(rest) /\ g.live = Cardinality(rest)
      /\ rest \subseteq Nat \X FreeListClasses /\ free \subseteq Nat \X FreeListClasses
      /\ rest \cap free = {} /\ rest \cup free = blocks \cup Listed(h)
  <2>1. /\ IsFiniteSet(blocks) /\ h.live = Cardinality(blocks)
        /\ blocks \subseteq Nat \X FreeListClasses /\ blocks \cap Listed(h) = {}
    BY DEF Sound
  <2>2. IsFiniteSet(rest) /\ g.live = Cardinality(rest)
    BY <1>6, <2>1, FS_RemoveElement
  <2>3. QED
    BY <2>1, <2>2 DEF Listed
<1>9. g \in Heaps(V \cup (Nat \cup {Stale}))
  <2>1. h.live - 1 \in Nat
    BY <1>6, <1>8, FS_CardinalityType
  <2>2. [h.fl EXCEPT ![n] = p] \in [FreeListClasses -> Nat]
    BY <1>5
  <2>3. QED
    BY <1>4, <1>5, <2>1, <2>2 DEF Heap, Heaps
<1>10. /\ \A c \in blocks \cup Listed(h) : Extent(c) \subseteq HEAP_BASE..(g.bump - 1)
       /\ \A c, d \in blocks \cup Listed(h) : c # d => Extent(c) \cap Extent(d) = {}
  BY <1>6 DEF Sound
<1>11. Sound(g, rest)
  <2> HIDE DEF rest, free
  <2>1. QED
    BY <1>2, <1>7, <1>8, <1>9, <1>10, SoundIf
<1>12. Leaves(h, g, rest)
  <2> SUFFICES ASSUME NEW c \in rest, NEW a \in Extent(c) PROVE g.mem[a] = h.mem[a]
    BY DEF Leaves
  <2>1. a \in HEAP_BASE..(h.bump - 1) /\ a \notin Extent(b)
    BY DEF Sound
  <2>2. QED
    BY <1>6, <2>1
<1>13. QED
  BY <1>11, <1>12 DEF g

-----------------------------------------------------------------------------
(* Any sequence of calls, in whatever order the program makes them          *)

VARIABLES memory, inUse

Begins == memory = EmptyHeap /\ inUse = {}
Takes ==
    \E n \in FreeListClasses :
       LET a == Alloc(memory, n)
       IN  /\ memory.fl[n] # 0 \/ memory.bump + CELL_HEADER + n <= MaxSlots + 1
           /\ memory' = a.h /\ inUse' = inUse \cup {<<a.p, n>>}
Returns ==
    \E b \in inUse : memory' = Free(memory, b[1], b[2]) /\ inUse' = inUse \ {b}
Stores ==
    \E b \in inUse, q \in Nat, ws \in Seq(Int) :
       /\ q..(q + Len(ws) - 1) \subseteq Extent(b)
       /\ memory' = Write(memory, q, ws) /\ UNCHANGED inUse

Calls == Begins /\ [][Takes \/ Returns \/ Stores]_<<memory, inUse>>

\* A program that stores into blocks in use only, and frees each block in use as
\* one of its class, never sees two blocks overlap, and the allocator never
\* loses one: it may ask for blocks and return them in any order.
THEOREM BlocksStayApart ==
  ASSUME Layout
  PROVE  Calls => []Sound(memory, inUse)
<1>1. Begins => Sound(memory, inUse)
  BY EmptyHeapSound DEF Begins
<1>2. Sound(memory, inUse) /\ [Takes \/ Returns \/ Stores]_<<memory, inUse>> => Sound(memory, inUse)'
  <2> SUFFICES ASSUME Sound(memory, inUse), [Takes \/ Returns \/ Stores]_<<memory, inUse>>
               PROVE  Sound(memory', inUse')
    OBVIOUS
  <2>1. CASE Takes
    <3>1. PICK n \in FreeListClasses :
             /\ memory.fl[n] # 0 \/ memory.bump + CELL_HEADER + n <= MaxSlots + 1
             /\ memory' = Alloc(memory, n).h
             /\ inUse' = inUse \cup {<<Alloc(memory, n).p, n>>}
      BY <2>1 DEF Takes
    <3>2. Sound(Alloc(memory, n).h, inUse \cup {<<Alloc(memory, n).p, n>>})
      BY <3>1, AllocSound
    <3>3. QED
      BY <3>1, <3>2
  <2>2. CASE Returns
    <3>1. PICK b \in inUse : memory' = Free(memory, b[1], b[2]) /\ inUse' = inUse \ {b}
      BY <2>2 DEF Returns
    <3>2. b[1] \in Nat /\ b[2] \in FreeListClasses /\ b = <<b[1], b[2]>>
      BY DEF Sound
    <3>3. Sound(Free(memory, b[1], b[2]), inUse \ {b})
      BY <3>2, FreeSound
    <3>4. QED
      BY <3>1, <3>3
  <2>3. CASE Stores
    <3>1. PICK b \in inUse, q \in Nat, ws \in Seq(Int) :
             /\ q..(q + Len(ws) - 1) \subseteq Extent(b)
             /\ memory' = Write(memory, q, ws) /\ inUse' = inUse
      BY <2>3 DEF Stores
    <3>2. Sound(Write(memory, q, ws), inUse)
      BY <3>1, WriteSound
    <3>3. QED
      BY <3>1, <3>2
  <2>4. CASE UNCHANGED <<memory, inUse>>
    BY <2>4
  <2>5. QED
    BY <2>1, <2>2, <2>3, <2>4
<1>3. QED
  BY <1>1, <1>2, PTL DEF Calls
=============================================================================
