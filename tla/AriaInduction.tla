---------------------------- MODULE AriaInduction ----------------------------
(***************************************************************************)
(* Facts about numbers that the proofs share.  The induction theorems of   *)
(* the library take an operator as a parameter; here induction is stated   *)
(* with sets.                                                              *)
(***************************************************************************)
EXTENDS Integers, WellFoundedInduction, TLAPS

-----------------------------------------------------------------------------
(* Induction, stated with sets                                             *)

LEMMA Least ==
  ASSUME NEW T, T \subseteq Nat, T # {}
  PROVE  \E m \in T : \A k \in T : m <= k
<1>1. PICK m \in T : \A k \in T : ~(<<k, m>> \in OpToRel(<, Nat))
  BY NatLessThanWellFounded, WFMin, Zenon
<1>2. \A k \in T : ~(k < m)
  BY <1>1, Zenon DEF OpToRel
<1>3. QED
  BY <1>2, SMT

LEMMA Induction ==
  ASSUME NEW S, 0 \in S, \A n \in Nat : n \in S => n + 1 \in S
  PROVE  \A n \in Nat : n \in S
<1> SUFFICES ASSUME NEW n \in Nat, n \notin S PROVE FALSE
  OBVIOUS
<1> DEFINE T == {k \in Nat : k \notin S}
<1>1. PICK m \in T : \A k \in T : m <= k
  <2>1. T \subseteq Nat /\ T # {}
    BY Zenon DEF T
  <2> HIDE DEF T
  <2>2. QED
    BY <2>1, Least, Zenon
<1>2. m # 0 /\ m \in Nat
  BY <1>1
<1>3. m - 1 \in Nat /\ m - 1 \in S
  BY <1>1, <1>2
<1>4. QED
  BY <1>1, <1>2, <1>3

\* f begins with start and goes on with next.
Course(f, V, start, next) ==
    /\ f \in [Nat -> V] /\ f[0] = start
    /\ \A n \in Nat : f[n + 1] = next[n][f[n]]

\* There is such a function.
LEMMA RecursiveFunction ==
  ASSUME NEW V, NEW start \in V, NEW next \in [Nat -> [V -> V]]
  PROVE  \E f : Course(f, V, start, next)
<1> DEFINE Upto(n) == {g \in [0..n -> V] :
                /\ g[0] = start
                /\ \A k \in 0..n : k # 0 => g[k] = next[k - 1][g[k - 1]]}
           S == {n \in Nat : Upto(n) # {}}
           Same == {n \in Nat : \A m \in Nat : n <= m =>
                           \A g \in Upto(n), h \in Upto(m) : h[n] = g[n]}
<1>1. \A n \in Nat : n \in S
  <2>1. 0 \in S
    <3>1. [k \in 0..0 |-> start] \in Upto(0)
      OBVIOUS
    <3>2. QED
      BY <3>1
  <2>2. ASSUME NEW n \in Nat, n \in S PROVE n + 1 \in S
    <3>1. PICK g \in [0..n -> V] :
              /\ g[0] = start
              /\ \A k \in 0..n : k # 0 => g[k] = next[k - 1][g[k - 1]]
      BY <2>2
    <3> DEFINE h == [k \in 0..(n + 1) |-> IF k = n + 1 THEN next[n][g[n]] ELSE g[k]]
    <3>2. h \in [0..(n + 1) -> V]
      BY <3>1
    <3>3. h[0] = start /\ \A k \in 0..(n + 1) : k # 0 => h[k] = next[k - 1][h[k - 1]]
      BY <3>1
    <3>4. h \in Upto(n + 1)
      BY <3>2, <3>3
    <3> HIDE DEF Upto, h
    <3>5. QED
      BY <3>4
  <2> HIDE DEF S
  <2>3. QED
    BY <2>1, <2>2, Induction
<1>2. \A n \in Nat : n \in Same
  <2>1. 0 \in Same
    OBVIOUS
  <2>2. ASSUME NEW n \in Nat, n \in Same PROVE n + 1 \in Same
    <3>1. ASSUME NEW m \in Nat, NEW g \in Upto(n + 1), NEW h \in Upto(m), n + 1 <= m
          PROVE  h[n + 1] = g[n + 1]
      <4> DEFINE low == [k \in 0..n |-> g[k]]
      <4>1. low \in Upto(n) /\ low[n] = g[n]
        OBVIOUS
      <4>2. h[n] = low[n]
        <5> HIDE DEF Upto, low
        <5>1. QED
          BY <2>2, <3>1, <4>1
      <4>3. h[n + 1] = next[n][h[n]] /\ g[n + 1] = next[n][g[n]]
        BY <3>1
      <4> HIDE DEF Upto, low
      <4>4. QED
        BY <4>1, <4>2, <4>3
    <3> HIDE DEF Upto
    <3>2. QED
      BY <3>1
  <2> HIDE DEF Same
  <2>3. QED
    BY <2>1, <2>2, Induction
<1> DEFINE F == [n \in Nat |-> (CHOOSE g \in Upto(n) : TRUE)[n]]
<1>3. ASSUME NEW n \in Nat, NEW g \in Upto(n) PROVE F[n] = g[n]
  <2>1. (CHOOSE x \in Upto(n) : TRUE) \in Upto(n)
    BY <1>3, Zenon
  <2> HIDE DEF Upto
  <2>2. QED
    BY <1>2, <1>3, <2>1
<1>4. F \in [Nat -> V] /\ F[0] = start /\ \A n \in Nat : F[n + 1] = next[n][F[n]]
  <2>1. ASSUME NEW n \in Nat
        PROVE  F[n] \in V /\ F[n + 1] \in V /\ F[n + 1] = next[n][F[n]]
    <3>1. PICK g \in Upto(n + 1) : TRUE
      BY <1>1
    <3> DEFINE low == [k \in 0..n |-> g[k]]
    <3>2. low \in Upto(n)
      OBVIOUS
    <3>3. F[n] = low[n] /\ F[n + 1] = g[n + 1]
      <4> HIDE DEF F, Upto, low
      <4>1. QED
        BY <1>3, <3>1, <3>2
    <3>4. low[n] = g[n] /\ g[n] \in V /\ g[n + 1] \in V /\ g[n + 1] = next[n][g[n]]
      OBVIOUS
    <3> HIDE DEF F, low
    <3>5. QED
      BY <3>3, <3>4
  <2>2. F[0] = start
    <3>1. [k \in 0..0 |-> start] \in Upto(0)
      OBVIOUS
    <3> HIDE DEF F, Upto
    <3>2. QED
      BY <1>3, <3>1
  <2>3. F \in [Nat -> V]
    <3>1. F = [n \in Nat |-> F[n]]
      OBVIOUS
    <3> HIDE DEF F
    <3>2. QED
      BY <2>1, <3>1
  <2> HIDE DEF F
  <2>4. QED
    BY <2>1, <2>2, <2>3
<1> HIDE DEF F
<1>5. Course(F, V, start, next)
  BY <1>4 DEF Course
<1>6. QED
  BY <1>5

\* The same over 0..n.
CourseTo(f, n, V, start, next) ==
    /\ f \in [0..n -> V] /\ f[0] = start
    /\ \A k \in 1..n : f[k] = next[k - 1][f[k - 1]]

LEMMA RecursionUpTo ==
  ASSUME NEW V, NEW start \in V, NEW next \in [Nat -> [V -> V]], NEW n \in Nat
  PROVE  \E f : CourseTo(f, n, V, start, next)
<1>1. PICK g : Course(g, V, start, next)
  BY RecursiveFunction
<1> DEFINE f == [k \in 0..n |-> g[k]]
<1>2. f \in [0..n -> V] /\ f[0] = start
  BY <1>1 DEF Course
<1>3. ASSUME NEW k \in 1..n PROVE f[k] = next[k - 1][f[k - 1]]
  <2>1. k - 1 \in Nat /\ (k - 1) + 1 = k /\ f[k] = g[k] /\ f[k - 1] = g[k - 1]
    OBVIOUS
  <2> HIDE DEF f
  <2>2. QED
    BY <1>1, <2>1 DEF Course
<1> HIDE DEF f
<1>4. QED
  BY <1>2, <1>3 DEF CourseTo

\* step gives a function from D to V its value at d, from d and the function; it
\* looks at values at arguments of smaller rank.
Ranked(rank, step, D, V) ==
    /\ rank \in [D -> Nat] /\ step \in [D \X [D -> V] -> V] /\ V # {}
    /\ \A d \in D, f, g \in [D -> V] :
          (\A c \in D : rank[c] < rank[d] => f[c] = g[c]) => step[<<d, f>>] = step[<<d, g>>]
Solves(f, step, D, V) == f \in [D -> V] /\ \A d \in D : f[d] = step[<<d, f>>]

\* There is such a function.
LEMMA RankedRecursion ==
  ASSUME NEW D, NEW V, NEW rank, NEW step, Ranked(rank, step, D, V)
  PROVE  \E f : Solves(f, step, D, V)
<1> USE DEF Ranked
<1> DEFINE W == [D -> V]
           next == [n \in Nat |-> [f \in W |-> [d \in D |-> step[<<d, f>>]]]]
<1>1. W # {}
  <2>1. PICK v \in V : TRUE
    OBVIOUS
  <2>2. [d \in D |-> v] \in W
    BY <2>1
  <2>3. QED
    BY <2>2
<1>2. QED
  <2>1. PICK start \in W : TRUE
    BY <1>1
  <2>2. next \in [Nat -> [W -> W]]
    OBVIOUS
  <2>3. PICK F : Course(F, W, start, next)
    <3> HIDE DEF W, next
    <3>1. QED
      BY <2>1, <2>2, RecursiveFunction
  <2>4. /\ F \in [Nat -> W]
        /\ \A n \in Nat, d \in D : F[n + 1][d] = step[<<d, F[n]>>]
    <3>1. F \in [Nat -> W] /\ \A n \in Nat : F[n + 1] = next[n][F[n]]
      BY <2>3 DEF Course
    <3>2. \A n \in Nat, g \in W, d \in D : next[n][g][d] = step[<<d, g>>]
      OBVIOUS
    <3>3. ASSUME NEW n \in Nat, NEW d \in D PROVE F[n + 1][d] = step[<<d, F[n]>>]
      <4>1. F[n] \in W /\ F[n + 1] = next[n][F[n]]
        <5> HIDE DEF next, W
        <5>1. QED
          BY <3>1
      <4> HIDE DEF next, W
      <4>2. next[n][F[n]][d] = step[<<d, F[n]>>]
        BY <4>1, <3>2, Zenon
      <4>3. QED
        BY <4>1, <4>2, Zenon
    <3> HIDE DEF next, W
    <3>4. QED
      BY <3>1, <3>3
  <2> HIDE DEF next
  <2> DEFINE S == {n \in Nat : \A m \in Nat, d \in D : rank[d] < n /\ n <= m => F[m][d] = F[n][d]}
  <2>5. \A n \in Nat : n \in S
    <3>1. 0 \in S
      OBVIOUS
    <3>2. ASSUME NEW n \in Nat, n \in S PROVE n + 1 \in S
      <4>1. ASSUME NEW m \in Nat, NEW d \in D, rank[d] < n + 1, n + 1 <= m
            PROVE  F[m][d] = F[n + 1][d]
        <5>1. m - 1 \in Nat /\ n <= m - 1 /\ (m - 1) + 1 = m
          BY <4>1
        <5>2. \A c \in D : rank[c] < rank[d] => F[m - 1][c] = F[n][c]
          BY <3>2, <4>1, <5>1
        <5>3. F[m - 1] \in W /\ F[n] \in W
          BY <2>4, <5>1
        <5>4. step[<<d, F[m - 1]>>] = step[<<d, F[n]>>]
          BY <5>2, <5>3
        <5>5. QED
          BY <2>4, <5>1, <5>4, ZenonT(40)
      <4>2. QED
        BY <4>1
    <3> HIDE DEF S
    <3>3. QED
      BY <3>1, <3>2, Induction
  <2> DEFINE f == [d \in D |-> F[rank[d] + 1][d]]
  <2>6. f \in W
    BY <2>4
  <2>7. ASSUME NEW d \in D PROVE f[d] = step[<<d, f>>]
    <3>1. F[rank[d]] \in W /\ rank[d] \in Nat
      BY <2>4
    <3>2. \A c \in D : rank[c] < rank[d] => F[rank[d]][c] = f[c]
      <4>1. ASSUME NEW c \in D, rank[c] < rank[d] PROVE F[rank[d]][c] = F[rank[c] + 1][c]
        <5>1. rank[c] \in Nat /\ rank[c] + 1 \in Nat /\ rank[c] + 1 <= rank[d]
          BY <4>1
        <5>2. QED
          BY <5>1, <3>1, <2>5
      <4>2. QED
        BY <4>1
    <3> HIDE DEF f
    <3>3. step[<<d, F[rank[d]]>>] = step[<<d, f>>]
      BY <3>1, <3>2, <2>6
    <3>4. f[d] = F[rank[d] + 1][d]
      BY DEF f
    <3>5. QED
      BY <2>4, <3>1, <3>3, <3>4
  <2> HIDE DEF f
  <2>8. Solves(f, step, D, V)
    BY <2>6, <2>7 DEF Solves
  <2>9. QED
    BY <2>8

-----------------------------------------------------------------------------
(* Arithmetic                                                              *)

LEMMA MulNat ==
  ASSUME NEW a \in Nat, NEW b \in Nat
  PROVE  a * b \in Nat
OBVIOUS

LEMMA DivMod ==
  ASSUME NEW a \in Nat, NEW d \in Nat, d > 0
  PROVE  /\ a \div d \in Nat /\ a % d \in 0..(d - 1)
         /\ a = d * (a \div d) + (a % d)
OBVIOUS

LEMMA DivUnique ==
  ASSUME NEW d \in Nat, d > 0, NEW q \in Nat, NEW r \in 0..(d - 1)
  PROVE  (d * q + r) \div d = q /\ (d * q + r) % d = r
OBVIOUS

LEMMA MulMono ==
  ASSUME NEW a \in Nat, NEW b \in Nat, NEW c \in Nat, a <= b
  PROVE  a * c <= b * c /\ c * a <= c * b /\ a * c \in Nat
OBVIOUS

LEMMA ModScale ==
  ASSUME NEW q \in Nat, NEW w \in Nat, NEW d \in Nat, w > 0, d > 0
  PROVE  (q * d) % (w * d) = (q % w) * d /\ q % w \in Nat
<1> DEFINE a == q \div w
           b == q % w
           x == w * d
           y == b * d
<1>1. q = w * a + b /\ a \in Nat /\ b \in 0..(w - 1)
  BY DivMod
<1> HIDE DEF a, b
<1>2. q * d = x * a + y
  <2>1. q * d = (w * a + b) * d
    BY <1>1
  <2>2. (w * a + b) * d = (w * d) * a + b * d
    BY <1>1
  <2>3. QED
    BY <2>1, <2>2
<1>3. x \in Nat /\ y \in Nat /\ y < x
  <2>1. b + 1 <= w /\ b + 1 \in Nat /\ b \in Nat
    BY <1>1
  <2>2. (b + 1) * d <= w * d
    BY <2>1, MulMono
  <2>3. (b + 1) * d = b * d + d
    BY <2>1
  <2>4. b * d \in Nat /\ w * d \in Nat
    BY <2>1, MulNat, Zenon
  <2>5. QED
    BY <2>2, <2>3, <2>4
<1>4. y \in 0..(x - 1) /\ x > 0
  BY <1>3
<1> HIDE DEF x, y
<1>5. (x * a + y) % x = y
  BY <1>1, <1>3, <1>4, DivUnique
<1>6. QED
  BY <1>1, <1>2, <1>5 DEF x, y, b

\* Quotients against a bound.
LEMMA DivBelow ==
  ASSUME NEW a \in Nat, NEW d \in Nat, d > 0, NEW q \in Nat
  PROVE  (a < d * q <=> a \div d < q)
<1>1. a = d * (a \div d) + (a % d) /\ a \div d \in Nat /\ a % d \in 0..(d - 1)
  BY DivMod
<1> DEFINE k == a \div d
<1> HIDE DEF k
<1>2. CASE k < q
  <2>1. k + 1 <= q
    BY <1>2, <1>1 DEF k
  <2>2. d * (k + 1) <= d * q
    BY <2>1, <1>1, MulMono DEF k
  <2>3. d * (k + 1) = d * k + d
    BY <1>1 DEF k
  <2>4. QED
    BY <1>1, <2>2, <2>3, <1>2 DEF k
<1>3. CASE q <= k
  <2>1. d * q <= d * k
    BY <1>3, <1>1, MulMono DEF k
  <2>2. QED
    BY <1>1, <2>1, <1>3 DEF k
<1>4. QED
  BY <1>2, <1>3, <1>1 DEF k

=============================================================================
