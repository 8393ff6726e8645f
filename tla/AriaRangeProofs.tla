--------------------------- MODULE AriaRangeProofs ---------------------------
(***************************************************************************)
(* Theorems about AriaRange, for every radix, every scale of probabilities *)
(* up to TOP, every message, and every cut of what is stored.              *)
(***************************************************************************)
EXTENDS AriaRange, AriaInduction, SequenceTheorems

-----------------------------------------------------------------------------
(* Scales                                                                  *)

LEMMA Scales ==
  /\ RADIX \in Nat /\ RADIX >= 2 /\ TOP \in Nat /\ TOP >= 1
  /\ Word \in Nat /\ Word = RADIX * TOP /\ Word >= 2 * TOP
  /\ RADIX * RADIX \in Nat /\ TOP = RADIX * (RADIX * RADIX)
  /\ PROB_SCALE \in Nat /\ PROB_SCALE >= 2 /\ PROB_SCALE <= TOP
<1>1. RADIX \in Nat /\ RADIX >= 2 /\ PROB_SCALE \in Nat /\ PROB_SCALE >= 2
  BY ModelAssumption
<1>2. RADIX * RADIX \in Nat /\ RADIX * RADIX >= 2
  BY <1>1
<1> DEFINE square == RADIX * RADIX
<1>3. TOP = square * RADIX
  BY DEF TOP
<1>4. square \in Nat /\ square >= 2
  BY <1>2
<1> HIDE DEF square
<1>5. TOP \in Nat /\ TOP >= 1 /\ TOP = RADIX * square
  BY <1>1, <1>3, <1>4
<1>6. Word = RADIX * TOP
  BY DEF Word
<1>7. Word \in Nat /\ Word >= 2 * TOP
  BY <1>1, <1>5, <1>6
<1>8. PROB_SCALE <= TOP
  BY ScalesAssumption
<1>9. QED
  BY <1>1, <1>2, <1>5, <1>6, <1>7, <1>8 DEF square

-----------------------------------------------------------------------------
(* The number that a sequence of bytes stands for                          *)

Bytes == 0..(RADIX - 1)

\* v holds the values of the beginnings of s.
Prefixes(v, s) ==
    /\ v \in [0..Len(s) -> Nat] /\ v[0] = 0
    /\ \A i \in 1..Len(s) : v[i] = v[i - 1] * RADIX + s[i]

LEMMA ValueDef ==
  ASSUME NEW s \in Seq(Nat)
  PROVE  \E v : Prefixes(v, s) /\ Value(s) = v[Len(s)]
<1> DEFINE n == Len(s)
           digit == [k \in Nat |-> IF k + 1 \in 1..n THEN s[k + 1] ELSE 0]
           next == [k \in Nat |-> [x \in Nat |-> x * RADIX + digit[k]]]
           Def(v) == v = [i \in 0..n |-> IF i = 0 THEN 0 ELSE v[i - 1] * RADIX + s[i]]
<1>1. n \in Nat /\ digit \in [Nat -> Nat] /\ RADIX \in Nat
  <2>1. \A k \in Nat : k + 1 \in 1..n => s[k + 1] \in Nat
    BY ElementOfSeq
  <2>2. n \in Nat
    OBVIOUS
  <2> HIDE DEF n
  <2>3. \A k \in Nat : (IF k + 1 \in 1..n THEN s[k + 1] ELSE 0) \in Nat
    BY <2>1
  <2>4. QED
    BY <2>2, <2>3, Scales
<1>2. \A k \in 1..n : k - 1 \in Nat /\ digit[k - 1] = s[k]
  OBVIOUS
<1> HIDE DEF n, digit
<1>3. next \in [Nat -> [Nat -> Nat]]
  <2>1. ASSUME NEW k \in Nat, NEW x \in Nat PROVE x * RADIX + digit[k] \in Nat
    <3>1. digit[k] \in Nat /\ x * RADIX \in Nat
      BY <1>1
    <3>2. QED
      BY <3>1
  <2>2. QED
    BY <2>1
<1>4. \A k \in 1..n, x \in Nat : next[k - 1][x] = x * RADIX + s[k]
  BY <1>1, <1>2
<1> HIDE DEF next
<1>5. PICK f : CourseTo(f, n, Nat, 0, next)
  BY <1>1, <1>3, RecursionUpTo
<1>6. ASSUME NEW k \in 1..n PROVE f[k] = f[k - 1] * RADIX + s[k]
  <2>1. k - 1 \in 0..n
    BY <1>1
  <2>2. f[k - 1] \in Nat
    BY <1>5, <2>1 DEF CourseTo
  <2>3. QED
    BY <1>4, <1>5, <2>2 DEF CourseTo
<1>7. Def(f)
  <2>1. f = [i \in 0..n |-> f[i]]
    BY <1>5 DEF CourseTo
  <2>2. \A i \in 0..n : f[i] = IF i = 0 THEN 0 ELSE f[i - 1] * RADIX + s[i]
    BY <1>1, <1>5, <1>6 DEF CourseTo
  <2>3. QED
    BY <2>1, <2>2
<1> DEFINE v == CHOOSE g : Def(g)
<1>8. Def(v)
  BY <1>7, Zenon
<1>9. Value(s) = v[n]
  BY DEF Value, n
<1> HIDE DEF v
<1>10. v[0] = 0 /\ \A k \in 1..n : v[k] = v[k - 1] * RADIX + s[k]
  <2>1. 0 \in 0..n /\ \A k \in 1..n : k \in 0..n /\ k # 0
    BY <1>1
  <2>2. QED
    BY <1>8, <2>1, Zenon
<1>11. \A k \in 0..n : v[k] \in Nat
  <2> DEFINE G == {k \in Nat : k <= n => v[k] \in Nat}
  <2>1. 0 \in G
    BY <1>10
  <2>2. ASSUME NEW k \in Nat, k \in G PROVE k + 1 \in G
    <3> SUFFICES ASSUME k + 1 <= n PROVE v[k + 1] \in Nat
      OBVIOUS
    <3>1. k + 1 \in 1..n /\ (k + 1) - 1 = k /\ v[k] \in Nat
      BY <1>1, <2>2
    <3>2. s[k + 1] \in Nat
      BY <3>1 DEF n
    <3>3. v[k + 1] = v[k] * RADIX + s[k + 1]
      BY <1>10, <3>1
    <3>4. v[k] * RADIX \in Nat
      BY <1>1, <3>1, MulNat, Zenon
    <3>5. QED
      BY <3>2, <3>3, <3>4
  <2> HIDE DEF G
  <2>3. \A k \in Nat : k \in G
    BY <2>1, <2>2, Induction
  <2>4. QED
    BY <1>1, <2>3 DEF G
<1>12. v = [i \in 0..n |-> v[i]]
  BY <1>8
<1>13. v \in [0..n -> Nat]
  BY <1>11, <1>12
<1>14. QED
  BY <1>9, <1>10, <1>13 DEF Prefixes, n
LEMMA ValueNat ==
  ASSUME NEW s \in Seq(Nat)
  PROVE  Value(s) \in Nat
<1>1. Len(s) \in Nat
  OBVIOUS
<1>2. QED
  BY <1>1, ValueDef DEF Prefixes

\* The beginnings of two sequences that agree stand for the same number.
LEMMA SameBeginning ==
  ASSUME NEW s \in Seq(Nat), NEW t \in Seq(Nat), NEW v, NEW w, Prefixes(v, s), Prefixes(w, t),
         NEW n \in Nat, n <= Len(s), n <= Len(t), \A i \in 1..n : s[i] = t[i]
  PROVE  v[n] = w[n]
<1> DEFINE G == {k \in Nat : k <= n => v[k] = w[k]}
<1>1. 0 \in G
  BY DEF Prefixes
<1>2. ASSUME NEW k \in Nat, k \in G PROVE k + 1 \in G
  <2> SUFFICES ASSUME k + 1 <= n PROVE v[k + 1] = w[k + 1]
    OBVIOUS
  <2>1. /\ k + 1 \in 1..Len(s) /\ k + 1 \in 1..Len(t) /\ k + 1 \in 1..n
        /\ (k + 1) - 1 = k /\ v[k] = w[k]
    BY <1>2
  <2>2. v[k + 1] = v[k] * RADIX + s[k + 1] /\ w[k + 1] = w[k] * RADIX + t[k + 1]
    BY <2>1 DEF Prefixes
  <2>3. QED
    BY <2>1, <2>2
<1> HIDE DEF G
<1>3. \A k \in Nat : k \in G
  BY <1>1, <1>2, Induction
<1>4. QED
  BY <1>3 DEF G

\* One more digit.
LEMMA ValueAppend ==
  ASSUME NEW s \in Seq(Nat), NEW t \in Seq(Nat), Len(t) = Len(s) + 1,
         \A i \in 1..Len(s) : t[i] = s[i]
  PROVE  Value(t) = Value(s) * RADIX + t[Len(t)]
<1> DEFINE n == Len(s)
<1>0. n \in Nat /\ n + 1 = Len(t) /\ n <= Len(t) /\ n + 1 \in 1..Len(t) /\ (n + 1) - 1 = n
  OBVIOUS
<1>1. PICK v : Prefixes(v, s) /\ Value(s) = v[n]
  BY ValueDef
<1>2. PICK w : Prefixes(w, t) /\ Value(t) = w[Len(t)]
  BY ValueDef
<1>3. v[n] = w[n]
  <2>1. n <= Len(s) /\ \A i \in 1..n : s[i] = t[i]
    OBVIOUS
  <2> HIDE DEF n
  <2>2. QED
    BY <1>0, <1>1, <1>2, <2>1, SameBeginning
<1>4. w[n + 1] = w[n] * RADIX + t[n + 1]
  BY <1>0, <1>2 DEF Prefixes
<1> HIDE DEF n
<1>5. QED
  BY <1>0, <1>1, <1>2, <1>3, <1>4

\* A carry into a byte that is followed by bytes which are all full.
LEMMA ValueCarry ==
  ASSUME NEW s \in Seq(Nat), NEW t \in Seq(Nat), Len(t) = Len(s), NEW k \in 1..Len(s),
         \A i \in 1..(k - 1) : t[i] = s[i], t[k] = s[k] + 1,
         \A i \in (k + 1)..Len(s) : s[i] = RADIX - 1 /\ t[i] = 0
  PROVE  Value(t) = Value(s) + 1
<1> DEFINE n == Len(s)
<1>0. n \in Nat /\ n = Len(t) /\ k \in Nat /\ k >= 1 /\ k <= n /\ RADIX \in Nat
  BY Scales
<1>1. PICK v : Prefixes(v, s) /\ Value(s) = v[n]
  BY ValueDef
<1>2. PICK w : Prefixes(w, t) /\ Value(t) = w[n]
  BY ValueDef
<1>3. v[k - 1] = w[k - 1]
  BY <1>0, <1>1, <1>2, SameBeginning
<1>4. \A i \in 1..n : v[i] = v[i - 1] * RADIX + s[i] /\ w[i] = w[i - 1] * RADIX + t[i]
  BY <1>0, <1>1, <1>2 DEF Prefixes
<1>5. \A i \in 0..n : v[i] \in Nat /\ w[i] \in Nat
  BY <1>0, <1>1, <1>2 DEF Prefixes
<1> HIDE DEF n
<1> DEFINE G == {j \in Nat : k + j <= n => w[k + j] = v[k + j] + 1}
<1>6. 0 \in G
  <2>1. v[k] = v[k - 1] * RADIX + s[k] /\ w[k] = w[k - 1] * RADIX + t[k]
    BY <1>0, <1>4
  <2>2. s[k] \in Nat /\ v[k - 1] \in Nat
    BY <1>0, <1>5 DEF n
  <2>3. v[k - 1] * RADIX \in Nat
    BY <1>0, <2>2, MulNat, Zenon
  <2> DEFINE x == v[k - 1] * RADIX
  <2>4. v[k] = x + s[k] /\ w[k] = x + (s[k] + 1) /\ x \in Nat
    BY <1>3, <2>1, <2>3
  <2> HIDE DEF x
  <2>5. w[k] = v[k] + 1
    BY <2>2, <2>4
  <2>6. k + 0 = k
    BY <1>0
  <2>7. QED
    BY <2>5, <2>6
<1>7. ASSUME NEW j \in Nat, j \in G PROVE j + 1 \in G
  <2> SUFFICES ASSUME k + (j + 1) <= n PROVE w[k + (j + 1)] = v[k + (j + 1)] + 1
    OBVIOUS
  <2> DEFINE i == k + j
  <2>1. i \in 0..n /\ k + (j + 1) = i + 1 /\ i + 1 \in 1..n /\ (i + 1) - 1 = i
        /\ i + 1 \in (k + 1)..n
    BY <1>0
  <2>2. w[i] = v[i] + 1
    BY <1>0, <1>7
  <2> HIDE DEF i
  <2>3. v[i + 1] = v[i] * RADIX + s[i + 1] /\ w[i + 1] = w[i] * RADIX + t[i + 1]
    BY <1>4, <2>1
  <2>4. s[i + 1] = RADIX - 1 /\ t[i + 1] = 0
    BY <2>1 DEF n
  <2>5. v[i] \in Nat
    BY <1>5, <2>1
  <2>6. (v[i] + 1) * RADIX = v[i] * RADIX + RADIX
    BY <1>0, <2>5
  <2>7. v[i] * RADIX \in Nat
    BY <1>0, <2>5, MulNat, Zenon
  <2> DEFINE x == v[i] * RADIX
  <2>8. v[i + 1] = x + (RADIX - 1) /\ w[i + 1] = x + RADIX + 0 /\ x \in Nat
    BY <2>2, <2>3, <2>4, <2>6, <2>7
  <2> HIDE DEF x
  <2>9. w[i + 1] = v[i + 1] + 1
    BY <1>0, <2>8
  <2>10. QED
    BY <2>1, <2>9
<1> HIDE DEF G
<1>8. \A j \in Nat : j \in G
  BY <1>6, <1>7, Induction
<1> DEFINE j == n - k
<1>9. j \in Nat /\ k + j = n
  BY <1>0
<1> HIDE DEF j
<1>10. w[n] = v[n] + 1
  <2>1. n <= n
    BY <1>0
  <2>2. QED
    BY <1>8, <1>9, <2>1 DEF G
<1>11. QED
  BY <1>1, <1>2, <1>10

-----------------------------------------------------------------------------
(* The word low                                                            *)

\* low is a carry c, its leading byte t and the rest u.
Parts(low, c, t, u) ==
    /\ c \in 0..1 /\ t \in Bytes /\ u \in 0..(TOP - 1)
    /\ low = c * Word + (t * TOP + u)

LEMMA LowParts ==
  ASSUME NEW low \in Nat, low < 2 * Word
  PROVE  \E c, t, u : Parts(low, c, t, u)
<1>0. Word \in Nat /\ Word > 0 /\ TOP \in Nat /\ TOP > 0 /\ RADIX \in Nat /\ Word = TOP * RADIX
  BY Scales
<1> DEFINE c == low \div Word
           lo == low % Word
           t == lo \div TOP
           u == lo % TOP
<1>1. c \in Nat /\ lo \in 0..(Word - 1) /\ low = Word * c + lo
  BY <1>0, DivMod
<1>2. c < 2
  <2>1. low < Word * 2
    BY <1>0
  <2>2. 2 \in Nat
    OBVIOUS
  <2>3. QED
    BY <1>0, <2>1, <2>2, DivBelow
<1> HIDE DEF c, lo
<1>3. lo \in Nat
  BY <1>0, <1>1
<1>4. t \in Nat /\ u \in 0..(TOP - 1) /\ lo = TOP * t + u
  BY <1>0, <1>3, DivMod
<1>5. t < RADIX
  <2>1. lo < TOP * RADIX
    BY <1>0, <1>1
  <2>2. QED
    BY <1>0, <1>3, <2>1, DivBelow
<1> HIDE DEF t, u
<1>6. c * Word = Word * c /\ t * TOP = TOP * t
  BY <1>0, <1>1, <1>4
<1>7. c \in 0..1 /\ t \in Bytes
  BY <1>0, <1>1, <1>2, <1>4, <1>5 DEF Bytes
<1>8. low = c * Word + (t * TOP + u)
  BY <1>1, <1>4, <1>6
<1>9. QED
  BY <1>4, <1>7, <1>8 DEF Parts

LEMMA PartsDef ==
  ASSUME NEW low \in Nat, NEW c, NEW t, NEW u, Parts(low, c, t, u)
  PROVE  /\ low \div Word = c /\ (low \div TOP) % RADIX = t /\ (low * RADIX) % Word = u * RADIX
         /\ (low < (RADIX - 1) * TOP \/ low >= Word) <=> (t # RADIX - 1 \/ c = 1)
         /\ u * RADIX \in Nat /\ u * RADIX < Word
<1>0. /\ Word \in Nat /\ Word > 0 /\ TOP \in Nat /\ TOP > 0 /\ RADIX \in Nat /\ RADIX >= 2
      /\ Word = TOP * RADIX /\ Word = RADIX * TOP
  BY Scales
<1>1. /\ c \in Nat /\ t \in Nat /\ u \in Nat /\ c <= 1 /\ t < RADIX /\ u < TOP
      /\ low = c * Word + (t * TOP + u)
  BY <1>0 DEF Parts, Bytes
<1>2. t * TOP \in Nat /\ t * TOP + TOP <= Word
  <2>1. t + 1 <= RADIX /\ t + 1 \in Nat
    BY <1>0, <1>1
  <2>2. (t + 1) * TOP <= RADIX * TOP
    BY <1>0, <2>1, MulMono
  <2>3. (t + 1) * TOP = t * TOP + TOP
    BY <1>0, <1>1
  <2>4. t * TOP \in Nat
    BY <1>0, <1>1, MulNat, Zenon
  <2>5. QED
    BY <1>0, <2>2, <2>3, <2>4
<1>3. low \div Word = c
  <2> DEFINE r == t * TOP + u
  <2>1. r \in 0..(Word - 1)
    BY <1>0, <1>1, <1>2
  <2>2. low = Word * c + r
    BY <1>0, <1>1
  <2> HIDE DEF r
  <2>3. QED
    BY <1>0, <1>1, <2>1, <2>2, DivUnique
<1>4. (low \div TOP) % RADIX = t
  <2> DEFINE q == RADIX * c + t
  <2>1. RADIX * c \in Nat
    BY <1>0, <1>1, MulNat, Zenon
  <2>2. q \in Nat
    BY <1>1, <2>1
  <2>3. TOP * q = TOP * (RADIX * c) + TOP * t
    BY <1>0, <1>1, <2>1
  <2>4. TOP * (RADIX * c) = c * Word
    BY <1>0, <1>1
  <2>5. TOP * t = t * TOP
    BY <1>0, <1>1
  <2>6. low = TOP * q + u
    <3> DEFINE x == c * Word
               y == t * TOP
               z == TOP * q
    <3>1. x \in Nat
      BY <1>0, <1>1, MulNat, Zenon
    <3>2. y \in Nat /\ z = x + y /\ low = x + (y + u)
      BY <1>1, <1>2, <2>3, <2>4, <2>5
    <3> HIDE DEF x, y, z
    <3>3. low = z + u
      BY <1>1, <3>1, <3>2
    <3>4. QED
      BY <3>3 DEF z
  <2>7. u \in 0..(TOP - 1) /\ t \in 0..(RADIX - 1)
    BY <1>0, <1>1
  <2>8. q % RADIX = t
    BY <1>0, <1>1, <2>7, DivUnique
  <2> HIDE DEF q
  <2>9. low \div TOP = q
    BY <1>0, <2>2, <2>6, <2>7, DivUnique
  <2>10. QED
    BY <2>8, <2>9
<1>5. u * RADIX \in Nat /\ u * RADIX < Word
  <2>1. u + 1 <= TOP /\ u + 1 \in Nat
    BY <1>0, <1>1
  <2>2. (u + 1) * RADIX <= TOP * RADIX
    BY <1>0, <2>1, MulMono
  <2>3. (u + 1) * RADIX = u * RADIX + RADIX
    BY <1>0, <1>1
  <2>4. u * RADIX \in Nat
    BY <1>0, <1>1, MulNat, Zenon
  <2>5. QED
    BY <1>0, <2>2, <2>3, <2>4
<1>6. (low * RADIX) % Word = u * RADIX
  <2> DEFINE q == c * RADIX + t
             r == u * RADIX
  <2>1. q \in Nat
    BY <1>0, <1>1
  <2>2. low * RADIX = (c * Word) * RADIX + (t * TOP) * RADIX + u * RADIX
    BY <1>0, <1>1, <1>2
  <2>3. (c * Word) * RADIX = Word * (c * RADIX)
    BY <1>0, <1>1
  <2>4. (t * TOP) * RADIX = Word * t
    BY <1>0, <1>1
  <2>5. Word * q = Word * (c * RADIX) + Word * t
    BY <1>0, <1>1
  <2>6. low * RADIX = Word * q + r
    BY <2>2, <2>3, <2>4, <2>5
  <2>7. r \in 0..(Word - 1)
    BY <1>0, <1>5
  <2> HIDE DEF q, r
  <2>8. (low * RADIX) % Word = r
    BY <1>0, <2>1, <2>6, <2>7, DivUnique
  <2>9. QED
    BY <2>8 DEF r
<1>7. (low < (RADIX - 1) * TOP \/ low >= Word) <=> (t # RADIX - 1 \/ c = 1)
  <2> DEFINE x == t * TOP
             m == (RADIX - 1) * TOP
  <2>1. m = Word - TOP /\ m \in Nat
    BY <1>0
  <2>2. CASE c = 1
    <3>1. c * Word = Word
      BY <1>0, <2>2
    <3>2. low >= Word
      BY <1>0, <1>1, <1>2, <3>1
    <3>3. QED
      BY <2>2, <3>2
  <2>3. CASE c = 0
    <3>1. c * Word = 0
      BY <1>0, <2>3
    <3>2. low = x + u /\ x \in Nat /\ x + TOP <= Word
      BY <1>1, <1>2, <3>1
    <3>3. low < Word
      BY <1>0, <1>1, <3>2
    <3>4. t = RADIX - 1 => x = m
      OBVIOUS
    <3>5. t # RADIX - 1 => x + TOP <= m
      <4> SUFFICES ASSUME t # RADIX - 1 PROVE x + TOP <= m
        OBVIOUS
      <4>1. t + 1 <= RADIX - 1 /\ t + 1 \in Nat /\ RADIX - 1 \in Nat
        BY <1>0, <1>1
      <4>2. (t + 1) * TOP <= (RADIX - 1) * TOP
        BY <1>0, <4>1, MulMono
      <4>3. (t + 1) * TOP = t * TOP + TOP
        BY <1>0, <1>1
      <4>4. QED
        BY <4>2, <4>3
    <3> HIDE DEF x, m
    <3>6. low < m <=> t # RADIX - 1
      BY <1>0, <1>1, <2>1, <3>2, <3>4, <3>5
    <3>7. QED
      BY <1>0, <2>3, <3>3, <3>6 DEF m
  <2>4. QED
    BY <1>1, <2>2, <2>3
<1>8. QED
  BY <1>3, <1>4, <1>5, <1>6, <1>7

-----------------------------------------------------------------------------
(* shift_low                                                               *)

Encoders == [low : Nat, range : 1..(Word - 1), cache : Bytes, cache_size : Nat \ {0},
             out : Seq(Bytes)]

\* The bytes that were sent and those that are withheld, and the number that they
\* stand for together with low.
HeldBy(e) == e.out \o <<e.cache>> \o [i \in 1..(e.cache_size - 1) |-> RADIX - 1]
NumberOf(e) == Value(HeldBy(e)) * Word + e.low

LEMMA BytesAreNumbers == Seq(Bytes) \subseteq Seq(Nat) /\ Bytes \subseteq Nat
<1>1. Bytes \subseteq Nat
  BY Scales DEF Bytes
<1>2. QED
  BY <1>1, SeqMonotonic

LEMMA HeldDef ==
  ASSUME NEW e \in Encoders
  PROVE  /\ HeldBy(e) \in Seq(Bytes) /\ Len(HeldBy(e)) = Len(e.out) + e.cache_size
         /\ Len(e.out) \in Nat
         /\ \A i \in 1..Len(e.out) : HeldBy(e)[i] = e.out[i]
         /\ HeldBy(e)[Len(e.out) + 1] = e.cache
         /\ \A i \in (Len(e.out) + 2)..(Len(e.out) + e.cache_size) : HeldBy(e)[i] = RADIX - 1
<1> DEFINE n == Len(e.out)
           s1 == <<e.cache>>
           s2 == [i \in 1..(e.cache_size - 1) |-> RADIX - 1]
           s12 == e.out \o s1
<1>1. /\ e.out \in Seq(Bytes) /\ e.cache \in Bytes /\ e.cache_size \in Nat /\ e.cache_size >= 1
      /\ RADIX - 1 \in Bytes
  BY Scales DEF Encoders, Bytes
<1>2. n \in Nat
  BY <1>1
<1>3. s1 \in Seq(Bytes) /\ Len(s1) = 1 /\ s1[1] = e.cache
  BY <1>1
<1>4. e.cache_size - 1 \in Nat /\ s2 \in Seq(Bytes) /\ Len(s2) = e.cache_size - 1
      /\ \A i \in 1..(e.cache_size - 1) : s2[i] = RADIX - 1
  BY <1>1
<1>5. HeldBy(e) = s12 \o s2
  BY DEF HeldBy
<1> HIDE DEF s1, s2
<1>6. /\ s12 \in Seq(Bytes) /\ Len(s12) = n + 1
      /\ \A i \in 1..(n + 1) : s12[i] = IF i <= n THEN e.out[i] ELSE s1[i - n]
  <2>1. /\ s12 \in Seq(Bytes) /\ Len(s12) = Len(e.out) + Len(s1)
        /\ \A i \in 1..Len(e.out) + Len(s1) :
              s12[i] = IF i <= Len(e.out) THEN e.out[i] ELSE s1[i - Len(e.out)]
    BY <1>1, <1>3, ConcatProperties, Zenon
  <2> HIDE DEF s12
  <2>2. QED
    BY <1>3, <2>1
<1> HIDE DEF s12
<1>7. /\ HeldBy(e) \in Seq(Bytes) /\ Len(HeldBy(e)) = (n + 1) + (e.cache_size - 1)
      /\ \A i \in 1..((n + 1) + (e.cache_size - 1)) :
            HeldBy(e)[i] = IF i <= n + 1 THEN s12[i] ELSE s2[i - (n + 1)]
  <2> DEFINE w == s12 \o s2
  <2>1. /\ w \in Seq(Bytes) /\ Len(w) = Len(s12) + Len(s2)
        /\ \A i \in 1..Len(s12) + Len(s2) :
              w[i] = IF i <= Len(s12) THEN s12[i] ELSE s2[i - Len(s12)]
    BY <1>4, <1>6, ConcatProperties, Zenon
  <2>2. HeldBy(e) = w
    BY <1>5
  <2> HIDE DEF n, w
  <2>3. QED
    BY <1>4, <1>6, <2>1, <2>2
<1> HIDE DEF n
<1>8. (n + 1) + (e.cache_size - 1) = n + e.cache_size
  BY <1>1, <1>2
<1>9. ASSUME NEW i \in 1..n PROVE HeldBy(e)[i] = e.out[i]
  BY <1>1, <1>2, <1>6, <1>7, <1>9
<1>10. HeldBy(e)[n + 1] = e.cache
  <2>1. n + 1 \in 1..(n + 1) /\ ~(n + 1 <= n) /\ (n + 1) - n = 1
        /\ n + 1 \in 1..((n + 1) + (e.cache_size - 1)) /\ n + 1 <= n + 1
    BY <1>1, <1>2
  <2>2. HeldBy(e)[n + 1] = s12[n + 1] /\ s12[n + 1] = s1[(n + 1) - n]
    BY <1>6, <1>7, <2>1
  <2>3. QED
    BY <1>3, <2>1, <2>2
<1>11. ASSUME NEW i \in (n + 2)..(n + e.cache_size) PROVE HeldBy(e)[i] = RADIX - 1
  <2>1. i \in 1..((n + 1) + (e.cache_size - 1)) /\ ~(i <= n + 1)
        /\ i - (n + 1) \in 1..(e.cache_size - 1)
    BY <1>1, <1>2
  <2>2. HeldBy(e)[i] = s2[i - (n + 1)]
    BY <1>7, <2>1
  <2>3. QED
    BY <1>4, <2>1, <2>2
<1>12. QED
  BY <1>2, <1>7, <1>8, <1>9, <1>10, <1>11 DEF n

LEMMA SmallMod ==
  ASSUME NEW d \in Nat, d > 0
  PROVE  d % d = 0 /\ \A x \in 0..(d - 1) : x % d = x
OBVIOUS

\* What shift_low sends when it settles, and what it keeps.
Settles(e, f, c, t, u) ==
    /\ f.low = u * RADIX /\ f.range = e.range /\ f \in Encoders
    /\ \/ /\ t = RADIX - 1 /\ c = 0
          /\ f.out = e.out /\ f.cache = e.cache /\ f.cache_size = e.cache_size + 1
       \/ /\ f.cache = t /\ f.cache_size = 1
          /\ t # RADIX - 1 \/ c = 1
          /\ \E w \in [1..e.cache_size -> Bytes] :
                /\ f.out = e.out \o w
                /\ \A i \in 1..e.cache_size :
                      w[i] = IF i = 1 THEN e.cache + c ELSE IF c = 1 THEN 0 ELSE RADIX - 1

LEMMA ShiftCases ==
  ASSUME NEW e \in Encoders, NEW c, NEW t, NEW u, Parts(e.low, c, t, u),
         c = 1 => e.cache # RADIX - 1
  PROVE  Settles(e, shift_low(e), c, t, u)
<1> DEFINE withheld == [i \in 1..e.cache_size |-> IF i = 1 THEN e.cache ELSE RADIX - 1]
           w == [i \in 1..e.cache_size |-> (withheld[i] + c) % RADIX]
           settled == e.low < (RADIX - 1) * TOP \/ e.low >= Word
<1>1. /\ e.low \in Nat /\ e.out \in Seq(Bytes) /\ e.cache \in 0..(RADIX - 1)
      /\ e.cache_size \in Nat /\ e.cache_size >= 1 /\ e.range \in 1..(Word - 1)
      /\ e = [low |-> e.low, range |-> e.range, cache |-> e.cache,
              cache_size |-> e.cache_size, out |-> e.out]
  BY DEF Encoders, Bytes
<1>2. /\ e.low \div Word = c /\ (e.low \div TOP) % RADIX = t /\ (e.low * RADIX) % Word = u * RADIX
      /\ settled <=> (t # RADIX - 1 \/ c = 1)
      /\ u * RADIX \in Nat
  BY <1>1, PartsDef
<1>3. c \in 0..1 /\ t \in 0..(RADIX - 1) /\ RADIX \in Nat /\ RADIX >= 2
  BY Scales DEF Parts, Bytes
<1>4. \A i \in 1..e.cache_size :
        /\ w[i] = IF i = 1 THEN e.cache + c ELSE IF c = 1 THEN 0 ELSE RADIX - 1
        /\ w[i] \in 0..(RADIX - 1)
  <2> SUFFICES ASSUME NEW i \in 1..e.cache_size
               PROVE  /\ w[i] = IF i = 1 THEN e.cache + c ELSE IF c = 1 THEN 0 ELSE RADIX - 1
                      /\ w[i] \in 0..(RADIX - 1)
    OBVIOUS
  <2>1. CASE i = 1
    <3>1. e.cache + c \in 0..(RADIX - 1)
      BY <1>1, <1>3
    <3>2. (e.cache + c) % RADIX = e.cache + c
      BY <1>3, <3>1, SmallMod
    <3>3. w[i] = (e.cache + c) % RADIX
      BY <2>1
    <3> HIDE DEF w
    <3>4. QED
      BY <2>1, <3>1, <3>2, <3>3
  <2>2. CASE i # 1 /\ c = 1
    <3> DEFINE y == (RADIX - 1) + 1
    <3>1. w[i] = y % RADIX
      BY <2>2
    <3>2. y = RADIX
      BY <1>3
    <3> HIDE DEF w, y
    <3>3. w[i] = 0
      BY <1>3, <3>1, <3>2, SmallMod
    <3>4. QED
      BY <1>3, <2>2, <3>3
  <2>3. CASE i # 1 /\ c = 0
    <3> DEFINE y == (RADIX - 1) + 0
    <3>1. w[i] = y % RADIX
      BY <2>3
    <3>2. y = RADIX - 1 /\ y \in 0..(RADIX - 1)
      BY <1>3
    <3> HIDE DEF w, y
    <3>3. w[i] = RADIX - 1
      BY <1>3, <3>1, <3>2, SmallMod
    <3>4. QED
      BY <1>3, <2>3, <3>2, <3>3
  <2>4. c = 0 \/ c = 1
    BY <1>3
  <2> HIDE DEF w
  <2>5. QED
    BY <2>1, <2>2, <2>3, <2>4
<1>5. w \in [1..e.cache_size -> Bytes] /\ w \in Seq(Bytes)
  <2>1. w = [i \in 1..e.cache_size |-> w[i]]
    OBVIOUS
  <2> HIDE DEF w
  <2>2. w \in [1..e.cache_size -> Bytes]
    BY <1>4, <2>1 DEF Bytes
  <2>3. QED
    BY <1>1, <2>2
<1>6. DOMAIN withheld = 1..e.cache_size
  OBVIOUS
<1>7. CASE settled
  <2>1. shift_low(e) = [low |-> u * RADIX, range |-> e.range, cache |-> t, cache_size |-> 1,
                        out |-> e.out \o w]
    BY <1>1, <1>2, <1>6, <1>7 DEF shift_low
  <2> HIDE DEF w, settled
  <2>2. e.out \o w \in Seq(Bytes)
    BY <1>1, <1>5, ConcatProperties
  <2>3. shift_low(e) \in Encoders
    BY <1>1, <1>2, <1>3, <2>1, <2>2 DEF Encoders, Bytes
  <2>4. \E x \in [1..e.cache_size -> Bytes] :
          /\ shift_low(e).out = e.out \o x
          /\ \A i \in 1..e.cache_size :
                x[i] = IF i = 1 THEN e.cache + c ELSE IF c = 1 THEN 0 ELSE RADIX - 1
    <3>1. shift_low(e).out = e.out \o w
      BY <2>1
    <3>2. QED
      BY <1>4, <1>5, <3>1
  <2>5. /\ shift_low(e).low = u * RADIX /\ shift_low(e).range = e.range
        /\ shift_low(e).cache = t /\ shift_low(e).cache_size = 1
    BY <2>1
  <2>6. t # RADIX - 1 \/ c = 1
    BY <1>2, <1>7
  <2>7. QED
    BY <2>3, <2>4, <2>5, <2>6, Zenon DEF Settles
<1>8. CASE ~settled
  <2>1. shift_low(e) = [low |-> u * RADIX, range |-> e.range, cache |-> e.cache,
                        cache_size |-> e.cache_size + 1, out |-> e.out]
    BY <1>1, <1>2, <1>8 DEF shift_low
  <2> HIDE DEF w, settled
  <2>2. shift_low(e) \in Encoders
    BY <1>1, <1>2, <2>1 DEF Encoders, Bytes
  <2>3. t = RADIX - 1 /\ c = 0
    BY <1>2, <1>3, <1>8
  <2>4. QED
    BY <2>1, <2>2, <2>3 DEF Settles
<1>9. QED
  BY <1>7, <1>8

Shifts(e, f, c, t, u) ==
    /\ f \in Encoders /\ f.low = u * RADIX /\ f.range = e.range
    /\ \/ t = RADIX - 1 /\ c = 0 /\ f.cache = e.cache
       \/ f.cache = t /\ f.cache_size = 1 /\ (t # RADIX - 1 \/ c = 1)
    /\ Len(f.out) + f.cache_size = Len(e.out) + e.cache_size + 1

LEMMA ShiftSummary ==
  ASSUME NEW e \in Encoders, NEW c, NEW t, NEW u, Parts(e.low, c, t, u),
         c = 1 => e.cache # RADIX - 1
  PROVE  Shifts(e, shift_low(e), c, t, u)
<1> DEFINE f == shift_low(e)
<1>1. Settles(e, f, c, t, u)
  BY ShiftCases
<1> HIDE DEF f
<1>2. e.out \in Seq(Bytes) /\ e.cache_size \in Nat /\ Len(e.out) \in Nat
  BY DEF Encoders
<1>3. \/ t = RADIX - 1 /\ c = 0 /\ f.cache = e.cache
      \/ f.cache = t /\ f.cache_size = 1 /\ (t # RADIX - 1 \/ c = 1)
  BY <1>1, Zenon DEF Settles
<1>4. Len(f.out) + f.cache_size = Len(e.out) + e.cache_size + 1
  <2>1. CASE f.out = e.out /\ f.cache_size = e.cache_size + 1
    BY <1>2, <2>1
  <2>2. ASSUME f.cache_size = 1, NEW w \in [1..e.cache_size -> Bytes], f.out = e.out \o w
        PROVE  Len(f.out) + f.cache_size = Len(e.out) + e.cache_size + 1
    <3>1. w \in Seq(Bytes) /\ Len(w) = e.cache_size
      BY <1>2
    <3>2. Len(e.out \o w) = Len(e.out) + Len(w)
      BY <1>2, <3>1, ConcatProperties
    <3>3. QED
      BY <1>2, <2>2, <3>1, <3>2
  <2>3. QED
    BY <1>1, <2>1, <2>2, Zenon DEF Settles
<1>5. QED
  BY <1>1, <1>3, <1>4, Zenon DEF f, Settles, Shifts

\* The bytes that are held afterwards: the carry has arrived, and there is one more.
LEMMA ShiftHeld ==
  ASSUME NEW e \in Encoders, NEW c, NEW t, NEW u, Parts(e.low, c, t, u),
         c = 1 => e.cache # RADIX - 1
  PROVE  LET old == HeldBy(e)
             new == HeldBy(shift_low(e))
             k == Len(e.out) + 1
         IN  /\ new \in Seq(Bytes) /\ Len(new) = Len(old) + 1 /\ new[Len(old) + 1] = t
             /\ \A i \in 1..(k - 1) : new[i] = old[i]
             /\ new[k] = old[k] + c
             /\ \A i \in (k + 1)..Len(old) : old[i] = RADIX - 1
                                           /\ new[i] = IF c = 1 THEN 0 ELSE RADIX - 1
<1> DEFINE old == HeldBy(e)
           f == shift_low(e)
           new == HeldBy(f)
           n == Len(e.out)
           size == e.cache_size
<1>1. /\ f \in Encoders
      /\ \/ /\ t = RADIX - 1 /\ c = 0
            /\ f.out = e.out /\ f.cache = e.cache /\ f.cache_size = size + 1
         \/ /\ f.cache = t /\ f.cache_size = 1
            /\ t # RADIX - 1 \/ c = 1
            /\ \E w \in [1..size -> Bytes] :
                  /\ f.out = e.out \o w
                  /\ \A i \in 1..size :
                        w[i] = IF i = 1 THEN e.cache + c ELSE IF c = 1 THEN 0 ELSE RADIX - 1
  <2>1. Settles(e, f, c, t, u)
    BY ShiftCases
  <2> HIDE DEF f
  <2>2. QED
    BY <2>1, Zenon DEF Settles, size
<1>2. /\ e.out \in Seq(Bytes) /\ size \in Nat /\ size >= 1 /\ n \in Nat
      /\ e.cache \in Nat /\ c \in 0..1
  BY Scales DEF Encoders, Bytes, Parts
<1>3. /\ old \in Seq(Bytes) /\ Len(old) = n + size
      /\ \A i \in 1..n : old[i] = e.out[i]
      /\ old[n + 1] = e.cache
      /\ \A i \in (n + 2)..(n + size) : old[i] = RADIX - 1
  BY HeldDef
<1> HIDE DEF f
<1>4. /\ new \in Seq(Bytes) /\ Len(new) = Len(f.out) + f.cache_size /\ Len(f.out) \in Nat
      /\ \A i \in 1..Len(f.out) : new[i] = f.out[i]
      /\ new[Len(f.out) + 1] = f.cache
      /\ \A i \in (Len(f.out) + 2)..(Len(f.out) + f.cache_size) : new[i] = RADIX - 1
  BY <1>1, HeldDef
<1> HIDE DEF old, new, n, size
<1> DEFINE Goal ==
             /\ new \in Seq(Bytes) /\ Len(new) = n + size + 1 /\ new[n + size + 1] = t
             /\ \A i \in 1..n : new[i] = old[i]
             /\ new[n + 1] = old[n + 1] + c
             /\ \A i \in (n + 2)..(n + size) : old[i] = RADIX - 1
                                             /\ new[i] = IF c = 1 THEN 0 ELSE RADIX - 1
<1>5. ASSUME /\ t = RADIX - 1 /\ c = 0
             /\ f.out = e.out /\ f.cache = e.cache /\ f.cache_size = size + 1
      PROVE  Goal
  <2>1. Len(f.out) = n
    BY <1>5 DEF n
  <2>2. /\ Len(new) = n + (size + 1)
        /\ \A i \in 1..n : new[i] = f.out[i]
        /\ new[n + 1] = f.cache
        /\ \A i \in (n + 2)..(n + (size + 1)) : new[i] = RADIX - 1
    BY <1>4, <1>5, <2>1
  <2>3. n + size + 1 = n + (size + 1) /\ n + size + 1 \in (n + 2)..(n + (size + 1))
    BY <1>2
  <2>4. new[n + size + 1] = t /\ Len(new) = n + size + 1
    BY <1>5, <2>2, <2>3
  <2>5. \A i \in 1..n : new[i] = old[i]
    BY <1>3, <1>5, <2>2
  <2>6. new[n + 1] = old[n + 1] + c
    BY <1>2, <1>3, <1>5, <2>2
  <2>7. \A i \in (n + 2)..(n + size) : i \in (n + 2)..(n + (size + 1))
    BY <1>2
  <2>8. \A i \in (n + 2)..(n + size) : old[i] = RADIX - 1
                                     /\ new[i] = IF c = 1 THEN 0 ELSE RADIX - 1
    BY <1>3, <1>5, <2>2, <2>7
  <2>9. QED
    BY <1>4, <2>4, <2>5, <2>6, <2>8
<1>6. ASSUME f.cache = t, f.cache_size = 1, NEW w \in [1..size -> Bytes],
             f.out = e.out \o w,
             \A i \in 1..size :
                w[i] = IF i = 1 THEN e.cache + c ELSE IF c = 1 THEN 0 ELSE RADIX - 1
      PROVE  Goal
  <2>1. w \in Seq(Bytes) /\ Len(w) = size
    BY <1>2
  <2>2. /\ Len(f.out) = n + size
        /\ \A i \in 1..(n + size) : f.out[i] = IF i <= n THEN e.out[i] ELSE w[i - n]
    <3> DEFINE o == e.out \o w
    <3>1. /\ Len(o) = Len(e.out) + Len(w)
          /\ \A i \in 1..Len(e.out) + Len(w) :
                o[i] = IF i <= Len(e.out) THEN e.out[i] ELSE w[i - Len(e.out)]
      BY <1>2, <2>1, ConcatProperties, Zenon
    <3>2. f.out = o
      BY <1>6
    <3> HIDE DEF o
    <3>3. QED
      BY <2>1, <3>1, <3>2 DEF n
  <2>3. /\ Len(new) = n + size + 1
        /\ \A i \in 1..(n + size) : new[i] = f.out[i]
        /\ new[n + size + 1] = t
    BY <1>4, <1>6, <2>2
  <2>4. \A i \in 1..n : new[i] = old[i]
    <3>1. \A i \in 1..n : i \in 1..(n + size) /\ i <= n
      BY <1>2
    <3>2. QED
      BY <1>3, <2>2, <2>3, <3>1
  <2>5. ASSUME NEW i \in (n + 1)..(n + size) PROVE new[i] = w[i - n] /\ i - n \in 1..size
    <3>1. i \in 1..(n + size) /\ ~(i <= n) /\ i - n \in 1..size
      BY <1>2
    <3>2. QED
      BY <2>2, <2>3, <3>1
  <2>6. new[n + 1] = old[n + 1] + c
    <3>1. n + 1 \in (n + 1)..(n + size) /\ (n + 1) - n = 1
      BY <1>2
    <3>2. new[n + 1] = w[1] /\ 1 \in 1..size
      BY <2>5, <3>1
    <3>3. QED
      BY <1>3, <1>6, <3>2
  <2>7. ASSUME NEW i \in (n + 2)..(n + size)
        PROVE  old[i] = RADIX - 1 /\ new[i] = IF c = 1 THEN 0 ELSE RADIX - 1
    <3>1. i \in (n + 1)..(n + size) /\ i - n # 1
      BY <1>2
    <3>2. new[i] = w[i - n] /\ i - n \in 1..size
      BY <2>5, <3>1
    <3>3. w[i - n] = IF c = 1 THEN 0 ELSE RADIX - 1
      BY <1>6, <3>1, <3>2
    <3>4. QED
      BY <1>3, <3>2, <3>3
  <2>8. QED
    BY <1>4, <2>3, <2>4, <2>6, <2>7
<1> HIDE DEF Goal
<1>7. Goal
  BY <1>1, <1>5, <1>6, Zenon
<1> USE DEF Goal
<1>8. /\ new \in Seq(Bytes) /\ Len(new) = Len(old) + 1 /\ new[Len(old) + 1] = t
      /\ \A i \in 1..((n + 1) - 1) : new[i] = old[i]
      /\ new[n + 1] = old[n + 1] + c
      /\ \A i \in ((n + 1) + 1)..Len(old) : old[i] = RADIX - 1
                                     /\ new[i] = IF c = 1 THEN 0 ELSE RADIX - 1
  <2>1. (n + 1) - 1 = n /\ (n + 1) + 1 = n + 2
    BY <1>2
  <2>2. QED
    BY <1>3, <1>7, <2>1
<1>9. QED
  BY <1>8 DEF old, new, n, f

LEMMA ShiftValue ==
  ASSUME NEW e \in Encoders, NEW c, NEW t, NEW u, Parts(e.low, c, t, u),
         c = 1 => e.cache # RADIX - 1
  PROVE  /\ Value(HeldBy(shift_low(e))) = (Value(HeldBy(e)) + c) * RADIX + t
         /\ Value(HeldBy(e)) \in Nat
<1> DEFINE old == HeldBy(e)
           new == HeldBy(shift_low(e))
           k == Len(e.out) + 1
           n == Len(old)
<1>1. /\ new \in Seq(Bytes) /\ Len(new) = n + 1 /\ new[n + 1] = t
      /\ \A i \in 1..(k - 1) : new[i] = old[i]
      /\ new[k] = old[k] + c
      /\ \A i \in (k + 1)..n : old[i] = RADIX - 1
                             /\ new[i] = IF c = 1 THEN 0 ELSE RADIX - 1
  BY ShiftHeld
<1>2. old \in Seq(Nat) /\ k \in 1..n /\ n \in Nat
  <2>1. e.cache_size \in Nat /\ e.cache_size >= 1
    BY DEF Encoders
  <2>2. old \in Seq(Bytes) /\ n = Len(e.out) + e.cache_size /\ Len(e.out) \in Nat
    BY HeldDef
  <2>3. QED
    BY <2>1, <2>2, BytesAreNumbers
<1>3. c \in 0..1
  BY DEF Parts
<1> HIDE DEF old, new, k
<1> DEFINE s == [i \in 1..n |-> new[i]]
<1>4. s \in Seq(Nat) /\ Len(s) = n /\ \A i \in 1..n : s[i] = new[i]
  <2>1. \A i \in 1..n : new[i] \in Nat
    BY <1>1, <1>2, ElementOfSeq, BytesAreNumbers
  <2>2. QED
    BY <1>2, <2>1
<1> HIDE DEF s
<1>5. Value(new) = Value(s) * RADIX + t
  <2>1. new \in Seq(Nat)
    BY <1>1, BytesAreNumbers
  <2>2. Value(new) = Value(s) * RADIX + new[Len(new)]
    BY <1>1, <1>4, <2>1, ValueAppend
  <2>3. QED
    BY <1>1, <2>2
<1>6. old[k] \in Nat
  BY <1>2
<1>7. Value(s) = Value(old) + c
  <2>1. CASE c = 0
    <3>1. \A i \in 1..n : s[i] = old[i]
      <4> SUFFICES ASSUME NEW i \in 1..n PROVE s[i] = old[i]
        OBVIOUS
      <4>1. i \in 1..(k - 1) \/ i = k \/ i \in (k + 1)..n
        BY <1>2
      <4>2. new[k] = old[k]
        BY <1>1, <1>6, <2>1
      <4>3. QED
        BY <1>1, <1>4, <2>1, <4>1, <4>2
    <3>2. s = old
      BY <1>2, <1>4, <3>1, SeqEqual
    <3>3. QED
      BY <1>2, <2>1, <3>2, ValueNat
  <2>2. CASE c = 1
    <3>1. \A i \in 1..(k - 1) : s[i] = old[i]
      BY <1>1, <1>2, <1>4
    <3>2. s[k] = old[k] + 1
      BY <1>1, <1>2, <1>4, <2>2
    <3>3. \A i \in (k + 1)..n : old[i] = RADIX - 1 /\ s[i] = 0
      BY <1>1, <1>2, <1>4, <2>2
    <3>4. Value(s) = Value(old) + 1
      BY <1>2, <1>4, <3>1, <3>2, <3>3, ValueCarry
    <3>5. QED
      BY <2>2, <3>4
  <2>3. QED
    BY <1>3, <2>1, <2>2
<1>8. QED
  BY <1>2, <1>5, <1>7, ValueNat DEF old, new

\* A shift multiplies the number by RADIX: no carry is lost, and no digit.
LEMMA ShiftNumber ==
  ASSUME NEW e \in Encoders, NEW c, NEW t, NEW u, Parts(e.low, c, t, u),
         c = 1 => e.cache # RADIX - 1
  PROVE  NumberOf(shift_low(e)) = RADIX * NumberOf(e) /\ NumberOf(e) \in Nat
<1> DEFINE v == Value(HeldBy(e))
<1>1. /\ Value(HeldBy(shift_low(e))) = (v + c) * RADIX + t /\ v \in Nat
      /\ shift_low(e).low = u * RADIX /\ e.low = c * Word + (t * TOP + u) /\ e.low \in Nat
  BY ShiftValue, ShiftCases DEF Parts, Encoders, Settles
<1>2. c \in Nat /\ t \in Nat /\ u \in Nat /\ RADIX \in Nat /\ TOP \in Nat /\ Word \in Nat
      /\ Word = RADIX * TOP
  BY Scales DEF Parts, Bytes
<1>3. /\ NumberOf(shift_low(e)) = ((v + c) * RADIX + t) * Word + u * RADIX
      /\ NumberOf(e) = v * Word + e.low
  BY <1>1 DEF NumberOf
<1> HIDE DEF v
<1> DEFINE vw == v * Word
           cw == c * Word
           tt == t * TOP
<1>4. vw \in Nat /\ cw \in Nat /\ tt \in Nat
  BY <1>1, <1>2, MulNat, Zenon
<1>5. ((v + c) * RADIX + t) * Word = (v + c) * RADIX * Word + t * Word
  BY <1>1, <1>2
<1>6. (v + c) * RADIX * Word = RADIX * vw + RADIX * cw
  BY <1>1, <1>2
<1>7. t * Word = RADIX * tt
  BY <1>2
<1>8. u * RADIX = RADIX * u
  BY <1>2
<1>9. e.low = cw + (tt + u)
  BY <1>1
<1>10. NumberOf(e) = vw + e.low
  BY <1>3
<1>11. NumberOf(shift_low(e)) = RADIX * vw + RADIX * cw + RADIX * tt + RADIX * u
  <2>1. /\ RADIX * vw \in Nat /\ RADIX * cw \in Nat /\ RADIX * tt \in Nat /\ RADIX * u \in Nat
    BY <1>2, <1>4, MulNat, Zenon
  <2>2. NumberOf(shift_low(e)) = ((RADIX * vw + RADIX * cw) + RADIX * tt) + RADIX * u
    BY <1>3, <1>5, <1>6, <1>7, <1>8
  <2>3. QED
    BY <2>2
<1> HIDE DEF vw, cw, tt
<1>12. RADIX * (vw + (cw + (tt + u))) = RADIX * vw + RADIX * cw + RADIX * tt + RADIX * u
  BY <1>2, <1>4
<1>13. NumberOf(e) = vw + (cw + (tt + u)) /\ NumberOf(e) \in Nat
  BY <1>2, <1>4, <1>9, <1>10
<1>14. QED
  BY <1>11, <1>12, <1>13

-----------------------------------------------------------------------------
(* The models                                                              *)

Chances == 1..(PROB_SCALE - 1)
Contexts == Seq(Nat)
Tables == UNION {[D -> Chances] : D \in SUBSET Contexts}

BitModels == [probs : [1..(RADIX - 1) -> Chances], ctx : 1..(RADIX - 1)]
Predictors ==
    [tables : [Models -> Tables], weights : [Models -> Int], c1 : Nat, c2 : Nat,
     partial : 1..(RADIX - 1), idx : [Models -> Contexts], st : [Models -> Int],
     last_p : Chances]

ModelsOf(c) == IF c = "ARB1" THEN BitModels ELSE Predictors

LEMMA Chance1 ==
  /\ Even \in Chances
  /\ \A p \in Int : ClampProb(p) \in Chances
  /\ Chances \subseteq Int
<1>1. PROB_SCALE \in Nat /\ PROB_SCALE >= 2
  BY Scales
<1>2. QED
  BY <1>1 DEF Even, Chances, ClampProb, Clamp

LEMMA WalkRange ==
  ASSUME NEW x \in 1..(RADIX - 1), NEW bit \in 0..1
  PROVE  Walk(x, bit) \in 1..(RADIX - 1)
BY Scales DEF Walk

LEMMA BitModelFresh == BitModel \in BitModels
BY Chance1, Scales DEF BitModel, BitModels

LEMMA UpdateType ==
  ASSUME NEW m \in BitModels, NEW bit \in 0..1
  PROVE  Update(m, bit) \in BitModels /\ Get(m) \in Chances
<1>1. m.probs \in [1..(RADIX - 1) -> Chances] /\ m.ctx \in 1..(RADIX - 1)
  BY DEF BitModels
<1>2. Get(m) \in Chances /\ Get(m) \in Int
  BY <1>1, Chance1 DEF Get
<1> DEFINE p == Get(m)
           np == IF bit = 1 THEN p + (PROB_SCALE - p) \div ADAPT ELSE p - p \div ADAPT
<1>3. ADAPT \in Nat /\ ADAPT > 0 /\ PROB_SCALE \in Int
  BY ModelAssumption
<1> HIDE DEF p
<1>4. p \in Int
  BY <1>2 DEF p
<1>5. np \in Int
  BY <1>3, <1>4
<1> HIDE DEF np
<1>6. Update(m, bit) = [probs |-> [m.probs EXCEPT ![m.ctx] = ClampProb(np)],
                        ctx |-> Walk(m.ctx, bit)]
  BY DEF Update, np, p
<1>7. ClampProb(np) \in Chances
  BY <1>5, Chance1
<1>8. Walk(m.ctx, bit) \in 1..(RADIX - 1)
  BY <1>1, WalkRange
<1>9. Update(m, bit) \in BitModels
  BY <1>1, <1>6, <1>7, <1>8 DEF BitModels
<1>10. QED
  BY <1>2, <1>9

LEMMA PredictorFresh == NewPredictor \in Predictors
<1>1. Len(RATES) \in Nat /\ Len(RATES) > 0 /\ WEIGHT_ONE \in Nat
  <2>1. Len(RATES) \in 1..3
    BY ModelAssumption
  <2>2. WEIGHT_ONE \in Nat
    BY ModelAssumption
  <2>3. QED
    BY <2>1, <2>2
<1>2. WEIGHT_ONE \div Len(RATES) \in Int
  BY <1>1
<1>3. <<>> \in Contexts
  BY DEF Contexts
<1>4. <<>> \in Tables
  <2>1. <<>> \in [{} -> Chances]
    OBVIOUS
  <2>2. {} \in SUBSET Contexts
    OBVIOUS
  <2>3. QED
    BY <2>1, <2>2 DEF Tables
<1>5. 1 \in 1..(RADIX - 1) /\ Even \in Chances
  BY Scales, Chance1
<1>6. QED
  BY <1>2, <1>3, <1>4, <1>5 DEF NewPredictor, Predictors

LEMMA TableFacts ==
  ASSUME NEW T \in Tables, NEW i \in Contexts, NEW p \in Chances
  PROVE  Chance(T, i) \in Chances /\ Learned(T, i, p) \in Tables
<1>1. PICK D \in SUBSET Contexts : T \in [D -> Chances]
  BY DEF Tables
<1>2. Chance(T, i) \in Chances
  BY <1>1, Chance1 DEF Chance
<1>3. Learned(T, i, p) \in [D \cup {i} -> Chances]
  BY <1>1 DEF Learned
<1>4. D \cup {i} \in SUBSET Contexts
  BY <1>1
<1>5. QED
  BY <1>2, <1>3, <1>4 DEF Tables

\* The dot product of a prediction is an integer.
Dot(m, st) == CHOOSE dot : dot = [k \in 0..Len(RATES) |->
                                    IF k = 0 THEN 0 ELSE dot[k - 1] + m.weights[k] * st[k]]

LEMMA DotType ==
  ASSUME NEW m \in Predictors, NEW st \in [Models -> Int]
  PROVE  Dot(m, st)[Len(RATES)] \in Int
<1> DEFINE n == Len(RATES)
           part == [k \in Nat |-> IF k + 1 \in 1..n THEN m.weights[k + 1] * st[k + 1] ELSE 0]
           next == [k \in Nat |-> [x \in Int |-> x + part[k]]]
           Def(v) == v = [k \in 0..n |-> IF k = 0 THEN 0 ELSE v[k - 1] + m.weights[k] * st[k]]
<1>1. n \in Nat
  BY ModelAssumption
<1>2. m.weights \in [1..n -> Int] /\ st \in [1..n -> Int]
  BY DEF Predictors, Models
<1> HIDE DEF n
<1>3. ASSUME NEW k \in Nat PROVE part[k] \in Int
  <2>1. CASE k + 1 \in 1..n
    <3>1. m.weights[k + 1] \in Int /\ st[k + 1] \in Int
      BY <1>2, <2>1
    <3>2. m.weights[k + 1] * st[k + 1] \in Int
      BY <3>1
    <3>3. QED
      BY <2>1, <3>2
  <2>2. CASE k + 1 \notin 1..n
    BY <2>2
  <2>3. QED
    BY <2>1, <2>2
<1>4. \A k \in 1..n : k - 1 \in Nat /\ part[k - 1] = m.weights[k] * st[k]
  BY <1>1
<1> HIDE DEF part
<1>5. next \in [Nat -> [Int -> Int]]
  BY <1>3
<1>6. \A k \in 1..n, x \in Int : next[k - 1][x] = x + m.weights[k] * st[k]
  BY <1>4
<1> HIDE DEF next
<1>7. PICK f : CourseTo(f, n, Int, 0, next)
  <2>1. 0 \in Int
    OBVIOUS
  <2>2. QED
    BY <1>1, <1>5, <2>1, RecursionUpTo
<1>8. ASSUME NEW k \in 1..n PROVE f[k] = f[k - 1] + m.weights[k] * st[k]
  <2>1. k - 1 \in 0..n
    BY <1>1
  <2>2. f[k - 1] \in Int
    BY <1>7, <2>1 DEF CourseTo
  <2>3. QED
    BY <1>6, <1>7, <2>2 DEF CourseTo
<1>9. Def(f)
  <2>1. f = [k \in 0..n |-> f[k]]
    BY <1>7 DEF CourseTo
  <2>2. \A k \in 0..n : f[k] = IF k = 0 THEN 0 ELSE f[k - 1] + m.weights[k] * st[k]
    BY <1>1, <1>7, <1>8 DEF CourseTo
  <2>3. QED
    BY <2>1, <2>2
<1> DEFINE v == Dot(m, st)
<1>10. Def(v)
  <2>1. v = CHOOSE g : Def(g)
    BY DEF Dot, n
  <2>2. QED
    BY <1>9, <2>1, Zenon
<1> HIDE DEF v
<1>11. v[0] = 0 /\ \A k \in 1..n : v[k] = v[k - 1] + m.weights[k] * st[k]
  <2>1. 0 \in 0..n /\ \A k \in 1..n : k \in 0..n /\ k # 0
    BY <1>1
  <2>2. QED
    BY <1>10, <2>1, Zenon
<1> DEFINE G == {k \in Nat : k <= n => v[k] \in Int}
<1>12. 0 \in G
  BY <1>11
<1>13. ASSUME NEW k \in Nat, k \in G PROVE k + 1 \in G
  <2> SUFFICES ASSUME k + 1 <= n PROVE v[k + 1] \in Int
    OBVIOUS
  <2>1. k + 1 \in 1..n /\ (k + 1) - 1 = k /\ v[k] \in Int
    BY <1>1, <1>13
  <2>2. m.weights[k + 1] \in Int /\ st[k + 1] \in Int
    BY <1>2, <2>1
  <2>3. m.weights[k + 1] * st[k + 1] \in Int
    BY <2>2
  <2>4. v[k + 1] = v[k] + m.weights[k + 1] * st[k + 1]
    BY <1>11, <2>1
  <2>5. QED
    BY <2>1, <2>3, <2>4
<1> HIDE DEF G
<1>14. \A k \in Nat : k \in G
  BY <1>12, <1>13, Induction
<1>15. v[n] \in Int
  <2>1. n <= n
    BY <1>1
  <2>2. QED
    BY <1>1, <1>14, <2>1 DEF G
<1>16. QED
  BY <1>15 DEF v, n

LEMMA ContextType ==
  ASSUME NEW m \in Predictors, NEW k \in Models
  PROVE  ctx_index(m, k) \in Contexts
<1> DEFINE s == SubSeq(<<m.c1, m.c2>>, 1, k - 1)
<1>1. m.partial \in Nat /\ m.c1 \in Nat /\ m.c2 \in Nat
  BY Scales DEF Predictors
<1>2. k - 1 \in 0..2
  <2> DEFINE n == Len(RATES)
  <2>1. n \in 1..3
    BY ModelAssumption
  <2>2. k \in 1..n
    BY DEF Models
  <2> HIDE DEF n
  <2>3. QED
    BY <2>1, <2>2
<1>3. <<m.c1, m.c2>> \in Seq(Nat) /\ Len(<<m.c1, m.c2>>) = 2
  BY <1>1
<1> DEFINE x == <<m.c1, m.c2>>
           last == k - 1
<1> HIDE DEF x, last
<1>4. SubSeq(x, 1, last) \in Seq(Nat)
  BY <1>2, <1>3, SubSeqProperties DEF x, last
<1>5. s \in Seq(Nat) /\ <<m.partial>> \in Seq(Nat)
  BY <1>1, <1>4 DEF x, last
<1> HIDE DEF s
<1>6. <<m.partial>> \o s \in Seq(Nat)
  BY <1>5, ConcatProperties
<1>7. QED
  BY <1>6 DEF ctx_index, s, Contexts

LEMMA PredictType ==
  ASSUME NEW m \in Predictors
  PROVE  predict_bit(m) \in Predictors
<1> DEFINE idx == [k \in Models |-> ctx_index(m, k)]
           st == [k \in Models |-> Stretch[Chance(m.tables[k], idx[k])]]
           x == Dot(m, st)[Len(RATES)] \div WEIGHT_ONE
           y == Clamp(x, -LOGIT_MAX, LOGIT_MAX)
<1>1. /\ m.tables \in [Models -> Tables] /\ m.weights \in [Models -> Int]
      /\ m.c1 \in Nat /\ m.c2 \in Nat /\ m.partial \in 1..(RADIX - 1)
      /\ m = [tables |-> m.tables, weights |-> m.weights, c1 |-> m.c1, c2 |-> m.c2,
              partial |-> m.partial, idx |-> m.idx, st |-> m.st, last_p |-> m.last_p]
  BY DEF Predictors
<1>2. predict_bit(m) = [m EXCEPT !.idx = idx, !.st = st, !.last_p = Squash[y]]
  BY DEF predict_bit, Dot
<1>3. idx \in [Models -> Contexts] /\ \A k \in Models : idx[k] \in Contexts
  BY ContextType
<1>4. Stretch \in [Chances -> Int]
  BY ModelAssumption DEF Chances
<1> HIDE DEF idx
<1>5. \A k \in Models : Chance(m.tables[k], idx[k]) \in Chances
  <2> TAKE k \in Models
  <2>1. m.tables[k] \in Tables /\ idx[k] \in Contexts /\ Even \in Chances
    BY <1>1, <1>3, Chance1
  <2>2. QED
    BY <2>1, TableFacts
<1>6. st \in [Models -> Int]
  BY <1>4, <1>5
<1> HIDE DEF st
<1>7. x \in Int
  <2>1. Dot(m, st)[Len(RATES)] \in Int
    BY <1>6, DotType
  <2>2. WEIGHT_ONE \in Nat /\ WEIGHT_ONE > 0
    BY ModelAssumption
  <2>3. QED
    BY <2>1, <2>2
<1> HIDE DEF x
<1>8. y \in -LOGIT_MAX..LOGIT_MAX
  <2>1. LOGIT_MAX \in Nat
    BY ModelAssumption
  <2>2. QED
    BY <1>7, <2>1 DEF Clamp
<1> HIDE DEF y
<1>9. Squash[y] \in Chances
  <2>1. Squash \in [-LOGIT_MAX..LOGIT_MAX -> Chances]
    BY ModelAssumption DEF Chances
  <2>2. QED
    BY <1>8, <2>1
<1> DEFINE q == Squash[y]
<1> HIDE DEF q
<1>10. predict_bit(m) = [tables |-> m.tables, weights |-> m.weights, c1 |-> m.c1, c2 |-> m.c2,
                         partial |-> m.partial, idx |-> idx, st |-> st, last_p |-> q]
  BY <1>1, <1>2 DEF q
<1>11. QED
  BY <1>1, <1>3, <1>6, <1>9, <1>10 DEF Predictors, q

LEMMA LearnType ==
  ASSUME NEW m \in Predictors, NEW bit \in 0..1
  PROVE  update_bit(m, bit) \in Predictors
<1> DEFINE err == bit * PROB_SCALE - m.last_p
           next == 2 * m.partial + bit
           whole == next >= RADIX
           weights == [k \in Models |-> Clamp(m.weights[k] + (m.st[k] * err) \div LEARNING,
                                              -WEIGHT_MAX, WEIGHT_MAX)]
           tables == [k \in Models |->
                        Learned(m.tables[k], m.idx[k],
                                counter_update(Chance(m.tables[k], m.idx[k]), bit, RATES[k]))]
           c2 == IF whole THEN m.c1 ELSE m.c2
           c1 == IF whole THEN next - RADIX ELSE m.c1
           partial == Walk(m.partial, bit)
<1>1. /\ m.tables \in [Models -> Tables] /\ m.weights \in [Models -> Int]
      /\ m.c1 \in Nat /\ m.c2 \in Nat /\ m.partial \in 1..(RADIX - 1)
      /\ m.idx \in [Models -> Contexts] /\ m.st \in [Models -> Int] /\ m.last_p \in Chances
      /\ m = [tables |-> m.tables, weights |-> m.weights, c1 |-> m.c1, c2 |-> m.c2,
              partial |-> m.partial, idx |-> m.idx, st |-> m.st, last_p |-> m.last_p]
  BY DEF Predictors
<1>2. update_bit(m, bit) = [m EXCEPT !.weights = weights, !.tables = tables, !.c2 = c2,
                                     !.c1 = c1, !.partial = partial]
  BY DEF update_bit
<1>3. partial \in 1..(RADIX - 1) /\ c1 \in Nat /\ c2 \in Nat
  <2>1. partial \in 1..(RADIX - 1)
    BY <1>1, WalkRange
  <2>2. next >= RADIX => next - RADIX \in Nat
    <3>1. RADIX \in Nat /\ next \in Int
      BY <1>1, Scales
    <3> HIDE DEF next
    <3>2. QED
      BY <3>1
  <2> HIDE DEF next, partial
  <2>3. QED
    BY <1>1, <2>1, <2>2
<1> HIDE DEF c1, c2, partial
<1>4. err \in Int
  BY <1>1, Scales, Chance1
<1> HIDE DEF err
<1>5. weights \in [Models -> Int]
  <2>1. WEIGHT_MAX \in Nat /\ LEARNING \in Nat /\ LEARNING > 0
    BY ModelAssumption
  <2>2. ASSUME NEW k \in Models
        PROVE  Clamp(m.weights[k] + (m.st[k] * err) \div LEARNING, -WEIGHT_MAX, WEIGHT_MAX) \in Int
    <3>1. m.weights[k] \in Int /\ m.st[k] \in Int
      BY <1>1
    <3>2. m.st[k] * err \in Int
      BY <1>4, <3>1
    <3>3. (m.st[k] * err) \div LEARNING \in Int
      BY <2>1, <3>2
    <3>4. QED
      BY <2>1, <3>1, <3>3 DEF Clamp
  <2>3. QED
    BY <2>2
<1>6. tables \in [Models -> Tables]
  <2> DEFINE p(k) == counter_update(Chance(m.tables[k], m.idx[k]), bit, RATES[k])
  <2>1. ASSUME NEW k \in Models PROVE Learned(m.tables[k], m.idx[k], p(k)) \in Tables
    <3>1. m.tables[k] \in Tables /\ m.idx[k] \in Contexts /\ Even \in Chances
      BY <1>1, Chance1
    <3>2. Chance(m.tables[k], m.idx[k]) \in Chances
      BY <3>1, TableFacts
    <3> DEFINE a == Chance(m.tables[k], m.idx[k])
               z == a + ((IF bit = 1 THEN PROB_SCALE - 1 ELSE 0) - a) \div RATES[k]
    <3>3. RATES[k] \in Nat /\ RATES[k] > 0
      <4>1. RATES \in Seq(Nat \ {0})
        BY ModelAssumption
      <4>2. RATES[k] \in Nat \ {0}
        BY <4>1, ElementOfSeq DEF Models
      <4>3. QED
        BY <4>2
    <3>4. a \in Chances
      BY <3>2
    <3> HIDE DEF a
    <3>9. a \in Int /\ PROB_SCALE \in Int /\ bit \in 0..1
      BY <3>4, Chance1, Scales
    <3>5. z \in Int
      BY <3>3, <3>9
    <3> HIDE DEF z
    <3>6. p(k) = ClampProb(z)
      BY DEF counter_update, z, a
    <3>7. p(k) \in Chances
      BY <3>5, <3>6, Chance1
    <3> HIDE DEF p
    <3>8. QED
      BY <3>1, <3>7, TableFacts
  <2>2. QED
    BY <2>1
<1> HIDE DEF weights, tables
<1>7. update_bit(m, bit) = [tables |-> tables, weights |-> weights, c1 |-> c1, c2 |-> c2,
                            partial |-> partial, idx |-> m.idx, st |-> m.st, last_p |-> m.last_p]
  BY <1>1, <1>2
<1>8. QED
  BY <1>1, <1>3, <1>5, <1>6, <1>7 DEF Predictors

LEMMA ModelType ==
  ASSUME NEW c \in Codecs, NEW m \in ModelsOf(c), NEW bit \in 0..1
  PROVE  /\ Fresh(c) \in ModelsOf(c)
         /\ Consulted(c, m) \in ModelsOf(c)
         /\ Probability(c, Consulted(c, m)) \in Chances
         /\ Taught(c, Consulted(c, m), bit) \in ModelsOf(c)
<1>1. CASE c = "ARB1"
  <2>1. m \in BitModels /\ Consulted(c, m) = m
    BY <1>1 DEF ModelsOf, Consulted
  <2>2. Update(m, bit) \in BitModels /\ Get(m) \in Chances
    BY <2>1, UpdateType
  <2>3. QED
    BY <1>1, <2>1, <2>2, BitModelFresh DEF ModelsOf, Fresh, Probability, Taught
<1>2. CASE c # "ARB1"
  <2> DEFINE n == predict_bit(m)
  <2>1. n \in Predictors /\ Consulted(c, m) = n
    BY <1>2, PredictType DEF ModelsOf, Consulted
  <2>2. n.last_p \in Chances
    BY <2>1 DEF Predictors
  <2> HIDE DEF n
  <2>3. update_bit(n, bit) \in Predictors
    BY <2>1, LearnType
  <2>4. QED
    BY <1>2, <2>1, <2>2, <2>3, PredictorFresh DEF ModelsOf, Fresh, Probability, Taught
<1>3. QED
  BY <1>1, <1>2

\* Neither part of the interval is empty.
LEMMA SliceRange ==
  ASSUME NEW w \in TOP..(Word - 1), NEW p \in Chances
  PROVE  Slice(w, p) \in 1..(w - 1)
<1>1. /\ p \in Nat /\ p >= 1 /\ p <= PROB_SCALE - 1 /\ w \in Nat
      /\ PROB_SCALE \in Nat /\ PROB_SCALE >= 2 /\ w >= PROB_SCALE
  BY Scales DEF Chances
<1>2. Slice(w, p) = (w * p) \div PROB_SCALE
  BY <1>1 DEF Slice, ClampProb, Clamp
<1> DEFINE x == w * p
<1>3. x \in Nat /\ x >= w
  <2>1. w * 1 <= w * p
    BY <1>1, MulMono
  <2>2. QED
    BY <1>1, <2>1, MulNat
<1>4. x < PROB_SCALE * w
  <2>1. w * p <= w * (PROB_SCALE - 1)
    <3>1. PROB_SCALE - 1 \in Nat
      BY <1>1
    <3>2. QED
      BY <1>1, <3>1, MulMono
  <2>2. w * (PROB_SCALE - 1) = PROB_SCALE * w - w /\ PROB_SCALE * w \in Nat
    BY <1>1
  <2> DEFINE y == PROB_SCALE * w
             z == w * (PROB_SCALE - 1)
  <2>3. x <= z /\ z = y - w /\ y \in Nat
    BY <2>1, <2>2
  <2> HIDE DEF x, y, z
  <2>4. x < y
    BY <1>1, <1>3, <2>3
  <2>5. QED
    BY <2>4 DEF y
<1> HIDE DEF x
<1>5. x \div PROB_SCALE < w
  BY <1>1, <1>3, <1>4, DivBelow
<1>6. x \div PROB_SCALE \in Nat /\ ~(x \div PROB_SCALE < 1)
  <2>1. ~(x < PROB_SCALE * 1)
    BY <1>1, <1>3
  <2>2. 1 \in Nat
    OBVIOUS
  <2>3. QED
    BY <1>1, <1>3, <2>1, <2>2, DivBelow, DivMod
<1>7. QED
  BY <1>1, <1>2, <1>5, <1>6 DEF x

-----------------------------------------------------------------------------
(* What holds of the encoder                                               *)

\* A carry can reach no full byte: the interval ends before it would.
NoCarryLost ==
    flushed = 0 =>
        /\ enc.low + enc.range <= 2 * Word
        /\ enc.cache = RADIX - 1 => enc.low + enc.range <= Word

\* finish brings in zeros behind low.
Flushing ==
    flushed > 0 =>
        /\ enc.range >= TOP /\ coded = Len(data) /\ data # <<>> /\ enc.low < Word
        /\ flushed <= 4 => \E q \in Nat : enc.low = q * Shifted[flushed + 1]
        /\ flushed = 5 => enc.low = 0 /\ enc.cache = 0 /\ enc.cache_size = 1

EncoderInv ==
    /\ codec \in Codecs /\ data \in Messages
    /\ enc \in Encoders /\ enc.low < 2 * Word
    /\ coded \in 0..Len(data) /\ flushed \in 0..5
    /\ NoCarryLost /\ Flushing
    /\ phase # "encode" => data = <<>> \/ flushed = 5

CoderInv == EncoderInv /\ model \in ModelsOf(codec)

LEMMA CarryFits ==
  ASSUME EncoderInv
  PROVE  \E c, t, u : Parts(enc.low, c, t, u) /\ (c = 1 => enc.cache # RADIX - 1)
<1>1. enc.low \in Nat /\ enc.low < 2 * Word /\ enc.range \in 1..(Word - 1)
  BY DEF EncoderInv, Encoders
<1>2. PICK c, t, u : Parts(enc.low, c, t, u)
  BY <1>1, LowParts
<1>3. ASSUME c = 1 PROVE enc.low >= Word
  <2>1. t \in Nat /\ u \in Nat /\ enc.low = 1 * Word + (t * TOP + u) /\ Word \in Nat /\ TOP \in Nat
    BY <1>2, <1>3, Scales DEF Parts, Bytes
  <2>2. t * TOP \in Nat
    BY <2>1, MulNat
  <2>3. QED
    BY <2>1, <2>2
<1>4. ASSUME c = 1, enc.cache = RADIX - 1 PROVE FALSE
  <2>1. flushed = 0
    <3>1. flushed > 0 => enc.low < Word
      BY DEF EncoderInv, Flushing
    <3>2. flushed \in 0..5 /\ Word \in Nat
      BY Scales DEF EncoderInv
    <3>3. QED
      BY <1>1, <1>3, <1>4, <3>1, <3>2
  <2>2. enc.low + enc.range <= Word
    BY <1>4, <2>1 DEF EncoderInv, NoCarryLost
  <2>3. Word \in Nat
    BY Scales
  <2>4. QED
    BY <1>1, <1>3, <1>4, <2>2, <2>3
<1>5. QED
  BY <1>2, <1>4

LEMMA InitEncoder == Init => CoderInv
<1> SUFFICES ASSUME Init PROVE CoderInv
  OBVIOUS
<1>1. enc = [low |-> 0, range |-> Word - 1, cache |-> 0, cache_size |-> 1, out |-> <<>>]
  BY DEF Init
<1>2. /\ Word \in Nat /\ Word >= 2 /\ 0 \in Bytes /\ 0 # RADIX - 1
  BY Scales DEF Bytes
<1>3. enc \in Encoders /\ enc.low < 2 * Word
  BY <1>1, <1>2 DEF Encoders
<1>4. codec \in Codecs /\ data \in Messages /\ phase = "encode" /\ coded = 0 /\ flushed = 0
  BY DEF Init
<1>5. Len(data) \in Nat
  BY <1>4, ScalesAssumption
<1>6. NoCarryLost /\ Flushing
  BY <1>1, <1>2, <1>4 DEF NoCarryLost, Flushing
<1>7. model \in ModelsOf(codec)
  <2>1. Fresh(codec) \in ModelsOf(codec)
    BY <1>4, BitModelFresh, PredictorFresh DEF Fresh, ModelsOf
  <2>2. QED
    BY <2>1 DEF Init
<1>8. coded \in 0..Len(data) /\ flushed \in 0..5
  BY <1>4, <1>5
<1>9. QED
  BY <1>3, <1>4, <1>6, <1>7, <1>8 DEF CoderInv, EncoderInv

\* The bit that is coded next, and its slice.
LEMMA BitStep ==
  ASSUME CoderInv, coded < Len(data), enc.range >= TOP
  PROVE  LET m == Consulted(codec, model)
             bit == data[coded + 1]
         IN  /\ bit \in 0..1
             /\ Slice(enc.range, Probability(codec, m)) \in 1..(enc.range - 1)
             /\ Taught(codec, m, bit) \in ModelsOf(codec)
<1> DEFINE m == Consulted(codec, model)
           bit == data[coded + 1]
<1>1. data \in Seq(0..1)
  BY ScalesAssumption DEF CoderInv, EncoderInv
<1>2. coded \in 0..Len(data) /\ Len(data) \in Nat
  BY <1>1 DEF CoderInv, EncoderInv
<1>3. coded + 1 \in 1..Len(data)
  BY <1>2
<1>4. bit \in 0..1
  BY <1>1, <1>3, ElementOfSeq
<1>5. enc.range \in TOP..(Word - 1)
  BY Scales DEF CoderInv, EncoderInv, Encoders
<1>6. codec \in Codecs /\ model \in ModelsOf(codec)
  BY DEF CoderInv, EncoderInv
<1> HIDE DEF bit
<1>7. Probability(codec, m) \in Chances /\ Taught(codec, m, bit) \in ModelsOf(codec)
  BY <1>4, <1>6, ModelType
<1> HIDE DEF m
<1>8. Slice(enc.range, Probability(codec, m)) \in 1..(enc.range - 1)
  BY <1>5, <1>7, SliceRange
<1>9. QED
  BY <1>4, <1>7, <1>8 DEF m, bit

LEMMA EncodeBitInv == CoderInv /\ EncodeBit => CoderInv'
<1> SUFFICES ASSUME CoderInv, EncodeBit PROVE CoderInv'
  OBVIOUS
<1> DEFINE m == Consulted(codec, model)
           bit == data[coded + 1]
           r1 == Slice(enc.range, Probability(codec, m))
<1>1. /\ phase = "encode" /\ enc.range >= TOP /\ coded < Len(data)
      /\ enc' = IF bit = 1 THEN [enc EXCEPT !.range = r1]
                ELSE [enc EXCEPT !.low = @ + r1, !.range = @ - r1]
      /\ model' = Taught(codec, m, bit)
      /\ coded' = coded + 1 /\ codec' = codec /\ data' = data /\ phase' = phase
      /\ flushed' = flushed
  BY DEF EncodeBit
<1>2. r1 \in 1..(enc.range - 1) /\ model' \in ModelsOf(codec)
  BY <1>1, BitStep
<1> HIDE DEF m, bit, r1
<1>3. /\ enc \in Encoders /\ enc.low < 2 * Word /\ coded \in 0..Len(data) /\ flushed \in 0..5
      /\ NoCarryLost /\ Flushing /\ data \in Messages /\ codec \in Codecs
  BY DEF CoderInv, EncoderInv
<1>4. Len(data) \in Nat
  BY <1>3, ScalesAssumption
<1>5. flushed = 0
  <2>1. flushed > 0 => coded = Len(data)
    BY <1>3 DEF Flushing
  <2>2. QED
    BY <1>1, <1>3, <1>4, <2>1
<1>6. /\ enc.low \in Nat /\ enc.range \in 1..(Word - 1) /\ Word \in Nat
      /\ enc.low + enc.range <= 2 * Word
      /\ enc.cache = RADIX - 1 => enc.low + enc.range <= Word
  BY <1>3, <1>5, Scales DEF Encoders, NoCarryLost
<1>7. /\ enc' \in Encoders /\ enc'.low < 2 * Word
      /\ enc'.low + enc'.range <= enc.low + enc.range /\ enc'.cache = enc.cache
  <2>1. CASE bit = 1
    <3>1. enc' = [enc EXCEPT !.range = r1]
      BY <1>1, <2>1
    <3>2. enc'.low = enc.low /\ enc'.range = r1 /\ enc'.cache = enc.cache
      BY <1>3, <3>1 DEF Encoders
    <3>3. r1 \in 1..(Word - 1)
      BY <1>2, <1>6
    <3>4. enc' \in Encoders
      BY <1>3, <3>1, <3>3 DEF Encoders
    <3>5. QED
      BY <1>2, <1>3, <1>6, <3>2, <3>4
  <2>2. CASE bit # 1
    <3>1. enc' = [enc EXCEPT !.low = enc.low + r1, !.range = enc.range - r1]
      BY <1>1, <2>2
    <3>2. enc'.low = enc.low + r1 /\ enc'.range = enc.range - r1 /\ enc'.cache = enc.cache
      BY <1>3, <3>1 DEF Encoders
    <3>3. enc.low + r1 \in Nat /\ enc.range - r1 \in 1..(Word - 1) /\ enc.low + r1 < 2 * Word
      BY <1>2, <1>6
    <3>4. enc' \in Encoders
      BY <1>3, <3>1, <3>3 DEF Encoders
    <3>5. QED
      BY <1>2, <1>6, <3>2, <3>3, <3>4
  <2>3. QED
    BY <2>1, <2>2
<1>8. enc'.low \in Nat /\ enc'.range \in Nat
  BY <1>7 DEF Encoders
<1>9. NoCarryLost'
  <2>1. enc'.low + enc'.range <= 2 * Word
    BY <1>6, <1>7, <1>8
  <2>2. enc'.cache = RADIX - 1 => enc'.low + enc'.range <= Word
    BY <1>6, <1>7, <1>8
  <2>3. QED
    BY <2>1, <2>2 DEF NoCarryLost
<1>10. Flushing'
  BY <1>1, <1>5 DEF Flushing
<1>11. coded' \in 0..Len(data)
  BY <1>1, <1>3, <1>4
<1>12. QED
  BY <1>1, <1>2, <1>3, <1>7, <1>9, <1>10, <1>11 DEF CoderInv, EncoderInv

LEMMA ShiftLowInv == CoderInv /\ ShiftLow => CoderInv'
<1> SUFFICES ASSUME CoderInv, ShiftLow PROVE CoderInv'
  OBVIOUS
<1> DEFINE f == shift_low(enc)
<1>1. /\ phase = "encode" /\ enc.range < TOP
      /\ enc' = [f EXCEPT !.range = f.range * RADIX]
      /\ codec' = codec /\ data' = data /\ phase' = phase /\ model' = model
      /\ coded' = coded /\ flushed' = flushed
  BY DEF ShiftLow
<1>2. /\ enc \in Encoders /\ enc.low < 2 * Word /\ coded \in 0..Len(data) /\ flushed \in 0..5
      /\ NoCarryLost /\ Flushing /\ data \in Messages /\ codec \in Codecs
      /\ model \in ModelsOf(codec)
  BY DEF CoderInv, EncoderInv
<1>3. /\ enc.low \in Nat /\ enc.range \in 1..(Word - 1) /\ Word \in Nat /\ TOP \in Nat
      /\ RADIX \in Nat /\ RADIX >= 2 /\ Word = RADIX * TOP /\ Word = TOP * RADIX /\ TOP >= 1
  BY <1>2, Scales DEF Encoders
<1>4. flushed = 0
  <2>1. flushed > 0 => enc.range >= TOP
    BY <1>2 DEF Flushing
  <2>2. QED
    BY <1>1, <1>2, <1>3, <2>1
<1>5. PICK c, t, u : Parts(enc.low, c, t, u) /\ (c = 1 => enc.cache # RADIX - 1)
  BY CarryFits DEF CoderInv
<1>6. /\ c \in 0..1 /\ t \in Nat /\ u \in Nat /\ u < TOP
      /\ enc.low = c * Word + (t * TOP + u)
      /\ u * RADIX \in Nat /\ u * RADIX < Word
  <2>1. u * RADIX \in Nat /\ u * RADIX < Word
    BY <1>3, <1>5, PartsDef
  <2>2. QED
    BY <1>3, <1>5, <2>1 DEF Parts, Bytes
<1>7. /\ f \in Encoders /\ f.low = u * RADIX /\ f.range = enc.range
      /\ \/ t = RADIX - 1 /\ c = 0 /\ f.cache = enc.cache
         \/ f.cache = t /\ (t # RADIX - 1 \/ c = 1)
  <2>1. Shifts(enc, f, c, t, u)
    BY <1>2, <1>5, ShiftSummary
  <2> HIDE DEF f
  <2>2. QED
    BY <2>1, Zenon DEF Shifts
<1> HIDE DEF f
<1>8. enc.range * RADIX \in 1..(Word - 1)
  <2>1. enc.range + 1 <= TOP /\ enc.range + 1 \in Nat /\ enc.range \in Nat /\ enc.range >= 1
    BY <1>1, <1>3
  <2>2. (enc.range + 1) * RADIX <= TOP * RADIX
    BY <1>3, <2>1, MulMono
  <2>3. (enc.range + 1) * RADIX = enc.range * RADIX + RADIX
    BY <1>3, <2>1
  <2>4. 1 * RADIX <= enc.range * RADIX
    BY <1>3, <2>1, MulMono
  <2>5. QED
    BY <1>3, <2>1, <2>2, <2>3, <2>4, MulNat
<1>9. /\ enc' \in Encoders /\ enc'.low = u * RADIX /\ enc'.range = enc.range * RADIX
      /\ enc'.cache = f.cache
  BY <1>1, <1>7, <1>8 DEF Encoders
<1>10. ASSUME enc'.cache = RADIX - 1 PROVE u + enc.range <= TOP
  <2>1. t = RADIX - 1
    BY <1>7, <1>9, <1>10
  <2>2. t * TOP = Word - TOP
    BY <1>3, <2>1
  <2>3. CASE c = 0 /\ enc.cache = RADIX - 1
    <3>1. enc.low = Word - TOP + u
      BY <1>3, <1>6, <2>2, <2>3
    <3>2. enc.low + enc.range <= Word
      BY <1>2, <1>4, <2>3 DEF NoCarryLost
    <3>3. QED
      BY <1>3, <1>6, <3>1, <3>2
  <2>4. CASE c = 1
    <3>1. enc.low = Word + (Word - TOP + u)
      BY <1>3, <1>6, <2>2, <2>4
    <3>2. enc.low + enc.range <= 2 * Word
      BY <1>2, <1>4 DEF NoCarryLost
    <3>3. QED
      BY <1>3, <1>6, <3>1, <3>2
  <2>5. QED
    BY <1>7, <1>9, <1>10, <2>1, <2>3, <2>4
<1>11. u * RADIX + enc.range * RADIX = (u + enc.range) * RADIX
  BY <1>3, <1>6
<1>12. enc'.low + enc'.range <= 2 * Word
  BY <1>3, <1>6, <1>8, <1>9
<1>13. ASSUME enc'.cache = RADIX - 1 PROVE enc'.low + enc'.range <= Word
  <2>1. (u + enc.range) * RADIX <= TOP * RADIX
    <3>1. u + enc.range \in Nat
      BY <1>3, <1>6
    <3>2. QED
      BY <1>3, <1>10, <1>13, <3>1, MulMono
  <2>2. QED
    BY <1>3, <1>9, <1>11, <2>1
<1>14. NoCarryLost'
  BY <1>12, <1>13 DEF NoCarryLost
<1>15. Flushing' /\ enc'.low < 2 * Word
  BY <1>1, <1>3, <1>4, <1>6, <1>9 DEF Flushing
<1>16. QED
  BY <1>1, <1>2, <1>9, <1>14, <1>15 DEF CoderInv, EncoderInv

LEMMA ShiftedFacts ==
  /\ \A f \in 0..4 : /\ Shifted[f + 1] \in Nat /\ Shifted[f + 1] >= 1
                     /\ Word \div Shifted[f + 1] \in Nat
                     /\ Word = (Word \div Shifted[f + 1]) * Shifted[f + 1]
  /\ \A f \in 0..3 : Shifted[f + 2] = RADIX * Shifted[f + 1]
  /\ Shifted[1] = 1 /\ Shifted[5] = Word
<1> DEFINE square == RADIX * RADIX
<1>1. /\ RADIX \in Nat /\ RADIX >= 2 /\ TOP \in Nat /\ TOP >= 1 /\ Word \in Nat
      /\ Word = RADIX * TOP /\ square \in Nat /\ TOP = RADIX * square /\ Word >= 2
  BY Scales
<1>2. /\ Shifted[1] = 1 /\ Shifted[2] = RADIX /\ Shifted[3] = square
      /\ Shifted[4] = TOP /\ Shifted[5] = Word
  BY DEF Shifted
<1>3. square = RADIX * RADIX /\ square >= 1
  BY <1>1
<1>4. Word = square * square
  <2>1. RADIX * TOP = RADIX * (RADIX * square)
    BY <1>1
  <2>2. RADIX * (RADIX * square) = (RADIX * RADIX) * square
    BY <1>1
  <2>3. QED
    BY <1>1, <2>1, <2>2
<1> HIDE DEF square
<1>5. /\ Word \div 1 = Word /\ Word \div RADIX = TOP /\ Word \div square = square
      /\ Word \div TOP = RADIX /\ Word \div Word = 1
  <2>1. /\ Word = 1 * Word + 0 /\ Word = RADIX * TOP + 0 /\ Word = square * square + 0
        /\ Word = TOP * RADIX + 0 /\ Word = Word * 1 + 0
    BY <1>1, <1>4
  <2>2. 0 \in 0..(1 - 1) /\ 0 \in 0..(RADIX - 1) /\ 0 \in 0..(square - 1)
        /\ 0 \in 0..(TOP - 1) /\ 0 \in 0..(Word - 1) /\ 1 \in Nat
    BY <1>1, <1>3
  <2>3. (1 * Word + 0) \div 1 = Word
    BY <1>1, <2>2, DivUnique
  <2>4. (RADIX * TOP + 0) \div RADIX = TOP
    BY <1>1, <2>2, DivUnique
  <2>5. (square * square + 0) \div square = square
    BY <1>1, <1>3, <2>2, DivUnique
  <2>6. (TOP * RADIX + 0) \div TOP = RADIX
    BY <1>1, <2>2, DivUnique
  <2>7. (Word * 1 + 0) \div Word = 1
    BY <1>1, <2>2, DivUnique
  <2>8. QED
    BY <2>1, <2>3, <2>4, <2>5, <2>6, <2>7, Zenon
<1>6. /\ Word = Word * 1 /\ Word = TOP * RADIX /\ Word = square * square
      /\ Word = RADIX * TOP /\ Word = 1 * Word
  BY <1>1, <1>4
<1>7. ASSUME NEW f \in 0..4
      PROVE  /\ Shifted[f + 1] \in Nat /\ Shifted[f + 1] >= 1
             /\ Word \div Shifted[f + 1] \in Nat
             /\ Word = (Word \div Shifted[f + 1]) * Shifted[f + 1]
  <2>0. f = 0 \/ f = 1 \/ f = 2 \/ f = 3 \/ f = 4
    OBVIOUS
  <2>1. 0 + 1 = 1 /\ 1 + 1 = 2 /\ 2 + 1 = 3 /\ 3 + 1 = 4 /\ 4 + 1 = 5
    OBVIOUS
  <2>2. 1 \in Nat /\ 1 >= 1 /\ RADIX >= 1 /\ Word >= 1
    BY <1>1
  <2>3. QED
    BY <1>1, <1>2, <1>3, <1>5, <1>6, <2>0, <2>1, <2>2, Zenon
<1>8. ASSUME NEW f \in 0..3 PROVE Shifted[f + 2] = RADIX * Shifted[f + 1]
  <2>0. f = 0 \/ f = 1 \/ f = 2 \/ f = 3
    OBVIOUS
  <2>1. 0 + 1 = 1 /\ 1 + 1 = 2 /\ 2 + 1 = 3 /\ 3 + 1 = 4
        /\ 0 + 2 = 2 /\ 1 + 2 = 3 /\ 2 + 2 = 4 /\ 3 + 2 = 5
    OBVIOUS
  <2>2. RADIX = RADIX * 1
    BY <1>1
  <2>3. QED
    BY <1>1, <1>2, <1>3, <2>0, <2>1, <2>2, Zenon
<1>9. QED
  BY <1>2, <1>7, <1>8

\* A number below d that is a multiple of d.
LEMMA NoMultiple ==
  ASSUME NEW d \in Nat, NEW q \in Nat, q * d < d
  PROVE  q * d = 0
<1>1. CASE q = 0
  BY <1>1
<1>2. CASE q >= 1
  <2>1. 1 * d <= q * d
    BY <1>2, MulMono
  <2>2. QED
    BY <2>1, MulNat
<1>3. QED
  BY <1>1, <1>2

LEMMA FlushInv == CoderInv /\ Flush => CoderInv'
<1> SUFFICES ASSUME CoderInv, Flush PROVE CoderInv'
  OBVIOUS
<1> DEFINE f == shift_low(enc)
<1>1. /\ phase = "encode" /\ enc.range >= TOP /\ coded = Len(data) /\ data # <<>> /\ flushed < 5
      /\ enc' = f /\ flushed' = flushed + 1
      /\ codec' = codec /\ data' = data /\ phase' = phase /\ model' = model /\ coded' = coded
  BY DEF Flush
<1>2. /\ enc \in Encoders /\ enc.low < 2 * Word /\ coded \in 0..Len(data) /\ flushed \in 0..5
      /\ Flushing /\ data \in Messages /\ codec \in Codecs
      /\ model \in ModelsOf(codec)
  BY DEF CoderInv, EncoderInv
<1>3. /\ enc.low \in Nat /\ Word \in Nat /\ TOP \in Nat /\ TOP >= 1
      /\ RADIX \in Nat /\ RADIX >= 2 /\ Word = RADIX * TOP
  BY <1>2, Scales DEF Encoders
<1>4. PICK c, t, u : Parts(enc.low, c, t, u) /\ (c = 1 => enc.cache # RADIX - 1)
  BY CarryFits DEF CoderInv
<1>5. /\ c \in 0..1 /\ t \in Nat /\ u \in Nat /\ u < TOP
      /\ enc.low = c * Word + (t * TOP + u)
      /\ u * RADIX \in Nat /\ u * RADIX < Word
      /\ (enc.low * RADIX) % Word = u * RADIX
  <2>1. u * RADIX \in Nat /\ u * RADIX < Word /\ (enc.low * RADIX) % Word = u * RADIX
    BY <1>3, <1>4, PartsDef
  <2>2. QED
    BY <1>3, <1>4, <2>1 DEF Parts, Bytes
<1>6. Shifts(enc, f, c, t, u)
  BY <1>2, <1>4, ShiftSummary
<1> HIDE DEF f
<1>7. enc' \in Encoders /\ enc'.low = u * RADIX /\ enc'.range = enc.range
  BY <1>1, <1>6 DEF Shifts
<1>8. flushed \in 0..4 /\ flushed' \in 1..5
  BY <1>1, <1>2
<1>9. NoCarryLost'
  BY <1>8 DEF NoCarryLost
<1>10. ASSUME flushed' <= 4 PROVE \E q \in Nat : enc'.low = q * Shifted[flushed' + 1]
  <2> DEFINE s == Shifted[flushed + 1]
  <2>1. flushed \in 0..3 /\ flushed' + 1 = flushed + 2 /\ flushed \in 0..4
    BY <1>1, <1>8, <1>10
  <2>2. Shifted[flushed' + 1] = RADIX * s /\ s \in Nat
    BY <2>1, ShiftedFacts
  <2>3. PICK q \in Nat : enc.low = q * s
    <3>1. CASE flushed = 0
      <4>1. flushed + 1 = 1
        BY <3>1
      <4>2. s = 1
        BY <4>1, ShiftedFacts, Zenon
      <4>3. enc.low = enc.low * 1
        BY <1>3
      <4>4. QED
        BY <1>3, <4>2, <4>3
    <3>2. CASE flushed > 0
      BY <1>2, <2>1, <3>2 DEF Flushing
    <3>3. QED
      BY <1>8, <3>1, <3>2
  <2> HIDE DEF s
  <2>4. u * RADIX = (q * (RADIX * s)) % Word
    <3>1. (q * s) * RADIX = q * (RADIX * s)
      BY <1>3, <2>2
    <3>2. QED
      BY <1>5, <2>3, <3>1
  <2> DEFINE d == RADIX * s
             w == Word \div Shifted[flushed' + 1]
  <2>5. d \in Nat /\ d = Shifted[flushed' + 1] /\ d >= 1 /\ w \in Nat /\ Word = w * d
    <3>1. flushed' \in 0..4
      BY <1>8, <1>10
    <3>2. QED
      BY <2>2, <3>1, ShiftedFacts
  <2> HIDE DEF d, w
  <2>6. w > 0
    <3>1. w = 0 => Word = 0
      BY <2>5
    <3>2. QED
      BY <1>3, <2>5, <3>1
  <2>7. (q * d) % (w * d) = (q % w) * d /\ q % w \in Nat
    <3>1. d > 0
      BY <2>5
    <3>2. QED
      BY <2>5, <2>6, <3>1, ModScale, Zenon
  <2>8. enc'.low = (q % w) * d /\ q % w \in Nat
    <3>1. u * RADIX = (q * d) % (w * d)
      BY <2>4, <2>5 DEF d
    <3>2. QED
      BY <1>7, <2>7, <3>1
  <2>9. QED
    BY <2>5, <2>8
<1>11. ASSUME flushed' = 5 PROVE enc'.low = 0 /\ enc'.cache = 0 /\ enc'.cache_size = 1
  <2>1. flushed = 4 /\ flushed > 0 /\ flushed <= 4
    BY <1>1, <1>8, <1>11
  <2>2. PICK q \in Nat : enc.low = q * Shifted[4 + 1]
    BY <1>2, <2>1 DEF Flushing
  <2>3. enc.low = q * Word /\ enc.low < Word
    BY <1>2, <2>1, <2>2, ShiftedFacts DEF Flushing
  <2>4. enc.low = 0
    BY <1>3, <2>3, NoMultiple
  <2>5. c = 0 /\ t = 0 /\ u = 0
    <3>1. t * TOP \in Nat /\ c * Word \in Nat
      BY <1>3, <1>5, MulNat
    <3>2. t * TOP = 0 /\ c * Word = 0 /\ u = 0
      BY <1>5, <2>4, <3>1
    <3>3. c = 0
      BY <1>3, <1>5, <3>2
    <3>4. t = 0
      <4>1. t >= 1 => 1 * TOP <= t * TOP
        BY <1>3, <1>5, MulMono
      <4>2. QED
        BY <1>3, <1>5, <3>2, <4>1
    <3>5. QED
      BY <3>2, <3>3, <3>4
  <2>6. t # RADIX - 1
    BY <1>3, <2>5
  <2>7. f.cache = 0 /\ f.cache_size = 1
    BY <1>6, <2>5, <2>6 DEF Shifts
  <2>8. u * RADIX = 0
    BY <1>3, <2>5
  <2>9. QED
    BY <1>1, <1>7, <2>7, <2>8
<1>12. Flushing'
  <2>1. enc'.range >= TOP /\ coded' = Len(data') /\ data' # <<>> /\ enc'.low < Word
    BY <1>1, <1>5, <1>7
  <2>2. QED
    BY <1>10, <1>11, <2>1 DEF Flushing
<1>13. enc'.low < 2 * Word
  BY <1>3, <1>5, <1>7
<1>14. flushed' \in 0..5
  BY <1>8
<1>15. QED
  BY <1>1, <1>2, <1>7, <1>9, <1>12, <1>13, <1>14 DEF CoderInv, EncoderInv

LEMMA DecodeInv ==
  ASSUME CoderInv, UNCHANGED <<codec, data, encoder>>, phase' # "encode" => phase # "encode"
  PROVE  CoderInv'
<1>1. /\ codec' = codec /\ data' = data /\ enc' = enc /\ model' = model /\ coded' = coded
      /\ flushed' = flushed
  BY DEF encoder
<1>2. NoCarryLost' /\ Flushing'
  BY <1>1 DEF CoderInv, EncoderInv, NoCarryLost, Flushing
<1>3. QED
  BY <1>1, <1>2 DEF CoderInv, EncoderInv

LEMMA StoreInv == CoderInv /\ Store => CoderInv'
<1> SUFFICES ASSUME CoderInv, Store PROVE CoderInv'
  OBVIOUS
<1>1. /\ codec' = codec /\ data' = data /\ enc' = enc /\ model' = model /\ coded' = coded
      /\ flushed' = flushed /\ (data = <<>> \/ flushed = 5)
  BY DEF Store, encoder
<1>2. NoCarryLost' /\ Flushing'
  BY <1>1 DEF CoderInv, EncoderInv, NoCarryLost, Flushing
<1>3. QED
  BY <1>1, <1>2 DEF CoderInv, EncoderInv

LEMMA NextCoder == CoderInv /\ [Next]_vars => CoderInv'
<1> SUFFICES ASSUME CoderInv, [Next]_vars PROVE CoderInv'
  OBVIOUS
<1>1. CASE EncodeBit
  BY <1>1, EncodeBitInv
<1>2. CASE ShiftLow
  BY <1>2, ShiftLowInv
<1>3. CASE Flush
  BY <1>3, FlushInv
<1>4. CASE Store
  BY <1>4, StoreInv
<1>5. ASSUME NEW c \in Codecs, Open(c) PROVE CoderInv'
  <2>1. UNCHANGED <<codec, data, encoder>> /\ phase # "encode"
    BY <1>5 DEF Open
  <2>2. QED
    BY <2>1, DecodeInv
<1>6. CASE DecodeBit \/ NextByte \/ Finish
  <2>1. UNCHANGED <<codec, data, encoder>> /\ phase # "encode"
    BY <1>6 DEF DecodeBit, NextByte, Finish
  <2>2. QED
    BY <2>1, DecodeInv
<1>7. CASE UNCHANGED vars
  <2>1. UNCHANGED <<codec, data, encoder>> /\ phase' = phase
    BY <1>7 DEF vars
  <2>2. QED
    BY <2>1, DecodeInv
<1>8. QED
  BY <1>1, <1>2, <1>3, <1>4, <1>5, <1>6, <1>7 DEF Next

\* What the encoder's words keep to in every state: low plus range has room for
\* one carry, and the cached byte for it too (shift_low); what finish flushes ends
\* in zeros.
THEOREM CoderInvariance == Spec => []CoderInv
<1>1. QED
  BY InitEncoder, NextCoder, PTL DEF Spec

-----------------------------------------------------------------------------
(* The coder implements arithmetic coding in unbounded numbers             *)

Sent == IF phase = "encode" \/ data = <<>> THEN -1 ELSE Value(enc.out)

BaseFacts ==
    /\ Base \in Nat
    /\ flushed <= 4 => Base * Shifted[flushed + 1] = NumberOf(enc)
    /\ flushed = 0 => Base = NumberOf(enc)
    /\ flushed = 5 => Base = Value(enc.out)

LEMMA BaseIs == CoderInv => BaseFacts
<1> SUFFICES ASSUME CoderInv PROVE BaseFacts
  OBVIOUS
<1>1. enc \in Encoders /\ enc.low \in Nat /\ enc.out \in Seq(Nat) /\ flushed \in 0..5 /\ Flushing
  BY BytesAreNumbers DEF CoderInv, EncoderInv, Encoders
<1>2. Held = HeldBy(enc)
  BY DEF Held, HeldBy
<1> DEFINE v == Value(Held)
<1>3. v \in Nat
  <2>1. HeldBy(enc) \in Seq(Nat)
    BY <1>1, HeldDef, BytesAreNumbers
  <2>2. QED
    BY <1>2, <2>1, ValueNat
<1>4. NumberOf(enc) = v * Word + enc.low
  BY <1>2 DEF NumberOf
<1> HIDE DEF v
<1>5. CASE flushed = 5
  <2>1. Base = Value(enc.out)
    BY <1>5 DEF Base
  <2>2. QED
    BY <1>1, <1>5, <2>1, ValueNat DEF BaseFacts
<1>6. CASE flushed # 5
  <2> DEFINE s == Shifted[flushed + 1]
             w == Word \div s
  <2>1. flushed \in 0..4
    BY <1>1, <1>6
  <2>2. s \in Nat /\ s >= 1 /\ w \in Nat /\ Word = w * s
    BY <2>1, ShiftedFacts
  <2>3. PICK q \in Nat : enc.low = q * s
    <3>1. CASE flushed = 0
      <4>1. flushed + 1 = 1
        BY <3>1
      <4>2. s = 1
        BY <4>1, ShiftedFacts, Zenon
      <4>3. enc.low = enc.low * 1
        BY <1>1
      <4>4. QED
        BY <1>1, <4>2, <4>3
    <3>2. CASE flushed > 0
      BY <1>1, <2>1, <3>2 DEF Flushing
    <3>3. QED
      BY <2>1, <3>1, <3>2
  <2>4. Base = v * w + enc.low \div s
    BY <1>6 DEF Base, v
  <2> HIDE DEF s, w
  <2>5. enc.low \div s = q
    <3>1. enc.low = s * q + 0 /\ 0 \in 0..(s - 1) /\ s > 0
      BY <2>2, <2>3
    <3>2. (s * q + 0) \div s = q
      BY <2>2, <3>1, DivUnique
    <3>3. QED
      BY <3>1, <3>2
  <2>6. Base = v * w + q /\ v * w \in Nat
    <3>1. v * w \in Nat
      BY <1>3, <2>2, MulNat
    <3>2. QED
      BY <2>4, <2>5, <3>1
  <2>7. Base * s = NumberOf(enc)
    <3>1. (v * w + q) * s = v * (w * s) + q * s
      BY <1>3, <2>2
    <3>2. QED
      BY <1>4, <2>2, <2>3, <2>6, <3>1
  <2>8. Base \in Nat
    BY <2>6
  <2>9. flushed = 0 => Base = NumberOf(enc)
    <3> SUFFICES ASSUME flushed = 0 PROVE Base = NumberOf(enc)
      OBVIOUS
    <3>1. flushed + 1 = 1
      OBVIOUS
    <3>2. s = 1
      BY <3>1, ShiftedFacts, Zenon DEF s
    <3>3. QED
      BY <2>7, <2>8, <3>2
  <2>10. QED
    BY <1>6, <2>7, <2>8, <2>9 DEF s, BaseFacts
<1>7. QED
  BY <1>5, <1>6 DEF BaseFacts

LEMMA BaseIsNext == CoderInv' => BaseFacts'
<1>1. CoderInv => BaseFacts
  BY BaseIs
<1>2. QED
  BY <1>1, PTL

LEMMA RefineInit == Init => Ideal!Init
<1> SUFFICES ASSUME Init PROVE Ideal!Init
  OBVIOUS
<1>1. /\ enc = [low |-> 0, range |-> Word - 1, cache |-> 0, cache_size |-> 1, out |-> <<>>]
      /\ phase = "encode" /\ flushed = 0
  BY DEF Init
<1>2. Base = 0
  <2>1. enc \in Encoders /\ enc.low = 0
    BY <1>1, InitEncoder DEF CoderInv, EncoderInv
  <2>2. Base = NumberOf(enc)
    BY <1>1, InitEncoder, BaseIs DEF BaseFacts
  <2>3. HeldBy(enc) \in Seq(Nat) /\ Len(HeldBy(enc)) = 0 + 1 /\ HeldBy(enc)[0 + 1] = 0
    <3>1. Len(enc.out) = 0 /\ enc.cache = 0 /\ enc.cache_size = 1
      BY <1>1
    <3>2. HeldBy(enc) \in Seq(Nat) /\ Len(HeldBy(enc)) = Len(enc.out) + enc.cache_size
          /\ HeldBy(enc)[Len(enc.out) + 1] = enc.cache
      BY <2>1, HeldDef, BytesAreNumbers
    <3>3. QED
      BY <3>1, <3>2
  <2>4. Value(HeldBy(enc)) = Value(<<>>) * RADIX + 0
    <3>1. <<>> \in Seq(Nat) /\ Len(<<>>) = 0 /\ Len(HeldBy(enc)) = Len(<<>>) + 1
          /\ \A i \in 1..Len(<<>>) : HeldBy(enc)[i] = <<>>[i]
      BY <2>3
    <3>2. Value(HeldBy(enc)) = Value(<<>>) * RADIX + HeldBy(enc)[Len(HeldBy(enc))]
      BY <2>3, <3>1, ValueAppend
    <3>3. QED
      BY <2>3, <3>2
  <2>5. Value(<<>>) = 0
    <3>1. <<>> \in Seq(Nat) /\ Len(<<>>) = 0
      OBVIOUS
    <3>2. PICK v : Prefixes(v, <<>>) /\ Value(<<>>) = v[Len(<<>>)]
      BY <3>1, ValueDef
    <3>3. QED
      BY <3>1, <3>2 DEF Prefixes
  <2>6. NumberOf(enc) = 0
    BY <2>1, <2>4, <2>5, Scales DEF NumberOf
  <2>7. QED
    BY <2>2, <2>6
<1>3. enc.range = RADIX * TOP - 1
  BY <1>1 DEF Word
<1>4. QED
  BY <1>1, <1>2, <1>3 DEF Ideal!Init, Ideal!Silent

\* A bit takes one part of the interval.
Tells(r1, bit) ==
    /\ flushed = 0 /\ flushed' = 0 /\ r1 \in 1..(enc.range - 1)
    /\ Base \in Nat /\ Base' = IF bit = 1 THEN Base ELSE Base + r1
    /\ enc'.range = IF bit = 1 THEN r1 ELSE enc.range - r1
    /\ Len(enc'.out) + enc'.cache_size = Len(enc.out) + enc.cache_size

LEMMA EncodeBitMoves ==
  ASSUME CoderInv, EncodeBit
  PROVE  Tells(Slice(enc.range, Probability(codec, Consulted(codec, model))), data[coded + 1])
<1> DEFINE m == Consulted(codec, model)
           bit == data[coded + 1]
           r1 == Slice(enc.range, Probability(codec, m))
<1>1. /\ phase = "encode" /\ enc.range >= TOP /\ coded < Len(data) /\ flushed' = flushed
      /\ enc' = IF bit = 1 THEN [enc EXCEPT !.range = r1]
                ELSE [enc EXCEPT !.low = @ + r1, !.range = @ - r1]
  BY DEF EncodeBit
<1>2. r1 \in 1..(enc.range - 1)
  BY <1>1, BitStep
<1> HIDE DEF m, bit, r1
<1>3. enc \in Encoders /\ flushed = 0 /\ CoderInv'
  <2>1. flushed > 0 => coded = Len(data)
    BY DEF CoderInv, EncoderInv, Flushing
  <2>2. flushed \in 0..5 /\ coded \in 0..Len(data) /\ enc \in Encoders /\ Len(data) \in Nat
    BY ScalesAssumption DEF CoderInv, EncoderInv
  <2>3. CoderInv'
    BY EncodeBitInv
  <2>4. QED
    BY <1>1, <2>1, <2>2, <2>3
<1>4. Base = NumberOf(enc) /\ Base' = NumberOf(enc') /\ Base \in Nat
  BY <1>1, <1>3, BaseIs, BaseIsNext DEF BaseFacts
<1>5. enc.low \in Nat /\ Value(HeldBy(enc)) * Word \in Nat
  <2>1. enc.low \in Nat /\ HeldBy(enc) \in Seq(Nat)
    BY <1>3, HeldDef, BytesAreNumbers DEF Encoders
  <2>2. Value(HeldBy(enc)) \in Nat /\ Word \in Nat
    BY <2>1, ValueNat, Scales
  <2>3. QED
    BY <2>1, <2>2, MulNat
<1>6. CASE bit = 1
  <2>1. enc' = [enc EXCEPT !.range = r1]
    BY <1>1, <1>6
  <2>2. enc'.low = enc.low /\ enc'.range = r1 /\ enc'.out = enc.out /\ enc'.cache = enc.cache
        /\ enc'.cache_size = enc.cache_size
    BY <1>3, <2>1 DEF Encoders
  <2>3. NumberOf(enc') = NumberOf(enc)
    BY <2>2 DEF NumberOf, HeldBy
  <2>4. QED
    BY <1>1, <1>2, <1>3, <1>4, <1>6, <2>2, <2>3 DEF Tells, m, bit, r1
<1>7. CASE bit # 1
  <2>1. enc' = [enc EXCEPT !.low = enc.low + r1, !.range = enc.range - r1]
    BY <1>1, <1>7
  <2>2. enc'.low = enc.low + r1 /\ enc'.range = enc.range - r1 /\ enc'.out = enc.out
        /\ enc'.cache = enc.cache /\ enc'.cache_size = enc.cache_size
    BY <1>3, <2>1 DEF Encoders
  <2>3. HeldBy(enc') = HeldBy(enc)
    BY <2>2 DEF HeldBy
  <2> DEFINE x == Value(HeldBy(enc)) * Word
  <2>4. NumberOf(enc') = x + (enc.low + r1) /\ NumberOf(enc) = x + enc.low /\ x \in Nat
    BY <1>5, <2>2, <2>3 DEF NumberOf
  <2> HIDE DEF x
  <2>5. enc.range \in Nat /\ r1 \in Nat
    BY <1>2, <1>3, Scales DEF Encoders
  <2>6. NumberOf(enc') = NumberOf(enc) + r1
    BY <1>5, <2>4, <2>5
  <2>7. QED
    BY <1>1, <1>2, <1>3, <1>4, <1>7, <2>2, <2>6 DEF Tells, m, bit, r1
<1>8. QED
  BY <1>6, <1>7

LEMMA EncodeBitRefines == CoderInv /\ EncodeBit => Ideal!Narrow
<1> SUFFICES ASSUME CoderInv, EncodeBit PROVE Ideal!Narrow
  OBVIOUS
<1>1. phase = "encode" /\ enc.range >= TOP /\ phase' = phase /\ data' = data
  BY DEF EncodeBit
<1>2. PICK r1, bit : Tells(r1, bit)
  BY EncodeBitMoves
<1>3. Sent = -1 /\ Sent' = -1
  BY <1>1 DEF Sent
<1>4. QED
  BY <1>1, <1>2, <1>3 DEF Tells, Ideal!Narrow, Ideal!Silent, Sent

\* A renormalisation multiplies it.
LEMMA ShiftLowMoves ==
  ASSUME CoderInv, ShiftLow
  PROVE  /\ Base' = RADIX * Base /\ enc'.range = RADIX * enc.range
         /\ flushed = 0 /\ flushed' = 0
         /\ Len(enc'.out) + enc'.cache_size = Len(enc.out) + enc.cache_size + 1
<1> DEFINE f == shift_low(enc)
<1>1. /\ phase = "encode" /\ enc.range < TOP
      /\ enc' = [f EXCEPT !.range = f.range * RADIX]
      /\ flushed' = flushed
  BY DEF ShiftLow
<1>2. enc \in Encoders /\ flushed = 0 /\ CoderInv'
  <2>1. flushed > 0 => enc.range >= TOP
    BY DEF CoderInv, EncoderInv, Flushing
  <2>2. flushed \in 0..5 /\ enc \in Encoders /\ TOP \in Nat /\ enc.range \in Nat
    BY Scales DEF CoderInv, EncoderInv, Encoders
  <2>3. CoderInv'
    BY ShiftLowInv
  <2>4. QED
    BY <1>1, <2>1, <2>2, <2>3
<1>3. PICK c, t, u : Parts(enc.low, c, t, u) /\ (c = 1 => enc.cache # RADIX - 1)
  BY CarryFits DEF CoderInv
<1>4. NumberOf(f) = RADIX * NumberOf(enc)
  BY <1>2, <1>3, ShiftNumber
<1>5. Shifts(enc, f, c, t, u)
  BY <1>2, <1>3, ShiftSummary
<1> HIDE DEF f
<1>6. f \in Encoders /\ f.range = enc.range
      /\ Len(f.out) + f.cache_size = Len(enc.out) + enc.cache_size + 1
  BY <1>5 DEF Shifts
<1>7. /\ enc'.low = f.low /\ enc'.out = f.out /\ enc'.cache = f.cache
      /\ enc'.cache_size = f.cache_size /\ enc'.range = enc.range * RADIX
  BY <1>1, <1>6 DEF Encoders
<1>8. NumberOf(enc') = NumberOf(f)
  BY <1>7 DEF NumberOf, HeldBy
<1>9. Base = NumberOf(enc) /\ Base' = NumberOf(enc')
  BY <1>1, <1>2, BaseIs, BaseIsNext DEF BaseFacts
<1>10. enc.range * RADIX = RADIX * enc.range
  BY <1>2, Scales DEF Encoders
<1>11. QED
  BY <1>1, <1>2, <1>4, <1>6, <1>7, <1>8, <1>9, <1>10

LEMMA ShiftLowRefines == CoderInv /\ ShiftLow => Ideal!Rescale
<1> SUFFICES ASSUME CoderInv, ShiftLow PROVE Ideal!Rescale
  OBVIOUS
<1>1. phase = "encode" /\ enc.range < TOP /\ phase' = phase /\ data' = data
  BY DEF ShiftLow
<1>2. Sent = -1 /\ Sent' = -1
  BY <1>1 DEF Sent
<1>3. QED
  BY <1>1, <1>2, ShiftLowMoves DEF Ideal!Rescale, Ideal!Silent, Sent

\* A byte that finish flushes changes nothing.
LEMMA FlushStutters ==
  ASSUME CoderInv, Flush
  PROVE  /\ Base' = Base /\ enc'.range = enc.range /\ Sent' = Sent
         /\ Len(enc'.out) + enc'.cache_size = Len(enc.out) + enc.cache_size + 1
<1> DEFINE f == shift_low(enc)
<1>1. /\ phase = "encode" /\ flushed < 5 /\ enc' = f /\ flushed' = flushed + 1
      /\ phase' = phase /\ data' = data
  BY DEF Flush
<1>2. enc \in Encoders /\ flushed \in 0..4 /\ Flushing /\ CoderInv'
  <2>1. CoderInv'
    BY FlushInv
  <2>2. QED
    BY <1>1, <2>1 DEF CoderInv, EncoderInv
<1>3. PICK c, t, u : Parts(enc.low, c, t, u) /\ (c = 1 => enc.cache # RADIX - 1)
  BY CarryFits DEF CoderInv
<1>4. NumberOf(f) = RADIX * NumberOf(enc) /\ NumberOf(enc) \in Nat
  BY <1>2, <1>3, ShiftNumber
<1>5. Shifts(enc, f, c, t, u)
  BY <1>2, <1>3, ShiftSummary
<1> HIDE DEF f
<1>6. /\ enc'.range = enc.range /\ Sent' = Sent
      /\ Len(enc'.out) + enc'.cache_size = Len(enc.out) + enc.cache_size + 1
  BY <1>1, <1>5 DEF Shifts, Sent
<1>7. Base \in Nat /\ Base' \in Nat /\ Base * Shifted[flushed + 1] = NumberOf(enc)
  BY <1>2, BaseIs, BaseIsNext DEF BaseFacts
<1>8. CASE flushed <= 3
  <2> DEFINE s == Shifted[flushed + 1]
  <2>1. flushed \in 0..3 /\ flushed' + 1 = flushed + 2 /\ flushed' <= 4
    BY <1>1, <1>2, <1>8
  <2>2. s \in Nat /\ s >= 1 /\ Shifted[flushed + 2] = RADIX * s
    BY <1>2, <2>1, ShiftedFacts
  <2>3. Base' * Shifted[flushed' + 1] = NumberOf(enc')
    BY <1>2, <2>1, BaseIs, BaseIsNext DEF BaseFacts
  <2> HIDE DEF s
  <2>4. Base' * (RADIX * s) = RADIX * (Base * s)
    BY <1>1, <1>4, <1>7, <2>1, <2>2, <2>3 DEF s
  <2> DEFINE d == RADIX * s
             a == Base'
             b == Base
  <2>5. RADIX * (b * s) = b * d
    BY <1>7, <2>2, Scales
  <2>6. d \in Nat /\ d >= 1
    <3>1. RADIX \in Nat /\ RADIX >= 1
      BY Scales
    <3>2. 1 * s <= RADIX * s /\ RADIX * s \in Nat
      BY <2>2, <3>1, MulMono, MulNat
    <3>3. QED
      BY <2>2, <3>2
  <2>7. a \in Nat /\ b \in Nat /\ a * d = b * d
    BY <1>7, <2>4, <2>5
  <2> HIDE DEF a, b, d
  <2>8. a = b
    <3>1. (d * a + 0) \div d = a /\ (d * b + 0) \div d = b
      <4>1. 0 \in 0..(d - 1) /\ d > 0
        BY <2>6
      <4>2. QED
        BY <2>6, <2>7, <4>1, DivUnique
    <3>2. d * a + 0 = d * b + 0
      BY <2>6, <2>7
    <3>3. QED
      BY <3>1, <3>2
  <2>9. QED
    BY <1>6, <2>8 DEF a, b
<1>9. CASE flushed = 4
  <2>1. flushed' = 5 /\ flushed > 0 /\ flushed <= 4 /\ flushed + 1 = 5
    BY <1>1, <1>9
  <2>2. Base' = Value(enc'.out)
    BY <1>2, <2>1, BaseIs, BaseIsNext DEF BaseFacts
  <2>3. enc'.low = 0 /\ enc'.cache = 0 /\ enc'.cache_size = 1 /\ enc' \in Encoders
    BY <1>2, <2>1 DEF CoderInv, EncoderInv, Flushing
  <2>4. NumberOf(enc') = (Value(enc'.out) * RADIX) * Word
    <3> DEFINE h == HeldBy(enc')
    <3>1. enc'.out \in Seq(Nat)
      BY <2>3, BytesAreNumbers DEF Encoders
    <3>2. /\ h \in Seq(Nat) /\ Len(h) = Len(enc'.out) + 1
          /\ h[Len(enc'.out) + 1] = 0
          /\ \A i \in 1..Len(enc'.out) : h[i] = enc'.out[i]
      BY <2>3, HeldDef, BytesAreNumbers
    <3> HIDE DEF h
    <3>3. Value(h) = Value(enc'.out) * RADIX + h[Len(h)]
      BY <3>1, <3>2, ValueAppend
    <3>4. Value(enc'.out) * RADIX \in Nat
      BY <3>1, ValueNat, MulNat, Scales
    <3>5. Value(h) = Value(enc'.out) * RADIX
      BY <3>2, <3>3, <3>4
    <3>6. NumberOf(enc') = Value(h) * Word + 0
      BY <2>3 DEF NumberOf, h
    <3>7. Value(h) * Word \in Nat
      BY <3>4, <3>5, Scales, MulNat
    <3>8. QED
      BY <3>5, <3>6, <3>7
  <2>5. Base * Word = NumberOf(enc)
    BY <1>7, <2>1, ShiftedFacts
  <2> DEFINE a == Base'
             b == Base
             d == Word * RADIX
  <2>6. a \in Nat /\ b \in Nat /\ Word \in Nat /\ RADIX \in Nat /\ d \in Nat /\ d > 0
    BY <1>7, Scales, MulNat
  <2>7. (a * RADIX) * Word = RADIX * (b * Word)
    BY <1>1, <1>4, <2>2, <2>4, <2>5
  <2> HIDE DEF a, b
  <2>8. d * a + 0 = d * b + 0
    BY <2>6, <2>7
  <2> HIDE DEF d
  <2>9. (d * a + 0) \div d = a /\ (d * b + 0) \div d = b
    <3>1. 0 \in 0..(d - 1)
      BY <2>6
    <3>2. QED
      BY <2>6, <3>1, DivUnique
  <2>10. a = b
    BY <2>8, <2>9
  <2>11. QED
    BY <1>6, <2>10 DEF a, b
<1>10. QED
  BY <1>2, <1>8, <1>9

\* What is stored is the number of the interval.
LEMMA StoreRefines == CoderInv /\ Store => Ideal!Send \/ UNCHANGED Ideal!vars
<1> SUFFICES ASSUME CoderInv, Store PROVE Ideal!Send \/ UNCHANGED Ideal!vars
  OBVIOUS
<1>1. /\ phase = "encode" /\ phase' = "stored" /\ (data = <<>> \/ flushed = 5)
      /\ data' = data /\ enc' = enc /\ flushed' = flushed
  BY DEF Store, encoder
<1>2. Base' = Base /\ enc'.range = enc.range
  BY <1>1 DEF Base, Held
<1>3. CASE data = <<>>
  <2>1. Sent' = Sent
    BY <1>1, <1>3 DEF Sent
  <2>2. QED
    BY <1>2, <2>1 DEF Ideal!vars, Sent
<1>4. CASE data # <<>>
  <2>1. Base = Value(enc.out)
    BY <1>1, <1>4, BaseIs DEF BaseFacts
  <2>2. Sent = -1 /\ Sent' = Value(enc.out)
    BY <1>1, <1>4 DEF Sent
  <2>3. QED
    BY <1>2, <2>1, <2>2 DEF Ideal!Send, Ideal!Silent, Sent
<1>5. QED
  BY <1>3, <1>4

LEMMA RefineStep == CoderInv /\ [Next]_vars => [Ideal!Next]_(Ideal!vars)
<1> SUFFICES ASSUME CoderInv, [Next]_vars PROVE Ideal!Next \/ UNCHANGED Ideal!vars
  OBVIOUS
<1>1. CASE EncodeBit
  BY <1>1, EncodeBitRefines DEF Ideal!Next
<1>2. CASE ShiftLow
  BY <1>2, ShiftLowRefines DEF Ideal!Next
<1>3. CASE Flush
  BY <1>3, FlushStutters DEF Ideal!vars, Sent
<1>4. CASE Store
  BY <1>4, StoreRefines DEF Ideal!Next
<1>5. CASE UNCHANGED <<codec, data, encoder>> /\ (phase # "encode" <=> phase' # "encode")
  BY <1>5 DEF encoder, Ideal!vars, Base, Held
<1>6. ASSUME NEW c \in Codecs, Open(c) PROVE Ideal!Next \/ UNCHANGED Ideal!vars
  <2>1. UNCHANGED <<codec, data, encoder>> /\ phase # "encode" /\ phase' # "encode"
    BY <1>6 DEF Open
  <2>2. QED
    BY <1>5, <2>1
<1>7. CASE DecodeBit \/ NextByte \/ Finish \/ UNCHANGED vars
  <2>1. UNCHANGED <<codec, data, encoder>> /\ (phase # "encode" <=> phase' # "encode")
    BY <1>7 DEF DecodeBit, NextByte, Finish, vars
  <2>2. QED
    BY <1>5, <2>1
<1>8. QED
  BY <1>1, <1>2, <1>3, <1>4, <1>6, <1>7 DEF Next

\* The encoder in its 32 bits and with its withheld bytes is arithmetic coding in
\* unbounded numbers: no carry is lost or arrives late, whatever the model says
\* and however long the run of bytes is that the carry goes through (shift_low,
\* encode_bit and finish).
THEOREM CodesTheIdeal == Spec => CodesExactly
<1>1. Spec => []CoderInv
  BY CoderInvariance
<1>2. QED
  BY <1>1, RefineInit, RefineStep, PTL DEF Spec, CodesExactly, Ideal!Spec

-----------------------------------------------------------------------------
(* What the decoder gives back, for every alphabet, every model and every    *)
(* message: encoder and decoder go the same course of intervals.             *)

-----------------------------------------------------------------------------
(* The course of the interval: what encode_bit does with it, one step after *)
(* the other, until every bit of the data is told                           *)

Moments(c, d) ==
    [base : Nat, width : 1..(Word - 1), model : ModelsOf(c), coded : 0..Len(d), shifts : Nat]

Start(c) == [base |-> 0, width |-> Word - 1, model |-> Fresh(c), coded |-> 0, shifts |-> 0]

Rescaled(m) ==
    [base |-> RADIX * m.base, width |-> RADIX * m.width, model |-> m.model,
     coded |-> m.coded, shifts |-> m.shifts + 1]

Asked(c, m) == Consulted(c, m.model)
Part(c, m) == Slice(m.width, Probability(c, Asked(c, m)))
Told(c, m, bit) ==
    [base |-> IF bit = 1 THEN m.base ELSE m.base + Part(c, m),
     width |-> IF bit = 1 THEN Part(c, m) ELSE m.width - Part(c, m),
     model |-> Taught(c, Asked(c, m), bit), coded |-> m.coded + 1, shifts |-> m.shifts]

After(c, d, m) ==
    IF m.width < TOP THEN Rescaled(m)
    ELSE IF m.coded < Len(d) THEN Told(c, m, d[m.coded + 1]) ELSE m

Runs(r, c, d) ==
    /\ r \in [Nat -> Moments(c, d)] /\ r[0] = Start(c)
    /\ \A k \in Nat : r[k + 1] = After(c, d, r[k])

LEMMA MessageFacts ==
  ASSUME NEW d \in Messages
  PROVE  d \in Seq(0..1) /\ Len(d) \in Nat /\ \A i \in 1..Len(d) : d[i] \in 0..1
<1>1. d \in Seq(0..1)
  BY ScalesAssumption
<1>2. QED
  BY <1>1, ElementOfSeq

LEMMA TellStep ==
  ASSUME NEW c \in Codecs, NEW w \in TOP..(Word - 1), NEW m \in ModelsOf(c), NEW bit \in 0..1
  PROVE  /\ Slice(w, Probability(c, Consulted(c, m))) \in 1..(w - 1)
         /\ Taught(c, Consulted(c, m), bit) \in ModelsOf(c)
<1>1. Probability(c, Consulted(c, m)) \in Chances /\ Taught(c, Consulted(c, m), bit) \in ModelsOf(c)
  BY ModelType
<1>2. QED
  BY <1>1, SliceRange

LEMMA Narrower ==
  ASSUME NEW w \in 1..(TOP - 1)
  PROVE  RADIX * w \in 1..(Word - 1) /\ RADIX * w + RADIX <= Word /\ w * RADIX = RADIX * w
<1>1. /\ RADIX \in Nat /\ RADIX >= 2 /\ TOP \in Nat /\ Word = RADIX * TOP /\ w \in Nat /\ w >= 1
      /\ w + 1 <= TOP
  BY Scales
<1>2. RADIX * (w + 1) <= Word /\ RADIX * 1 <= RADIX * w
  BY <1>1, MulMono
<1>3. RADIX * (w + 1) = RADIX * w + RADIX /\ RADIX * w \in Nat /\ w * RADIX = RADIX * w
  BY <1>1, MulNat
<1>4. QED
  BY <1>1, <1>2, <1>3

LEMMA StartType ==
  ASSUME NEW c \in Codecs, NEW d \in Messages
  PROVE  Start(c) \in Moments(c, d)
<1>1. Fresh(c) \in ModelsOf(c)
  <2>1. CASE c = "ARB1"
    BY <2>1, BitModelFresh DEF Fresh, ModelsOf
  <2>2. CASE c # "ARB1"
    BY <2>2, PredictorFresh DEF Fresh, ModelsOf
  <2>3. QED
    BY <2>1, <2>2
<1>2. Word - 1 \in 1..(Word - 1) /\ 0 \in 0..Len(d)
  BY Scales, MessageFacts
<1>3. QED
  BY <1>1, <1>2 DEF Start, Moments

\* One step of the course.
LEMMA AfterType ==
  ASSUME NEW c \in Codecs, NEW d \in Messages, NEW m \in Moments(c, d)
  PROVE  /\ After(c, d, m) \in Moments(c, d)
         /\ m.width >= TOP /\ m.coded < Len(d) =>
               d[m.coded + 1] \in 0..1 /\ Part(c, m) \in 1..(m.width - 1)
<1>1. /\ m.base \in Nat /\ m.width \in 1..(Word - 1) /\ m.model \in ModelsOf(c)
      /\ m.coded \in 0..Len(d) /\ m.shifts \in Nat
  BY DEF Moments
<1>2. Len(d) \in Nat /\ \A i \in 1..Len(d) : d[i] \in 0..1
  BY MessageFacts
<1>3. RADIX \in Nat /\ TOP \in Nat /\ Word \in Nat
  BY Scales
<1>4. CASE m.width < TOP
  <2>1. RADIX * m.width \in 1..(Word - 1) /\ RADIX * m.base \in Nat /\ m.shifts + 1 \in Nat
    <3>1. m.width \in 1..(TOP - 1)
      BY <1>1, <1>3, <1>4
    <3>2. RADIX * m.width \in 1..(Word - 1)
      BY <3>1, Narrower
    <3>3. RADIX * m.base \in Nat
      BY <1>1, <1>3, MulNat, Zenon
    <3>4. QED
      BY <1>1, <3>2, <3>3
  <2>2. Rescaled(m) \in Moments(c, d)
    BY <1>1, <2>1 DEF Rescaled, Moments
  <2>3. QED
    BY <1>1, <1>3, <1>4, <2>2 DEF After
<1>5. CASE m.width >= TOP /\ m.coded < Len(d)
  <2> DEFINE bit == d[m.coded + 1]
             r1 == Part(c, m)
             t == Taught(c, Asked(c, m), bit)
  <2>1. bit \in 0..1
    BY <1>1, <1>2, <1>5
  <2>2. m.width \in TOP..(Word - 1)
    BY <1>1, <1>3, <1>5
  <2>3. r1 \in 1..(m.width - 1) /\ t \in ModelsOf(c)
    BY <1>1, <2>1, <2>2, TellStep DEF Part, Asked
  <2>4. Told(c, m, bit) =
          [base |-> IF bit = 1 THEN m.base ELSE m.base + r1,
           width |-> IF bit = 1 THEN r1 ELSE m.width - r1,
           model |-> t, coded |-> m.coded + 1, shifts |-> m.shifts]
    BY DEF Told
  <2>5. After(c, d, m) = Told(c, m, bit)
    BY <1>1, <1>3, <1>5 DEF After
  <2>6. m.coded + 1 \in 0..Len(d)
    BY <1>1, <1>2, <1>5
  <2> HIDE DEF bit, r1, t
  <2>7. /\ (IF bit = 1 THEN m.base ELSE m.base + r1) \in Nat
        /\ (IF bit = 1 THEN r1 ELSE m.width - r1) \in 1..(Word - 1)
    BY <1>1, <1>3, <2>3
  <2>8. Told(c, m, bit) \in Moments(c, d)
    BY <1>1, <2>3, <2>4, <2>6, <2>7 DEF Moments
  <2>9. QED
    BY <1>5, <2>1, <2>3, <2>5, <2>8 DEF bit, r1
<1>6. CASE m.width >= TOP /\ ~(m.coded < Len(d))
  BY <1>1, <1>3, <1>6 DEF After
<1>7. QED
  BY <1>1, <1>3, <1>4, <1>5, <1>6

LEMMA RunExists ==
  ASSUME NEW c \in Codecs, NEW d \in Messages
  PROVE  \E r : Runs(r, c, d)
<1> DEFINE V == Moments(c, d)
           next == [k \in Nat |-> [m \in V |-> After(c, d, m)]]
<1>1. next \in [Nat -> [V -> V]]
  BY AfterType
<1>2. \A k \in Nat, m \in V : next[k][m] = After(c, d, m)
  OBVIOUS
<1>3. Start(c) \in V
  BY StartType
<1> HIDE DEF V, next
<1>4. PICK r : Course(r, V, Start(c), next)
  BY <1>1, <1>3, RecursiveFunction
<1>5. r \in [Nat -> V] /\ r[0] = Start(c) /\ \A k \in Nat : r[k + 1] = next[k][r[k]]
  BY <1>4 DEF Course
<1>6. \A k \in Nat : r[k + 1] = After(c, d, r[k])
  BY <1>2, <1>5
<1>7. QED
  BY <1>5, <1>6 DEF Runs, V


\* The interval of a moment holds the beginning of the stream that has its scale.
Holds(m, P, out) ==
    /\ m.shifts + 5 <= Len(out)
    /\ m.base <= P[m.shifts + 5] /\ P[m.shifts + 5] < m.base + m.width

\* x is in the interval b .. b + w - 1 when it is with one more digit.
LEMMA DigitInside ==
  ASSUME NEW b \in Nat, NEW w \in Nat, NEW x \in Nat, NEW byte \in Bytes,
         RADIX * b <= x * RADIX + byte, x * RADIX + byte < RADIX * b + RADIX * w
  PROVE  b <= x /\ x < b + w
<1>1. RADIX \in Nat /\ RADIX >= 2 /\ byte \in Nat /\ byte < RADIX
  BY Scales DEF Bytes
<1>2. b <= x
  <2> SUFFICES ASSUME x + 1 <= b PROVE FALSE
    OBVIOUS
  <2>1. RADIX * (x + 1) <= RADIX * b
    BY <1>1, MulMono
  <2>2. RADIX * (x + 1) = x * RADIX + RADIX /\ x * RADIX \in Nat /\ RADIX * b \in Nat
    BY <1>1, MulNat
  <2>3. QED
    BY <1>1, <2>1, <2>2
<1>3. x < b + w
  <2> SUFFICES ASSUME b + w <= x PROVE FALSE
    OBVIOUS
  <2>1. RADIX * (b + w) <= RADIX * x
    BY <1>1, MulMono
  <2>2. /\ RADIX * (b + w) = RADIX * b + RADIX * w /\ RADIX * x = x * RADIX
        /\ RADIX * b \in Nat /\ RADIX * w \in Nat /\ x * RADIX \in Nat
    BY <1>1, MulNat
  <2>3. QED
    BY <1>1, <2>1, <2>2
<1>4. QED
  BY <1>2, <1>3

LEMMA HoldsBefore ==
  ASSUME NEW c \in Codecs, NEW d \in Messages, NEW m \in Moments(c, d), NEW out \in Seq(Bytes),
         NEW P, Prefixes(P, out), Holds(After(c, d, m), P, out)
  PROVE  Holds(m, P, out)
<1>1. /\ m.base \in Nat /\ m.width \in 1..(Word - 1) /\ m.shifts \in Nat
      /\ m.coded \in 0..Len(d) /\ Len(out) \in Nat
  BY DEF Moments
<1>2. RADIX \in Nat /\ TOP \in Nat /\ Word \in Nat
  BY Scales
<1>3. CASE m.width < TOP
  <2>1. After(c, d, m) = Rescaled(m)
    BY <1>3 DEF After
  <2>2. /\ m.shifts + 6 <= Len(out)
        /\ RADIX * m.base <= P[m.shifts + 6] /\ P[m.shifts + 6] < RADIX * m.base + RADIX * m.width
    <3>1. Rescaled(m).shifts + 5 = m.shifts + 6
      BY <1>1 DEF Rescaled
    <3>2. Rescaled(m).base = RADIX * m.base /\ Rescaled(m).width = RADIX * m.width
      BY DEF Rescaled
    <3>3. QED
      BY <2>1, <3>1, <3>2 DEF Holds
  <2>3. /\ m.shifts + 6 \in 1..Len(out) /\ (m.shifts + 6) - 1 = m.shifts + 5
        /\ m.shifts + 5 \in 0..Len(out)
    BY <1>1, <2>2
  <2>4. P[m.shifts + 6] = P[m.shifts + 5] * RADIX + out[m.shifts + 6]
    BY <2>3 DEF Prefixes
  <2>5. P[m.shifts + 5] \in Nat /\ out[m.shifts + 6] \in Bytes
    BY <2>3, ElementOfSeq DEF Prefixes
  <2>6. m.width \in Nat
    BY <1>1, <1>2
  <2>7. m.base <= P[m.shifts + 5] /\ P[m.shifts + 5] < m.base + m.width
    <3> DEFINE x == P[m.shifts + 5]
               byte == out[m.shifts + 6]
    <3>1. x \in Nat /\ byte \in Bytes /\ m.base \in Nat
      BY <1>1, <2>5
    <3>2. RADIX * m.base <= x * RADIX + byte /\ x * RADIX + byte < RADIX * m.base + RADIX * m.width
      BY <2>2, <2>4
    <3> HIDE DEF x, byte
    <3>3. m.base <= x /\ x < m.base + m.width
      BY <2>6, <3>1, <3>2, DigitInside
    <3>4. QED
      BY <3>3 DEF x
  <2>8. QED
    BY <1>1, <2>3, <2>7 DEF Holds
<1>4. CASE m.width >= TOP /\ m.coded < Len(d)
  <2> DEFINE bit == d[m.coded + 1]
             r1 == Part(c, m)
             x == P[m.shifts + 5]
  <2>1. r1 \in 1..(m.width - 1)
    BY <1>4, AfterType
  <2>2. After(c, d, m) = Told(c, m, bit)
    BY <1>1, <1>2, <1>4 DEF After
  <2>3. /\ Told(c, m, bit).base = IF bit = 1 THEN m.base ELSE m.base + r1
        /\ Told(c, m, bit).width = IF bit = 1 THEN r1 ELSE m.width - r1
        /\ Told(c, m, bit).shifts = m.shifts
    BY DEF Told
  <2>4. /\ m.shifts + 5 <= Len(out)
        /\ (IF bit = 1 THEN m.base ELSE m.base + r1) <= x
        /\ x < (IF bit = 1 THEN m.base ELSE m.base + r1) + (IF bit = 1 THEN r1 ELSE m.width - r1)
    BY <2>2, <2>3 DEF Holds
  <2>5. m.shifts + 5 \in 0..Len(out)
    BY <1>1, <2>4
  <2>6. x \in Nat
    BY <2>5 DEF Prefixes
  <2> HIDE DEF bit, r1, x
  <2>7. m.base <= x /\ x < m.base + m.width
    BY <1>1, <1>2, <2>1, <2>4, <2>6
  <2>8. QED
    BY <2>4, <2>7 DEF Holds, x
<1>5. CASE m.width >= TOP /\ ~(m.coded < Len(d))
  <2>1. After(c, d, m) = m
    BY <1>1, <1>2, <1>5 DEF After
  <2>2. QED
    BY <2>1
<1>6. QED
  BY <1>1, <1>2, <1>3, <1>4, <1>5

\* The stream lies in every interval that the encoder had.
LEMMA StreamInside ==
  ASSUME NEW c \in Codecs, NEW d \in Messages, NEW r, Runs(r, c, d), NEW out \in Seq(Bytes),
         NEW P, Prefixes(P, out), NEW K \in Nat, Len(out) = r[K].shifts + 5,
         P[Len(out)] = r[K].base
  PROVE  \A k \in 0..K : Holds(r[k], P, out)
<1> DEFINE G == {j \in Nat : j <= K => Holds(r[K - j], P, out)}
<1>1. \A k \in Nat : r[k] \in Moments(c, d) /\ r[k + 1] = After(c, d, r[k])
  BY DEF Runs
<1>2. 0 \in G
  <2>0. r[K] \in Moments(c, d) /\ K - 0 = K
    <3>1. K - 0 = K
      OBVIOUS
    <3>2. r[K] \in Moments(c, d)
      BY <1>1, Zenon
    <3>3. QED
      BY <3>1, <3>2
  <2>1. /\ K - 0 = K /\ r[K].base \in Nat /\ r[K].width \in Nat /\ r[K].width >= 1
        /\ r[K].shifts \in Nat
    <3>1. r[K].base \in Nat /\ r[K].width \in 1..(Word - 1) /\ r[K].shifts \in Nat
      BY <2>0 DEF Moments
    <3>2. QED
      BY <2>0, <3>1, Scales
  <2>2. Holds(r[K], P, out)
    BY <2>1 DEF Holds
  <2>3. QED
    BY <2>1, <2>2
<1>3. ASSUME NEW j \in Nat, j \in G PROVE j + 1 \in G
  <2> SUFFICES ASSUME j + 1 <= K PROVE Holds(r[K - (j + 1)], P, out)
    OBVIOUS
  <2> DEFINE k == K - (j + 1)
  <2>1. k \in Nat /\ k + 1 = K - j /\ j <= K
    OBVIOUS
  <2>2. Holds(r[K - j], P, out)
    BY <1>3, <2>1
  <2> HIDE DEF k
  <2>3. r[k] \in Moments(c, d) /\ Holds(After(c, d, r[k]), P, out)
    BY <1>1, <2>1, <2>2
  <2>4. Holds(r[k], P, out)
    BY <2>3, HoldsBefore
  <2>5. QED
    BY <2>4 DEF k
<1> HIDE DEF G
<1>4. \A j \in Nat : j \in G
  BY <1>2, <1>3, Induction
<1>5. ASSUME NEW k \in 0..K PROVE Holds(r[k], P, out)
  <2>1. K - k \in Nat /\ K - k <= K /\ K - (K - k) = k
    OBVIOUS
  <2>2. Holds(r[K - (K - k)], P, out)
    BY <1>4, <2>1 DEF G
  <2>3. QED
    BY <2>1, <2>2
<1>6. QED
  BY <1>5

-----------------------------------------------------------------------------
(* The encoder follows the course                                          *)

EncodedAt(m) ==
    /\ Base = m.base /\ enc.range = m.width /\ model = m.model /\ coded = m.coded
    /\ Len(enc.out) + enc.cache_size = m.shifts + 1 + flushed

Followed(r, K) == Runs(r, codec, data) /\ K \in Nat /\ EncodedAt(r[K])

LEMMA InitFollowed == Init => \E r : Followed(r, 0)
<1> SUFFICES ASSUME Init PROVE \E r : Followed(r, 0)
  OBVIOUS
<1>1. codec \in Codecs /\ data \in Messages /\ coded = 0 /\ flushed = 0 /\ model = Fresh(codec)
      /\ enc = [low |-> 0, range |-> Word - 1, cache |-> 0, cache_size |-> 1, out |-> <<>>]
  BY DEF Init
<1>2. Base = 0
  BY RefineInit DEF Ideal!Init
<1>3. PICK r : Runs(r, codec, data)
  BY <1>1, RunExists
<1>4. EncodedAt(r[0])
  <2>1. r[0] = [base |-> 0, width |-> Word - 1, model |-> Fresh(codec), coded |-> 0, shifts |-> 0]
    BY <1>3 DEF Runs, Start
  <2>2. Len(enc.out) = 0 /\ enc.cache_size = 1 /\ enc.range = Word - 1
    BY <1>1
  <2>3. Len(enc.out) + enc.cache_size = r[0].shifts + 1 + flushed
    BY <1>1, <2>1, <2>2
  <2>4. QED
    BY <1>1, <1>2, <2>1, <2>2, <2>3 DEF EncodedAt
<1>5. QED
  BY <1>3, <1>4 DEF Followed

LEMMA EncodeBitFollowed ==
  ASSUME CoderInv, EncodeBit, NEW r, NEW K, Followed(r, K)
  PROVE  Followed(r, K + 1)'
<1> DEFINE bit == data[coded + 1]
           r1 == Slice(enc.range, Probability(codec, Consulted(codec, model)))
<1>1. /\ enc.range >= TOP /\ coded < Len(data) /\ codec' = codec /\ data' = data
      /\ model' = Taught(codec, Consulted(codec, model), bit) /\ coded' = coded + 1
  BY DEF EncodeBit
<1>2. /\ Runs(r, codec, data) /\ K \in Nat /\ K + 1 \in Nat /\ r[K] \in Moments(codec, data)
      /\ r[K + 1] = After(codec, data, r[K])
  BY DEF Followed, Runs
<1>3. /\ Base = r[K].base /\ enc.range = r[K].width /\ model = r[K].model /\ coded = r[K].coded
      /\ Len(enc.out) + enc.cache_size = r[K].shifts + 1 + flushed
  BY DEF Followed, EncodedAt
<1>4. Tells(r1, bit)
  BY EncodeBitMoves
<1>5. enc.range \in Nat /\ TOP \in Nat
  BY Scales DEF CoderInv, EncoderInv, Encoders
<1>6. r[K + 1] = Told(codec, r[K], bit)
  BY <1>1, <1>2, <1>3, <1>5 DEF After
<1>7. Part(codec, r[K]) = r1 /\ Taught(codec, Asked(codec, r[K]), bit) = model'
  BY <1>1, <1>3 DEF Part, Asked
<1>8. /\ r[K + 1].base = IF bit = 1 THEN r[K].base ELSE r[K].base + r1
      /\ r[K + 1].width = IF bit = 1 THEN r1 ELSE r[K].width - r1
      /\ r[K + 1].model = model' /\ r[K + 1].coded = r[K].coded + 1
      /\ r[K + 1].shifts = r[K].shifts
  BY <1>6, <1>7 DEF Told
<1> HIDE DEF bit, r1
<1>9. EncodedAt(r[K + 1])'
  BY <1>1, <1>3, <1>4, <1>8 DEF EncodedAt, Tells
<1>10. QED
  BY <1>1, <1>2, <1>9 DEF Followed

LEMMA ShiftLowFollowed ==
  ASSUME CoderInv, ShiftLow, NEW r, NEW K, Followed(r, K)
  PROVE  Followed(r, K + 1)'
<1>1. /\ enc.range < TOP /\ codec' = codec /\ data' = data /\ model' = model /\ coded' = coded
  BY DEF ShiftLow
<1>2. /\ Runs(r, codec, data) /\ K \in Nat /\ K + 1 \in Nat /\ r[K] \in Moments(codec, data)
      /\ r[K + 1] = After(codec, data, r[K])
  BY DEF Followed, Runs
<1>3. /\ Base = r[K].base /\ enc.range = r[K].width /\ model = r[K].model /\ coded = r[K].coded
      /\ Len(enc.out) + enc.cache_size = r[K].shifts + 1 + flushed
  BY DEF Followed, EncodedAt
<1>4. r[K + 1] = Rescaled(r[K])
  BY <1>1, <1>2, <1>3 DEF After
<1>5. /\ r[K + 1].base = RADIX * Base /\ r[K + 1].width = RADIX * enc.range
      /\ r[K + 1].model = model /\ r[K + 1].coded = coded /\ r[K + 1].shifts = r[K].shifts + 1
  BY <1>3, <1>4 DEF Rescaled
<1>6. /\ Base' = RADIX * Base /\ enc'.range = RADIX * enc.range /\ flushed = 0 /\ flushed' = 0
      /\ Len(enc'.out) + enc'.cache_size = Len(enc.out) + enc.cache_size + 1
  BY ShiftLowMoves
<1>7. r[K].shifts \in Nat
  BY <1>2 DEF Moments
<1>8. Len(enc'.out) + enc'.cache_size = r[K + 1].shifts + 1 + flushed'
  BY <1>3, <1>5, <1>6, <1>7
<1>9. EncodedAt(r[K + 1])'
  BY <1>1, <1>5, <1>6, <1>8 DEF EncodedAt
<1>10. QED
  BY <1>1, <1>2, <1>9 DEF Followed

LEMMA FlushFollowed ==
  ASSUME CoderInv, Flush, NEW r, NEW K, Followed(r, K)
  PROVE  Followed(r, K)'
<1>1. /\ codec' = codec /\ data' = data /\ model' = model /\ coded' = coded
      /\ flushed' = flushed + 1
  BY DEF Flush
<1>2. /\ Base' = Base /\ enc'.range = enc.range
      /\ Len(enc'.out) + enc'.cache_size = Len(enc.out) + enc.cache_size + 1
  BY FlushStutters
<1>3. flushed \in Nat /\ r[K].shifts \in Nat
  <2>1. r[K] \in Moments(codec, data)
    BY DEF Followed, Runs
  <2>2. QED
    BY <2>1 DEF CoderInv, EncoderInv, Moments
<1>4. Len(enc'.out) + enc'.cache_size = r[K].shifts + 1 + flushed'
  BY <1>1, <1>2, <1>3, SMTT(40) DEF Followed, EncodedAt
<1>5. QED
  BY <1>1, <1>2, <1>4 DEF Followed, EncodedAt

LEMMA RestFollowed ==
  ASSUME UNCHANGED <<codec, data, encoder>>, NEW r, NEW K, Followed(r, K)
  PROVE  Followed(r, K)'
BY DEF Followed, EncodedAt, encoder, Base, Held

\* The stream that was flushed is in every interval of the course.
LEMMA Delivered ==
  ASSUME CoderInv, flushed = 5, NEW r, NEW K, Followed(r, K), NEW P, Prefixes(P, enc.out)
  PROVE  /\ \A k \in 0..K : Holds(r[k], P, enc.out)
         /\ r[K].coded = Len(data) /\ r[K].width >= TOP
<1>1. /\ codec \in Codecs /\ data \in Messages /\ enc \in Encoders /\ enc.out \in Seq(Bytes)
      /\ enc.range >= TOP /\ coded = Len(data) /\ enc.cache_size = 1
  BY DEF CoderInv, EncoderInv, Flushing, Encoders
<1>2. /\ Base = r[K].base /\ enc.range = r[K].width /\ coded = r[K].coded
      /\ Len(enc.out) + enc.cache_size = r[K].shifts + 1 + flushed
      /\ Runs(r, codec, data) /\ K \in Nat /\ r[K].shifts \in Nat
  BY DEF Followed, EncodedAt, Runs, Moments
<1>3. Len(enc.out) \in Nat /\ enc.out \in Seq(Nat)
  BY <1>1, BytesAreNumbers
<1>4. Len(enc.out) = r[K].shifts + 5
  BY <1>1, <1>2, <1>3, SMTT(40)
<1>5. P[Len(enc.out)] = Base
  <2>1. Base = Value(enc.out)
    BY BaseIs DEF BaseFacts
  <2>2. PICK v : Prefixes(v, enc.out) /\ Value(enc.out) = v[Len(enc.out)]
    BY <1>3, ValueDef
  <2>3. P[Len(enc.out)] = v[Len(enc.out)]
    <3> DEFINE n == Len(enc.out)
    <3>1. n \in Nat /\ n <= Len(enc.out) /\ \A i \in 1..n : enc.out[i] = enc.out[i]
      BY <1>3
    <3> HIDE DEF n
    <3>2. P[n] = v[n]
      BY <1>3, <2>2, <3>1, SameBeginning
    <3>3. QED
      BY <3>2 DEF n
  <2>4. QED
    BY <2>1, <2>2, <2>3
<1>6. \A k \in 0..K : Holds(r[k], P, enc.out)
  BY <1>1, <1>2, <1>4, <1>5, StreamInside
<1>7. QED
  BY <1>1, <1>2, <1>6

-----------------------------------------------------------------------------
(* What is stored, and the first word that the decoder reads of it         *)

\* Store keeps a beginning of the stream, with the codec and the length.
Stored ==
    phase # "encode" =>
        /\ blob.magic = codec /\ blob.len = Len(data)
        /\ blob.stream \in Seq(Bytes) /\ Len(blob.stream) <= Len(enc.out)
        /\ \A i \in 1..Len(blob.stream) : blob.stream[i] = enc.out[i]

LEMMA ByteFacts ==
  ASSUME CoderInv, Stored, phase # "encode", NEW pos \in Nat
  PROVE  /\ Byte(pos) \in Bytes
         /\ pos < Len(enc.out) =>
               /\ pos + 1 \in 1..Len(enc.out) /\ enc.out[pos + 1] \in Bytes
               /\ Byte(pos) <= enc.out[pos + 1]
               /\ Intact => Byte(pos) = enc.out[pos + 1]
<1>1. /\ blob.stream \in Seq(Bytes) /\ Len(blob.stream) <= Len(enc.out) /\ enc.out \in Seq(Bytes)
      /\ \A i \in 1..Len(blob.stream) : blob.stream[i] = enc.out[i]
  BY DEF CoderInv, EncoderInv, Encoders, Stored
<1>2. 0 \in Bytes /\ Bytes \subseteq Nat /\ \A x \in Bytes : 0 <= x /\ x <= x
  BY Scales, BytesAreNumbers DEF Bytes
<1>3. Len(blob.stream) \in Nat /\ Len(enc.out) \in Nat /\ DOMAIN enc.out = 1..Len(enc.out)
  BY <1>1
<1>4. CASE pos < Len(blob.stream)
  <2>1. pos + 1 \in 1..Len(blob.stream) /\ Byte(pos) = blob.stream[pos + 1]
    BY <1>3, <1>4 DEF Byte
  <2>2. blob.stream[pos + 1] \in Bytes /\ blob.stream[pos + 1] = enc.out[pos + 1]
    BY <1>1, <2>1, ElementOfSeq
  <2>3. enc.out[pos + 1] <= enc.out[pos + 1]
    BY <1>2, <2>2, Zenon
  <2>4. pos + 1 \in 1..Len(enc.out)
    BY <1>1, <1>3, <2>1
  <2>5. QED
    BY <2>1, <2>2, <2>3, <2>4
<1>5. CASE ~(pos < Len(blob.stream))
  <2>1. Byte(pos) = 0
    BY <1>5 DEF Byte
  <2>2. ASSUME pos < Len(enc.out)
        PROVE  /\ pos + 1 \in 1..Len(enc.out) /\ enc.out[pos + 1] \in Bytes
               /\ Byte(pos) <= enc.out[pos + 1]
               /\ Intact => Byte(pos) = enc.out[pos + 1]
    <3>1. pos + 1 \in 1..Len(enc.out) /\ pos + 1 > Len(blob.stream)
      BY <1>3, <1>5, <2>2
    <3>2. enc.out[pos + 1] \in Bytes
      BY <1>1, <3>1, ElementOfSeq
    <3>3. 0 <= enc.out[pos + 1]
      BY <1>2, <3>2, Zenon
    <3>4. Intact => enc.out[pos + 1] = 0
      BY <1>3, <3>1 DEF Intact
    <3>5. QED
      BY <2>1, <3>1, <3>2, <3>3, <3>4
  <2>3. QED
    BY <1>2, <2>1, <2>2
<1>6. QED
  BY <1>4, <1>5

LEMMA Horner ==
  ASSUME NEW a \in Nat, NEW b \in Nat, NEW x \in Nat, NEW y \in Nat, a <= x, b <= y
  PROVE  a * RADIX + b \in Nat /\ x * RADIX + y \in Nat /\ a * RADIX + b <= x * RADIX + y
<1>1. RADIX \in Nat
  BY Scales
<1>2. a * RADIX <= x * RADIX /\ a * RADIX \in Nat /\ x * RADIX \in Nat
  BY <1>1, MulMono, MulNat
<1> DEFINE p == a * RADIX
           q == x * RADIX
<1> HIDE DEF p, q
<1>3. p + b \in Nat /\ q + y \in Nat /\ p + b <= q + y
  <2>1. p <= q /\ p \in Nat /\ q \in Nat
    BY <1>2 DEF p, q
  <2>2. QED
    BY <2>1
<1>4. QED
  BY <1>3 DEF p, q

\* The number of four bytes.
Four(a, b, c, d) == ((a * RADIX + b) * RADIX + c) * RADIX + d

LEMMA FourMono ==
  ASSUME NEW a \in Nat, NEW b \in Nat, NEW c \in Nat, NEW d \in Nat,
         NEW w \in Nat, NEW x \in Nat, NEW y \in Nat, NEW z \in Nat,
         a <= w, b <= x, c <= y, d <= z
  PROVE  Four(a, b, c, d) \in Nat /\ Four(w, x, y, z) \in Nat
         /\ Four(a, b, c, d) <= Four(w, x, y, z)
<1> DEFINE p2 == a * RADIX + b
           q2 == w * RADIX + x
           p3 == p2 * RADIX + c
           q3 == q2 * RADIX + y
<1>1. p2 \in Nat /\ q2 \in Nat /\ p2 <= q2
  BY Horner
<1> HIDE DEF p2, q2
<1>2. p3 \in Nat /\ q3 \in Nat /\ p3 <= q3
  BY <1>1, Horner
<1> HIDE DEF p3, q3
<1>3. p3 * RADIX + d \in Nat /\ q3 * RADIX + z \in Nat /\ p3 * RADIX + d <= q3 * RADIX + z
  BY <1>2, Horner
<1>4. QED
  BY <1>3 DEF Four, p2, q2, p3, q3

\* A stream that is in the first interval begins with a zero.
LEMMA FirstWord ==
  ASSUME NEW out \in Seq(Bytes), NEW P, Prefixes(P, out), 5 <= Len(out), P[5] < Word
  PROVE  P[5] = Four(out[2], out[3], out[4], out[5])
<1>1. \A i \in 1..5 : out[i] \in Nat
  BY ElementOfSeq, BytesAreNumbers
<1>2. /\ P[1] = P[0] * RADIX + out[1] /\ P[2] = P[1] * RADIX + out[2]
      /\ P[3] = P[2] * RADIX + out[3] /\ P[4] = P[3] * RADIX + out[4]
      /\ P[5] = P[4] * RADIX + out[5] /\ P[0] = 0
  <2>1. \A i \in 1..5 : P[i] = P[i - 1] * RADIX + out[i]
    BY DEF Prefixes
  <2>2. P[0] = 0
    BY DEF Prefixes
  <2>3. 1 - 1 = 0 /\ 2 - 1 = 1 /\ 3 - 1 = 2 /\ 4 - 1 = 3 /\ 5 - 1 = 4
    OBVIOUS
  <2>4. \A i \in {1, 2, 3, 4, 5} : i \in 1..5
    OBVIOUS
  <2>5. QED
    BY <2>1, <2>2, <2>3, <2>4, Zenon
<1>3. RADIX \in Nat /\ TOP = RADIX * RADIX * RADIX /\ Word = RADIX * TOP
  BY Scales DEF TOP, Word
<1>4. P[1] = out[1]
  BY <1>1, <1>2, <1>3
<1>5. P[5] = Four(P[1] * RADIX + out[2], out[3], out[4], out[5])
  BY <1>2 DEF Four
<1>6. P[1] = 0
  <2> SUFFICES ASSUME P[1] # 0 PROVE FALSE
    OBVIOUS
  <2> DEFINE x == P[1]
             o2 == out[2]
             o3 == out[3]
             o4 == out[4]
             o5 == out[5]
             q == x * RADIX + o2
  <2>0. /\ o2 \in Nat /\ o3 \in Nat /\ o4 \in Nat /\ o5 \in Nat /\ x \in Nat
        /\ 0 <= o2 /\ 0 <= o3 /\ 0 <= o4 /\ 0 <= o5
    BY <1>1, <1>4
  <2>1. 1 <= x
    BY <2>0
  <2> HIDE DEF x, o2, o3, o4, o5
  <2>2. RADIX <= q /\ q \in Nat
    <3>1. 1 * RADIX + 0 <= q /\ q \in Nat
      BY <2>0, <2>1, Horner
    <3>2. QED
      BY <1>3, <3>1
  <2> HIDE DEF q
  <2>3. Four(RADIX, 0, 0, 0) <= Four(q, o3, o4, o5) /\ Four(q, o3, o4, o5) \in Nat
    BY <1>3, <2>0, <2>2, FourMono
  <2>4. Four(RADIX, 0, 0, 0) = Word
    <3>1. Four(RADIX, 0, 0, 0) = RADIX * RADIX * RADIX * RADIX
      BY <1>3 DEF Four
    <3>2. QED
      BY <1>3, <3>1
  <2>5. P[5] = Four(q, o3, o4, o5)
    BY <1>5 DEF q, x, o2, o3, o4, o5
  <2>6. QED
    BY <2>3, <2>4, <2>5, Scales
<1>7. P[1] * RADIX + out[2] = out[2]
  BY <1>1, <1>3, <1>6
<1>8. QED
  BY <1>5, <1>7

-----------------------------------------------------------------------------
(* The decoder follows it too                                              *)

Decoders == [range : 1..(Word - 1), code : Nat, pos : Nat]

\* The code is inside the interval, also when the stream was cut.
Within ==
    phase = "decode" =>
        /\ data # <<>> /\ dec \in Decoders /\ dec.code < dec.range /\ dmodel \in ModelsOf(codec)

Ends ==
    /\ phase \in {"encode", "stored"} \/ (phase = "done" /\ data = <<>>) => bits = <<>>
    /\ phase = "done" => Len(bits) = Len(data)

\* The code is the offset of the stream into the interval that the encoder had.
DecodedAt(m, P) ==
    /\ dec.range = m.width /\ dmodel = m.model /\ bits = SubSeq(data, 1, m.coded)
    /\ dec.pos = m.shifts + 5 /\ dec.code = P[m.shifts + 5] - m.base

Mirrored(r, K) == \E P, k : Prefixes(P, enc.out) /\ k \in 0..K /\ DecodedAt(r[k], P)

Mirrors ==
    \E r, K : /\ Followed(r, K)
              /\ phase \in {"decode", "done"} /\ data # <<>> /\ Intact => Mirrored(r, K)

RangeInv == CoderInv /\ Stored /\ Within /\ Ends /\ Mirrors

LEMMA InitRange == Init => RangeInv
<1> SUFFICES ASSUME Init PROVE RangeInv
  OBVIOUS
<1>1. phase = "encode" /\ bits = <<>>
  BY DEF Init
<1>2. CoderInv
  BY InitEncoder
<1>3. Mirrors
  BY <1>1, InitFollowed DEF Mirrors
<1>4. QED
  BY <1>1, <1>2, <1>3 DEF RangeInv, Stored, Within, Ends

LEMMA EncoderRange ==
  ASSUME RangeInv, EncodeBit \/ ShiftLow \/ Flush
  PROVE  RangeInv'
<1>1. CoderInv /\ CoderInv'
  BY EncodeBitInv, ShiftLowInv, FlushInv DEF RangeInv
<1>2. phase' = "encode" /\ phase = "encode" /\ bits' = bits
  BY DEF EncodeBit, ShiftLow, Flush, decoder
<1>3. PICK r, K : Followed(r, K)
  BY DEF RangeInv, Mirrors
<1>4. \E k : Followed(r, k)'
  <2>1. CASE EncodeBit
    BY <1>1, <1>3, <2>1, EncodeBitFollowed
  <2>2. CASE ShiftLow
    BY <1>1, <1>3, <2>2, ShiftLowFollowed
  <2>3. CASE Flush
    BY <1>1, <1>3, <2>3, FlushFollowed
  <2>4. QED
    BY <2>1, <2>2, <2>3
<1>5. Mirrors'
  BY <1>2, <1>4 DEF Mirrors
<1>6. Ends'
  BY <1>2 DEF RangeInv, Ends
<1>7. QED
  BY <1>1, <1>2, <1>5, <1>6 DEF RangeInv, Stored, Within

LEMMA StoreRange == RangeInv /\ Store => RangeInv'
<1> SUFFICES ASSUME RangeInv, Store PROVE RangeInv'
  OBVIOUS
<1>1. /\ phase = "encode" /\ phase' = "stored" /\ codec' = codec /\ data' = data /\ enc' = enc
      /\ bits' = bits /\ UNCHANGED <<codec, data, encoder>>
  BY DEF Store, encoder, decoder
<1>2. CoderInv'
  BY StoreInv DEF RangeInv
<1>3. Stored'
  <2>1. PICK n \in 0..MaxCut : /\ n <= Len(enc.out)
                               /\ blob' = [magic |-> codec, len |-> Len(data),
                                          stream |-> SubSeq(enc.out, 1, Len(enc.out) - n)]
    BY DEF Store
  <2>2. enc.out \in Seq(Bytes) /\ MaxCut \in Nat
    BY ScalesAssumption DEF RangeInv, CoderInv, EncoderInv, Encoders
  <2> DEFINE out == enc.out
             m == Len(out) - n
             stream == SubSeq(out, 1, m)
  <2>3. m \in 0..Len(out)
    BY <2>1, <2>2
  <2>4. stream \in Seq(Bytes) /\ Len(stream) = m /\ \A i \in 1..m : stream[i] = out[i]
    <3> HIDE DEF out, m
    <3>0. out \in Seq(Bytes) /\ Len(out) \in Nat
      BY <2>2 DEF out
    <3>1. \A i \in 1..m : out[i] \in Bytes
      BY <2>3, <3>0, ElementOfSeq
    <3>2. m \in Nat /\ m - 1 + 1 = m
      BY <2>3, <3>0
    <3>3. QED
      BY <2>3, <3>0, <3>1, <3>2
  <2> HIDE DEF stream, m
  <2>5. blob'.magic = codec /\ blob'.len = Len(data) /\ blob'.stream = stream
    BY <2>1 DEF stream, m, out
  <2>6. Len(stream) <= Len(out) /\ \A i \in 1..Len(stream) : stream[i] = out[i]
    BY <2>2, <2>3, <2>4
  <2>7. QED
    BY <1>1, <2>4, <2>5, <2>6 DEF Stored, out
<1>4. Mirrors'
  <2>1. PICK r, K : Followed(r, K)
    BY DEF RangeInv, Mirrors
  <2>2. Followed(r, K)'
    BY <1>1, <2>1, RestFollowed
  <2>3. QED
    BY <1>1, <2>2 DEF Mirrors
<1>5. Within' /\ Ends'
  BY <1>1 DEF RangeInv, Within, Ends
<1>6. QED
  BY <1>2, <1>3, <1>4, <1>5 DEF RangeInv

\* What the actions of the decoder leave alone.
Kept == UNCHANGED <<codec, data, encoder, blob>> /\ phase # "encode" /\ phase' # "encode"

LEMMA DecoderKeeps ==
  ASSUME RangeInv, Kept
  PROVE  /\ CoderInv' /\ Stored' /\ (Intact' <=> Intact) /\ data' = data /\ codec' = codec
         /\ enc' = enc
         /\ \A r, K : Followed(r, K) => Followed(r, K)'
<1>1. /\ codec' = codec /\ data' = data /\ enc' = enc /\ blob' = blob
      /\ UNCHANGED <<codec, data, encoder>>
  BY DEF Kept, encoder
<1>2. CoderInv'
  BY <1>1, DecodeInv DEF RangeInv, Kept
<1>3. Stored'
  BY <1>1 DEF RangeInv, Stored, Kept
<1>4. Intact' <=> Intact
  BY <1>1 DEF Intact
<1>5. ASSUME NEW r, NEW K, Followed(r, K) PROVE Followed(r, K)'
  BY <1>1, <1>5, RestFollowed
<1>6. QED
  BY <1>1, <1>2, <1>3, <1>4, <1>5

\* The codec that wrote the blob reads the first word of it.
LEMMA OpenDecodes ==
  ASSUME RangeInv, NEW c \in Codecs, Open(c), blob.magic = c, blob.len # 0
  PROVE  Within' /\ Mirrors'
<1>1. /\ phase = "stored" /\ phase' = "decode" /\ dmodel' = Fresh(c) /\ bits' = bits
      /\ dec' = [range |-> Word - 1, pos |-> 5,
                 code |-> Four(Byte(1), Byte(2), Byte(3), Byte(4))]
      /\ Kept
  BY DEF Open, Four, Kept
<1>2. /\ CoderInv' /\ Stored' /\ (Intact' <=> Intact) /\ data' = data /\ codec' = codec
      /\ enc' = enc
      /\ \A r, K : Followed(r, K) => Followed(r, K)'
  BY <1>1, DecoderKeeps
<1>3. CoderInv /\ Stored /\ Ends /\ codec = c /\ data # <<>> /\ data \in Messages
  BY <1>1 DEF RangeInv, Stored, CoderInv, EncoderInv
<1>4. flushed = 5 /\ enc.out \in Seq(Bytes) /\ bits = <<>>
  BY <1>1, <1>3 DEF CoderInv, EncoderInv, Encoders, Ends
<1>5. PICK r, K : Followed(r, K)
  BY DEF RangeInv, Mirrors
<1>6. PICK P : Prefixes(P, enc.out)
  <2>1. enc.out \in Seq(Nat)
    BY <1>4, BytesAreNumbers
  <2>2. QED
    BY <2>1, ValueDef
<1>7. K \in Nat /\ 0 \in 0..K /\ r[0] = Start(codec) /\ Holds(r[0], P, enc.out)
  <2>1. \A k \in 0..K : Holds(r[k], P, enc.out)
    BY <1>3, <1>4, <1>5, <1>6, Delivered
  <2>2. K \in Nat /\ r[0] = Start(codec)
    BY <1>5 DEF Followed, Runs
  <2>3. QED
    BY <2>1, <2>2
<1>8. /\ r[0].shifts = 0 /\ r[0].base = 0 /\ r[0].width = Word - 1 /\ r[0].coded = 0
      /\ r[0].model = Fresh(codec)
  BY <1>7 DEF Start
<1>9. 5 <= Len(enc.out) /\ P[5] < Word - 1 /\ P[5] \in Nat
  <2>1. 0 + 5 = 5
    OBVIOUS
  <2>2. 5 <= Len(enc.out) /\ P[5] < 0 + (Word - 1)
    BY <1>7, <1>8, <2>1, Zenon DEF Holds
  <2>3. 5 \in 0..Len(enc.out)
    BY <1>4, <2>2
  <2>4. P[5] \in Nat
    BY <1>6, <2>3 DEF Prefixes
  <2>5. QED
    BY <2>2, <2>4, Scales
<1> DEFINE o(i) == enc.out[i]
<1>10. P[5] = Four(o(2), o(3), o(4), o(5))
  <2>1. P[5] < Word
    BY <1>9, Scales
  <2>2. QED
    BY <1>4, <1>6, <1>9, <2>1, FirstWord
<1>11. /\ Byte(1) \in Nat /\ o(2) \in Nat /\ Byte(1) <= o(2) /\ (Intact => Byte(1) = o(2))
       /\ Byte(2) \in Nat /\ o(3) \in Nat /\ Byte(2) <= o(3) /\ (Intact => Byte(2) = o(3))
       /\ Byte(3) \in Nat /\ o(4) \in Nat /\ Byte(3) <= o(4) /\ (Intact => Byte(3) = o(4))
       /\ Byte(4) \in Nat /\ o(5) \in Nat /\ Byte(4) <= o(5) /\ (Intact => Byte(4) = o(5))
  <2>1. ASSUME NEW i \in 1..4
        PROVE  /\ Byte(i) \in Nat /\ o(i + 1) \in Nat /\ Byte(i) <= o(i + 1)
               /\ (Intact => Byte(i) = o(i + 1))
    <3>1. i \in Nat /\ i < Len(enc.out) /\ phase # "encode"
      BY <1>1, <1>4, <1>9
    <3>2. /\ Byte(i) \in Bytes /\ o(i + 1) \in Bytes /\ Byte(i) <= o(i + 1)
          /\ (Intact => Byte(i) = o(i + 1))
      BY <1>3, <3>1, ByteFacts
    <3>3. QED
      BY <3>2, BytesAreNumbers
  <2>2. 1 \in 1..4 /\ 2 \in 1..4 /\ 3 \in 1..4 /\ 4 \in 1..4
        /\ 1 + 1 = 2 /\ 2 + 1 = 3 /\ 3 + 1 = 4 /\ 4 + 1 = 5
    OBVIOUS
  <2> HIDE DEF o
  <2>3. QED
    BY <2>1, <2>2, Zenon
<1> HIDE DEF o
<1>12. dec'.code \in Nat /\ dec'.code <= P[5] /\ (Intact => dec'.code = P[5])
  <2> DEFINE b1 == Byte(1)
             b2 == Byte(2)
             b3 == Byte(3)
             b4 == Byte(4)
             o2 == o(2)
             o3 == o(3)
             o4 == o(4)
             o5 == o(5)
             f == Four(b1, b2, b3, b4)
             g == Four(o2, o3, o4, o5)
  <2>0. /\ b1 \in Nat /\ b2 \in Nat /\ b3 \in Nat /\ b4 \in Nat
        /\ o2 \in Nat /\ o3 \in Nat /\ o4 \in Nat /\ o5 \in Nat
        /\ b1 <= o2 /\ b2 <= o3 /\ b3 <= o4 /\ b4 <= o5
    BY <1>11
  <2>1. f \in Nat /\ f <= g
    <3> HIDE DEF b1, b2, b3, b4, o2, o3, o4, o5
    <3>1. QED
      BY <2>0, FourMono
  <2>2. Intact => f = g
    BY <1>11
  <2> HIDE DEF f, g
  <2>3. dec'.code = f
    BY <1>1 DEF f
  <2>4. P[5] = g
    BY <1>10 DEF g
  <2>5. QED
    BY <2>1, <2>2, <2>3, <2>4
<1>13. dec'.range = Word - 1 /\ dec'.pos = 5
  BY <1>1
<1>14. Within'
  <2>1. Word - 1 \in 1..(Word - 1)
    BY Scales
  <2>2. dec' \in Decoders
    BY <1>1, <1>12, <2>1 DEF Decoders
  <2>3. dec'.code < dec'.range
    BY <1>9, <1>12, <1>13, Scales
  <2>4. dmodel' \in ModelsOf(codec)
    <3>1. Start(codec) \in Moments(codec, data)
      BY <1>3, StartType
    <3>2. QED
      BY <1>1, <1>3, <3>1 DEF Start, Moments
  <2>5. QED
    BY <1>2, <1>3, <2>2, <2>3, <2>4 DEF Within
<1>15. Mirrors'
  <2>1. Followed(r, K)'
    BY <1>2, <1>5
  <2>2. ASSUME Intact PROVE DecodedAt(r[0], P)'
    <3>1. bits' = SubSeq(data', 1, r[0].coded)
      <4>1. SubSeq(data, 1, 0) = <<>>
        BY SubSeqEmpty
      <4>2. QED
        BY <1>1, <1>2, <1>4, <1>8, <4>1
    <3>2. r[0].shifts + 5 = 5
      BY <1>8
    <3>3. dec'.code = P[5] - 0
      BY <1>9, <1>12, <2>2
    <3>4. dec'.code = P[r[0].shifts + 5] - r[0].base
      BY <1>8, <3>2, <3>3, Zenon
    <3>5. dec'.range = r[0].width /\ dmodel' = r[0].model /\ dec'.pos = r[0].shifts + 5
      BY <1>1, <1>3, <1>8, <1>13, <3>2
    <3>6. QED
      BY <3>1, <3>4, <3>5 DEF DecodedAt
  <2>3. Intact' => Mirrored(r, K)'
    BY <1>2, <1>6, <1>7, <2>2 DEF Mirrored
  <2>4. QED
    BY <2>1, <2>3 DEF Mirrors
<1>16. QED
  BY <1>14, <1>15

LEMMA OpenRange ==
  ASSUME RangeInv, NEW c \in Codecs, Open(c)
  PROVE  RangeInv'
<1>1. Kept /\ bits' = bits /\ phase = "stored"
  BY DEF Open, Kept
<1>2. /\ CoderInv' /\ Stored' /\ data' = data
      /\ \A r, K : Followed(r, K) => Followed(r, K)'
  BY <1>1, DecoderKeeps
<1>3. bits = <<>>
  BY <1>1 DEF RangeInv, Ends
<1>4. blob.len = Len(data) /\ data \in Seq(0..1)
  BY <1>1, ScalesAssumption DEF RangeInv, Stored, CoderInv, EncoderInv
<1>5. CASE blob.magic # c
  <2>1. phase' = "refused"
    BY <1>5 DEF Open
  <2>2. QED
    BY <1>2, <2>1 DEF RangeInv, Within, Ends, Mirrors
<1>6. CASE blob.magic = c /\ blob.len = 0
  <2>1. phase' = "done"
    BY <1>6 DEF Open
  <2>2. data = <<>>
    BY <1>4, <1>6, EmptySeq
  <2>3. Len(bits') = Len(data')
    BY <1>1, <1>2, <1>3, <2>2
  <2>4. Ends' /\ Within'
    BY <1>1, <1>3, <2>1, <2>3 DEF Ends, Within
  <2>5. Mirrors'
    BY <1>2, <2>2 DEF RangeInv, Mirrors
  <2>6. QED
    BY <1>2, <2>4, <2>5 DEF RangeInv
<1>7. CASE blob.magic = c /\ blob.len # 0
  <2>1. phase' = "decode"
    BY <1>7 DEF Open
  <2>2. Within' /\ Mirrors'
    BY <1>7, OpenDecodes
  <2>3. QED
    BY <1>2, <2>1, <2>2 DEF RangeInv, Ends
<1>8. QED
  BY <1>5, <1>6, <1>7

\* The decoder takes the part that the encoder took.
LEMMA DecodeBitRange == RangeInv /\ DecodeBit => RangeInv'
<1> SUFFICES ASSUME RangeInv, DecodeBit PROVE RangeInv'
  OBVIOUS
<1> DEFINE w == dec.range
           code == dec.code
           m == Consulted(codec, dmodel)
           r1 == Slice(w, Probability(codec, m))
           bit == Decided(code, r1)
<1>1. /\ phase = "decode" /\ phase' = phase /\ w >= TOP /\ Len(bits) < blob.len /\ Kept
      /\ dec' = IF bit = 1 THEN [dec EXCEPT !.range = r1]
                ELSE [dec EXCEPT !.code = @ - r1, !.range = @ - r1]
      /\ dmodel' = Taught(codec, m, bit) /\ bits' = Append(bits, bit)
  BY DEF DecodeBit, Kept
<1>2. /\ CoderInv' /\ Stored' /\ (Intact' <=> Intact) /\ data' = data /\ codec' = codec
      /\ enc' = enc
      /\ \A r, K : Followed(r, K) => Followed(r, K)'
  BY <1>1, DecoderKeeps
<1>3. /\ data # <<>> /\ dec \in Decoders /\ code < w /\ dmodel \in ModelsOf(codec)
      /\ CoderInv /\ codec \in Codecs /\ data \in Messages /\ flushed = 5
      /\ enc.out \in Seq(Bytes) /\ blob.len = Len(data)
  BY <1>1 DEF RangeInv, Within, CoderInv, EncoderInv, Encoders, Stored
<1>4. /\ w \in TOP..(Word - 1) /\ w \in Nat /\ code \in Nat /\ dec.pos \in Nat
      /\ dec = [range |-> w, code |-> code, pos |-> dec.pos]
  BY <1>1, <1>3, Scales DEF Decoders
<1>5. bit \in 0..1 /\ (bit = 1 <=> code < r1)
  BY DEF Decided
<1> HIDE DEF bit
<1>6. r1 \in 1..(w - 1) /\ dmodel' \in ModelsOf(codec)
  BY <1>1, <1>3, <1>4, <1>5, TellStep
<1> DEFINE nw == IF bit = 1 THEN r1 ELSE w - r1
           ncode == IF bit = 1 THEN code ELSE code - r1
<1>7. dec' = [range |-> nw, code |-> ncode, pos |-> dec.pos]
  <2>1. CASE bit = 1
    BY <1>1, <1>4, <2>1
  <2>2. CASE bit # 1
    BY <1>1, <1>4, <2>2
  <2>3. QED
    BY <2>1, <2>2
<1> HIDE DEF w, code, m, r1
<1>8. nw \in 1..(Word - 1) /\ ncode \in Nat /\ ncode < nw
  <2>1. Word \in Nat
    BY Scales
  <2>2. QED
    BY <1>3, <1>4, <1>5, <1>6, <2>1
<1>9. Within'
  BY <1>2, <1>3, <1>4, <1>6, <1>7, <1>8 DEF Within, Decoders
<1>10. Mirrors'
  <2>1. PICK r, K : /\ Followed(r, K)
                    /\ phase \in {"decode", "done"} /\ data # <<>> /\ Intact => Mirrored(r, K)
    BY DEF RangeInv, Mirrors
  <2>2. Followed(r, K)'
    BY <1>2, <2>1
  <2>3. ASSUME Intact PROVE Mirrored(r, K)'
    <3>1. PICK P, k : Prefixes(P, enc.out) /\ k \in 0..K /\ DecodedAt(r[k], P)
      BY <1>1, <1>3, <2>1, <2>3 DEF Mirrored
    <3>2. /\ \A j \in 0..K : Holds(r[j], P, enc.out)
          /\ r[K].coded = Len(data)
      BY <1>3, <2>1, <3>1, Delivered
    <3>3. /\ K \in Nat /\ k \in Nat /\ k + 1 \in Nat /\ r[k] \in Moments(codec, data)
          /\ r[k + 1] = After(codec, data, r[k])
      BY <2>1, <3>1 DEF Followed, Runs
    <3> DEFINE base == r[k].base
               j == r[k].coded
               s == r[k].shifts
               x == P[s + 5]
               told == data[j + 1]
    <3>4. /\ base \in Nat /\ j \in 0..Len(data) /\ s \in Nat /\ data \in Seq(0..1)
          /\ Len(data) \in Nat
      BY <1>3, <3>3, MessageFacts DEF Moments
    <3>5. /\ w = r[k].width /\ dmodel = r[k].model /\ bits = SubSeq(data, 1, j)
          /\ dec.pos = s + 5 /\ code = x - base
      BY <3>1 DEF DecodedAt, w, code
    <3>6. Len(bits) = j
      <4> HIDE DEF j
      <4>1. Len(SubSeq(data, 1, j)) = j
        <5>1. \A i \in 1..j : data[i] \in 0..1
          BY <1>3, <3>4, MessageFacts
        <5>2. QED
          BY <3>4, <5>1
      <4>2. QED
        BY <3>5, <4>1
    <3>7. j < Len(data) /\ k + 1 \in 0..K
      <4>1. j < Len(data)
        BY <1>1, <1>3, <3>6
      <4>2. k # K
        BY <3>2, <3>4, <4>1
      <4>3. QED
        BY <3>1, <3>3, <4>1, <4>2
    <3>8. r[k + 1] = Told(codec, r[k], told)
      <4>1. ~(w < TOP)
        BY <1>4, Scales
      <4>2. ~(r[k].width < TOP) /\ r[k].coded < Len(data)
        BY <3>5, <3>7, <4>1
      <4>3. QED
        BY <3>3, <4>2 DEF After
    <3>9. Part(codec, r[k]) = r1 /\ Asked(codec, r[k]) = m
      BY <3>5 DEF Part, Asked, r1, m
    <3>10. /\ r[k + 1].base = IF told = 1 THEN base ELSE base + r1
           /\ r[k + 1].width = IF told = 1 THEN r1 ELSE w - r1
           /\ r[k + 1].model = Taught(codec, m, told)
           /\ r[k + 1].coded = j + 1 /\ r[k + 1].shifts = s
      BY <3>5, <3>8, <3>9 DEF Told
    <3>11. Holds(r[k + 1], P, enc.out)
      BY <3>2, <3>7
    <3>12. told \in 0..1
      <4>1. j + 1 \in 1..Len(data)
        BY <3>4, <3>7
      <4>2. QED
        BY <1>3, <4>1, MessageFacts
    <3>13. r[k + 1].base <= x /\ x < r[k + 1].base + r[k + 1].width /\ x \in Nat
      <4>1. s + 5 <= Len(enc.out) /\ r[k + 1].base <= x /\ x < r[k + 1].base + r[k + 1].width
        BY <3>10, <3>11 DEF Holds
      <4>2. s + 5 \in 0..Len(enc.out)
        BY <1>3, <3>4, <4>1
      <4>3. x \in Nat
        BY <3>1, <4>2 DEF Prefixes
      <4>4. QED
        BY <4>1, <4>3
    <3> HIDE DEF base, j, s, x, told
    <3>14. bit = told
      BY <1>5, <1>6, <3>4, <3>5, <3>10, <3>12, <3>13
    <3>15. nw = r[k + 1].width /\ ncode = x - r[k + 1].base
      BY <1>4, <1>6, <3>4, <3>5, <3>10, <3>13, <3>14
    <3>16. bits' = SubSeq(data, 1, j + 1)
      <4>1. Append(SubSeq(data, 1, j), told) = SubSeq(data, 1, j + 1)
        <5>1. 1 \in 1..Len(data) /\ j + 1 \in 1..Len(data) /\ (j + 1) - 1 = j
          BY <3>4, <3>7
        <5>2. SubSeq(data, 1, j + 1) = SubSeq(data, 1, (j + 1) - 1) \o <<data[j + 1]>>
          BY <3>4, <5>1, SubSeqRecursiveSecond
        <5>3. SubSeq(data, 1, j) \in Seq(0..1)
          <6>1. \A i \in 1..j : data[i] \in 0..1
            BY <1>3, <3>4, MessageFacts
          <6>2. QED
            BY <3>4, <6>1
        <5>4. \A t \in Seq(0..1) : Append(t, told) = t \o <<told>>
          BY <3>12
        <5>5. QED
          BY <5>1, <5>2, <5>3, <5>4, Zenon DEF told
      <4>2. QED
        BY <1>1, <3>5, <3>14, <4>1
    <3>17. DecodedAt(r[k + 1], P)'
      <4>1. /\ dec'.range = r[k + 1].width /\ dec'.code = x - r[k + 1].base
            /\ dec'.pos = r[k + 1].shifts + 5
        BY <1>7, <3>5, <3>10, <3>15
      <4>2. dmodel' = r[k + 1].model
        BY <1>1, <3>10, <3>14
      <4>3. bits' = SubSeq(data', 1, r[k + 1].coded)
        BY <1>2, <3>10, <3>16
      <4>4. P[r[k + 1].shifts + 5] = x
        BY <3>10 DEF x
      <4>5. QED
        BY <4>1, <4>2, <4>3, <4>4 DEF DecodedAt
    <3>18. QED
      BY <1>2, <3>1, <3>7, <3>17 DEF Mirrored
  <2>4. QED
    BY <1>2, <2>2, <2>3 DEF Mirrors
<1>11. Ends'
  BY <1>1 DEF Ends
<1>12. QED
  BY <1>2, <1>9, <1>10, <1>11 DEF RangeInv

\* The next byte enters the code; the shift loses no bit of it.
LEMMA NextByteRange == RangeInv /\ NextByte => RangeInv'
<1> SUFFICES ASSUME RangeInv, NextByte PROVE RangeInv'
  OBVIOUS
<1> DEFINE w == dec.range
           code == dec.code
           pos == dec.pos
           byte == Byte(pos)
<1>1. /\ phase = "decode" /\ phase' = phase /\ w < TOP /\ Kept
      /\ dec' = [range |-> w * RADIX, pos |-> pos + 1, code |-> ((code * RADIX) % Word) + byte]
      /\ dmodel' = dmodel /\ bits' = bits
  BY DEF NextByte, Kept
<1>2. /\ CoderInv' /\ Stored' /\ (Intact' <=> Intact) /\ data' = data /\ codec' = codec
      /\ enc' = enc
      /\ \A r, K : Followed(r, K) => Followed(r, K)'
  BY <1>1, DecoderKeeps
<1>3. /\ data # <<>> /\ dec \in Decoders /\ code < w /\ dmodel \in ModelsOf(codec)
      /\ CoderInv /\ Stored /\ flushed = 5 /\ enc.out \in Seq(Bytes)
  BY <1>1 DEF RangeInv, Within, CoderInv, EncoderInv, Encoders
<1>4. w \in 1..(TOP - 1) /\ w \in Nat /\ code \in Nat /\ pos \in Nat
  BY <1>1, <1>3, Scales DEF Decoders
<1>5. byte \in Bytes /\ byte \in Nat /\ byte < RADIX
  <2>1. byte \in Bytes
    BY <1>1, <1>3, <1>4, ByteFacts
  <2>2. QED
    BY <2>1, Scales DEF Bytes
<1> HIDE DEF w, code, pos, byte
<1>6. RADIX * w \in 1..(Word - 1) /\ w * RADIX = RADIX * w
  BY <1>4, Narrower
<1>7. /\ code * RADIX \in Nat /\ code * RADIX < Word
      /\ code * RADIX + RADIX <= RADIX * w
  <2>1. (code + 1) * RADIX <= w * RADIX
    BY <1>3, <1>4, Scales, MulMono
  <2>2. (code + 1) * RADIX = code * RADIX + RADIX /\ code * RADIX \in Nat
    BY <1>4, Scales, MulNat
  <2>3. QED
    BY <1>6, <2>1, <2>2, Scales
<1>8. (code * RADIX) % Word = code * RADIX
  <2> DEFINE x == code * RADIX
  <2>1. x \in 0..(Word - 1) /\ Word \in Nat /\ Word > 0
    BY <1>7, Scales
  <2> HIDE DEF x
  <2>2. x % Word = x
    BY <2>1, SmallMod
  <2>3. QED
    BY <2>2 DEF x
<1>9. dec'.range = RADIX * w /\ dec'.pos = pos + 1 /\ dec'.code = code * RADIX + byte
      /\ dec' = [range |-> RADIX * w, pos |-> pos + 1, code |-> code * RADIX + byte]
  BY <1>1, <1>6, <1>8
<1>10. code * RADIX + byte \in Nat /\ code * RADIX + byte < RADIX * w
  BY <1>5, <1>6, <1>7, Scales
<1>11. Within'
  <2>1. dec' \in Decoders
    BY <1>4, <1>6, <1>9, <1>10 DEF Decoders
  <2>2. dec'.code < dec'.range
    BY <1>9, <1>10
  <2>3. QED
    BY <1>1, <1>2, <1>3, <2>1, <2>2 DEF Within
<1>12. Mirrors'
  <2>1. PICK r, K : /\ Followed(r, K)
                    /\ phase \in {"decode", "done"} /\ data # <<>> /\ Intact => Mirrored(r, K)
    BY DEF RangeInv, Mirrors
  <2>2. Followed(r, K)'
    BY <1>2, <2>1
  <2>3. ASSUME Intact PROVE Mirrored(r, K)'
    <3>1. PICK P, k : Prefixes(P, enc.out) /\ k \in 0..K /\ DecodedAt(r[k], P)
      BY <1>1, <1>3, <2>1, <2>3 DEF Mirrored
    <3>2. /\ \A j \in 0..K : Holds(r[j], P, enc.out)
          /\ r[K].width >= TOP
      BY <1>3, <2>1, <3>1, Delivered
    <3>3. /\ K \in Nat /\ k \in Nat /\ k + 1 \in Nat /\ r[k] \in Moments(codec, data)
          /\ r[K] \in Moments(codec, data) /\ r[k + 1] = After(codec, data, r[k])
      BY <2>1, <3>1 DEF Followed, Runs
    <3> DEFINE base == r[k].base
               s == r[k].shifts
               x == P[s + 5]
    <3>4. base \in Nat /\ s \in Nat
      BY <3>3 DEF Moments
    <3>5. /\ w = r[k].width /\ dmodel = r[k].model /\ bits = SubSeq(data, 1, r[k].coded)
          /\ pos = s + 5 /\ code = x - base
      BY <3>1 DEF DecodedAt, w, code, pos
    <3>6. k + 1 \in 0..K
      <4>1. r[K].width \in Nat /\ TOP \in Nat
        BY <3>3, Scales DEF Moments
      <4>2. k # K
        BY <1>1, <3>2, <3>5, <4>1
      <4>3. QED
        BY <3>1, <3>3, <4>2
    <3>7. r[k + 1] = Rescaled(r[k])
      BY <1>1, <3>3, <3>5 DEF After
    <3>8. /\ r[k + 1].base = RADIX * base /\ r[k + 1].width = RADIX * w
          /\ r[k + 1].model = dmodel /\ r[k + 1].coded = r[k].coded /\ r[k + 1].shifts = s + 1
      BY <3>5, <3>7 DEF Rescaled
    <3>9. /\ pos + 1 \in 1..Len(enc.out) /\ pos \in 0..Len(enc.out) /\ pos < Len(enc.out)
          /\ (s + 1) + 5 = pos + 1
      <4>1. Holds(r[k + 1], P, enc.out)
        BY <3>2, <3>6
      <4>2. (s + 1) + 5 = pos + 1
        BY <3>4, <3>5
      <4>3. pos + 1 <= Len(enc.out)
        BY <3>8, <4>1, <4>2 DEF Holds
      <4>4. Len(enc.out) \in Nat
        BY <1>3
      <4>5. QED
        BY <1>4, <4>2, <4>3, <4>4
    <3>10. P[pos + 1] = x * RADIX + byte /\ x \in Nat
      <4>1. (pos + 1) - 1 = pos
        BY <1>4
      <4>2. P[pos + 1] = P[(pos + 1) - 1] * RADIX + enc.out[pos + 1] /\ P[pos] \in Nat
        BY <3>1, <3>9 DEF Prefixes
      <4>3. byte = enc.out[pos + 1]
        BY <1>1, <1>3, <1>4, <2>3, <3>9, ByteFacts DEF byte
      <4>4. P[pos] = x
        BY <3>5 DEF x
      <4>5. QED
        BY <4>1, <4>2, <4>3, <4>4
    <3> HIDE DEF base, s, x
    <3>11. code * RADIX + byte = P[pos + 1] - RADIX * base
      <4>1. code * RADIX = x * RADIX - RADIX * base
        BY <3>4, <3>5, <3>10, Scales
      <4>2. x * RADIX \in Nat /\ RADIX * base \in Nat
        BY <3>4, <3>10, Scales, MulNat
      <4>3. QED
        BY <1>5, <3>10, <4>1, <4>2
    <3>12. DecodedAt(r[k + 1], P)'
      <4>1. dec'.range = r[k + 1].width /\ dec'.pos = r[k + 1].shifts + 5
        BY <1>9, <3>8, <3>9
      <4>2. dec'.code = P[r[k + 1].shifts + 5] - r[k + 1].base
        BY <1>9, <3>8, <3>9, <3>11
      <4>3. dmodel' = r[k + 1].model /\ bits' = SubSeq(data', 1, r[k + 1].coded)
        BY <1>1, <1>2, <3>5, <3>8
      <4>4. QED
        BY <4>1, <4>2, <4>3 DEF DecodedAt
    <3>13. QED
      BY <1>2, <3>1, <3>6, <3>12 DEF Mirrored
  <2>4. QED
    BY <1>2, <2>2, <2>3 DEF Mirrors
<1>13. Ends'
  BY <1>1 DEF Ends
<1>14. QED
  BY <1>2, <1>11, <1>12, <1>13 DEF RangeInv

LEMMA FinishRange == RangeInv /\ Finish => RangeInv'
<1> SUFFICES ASSUME RangeInv, Finish PROVE RangeInv'
  OBVIOUS
<1>1. /\ phase = "decode" /\ phase' = "done" /\ Len(bits) = blob.len /\ Kept
      /\ dec' = dec /\ dmodel' = dmodel /\ bits' = bits
  BY DEF Finish, decoder, Kept
<1>2. /\ CoderInv' /\ Stored' /\ (Intact' <=> Intact) /\ data' = data /\ enc' = enc
      /\ \A r, K : Followed(r, K) => Followed(r, K)'
  BY <1>1, DecoderKeeps
<1>3. Within' /\ Ends'
  BY <1>1, <1>2 DEF RangeInv, Within, Ends, Stored
<1>4. Mirrors'
  <2>1. PICK r, K : /\ Followed(r, K)
                    /\ phase \in {"decode", "done"} /\ data # <<>> /\ Intact => Mirrored(r, K)
    BY DEF RangeInv, Mirrors
  <2>2. Followed(r, K)'
    BY <1>2, <2>1
  <2>3. ASSUME Mirrored(r, K) PROVE Mirrored(r, K)'
    BY <1>1, <1>2, <2>3 DEF Mirrored, DecodedAt
  <2>4. QED
    BY <1>1, <1>2, <2>1, <2>2, <2>3 DEF Mirrors
<1>5. QED
  BY <1>2, <1>3, <1>4 DEF RangeInv

LEMMA NextRange == RangeInv /\ [Next]_vars => RangeInv'
<1> SUFFICES ASSUME RangeInv, [Next]_vars PROVE RangeInv'
  OBVIOUS
<1>1. CASE EncodeBit \/ ShiftLow \/ Flush
  BY <1>1, EncoderRange
<1>2. CASE Store
  BY <1>2, StoreRange
<1>3. ASSUME NEW c \in Codecs, Open(c) PROVE RangeInv'
  BY <1>3, OpenRange
<1>4. CASE DecodeBit
  BY <1>4, DecodeBitRange
<1>5. CASE NextByte
  BY <1>5, NextByteRange
<1>6. CASE Finish
  BY <1>6, FinishRange
<1>7. CASE UNCHANGED vars
  <2>1. /\ codec' = codec /\ data' = data /\ phase' = phase /\ enc' = enc /\ model' = model
        /\ coded' = coded /\ flushed' = flushed /\ blob' = blob /\ dec' = dec /\ dmodel' = dmodel
        /\ bits' = bits /\ UNCHANGED <<codec, data, encoder>>
    BY <1>7 DEF vars, encoder, decoder
  <2>2. CoderInv'
    BY <2>1, DecodeInv DEF RangeInv
  <2>3. Stored' /\ Within' /\ Ends'
    BY <2>1 DEF RangeInv, Stored, Within, Ends
  <2>4. Mirrors'
    <3>1. PICK r, K : /\ Followed(r, K)
                      /\ phase \in {"decode", "done"} /\ data # <<>> /\ Intact => Mirrored(r, K)
      BY DEF RangeInv, Mirrors
    <3>2. Followed(r, K)'
      BY <2>1, <3>1, RestFollowed
    <3>3. ASSUME Mirrored(r, K) PROVE Mirrored(r, K)'
      BY <2>1, <3>3 DEF Mirrored, DecodedAt
    <3>4. Intact' <=> Intact
      BY <2>1 DEF Intact
    <3>5. QED
      BY <2>1, <3>1, <3>2, <3>3, <3>4 DEF Mirrors
  <2>5. QED
    BY <2>2, <2>3, <2>4 DEF RangeInv
<1>8. QED
  BY <1>1, <1>2, <1>3, <1>4, <1>5, <1>6, <1>7 DEF Next

LEMMA RangeInvariance == Spec => []RangeInv
<1>1. QED
  BY InitRange, NextRange, PTL DEF Spec

-----------------------------------------------------------------------------

LEMMA RangeTypes == RangeInv => TypeOK
<1> SUFFICES ASSUME RangeInv PROVE TypeOK
  OBVIOUS
<1>1. /\ enc.low \in Nat /\ enc.low < 2 * Word /\ enc.range \in 1..(Word - 1)
      /\ enc.cache \in Bytes /\ enc.cache_size \in Nat /\ enc.cache_size >= 1
      /\ enc.out \in Seq(Bytes)
  BY DEF RangeInv, CoderInv, EncoderInv, Encoders
<1>2. enc.low \in 0..(2 * Word - 1)
  BY <1>1, Scales
<1>3. \A i \in DOMAIN enc.out : enc.out[i] \in 0..(RADIX - 1)
  <2>1. \A s \in Seq(Bytes) : \A i \in DOMAIN s : s[i] \in Bytes
    BY ElementOfSeq
  <2>2. QED
    BY <1>1, <2>1, Zenon DEF Bytes
<1>4. ASSUME phase = "decode"
      PROVE  dec.range \in 1..(Word - 1) /\ dec.code \in 0..(dec.range - 1)
  <2>1. dec.range \in 1..(Word - 1) /\ dec.code \in Nat /\ dec.code < dec.range
    BY <1>4 DEF RangeInv, Within, Decoders
  <2>2. QED
    BY <2>1, Scales
<1>5. QED
  BY <1>1, <1>2, <1>3, <1>4 DEF TypeOK, Bytes

LEMMA RangeLossless == RangeInv => Lossless
<1> SUFFICES ASSUME RangeInv, phase \in {"decode", "done"}, Intact
             PROVE  bits = SubSeq(data, 1, Len(bits)) /\ (phase = "done" => bits = data)
  BY DEF Lossless
<1>1. data \in Messages /\ data \in Seq(0..1) /\ Len(data) \in Nat
  BY MessageFacts DEF RangeInv, CoderInv, EncoderInv
<1>2. phase = "done" => Len(bits) = Len(data)
  BY DEF RangeInv, Ends
<1>3. bits = SubSeq(data, 1, Len(bits))
  <2>1. CASE data = <<>>
    <3>1. bits = <<>>
      BY <2>1 DEF RangeInv, Ends, Within
    <3>2. Len(bits) = 0
      BY <3>1
    <3>3. SubSeq(data, 1, 0) = <<>>
      BY SubSeqEmpty
    <3>4. QED
      BY <3>1, <3>2, <3>3
  <2>2. CASE data # <<>>
    <3>1. PICK r, K : Followed(r, K) /\ Mirrored(r, K)
      BY <2>2 DEF RangeInv, Mirrors
    <3>2. PICK P, k : k \in 0..K /\ DecodedAt(r[k], P)
      BY <3>1 DEF Mirrored
    <3>3. r[k] \in Moments(codec, data)
      BY <3>1, <3>2 DEF Followed, Runs
    <3> DEFINE j == r[k].coded
    <3>4. j \in 0..Len(data) /\ bits = SubSeq(data, 1, j)
      BY <3>2, <3>3 DEF Moments, DecodedAt
    <3> HIDE DEF j
    <3>5. Len(SubSeq(data, 1, j)) = j
      <4>1. \A i \in 1..j : data[i] \in 0..1
        BY <1>1, <3>4, MessageFacts
      <4>2. QED
        BY <1>1, <3>4, <4>1
    <3>6. QED
      BY <3>4, <3>5
  <2>3. QED
    BY <2>1, <2>2
<1>4. SubSeq(data, 1, Len(data)) = data
  BY <1>1, SubSeqFull
<1>5. QED
  BY <1>2, <1>3, <1>4

\* No word of the two coders leaves its width, in any state and whatever the model
\* says: low has one bit of carry, and the code of the decoder stays inside its
\* interval, also on a stream that was cut (the u64 and u32 of arith.rs).
THEOREM WordsFit == Spec => []TypeOK
<1>1. QED
  BY RangeInvariance, RangeTypes, PTL

\* The decoder gives back every bit of every message, with either model, also
\* when the stream lost zeros at its end (decompress_adaptive and decompress).
THEOREM DecodesTheData == Spec => []Lossless
<1>1. QED
  BY RangeInvariance, RangeLossless, PTL
=============================================================================
