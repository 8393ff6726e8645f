--------------------------- MODULE AriaRansProofs ---------------------------
(* Proofs about AriaRans, for every number of symbols, total, interval and *)
(* radix that meet WidthsAssumption, and for every message.                *)
EXTENDS AriaRans, AriaInduction, FiniteSetTheorems, SequenceTheorems, TLAPS

-----------------------------------------------------------------------------
(* Tables                                                                  *)

LEMMA Constants ==
  /\ N \in Nat /\ N > 0 /\ M \in Nat /\ M > 0 /\ N <= M
  /\ Quot \in Nat /\ Quot > 0 /\ Radix \in Nat /\ Radix > 1
  /\ RANS_BYTE_L \in Nat /\ RANS_BYTE_L > 0
  /\ U16 \in Nat /\ M < U16 /\ U32 \in Nat /\ RANS_BYTE_L * Radix <= U32
<1>1. Quot * M \in Nat /\ Quot * M > 0
  BY WidthsAssumption
<1>2. Radix * Radix \in Nat
  BY WidthsAssumption
<1>3. U16 * U16 \in Nat
  BY <1>2 DEF U16
<1>4. QED
  BY <1>1, <1>2, <1>3, WidthsAssumption DEF RANS_BYTE_L, U16, U32

\* The recursive definition of Cum defines a function.
LEMMA CumDef ==
  ASSUME NEW fr \in [Sym -> Nat]
  PROVE  /\ Cum(fr) \in [0..N -> Nat] /\ Cum(fr)[0] = 0
         /\ \A i \in Sym : Cum(fr)[i + 1] = Cum(fr)[i] + fr[i]
<1> DEFINE Upto(n) == {g \in [0..n -> Nat] :
                          g = [i \in 0..n |-> IF i = 0 THEN 0 ELSE g[i - 1] + fr[i - 1]]}
           S == {n \in Nat : n <= N => Upto(n) # {}}
<1>1. 0 \in S
  <2> DEFINE z == [i \in 0..0 |-> 0]
  <2>1. z \in [0..0 -> Nat]
    OBVIOUS
  <2>2. z = [i \in 0..0 |-> IF i = 0 THEN 0 ELSE z[i - 1] + fr[i - 1]]
    <3>1. \A i \in 0..0 : i = 0
      OBVIOUS
    <3>2. QED
      BY <3>1
  <2>3. QED
    BY <2>1, <2>2
<1>2. ASSUME NEW n \in Nat, n \in S PROVE n + 1 \in S
  <2> HIDE DEF Upto
  <2> SUFFICES ASSUME n + 1 <= N PROVE Upto(n + 1) # {}
    OBVIOUS
  <2> USE DEF Upto
  <2>1. PICK g \in Upto(n) : TRUE
    BY <1>2, Constants
  <2> DEFINE h == [i \in 0..(n + 1) |-> IF i = n + 1 THEN g[n] + fr[n] ELSE g[i]]
  <2>2. n \in Sym
    BY Constants DEF Sym
  <2>3. h \in [0..(n + 1) -> Nat]
    BY <2>1, <2>2
  <2>4. h = [i \in 0..(n + 1) |-> IF i = 0 THEN 0 ELSE h[i - 1] + fr[i - 1]]
    <3>1. ASSUME NEW i \in 0..(n + 1)
          PROVE  h[i] = IF i = 0 THEN 0 ELSE h[i - 1] + fr[i - 1]
      <4>1. CASE i = n + 1
        BY <4>1
      <4>2. CASE i # n + 1
        <5>1. g[i] = IF i = 0 THEN 0 ELSE g[i - 1] + fr[i - 1]
          BY <2>1, <4>2
        <5>2. QED
          BY <5>1, <4>2
      <4>3. QED
        BY <4>1, <4>2
    <3>2. QED
      BY <3>1
  <2>5. QED
    BY <2>3, <2>4
<1>3. N \in S
  <2> HIDE DEF S
  <2>1. QED
    BY <1>1, <1>2, Induction, Constants
<1>4. PICK g \in Upto(N) : TRUE
  BY <1>3, Constants
<1> DEFINE c[i \in 0..N] == IF i = 0 THEN 0 ELSE c[i - 1] + fr[i - 1]
<1>5. c = [i \in 0..N |-> IF i = 0 THEN 0 ELSE c[i - 1] + fr[i - 1]]
  BY <1>4
<1>6. Cum(fr) = c
  BY DEF Cum
<1> HIDE DEF c
<1>7. c \in [0..N -> Nat]
  <2> DEFINE P == {n \in Nat : n <= N => c[n] \in Nat}
  <2>1. 0 \in P
    <3>1. 0 \in 0..N
      BY Constants
    <3>2. c[0] = 0
      BY <1>5, <3>1
    <3>3. QED
      BY <3>2
  <2>2. ASSUME NEW n \in Nat, n \in P PROVE n + 1 \in P
    <3> SUFFICES ASSUME n + 1 <= N PROVE c[n + 1] \in Nat
      OBVIOUS
    <3>1. /\ n \in Sym /\ c[n] \in Nat
          /\ n + 1 \in 0..N /\ n + 1 # 0 /\ (n + 1) - 1 = n
      BY <2>2, Constants DEF Sym
    <3>2. c[n + 1] = c[n] + fr[n]
      BY <1>5, <3>1
    <3>3. QED
      BY <3>1, <3>2
  <2>3. \A n \in Nat : n \in P
    <3> HIDE DEF P
    <3>1. QED
      BY <2>1, <2>2, Induction
  <2>4. QED
    BY <2>3, <1>5
<1>8. \A i \in Sym : c[i + 1] = c[i] + fr[i]
  <2> TAKE i \in Sym
  <2>1. i + 1 \in 0..N /\ i + 1 # 0 /\ (i + 1) - 1 = i
    BY Constants DEF Sym
  <2>2. QED
    BY <1>5, <2>1
<1>9. c[0] = 0
  BY <1>5, Constants
<1>10. QED
  BY <1>6, <1>7, <1>8, <1>9

LEMMA CumMono ==
  ASSUME NEW fr \in [Sym -> Nat], NEW i \in 0..N, NEW j \in 0..N, i <= j
  PROVE  Cum(fr)[i] <= Cum(fr)[j]
<1> DEFINE c == Cum(fr)
           S == {n \in Nat : i + n <= N => c[i] <= c[i + n]}
<1>1. /\ c \in [0..N -> Nat]
      /\ \A k \in Sym : c[k + 1] = c[k] + fr[k]
  BY CumDef
<1> HIDE DEF c
<1>2. 0 \in S
  BY <1>1
<1>3. ASSUME NEW n \in Nat, n \in S PROVE n + 1 \in S
  <2>1. CASE i + n + 1 <= N
    <3>1. i + n \in Sym /\ i + (n + 1) = (i + n) + 1 /\ c[i] <= c[i + n]
      BY <1>3, <2>1, Constants DEF Sym
    <3>2. c[i + (n + 1)] = c[i + n] + fr[i + n]
      BY <1>1, <3>1
    <3>3. i + n \in 0..N /\ c[i + n] \in Nat /\ c[i] \in Nat /\ fr[i + n] \in Nat
      BY <1>1, <3>1, Constants DEF Sym
    <3>4. c[i] <= c[i + (n + 1)]
      BY <3>1, <3>2, <3>3
    <3>5. QED
      BY <3>4
  <2>2. CASE ~(i + n + 1 <= N)
    BY <2>2, Constants
  <2>3. QED
    BY <2>1, <2>2
<1>4. \A n \in Nat : n \in S
  <2> HIDE DEF S
  <2>1. QED
    BY <1>2, <1>3, Induction
<1>5. j - i \in Nat /\ i + (j - i) = j
  BY Constants
<1>6. QED
  BY <1>4, <1>5, Constants DEF c

\* A symbol's range lies within the total.
LEMMA RangeWithin ==
  ASSUME NEW fr \in [Sym -> Nat], NEW s \in Sym
  PROVE  /\ Cum(fr)[s] \in Nat /\ Cum(fr)[s] + fr[s] <= Total(fr)
         /\ Cum(fr)[s + 1] = Cum(fr)[s] + fr[s] /\ Total(fr) \in Nat
<1>1. s \in 0..N /\ s + 1 \in 0..N /\ N \in 0..N
  BY Constants DEF Sym
<1>2. Cum(fr) \in [0..N -> Nat] /\ Cum(fr)[s + 1] = Cum(fr)[s] + fr[s]
  BY CumDef
<1>3. Cum(fr)[s + 1] <= Cum(fr)[N]
  BY <1>1, CumMono, Constants
<1>4. QED
  BY <1>1, <1>2, <1>3 DEF Total

\* A change of one frequency moves the totals behind it.
LEMMA CumChange ==
  ASSUME NEW fr \in [Sym -> Nat], NEW s \in Sym, NEW v \in Nat
  PROVE  Total([fr EXCEPT ![s] = v]) = Total(fr) + v - fr[s]
<1> DEFINE g == [fr EXCEPT ![s] = v]
           b == Cum(fr)
           c == Cum(g)
           S == {n \in Nat : n <= N => c[n] = IF n > s THEN b[n] + v - fr[s] ELSE b[n]}
<1>1. g \in [Sym -> Nat] /\ g[s] = v /\ \A k \in Sym : k # s => g[k] = fr[k]
  OBVIOUS
<1>2. /\ b \in [0..N -> Nat] /\ b[0] = 0 /\ \A k \in Sym : b[k + 1] = b[k] + fr[k]
      /\ c \in [0..N -> Nat] /\ c[0] = 0 /\ \A k \in Sym : c[k + 1] = c[k] + g[k]
  BY <1>1, CumDef
<1>3. s \in Nat /\ s < N /\ fr[s] \in Nat
  BY Constants DEF Sym
<1> HIDE DEF g, b, c
<1>4. 0 \in S
  BY <1>2, <1>3
<1>5. ASSUME NEW n \in Nat, n \in S PROVE n + 1 \in S
  <2>1. CASE n + 1 <= N
    <3>1. /\ n \in Sym /\ n \in 0..N
          /\ c[n] = IF n > s THEN b[n] + v - fr[s] ELSE b[n]
      BY <1>5, <2>1, Constants DEF Sym
    <3>2. c[n + 1] = c[n] + g[n] /\ b[n + 1] = b[n] + fr[n]
      BY <1>2, <3>1
    <3>3. b[n] \in Nat /\ fr[n] \in Nat
      BY <1>2, <3>1
    <3>4. c[n + 1] = IF n + 1 > s THEN b[n + 1] + v - fr[s] ELSE b[n + 1]
      <4>1. CASE n = s
        BY <4>1, <3>1, <3>2, <3>3, <1>1, <1>3
      <4>2. CASE n # s
        BY <4>2, <3>1, <3>2, <3>3, <1>1, <1>3
      <4>3. QED
        BY <4>1, <4>2
    <3>5. QED
      BY <3>4
  <2>2. CASE ~(n + 1 <= N)
    BY <2>2
  <2>3. QED
    BY <2>1, <2>2
<1>6. \A n \in Nat : n \in S
  <2> HIDE DEF S
  <2>1. QED
    BY <1>4, <1>5, Induction
<1>7. c[N] = b[N] + v - fr[s]
  BY <1>6, <1>3, Constants
<1>8. QED
  BY <1>7 DEF Total, b, c, g

\* A table in which nobody has two slots has no more slots than symbols.
LEMMA CumOnes ==
  ASSUME NEW fr \in [Sym -> Nat], \A s \in Sym : fr[s] <= 1
  PROVE  Total(fr) <= N
<1> DEFINE c == Cum(fr)
           S == {n \in Nat : n <= N => c[n] <= n}
<1>1. /\ c \in [0..N -> Nat] /\ c[0] = 0
      /\ \A k \in Sym : c[k + 1] = c[k] + fr[k]
  BY CumDef
<1> HIDE DEF c
<1>2. 0 \in S
  BY <1>1
<1>3. ASSUME NEW n \in Nat, n \in S PROVE n + 1 \in S
  <2>1. CASE n + 1 <= N
    <3>1. n \in Sym /\ n \in 0..N /\ c[n] <= n
      BY <1>3, <2>1, Constants DEF Sym
    <3>2. c[n + 1] = c[n] + fr[n] /\ c[n] \in Nat /\ fr[n] \in Nat /\ fr[n] <= 1
      BY <1>1, <3>1
    <3>3. c[n + 1] <= n + 1
      BY <3>1, <3>2
    <3>4. QED
      BY <3>3
  <2>2. CASE ~(n + 1 <= N)
    BY <2>2
  <2>3. QED
    BY <2>1, <2>2
<1>4. \A n \in Nat : n \in S
  <2> HIDE DEF S
  <2>1. QED
    BY <1>2, <1>3, Induction
<1>5. QED
  BY <1>4, Constants DEF Total, c

\* The ranges of a table cover every slot below its total,
LEMMA SlotCovered ==
  ASSUME NEW fr \in [Sym -> Nat], NEW slot \in Nat, slot < Total(fr)
  PROVE  \E s \in Sym : InRange(fr, s, slot)
<1> DEFINE c == Cum(fr)
           T == {n \in Nat : n <= N /\ slot < c[n]}
<1>1. /\ c \in [0..N -> Nat] /\ c[0] = 0
      /\ \A k \in Sym : c[k + 1] = c[k] + fr[k]
  BY CumDef
<1>2. slot < c[N]
  BY DEF Total
<1> HIDE DEF c
<1>3. T \subseteq Nat /\ N \in T
  BY <1>2, Constants
<1>4. PICK m \in T : \A k \in T : m <= k
  <2> HIDE DEF T
  <2>1. QED
    BY <1>3, Least
<1>5. m \in Nat /\ m # 0 /\ m <= N /\ slot < c[m]
  BY <1>4, <1>1
<1>6. m - 1 \in Sym /\ (m - 1) + 1 = m /\ m - 1 \in 0..N /\ ~(m - 1 \in T)
  BY <1>4, <1>5, Constants DEF Sym
<1>7. c[m - 1] <= slot
  BY <1>6, <1>1, <1>5
<1>8. slot < c[m - 1] + fr[m - 1]
  BY <1>5, <1>6, <1>1
<1>9. QED
  BY <1>6, <1>7, <1>8 DEF InRange, c

\* and no slot twice.
LEMMA SlotUnique ==
  ASSUME NEW fr \in [Sym -> Nat], NEW slot \in Nat, NEW s \in Sym,
         InRange(fr, s, slot)
  PROVE  Symbol(fr, slot) = s
<1>1. ASSUME NEW u \in Sym, NEW w \in Sym, u < w, InRange(fr, u, slot)
      PROVE  ~InRange(fr, w, slot)
  <2>1. u + 1 \in 0..N /\ w \in 0..N /\ u + 1 <= w
    BY <1>1, Constants DEF Sym
  <2>2. Cum(fr)[u + 1] <= Cum(fr)[w]
    BY <2>1, CumMono
  <2>3. /\ Cum(fr)[u + 1] = Cum(fr)[u] + fr[u]
        /\ Cum(fr)[u + 1] \in Nat /\ Cum(fr)[w] \in Nat
    BY <2>1, CumDef
  <2>4. QED
    BY <1>1, <2>2, <2>3 DEF InRange
<1>2. ASSUME NEW u \in Sym, InRange(fr, u, slot) PROVE u = s
  <2>1. u \in Int /\ s \in Int
    BY DEF Sym
  <2>2. ~(u < s) /\ ~(s < u)
    BY <1>1, <1>2
  <2>3. QED
    BY <2>1, <2>2
<1>3. QED
  BY <1>2 DEF Symbol

-----------------------------------------------------------------------------
(* One step of the coder                                                   *)

\* A word that spills a byte ends below its interval, not too far below.
LEMMA Spill ==
  ASSUME NEW w \in Nat, NEW f \in Nat,
         w >= Quot * Radix * f, w < RANS_BYTE_L * Radix
  PROVE  /\ Shr(w) \in Nat /\ Shr(w) < RANS_BYTE_L /\ Shr(w) >= Quot * f
         /\ w % Radix \in Byte
         /\ w = Shr(w) * Radix + (w % Radix)
<1>1. /\ w \div Radix \in Nat /\ w % Radix \in 0..(Radix - 1)
      /\ w = Radix * (w \div Radix) + (w % Radix)
  BY DivMod, Constants
<1>2. Quot * f \in Nat
  BY Constants
<1>3. RANS_BYTE_L * Radix = Radix * RANS_BYTE_L /\ Quot * Radix * f = Radix * (Quot * f)
  BY Constants
<1>4. w \div Radix < RANS_BYTE_L
  BY <1>3, DivBelow, Constants
<1>5. ~(w < Radix * (Quot * f))
  BY <1>2, <1>3, Constants
<1>6. ~(w \div Radix < Quot * f)
  BY <1>2, <1>5, DivBelow, Constants
<1>7. (w \div Radix) * Radix = Radix * (w \div Radix)
  BY <1>1, Constants
<1>8. QED
  BY <1>1, <1>2, <1>4, <1>6, <1>7 DEF Shr, Byte

\* A symbol that is absorbed leaves the word in its interval, and can be read
\* off it again.
LEMMA AbsorbFacts ==
  ASSUME NEW w \in Nat, NEW f \in Nat, f > 0, NEW c \in Nat, c + f <= M,
         w >= Quot * f, w < Quot * Radix * f
  PROVE  LET y == (w \div f) * M + (w % f) + c
         IN  /\ y \in Nat /\ y >= RANS_BYTE_L /\ y < RANS_BYTE_L * Radix
             /\ y % M \in c..(c + f - 1)
             /\ f * (y \div M) + (y % M) - c = w
<1> DEFINE q == w \div f
           r == w % f
           y == q * M + r + c
<1>1. q \in Nat /\ r \in 0..(f - 1) /\ w = f * q + r
  BY DivMod
<1>2. q >= Quot
  <2>1. ~(w < f * Quot)
    BY Constants
  <2>2. QED
    BY <1>1, <2>1, DivBelow, Constants
<1>3. q < Quot * Radix
  <2>1. Quot * Radix \in Nat /\ Quot * Radix * f = f * (Quot * Radix)
    BY Constants
  <2>2. QED
    BY <2>1, DivBelow, Constants
<1> HIDE DEF q, r
<1>4. /\ r + c \in 0..(M - 1) /\ q * M \in Nat /\ q * M = M * q
  BY <1>1, Constants
<1>5. y \in Nat /\ y = M * q + (r + c)
  BY <1>1, <1>4, Constants
<1>6. y >= RANS_BYTE_L
  <2>1. Quot * M <= q * M
    BY <1>1, <1>2, MulMono, Constants
  <2>2. QED
    BY <2>1, <1>1, <1>4, <1>5, Constants DEF RANS_BYTE_L
<1>7. y < RANS_BYTE_L * Radix
  <2>1. Quot * Radix \in Nat /\ q + 1 <= Quot * Radix
    BY <1>1, <1>3, Constants
  <2>2. (q + 1) * M <= (Quot * Radix) * M
    BY <2>1, <1>1, MulMono, Constants
  <2>3. (Quot * Radix) * M = RANS_BYTE_L * Radix
    BY Constants DEF RANS_BYTE_L
  <2>4. (q + 1) * M = q * M + M
    BY <1>1, Constants
  <2>5. QED
    BY <2>2, <2>3, <2>4, <1>4, <1>1, <1>5, Constants
<1>8. y \div M = q /\ y % M = r + c
  BY <1>1, <1>4, <1>5, DivUnique, Constants
<1>9. f * (y \div M) + (y % M) - c = w
  BY <1>1, <1>8
<1>10. QED
  BY <1>1, <1>4, <1>5, <1>6, <1>7, <1>8, <1>9 DEF q, r

\* The four bytes of a word are the word.
LEMMA DigitsBack ==
  ASSUME NEW w \in 0..(U32 - 1)
  PROVE  /\ Digits(w) \in Seq(Byte) /\ Len(Digits(w)) = 4
         /\ Undigits(Digits(w)) = w
<1>1. w \in Nat /\ w < U32
  BY Constants
<1>2. \A a \in Nat : /\ Shr(a) \in Nat /\ a % Radix \in Byte
                     /\ a = (a % Radix) + Radix * Shr(a)
  <2> TAKE a \in Nat
  <2>1. /\ a \div Radix \in Nat /\ a % Radix \in 0..(Radix - 1)
        /\ a = Radix * (a \div Radix) + (a % Radix)
    BY DivMod, Constants
  <2>2. QED
    BY <2>1, Constants DEF Shr, Byte
<1>3. Radix * Radix \in Nat /\ Radix * (Radix * Radix) \in Nat
  BY Constants
<1>4. U32 = Radix * (Radix * (Radix * Radix))
  BY Constants DEF U32, U16
<1>5. Shr(w) < Radix * (Radix * Radix)
  <2>1. w \div Radix < Radix * (Radix * Radix)
    BY <1>1, <1>3, <1>4, DivBelow, Constants
  <2>2. QED
    BY <2>1 DEF Shr
<1>6. ASSUME NEW a \in Nat, NEW k \in Nat, a < Radix * k
      PROVE  Shr(a) < k
  <2>1. a \div Radix < k
    BY <1>6, DivBelow, Constants
  <2>2. QED
    BY <2>1 DEF Shr
<1>7. Shr(Shr(Shr(w))) < Radix
  <2>1. Shr(w) \in Nat /\ Shr(Shr(w)) \in Nat
    BY <1>1, <1>2
  <2>2. Shr(Shr(w)) < Radix * Radix
    BY <1>3, <1>5, <1>6, <2>1
  <2>3. QED
    BY <1>6, <2>1, <2>2, Constants
<1> DEFINE a == Shr(w)
           b == Shr(Shr(w))
           c == Shr(Shr(Shr(w)))
<1>8. c % Radix = c
  <2>1. c \in Nat
    BY <1>1, <1>2
  <2>2. c \in 0..(Radix - 1)
    BY <2>1, <1>7, Constants
  <2> HIDE DEF c
  <2>3. Radix * 0 + c = c
    BY <2>1, Constants
  <2>4. QED
    BY <2>2, <2>3, DivUnique, Constants
<1>9. /\ w = (w % Radix) + Radix * a /\ a = (a % Radix) + Radix * b
      /\ b = (b % Radix) + Radix * c
  BY <1>1, <1>2
<1>10. Digits(w) \in Seq(Byte) /\ Len(Digits(w)) = 4
  BY <1>1, <1>2 DEF Digits
<1>11. Undigits(Digits(w)) =
          (w % Radix) + Radix * ((a % Radix) + Radix * ((b % Radix) + Radix * (c % Radix)))
  BY DEF Digits, Undigits
<1> HIDE DEF a, b, c
<1>12. QED
  BY <1>8, <1>9, <1>10, <1>11

-----------------------------------------------------------------------------
(* The inductive invariant                                                 *)

Prefix(a, b) == Len(a) <= Len(b) /\ \A i \in 1..Len(a) : a[i] = b[i]

\* State b of the encoder is state a after it spilled a byte,
ByteLink(a, b) ==
    /\ a.left \in 1..Len(data) /\ b.left = a.left
    /\ b.x < RANS_BYTE_L /\ b.x >= Quot * freqs[data[a.left]]
    /\ a.x % Radix \in Byte /\ a.x = b.x * Radix + (a.x % Radix)
    /\ b.stream = <<a.x % Radix>> \o a.stream

\* or after it absorbed a symbol, which can be read off b.
SymLink(a, b) ==
    /\ a.left \in 1..Len(data) /\ b.left = a.left - 1
    /\ b.x >= RANS_BYTE_L
    /\ b.stream = a.stream
    /\ InRange(freqs, data[a.left], b.x % M)
    /\ freqs[data[a.left]] * (b.x \div M) + (b.x % M) - Cum(freqs)[data[a.left]] = a.x

Last == trail[Len(trail)]

\* The history is a run of the encoder.
TrailOK ==
    /\ Len(trail) > 0 /\ trail[1] = State(RANS_BYTE_L, Len(data), <<>>)
    /\ \A i \in 1..Len(trail) :
          trail[i].x < RANS_BYTE_L * Radix /\ trail[i].left <= Len(data)
    /\ \A i \in 1..(Len(trail) - 1) :
          ByteLink(trail[i], trail[i + 1]) \/ SymLink(trail[i], trail[i + 1])

Occurs(s) == \E i \in 1..Len(data) : data[i] = s

\* The table is the one made for the data.
TableOK ==
    /\ phase = "reconcile" => data # <<>> /\ Len(trail) = 1
    /\ phase \in {"reconcile", "encode", "stored"} /\ data # <<>> =>
          \A s \in Sym : freqs[s] > 0 <=> Occurs(s)
    /\ phase \in {"encode", "stored"} /\ data # <<>> => Total(freqs) = M
    /\ phase = "decode" => Total(freqs) = M

EncodeOK ==
    /\ phase \in {"reconcile", "encode", "stored"} =>
          /\ TrailOK /\ Last = State(x, left, stream)
          /\ out = <<>> /\ pending = None
    /\ phase \in {"reconcile", "encode"} => data # <<>> /\ damage = "none"
    /\ phase = "stored" => left = 0

\* How far the word is below its interval tells how many bytes were spilled for
\* the symbol that is being encoded: after two, none has a table entry low
\* enough for a third.
BufferOK ==
    phase = "encode" =>
        Len(stream) <= 2 * (Len(data) - left)
                       + IF x >= RANS_BYTE_L THEN 0
                         ELSE IF x >= Quot * Radix THEN 1 ELSE 2

\* The blob is that of the last state, or the front part of it.
StoredOK ==
    phase = "stored" /\ damage # "garbled" =>
        /\ blob.len = Len(data)
        /\ blob.part = "none" => damage = "cut"
        /\ blob.part = "header" /\ data # <<>> => damage = "cut"
        /\ data = <<>> => blob.part \in {"none", "header"}
        /\ damage = "cut" /\ data = <<>> => blob.part = "none"
        /\ blob.part # "table" => blob.stream = <<>>
        /\ blob.part = "table" =>
              /\ blob.table = freqs
              /\ Prefix(blob.stream, Digits(x) \o stream)
              /\ damage = "none" => Len(blob.stream) = Len(stream) + 4
              /\ damage = "cut" => Len(blob.stream) < Len(stream) + 4

\* The decoder is in the last state of the encoder it has not yet undone; its
\* stream lacks what the blob lacks.
DecodeOK ==
    phase = "decode" /\ damage # "garbled" =>
        /\ TrailOK
        /\ \A s \in Sym : freqs[s] > 0 <=> Occurs(s)
        /\ blob.len = Len(data)
        /\ Last.x = x
        /\ Last.left = Len(out) + IF pending = None THEN 0 ELSE 1
        /\ Prefix(stream, Last.stream)
        /\ damage = "none" <=> Len(stream) = Len(Last.stream)
        /\ pending = None => x >= RANS_BYTE_L
        /\ pending # None => Last.left > 0 /\ pending = data[Last.left]

IInv ==
    /\ TypeOK /\ TableOK /\ EncodeOK /\ BufferOK /\ StoredOK /\ DecodeOK
    /\ Lossless /\ RefusesTheDamaged

Entry == [x : Nat, left : Nat, stream : Seq(Byte)]

LEMMA Front ==
  ASSUME NEW S, NEW t \in Seq(S)
  PROVE  /\ SubSeq(t, 1, Len(t) - 1) \in Seq(S)
         /\ Len(t) > 0 => /\ Len(SubSeq(t, 1, Len(t) - 1)) = Len(t) - 1
                          /\ \A i \in 1..(Len(t) - 1) : SubSeq(t, 1, Len(t) - 1)[i] = t[i]
<1>1. CASE Len(t) > 0
  <2>1. /\ Len(t) - 1 \in Int /\ 1 \in Int
        /\ \A i \in 1..(Len(t) - 1) : t[i] \in S
    BY <1>1
  <2> DEFINE u == SubSeq(t, 1, Len(t) - 1)
  <2>2. /\ u \in Seq(S) /\ Len(u) = IF 1 <= Len(t) - 1 THEN Len(t) - 1 - 1 + 1 ELSE 0
        /\ \A i \in 1..(Len(t) - 1 - 1 + 1) : u[i] = t[1 + i - 1]
    BY <2>1, SubSeqProperties
  <2> HIDE DEF u
  <2>3. Len(u) = Len(t) - 1
    <3>1. PICK n \in Nat : n = Len(t)
      OBVIOUS
    <3>2. n > 0 /\ Len(u) = IF 1 <= n - 1 THEN n - 1 - 1 + 1 ELSE 0
      BY <1>1, <2>2, <3>1
    <3>3. Len(u) = n - 1
      BY <3>2
    <3>4. QED
      BY <3>1, <3>3
  <2>4. ASSUME NEW i \in 1..(Len(t) - 1) PROVE u[i] = t[i]
    <3>1. 1 + i - 1 = i /\ i \in 1..(Len(t) - 1 - 1 + 1)
      BY <1>1
    <3>2. u[i] = t[1 + i - 1]
      BY <2>2, <3>1
    <3>3. QED
      BY <3>1, <3>2
  <2>5. QED
    BY <1>1, <2>2, <2>3, <2>4 DEF u
<1>2. CASE Len(t) = 0
  <2>1. t = <<>>
    BY <1>2
  <2>2. SubSeq(t, 1, Len(t) - 1) = <<>>
    BY <2>1, SubSeqProperties
  <2>3. QED
    BY <1>2, <2>2
<1>3. QED
  BY <1>1, <1>2

LEMMA Cons ==
  ASSUME NEW S, NEW t \in Seq(S), NEW a \in S
  PROVE  /\ <<a>> \o t \in Seq(S) /\ Len(<<a>> \o t) = Len(t) + 1
         /\ (<<a>> \o t)[1] = a
         /\ \A i \in 1..Len(t) : (<<a>> \o t)[i + 1] = t[i]
OBVIOUS

LEMMA Concat ==
  ASSUME NEW S, NEW u \in Seq(S), NEW t \in Seq(S)
  PROVE  /\ u \o t \in Seq(S) /\ Len(u \o t) = Len(u) + Len(t)
         /\ \A i \in 1..Len(u) : (u \o t)[i] = u[i]
         /\ \A i \in 1..Len(t) : (u \o t)[Len(u) + i] = t[i]
OBVIOUS

LEMMA ConcatSecond ==
  ASSUME NEW S, NEW u \in Seq(S), NEW t \in Seq(S), NEW i \in 1..Len(t)
  PROVE  (u \o t)[Len(u) + i] = t[i]
OBVIOUS

LEMMA FourThen ==
  ASSUME NEW u \in Seq(Byte), Len(u) = 4, NEW t \in Seq(Byte)
  PROVE  /\ u \o t \in Seq(Byte) /\ Len(u \o t) = 4 + Len(t)
         /\ \A i \in 1..4 : (u \o t)[i] = u[i]
         /\ \A i \in 1..Len(t) : (u \o t)[4 + i] = t[i]
<1>1. /\ u \o t \in Seq(Byte) /\ Len(u \o t) = Len(u) + Len(t)
      /\ \A i \in 1..Len(u) : (u \o t)[i] = u[i]
  BY ONLY u \in Seq(Byte), t \in Seq(Byte), Concat, ZenonT(30)
<1>2. ASSUME NEW i \in 1..Len(t) PROVE (u \o t)[4 + i] = t[i]
  <2>1. (u \o t)[Len(u) + i] = t[i]
    BY ONLY u \in Seq(Byte), t \in Seq(Byte), i \in 1..Len(t), ConcatSecond, Zenon
  <2>2. Len(u) + i = 4 + i
    BY Zenon
  <2>3. QED
    BY <2>1, <2>2, Zenon
<1>3. QED
  BY <1>1, <1>2, Zenon

\* The conditions on a new history, under the same table and data.
LEMMA TrailKept ==
  ASSUME UNCHANGED <<data, freqs>>,
         Len(trail') > 0, trail'[1] = State(RANS_BYTE_L, Len(data), <<>>),
         \A i \in 1..Len(trail') :
             trail'[i].x < RANS_BYTE_L * Radix /\ trail'[i].left <= Len(data),
         \A i \in 1..(Len(trail') - 1) :
             ByteLink(trail'[i], trail'[i + 1]) \/ SymLink(trail'[i], trail'[i + 1])
  PROVE  TrailOK'
BY DEF TrailOK, ByteLink, SymLink

LEMMA TrailSame ==
  ASSUME TrailOK, UNCHANGED <<data, freqs, trail>>
  PROVE  TrailOK' /\ Last' = Last
<1>1. Last' = Last
  BY DEF Last
<1>2. TrailOK'
  BY TrailKept DEF TrailOK
<1>3. QED
  BY <1>1, <1>2

\* The encoder's next state extends the history.
LEMMA Extend ==
  ASSUME trail \in Seq(Entry), TrailOK, UNCHANGED <<data, freqs>>, NEW e \in Entry,
         e.x < RANS_BYTE_L * Radix, e.left <= Len(data),
         ByteLink(Last, e) \/ SymLink(Last, e),
         trail' = Append(trail, e)
  PROVE  TrailOK' /\ Last' = e /\ trail' \in Seq(Entry)
<1>1. /\ Len(trail) \in Nat /\ Len(trail) > 0
      /\ trail' \in Seq(Entry) /\ Len(trail') = Len(trail) + 1
      /\ trail'[Len(trail) + 1] = e
      /\ \A i \in 1..Len(trail) : trail'[i] = trail[i]
  BY DEF TrailOK
<1>2. Last' = e
  BY <1>1 DEF Last
<1>3. trail'[1] = State(RANS_BYTE_L, Len(data), <<>>)
  BY <1>1 DEF TrailOK
<1>4. \A i \in 1..Len(trail') :
          trail'[i].x < RANS_BYTE_L * Radix /\ trail'[i].left <= Len(data)
  <2> TAKE i \in 1..Len(trail')
  <2>1. CASE i = Len(trail) + 1
    BY <2>1, <1>1
  <2>2. CASE i \in 1..Len(trail)
    BY <2>2, <1>1 DEF TrailOK
  <2>3. QED
    BY <2>1, <2>2, <1>1
<1>5. \A i \in 1..(Len(trail') - 1) :
          ByteLink(trail'[i], trail'[i + 1]) \/ SymLink(trail'[i], trail'[i + 1])
  <2> TAKE i \in 1..(Len(trail') - 1)
  <2>1. CASE i = Len(trail)
    <3>1. trail'[i] = Last /\ trail'[i + 1] = e
      BY <2>1, <1>1 DEF Last
    <3>2. QED
      BY <3>1
  <2>2. CASE i \in 1..(Len(trail) - 1)
    <3>1. trail'[i] = trail[i] /\ trail'[i + 1] = trail[i + 1]
      BY <2>2, <1>1
    <3>2. QED
      BY <3>1, <2>2 DEF TrailOK
  <2>3. QED
    BY <2>1, <2>2, <1>1
<1>6. Len(trail') > 0 /\ data' = data /\ freqs' = freqs
  BY <1>1
<1>7. QED
  BY <1>1, <1>2, <1>3, <1>4, <1>5, <1>6, TrailKept

\* The decoder's steps take its last state away.
LEMMA Retreat ==
  ASSUME trail \in Seq(Entry), TrailOK, UNCHANGED <<data, freqs>>,
         Len(trail) > 1, trail' = Earlier
  PROVE  /\ TrailOK' /\ Last' = trail[Len(trail) - 1]
<1>1. /\ Len(trail) \in Nat /\ Len(trail') = Len(trail) - 1
      /\ \A i \in 1..(Len(trail) - 1) : trail'[i] = trail[i]
  BY Front DEF Earlier
<1>2. Last' = trail[Len(trail) - 1]
  BY <1>1 DEF Last
<1>3. trail'[1] = State(RANS_BYTE_L, Len(data), <<>>)
  BY <1>1 DEF TrailOK
<1>4. \A i \in 1..Len(trail') :
          trail'[i].x < RANS_BYTE_L * Radix /\ trail'[i].left <= Len(data)
  BY <1>1 DEF TrailOK
<1>5. \A i \in 1..(Len(trail') - 1) :
          ByteLink(trail'[i], trail'[i + 1]) \/ SymLink(trail'[i], trail'[i + 1])
  <2> TAKE i \in 1..(Len(trail') - 1)
  <2>1. i \in 1..(Len(trail) - 1) /\ trail'[i] = trail[i] /\ trail'[i + 1] = trail[i + 1]
    BY <1>1
  <2>2. QED
    BY <2>1 DEF TrailOK
<1>6. Len(trail') > 0 /\ data' = data /\ freqs' = freqs
  BY <1>1
<1>7. QED
  BY <1>1, <1>2, <1>3, <1>4, <1>5, <1>6, TrailKept

\* How the last state came about.
LEMMA LastLink ==
  ASSUME trail \in Seq(Entry), TrailOK
  PROVE  \/ Len(trail) = 1 /\ Last = State(RANS_BYTE_L, Len(data), <<>>)
         \/ /\ Len(trail) > 1 /\ trail[Len(trail) - 1] \in Entry
            /\ trail[Len(trail) - 1].left <= Len(data)
            /\ \/ ByteLink(trail[Len(trail) - 1], Last)
               \/ SymLink(trail[Len(trail) - 1], Last)
<1>1. Len(trail) \in Nat /\ Len(trail) > 0
  BY DEF TrailOK
<1>2. CASE Len(trail) = 1
  BY <1>2 DEF TrailOK, Last
<1>3. CASE Len(trail) # 1
  <2>0. Len(trail) > 1
    BY <1>1, <1>3, SMTT(40)
  <2>1. /\ Len(trail) - 1 \in 1..(Len(trail) - 1) /\ (Len(trail) - 1) + 1 = Len(trail)
        /\ Len(trail) - 1 \in 1..Len(trail)
    BY <1>1, <2>0
  <2>2. trail[Len(trail) - 1] \in Entry /\ trail[Len(trail) - 1].left <= Len(data)
    BY <2>1 DEF TrailOK
  <2>3. \/ ByteLink(trail[Len(trail) - 1], Last)
        \/ SymLink(trail[Len(trail) - 1], Last)
    BY <2>1 DEF TrailOK, Last
  <2>4. QED
    BY <2>0, <2>2, <2>3
<1>4. QED
  BY <1>2, <1>3

-----------------------------------------------------------------------------
(* The initial states                                                      *)

LEMMA CountFacts ==
  ASSUME NEW d \in Seq(Sym), NEW s \in Sym
  PROVE  /\ Count(d, s) \in Nat
         /\ Count(d, s) > 0 <=> \E i \in 1..Len(d) : d[i] = s
<1> DEFINE T == {i \in 1..Len(d) : d[i] = s}
<1>1. IsFiniteSet(1..Len(d))
  BY FS_Interval
<1>2. IsFiniteSet(T)
  BY <1>1, FS_Subset
<1>3. Cardinality(T) \in Nat /\ (Cardinality(T) = 0 <=> T = {})
  BY <1>2, FS_CardinalityType, FS_EmptySet
<1>4. T = {} <=> ~\E i \in 1..Len(d) : d[i] = s
  OBVIOUS
<1>5. Count(d, s) = Cardinality(T)
  BY DEF Count
<1> HIDE DEF T
<1>6. QED
  BY <1>3, <1>4, <1>5

LEMMA ScaledFacts ==
  ASSUME NEW d \in Seq(Sym), d # <<>>
  PROVE  /\ Scaled(d) \in [Sym -> Nat]
         /\ \A s \in Sym : Scaled(d)[s] > 0 <=> \E i \in 1..Len(d) : d[i] = s
<1>1. Len(d) \in Nat /\ Len(d) > 0
  OBVIOUS
<1>2. ASSUME NEW s \in Sym
      PROVE  /\ (Count(d, s) * M) \div Len(d) \in Nat
             /\ Count(d, s) \in Nat
             /\ Count(d, s) > 0 <=> \E i \in 1..Len(d) : d[i] = s
  <2>1. Count(d, s) \in Nat
    BY CountFacts
  <2>2. Count(d, s) * M \in Nat
    BY <2>1, Constants
  <2>3. QED
    BY <1>1, <2>1, <2>2, CountFacts, DivMod
<1>3. ASSUME NEW s \in Sym
      PROVE  Scaled(d)[s] = LET f == (Count(d, s) * M) \div Len(d)
                            IN  IF Count(d, s) = 0 THEN 0 ELSE IF f = 0 THEN 1 ELSE f
  BY DEF Scaled
<1>4. ASSUME NEW s \in Sym
      PROVE  Scaled(d)[s] \in Nat /\ (Scaled(d)[s] > 0 <=> Count(d, s) > 0)
  <2> DEFINE f == (Count(d, s) * M) \div Len(d)
             c == Count(d, s)
  <2>1. f \in Nat /\ c \in Nat
    BY <1>2
  <2>2. Scaled(d)[s] = IF c = 0 THEN 0 ELSE IF f = 0 THEN 1 ELSE f
    BY <1>3, Zenon
  <2> HIDE DEF f, c
  <2>3. Scaled(d)[s] \in Nat /\ (Scaled(d)[s] > 0 <=> c > 0)
    BY <2>1, <2>2
  <2>4. QED
    BY <2>3 DEF c
<1>5. Scaled(d) = [s \in Sym |-> Scaled(d)[s]]
  BY DEF Scaled
<1>6. QED
  BY <1>2, <1>4, <1>5

LEMMA Words ==
  /\ RANS_BYTE_L \in 0..(U32 - 1) /\ RANS_BYTE_L < RANS_BYTE_L * Radix
  /\ \A w \in Nat : w < RANS_BYTE_L * Radix => w \in 0..(U32 - 1)
<1>1. RANS_BYTE_L * 2 <= RANS_BYTE_L * Radix /\ RANS_BYTE_L * Radix \in Nat
  BY MulMono, Constants
<1>2. QED
  BY <1>1, Constants

LEMMA InitIInv ==
  ASSUME Init
  PROVE  IInv
<1>1. data \in Messages /\ data \in Seq(Sym) /\ Len(data) \in Nat
  BY InputsAssumption DEF Init
<1>2. /\ left = Len(data) /\ x = RANS_BYTE_L /\ stream = <<>> /\ out = <<>>
      /\ pending = None /\ damage = "none" /\ trail = <<State(x, left, stream)>>
  BY DEF Init
<1>3. EmptyTable \in [Sym -> Nat] /\ EmptyTable \in [Sym -> 0..(U16 - 1)]
  BY Constants DEF EmptyTable
<1>4. NoBlob \in Blob /\ [NoBlob EXCEPT !.part = "header"] \in Blob
  <2>1. <<>> \in Seq(Byte) /\ 0 \in Nat
    OBVIOUS
  <2>2. [NoBlob EXCEPT !.part = "header"] =
           [part |-> "header", len |-> 0, table |-> EmptyTable, stream |-> <<>>]
    BY DEF NoBlob
  <2>3. QED
    BY <1>3, <2>1, <2>2, Zenon DEF NoBlob, Blob
<1>5. freqs \in [Sym -> Nat] /\ blob \in Blob /\ phase \in {"stored", "reconcile"}
  BY <1>1, <1>3, <1>4, ScaledFacts DEF Init
<1>6. trail \in Seq(Entry) /\ Len(trail) = 1 /\ trail[1] = State(x, left, stream)
  BY <1>1, <1>2, Words, Constants DEF Entry, State
<1>7. TypeOK
  BY <1>1, <1>2, <1>5, <1>6, Words DEF TypeOK, Entry
<1>8. TrailOK /\ Last = State(x, left, stream)
  BY <1>1, <1>2, <1>6, Words DEF TrailOK, Last, State
<1>9. CASE data = <<>>
  <2>1. /\ phase = "stored" /\ blob.part = "header" /\ blob.len = 0
        /\ blob.stream = <<>>
    BY <1>9 DEF Init, NoBlob
  <2>2. QED
    BY <1>1, <1>2, <1>7, <1>8, <1>9, <2>1
       DEF IInv, TableOK, EncodeOK, BufferOK, StoredOK, DecodeOK, Lossless, RefusesTheDamaged, Died
<1>10. CASE data # <<>>
  <2>1. /\ phase = "reconcile"
        /\ \A s \in Sym : freqs[s] > 0 <=> Occurs(s)
    BY <1>1, <1>10, ScaledFacts DEF Init, Occurs
  <2>2. QED
    BY <1>1, <1>2, <1>6, <1>7, <1>8, <1>10, <2>1
       DEF IInv, TableOK, EncodeOK, BufferOK, StoredOK, DecodeOK, Lossless, RefusesTheDamaged, Died
<1>11. QED
  BY <1>9, <1>10

-----------------------------------------------------------------------------
(* The table                                                               *)

\* A change of the table before anything is encoded.
LEMMA TableStep ==
  ASSUME IInv, phase = "reconcile", freqs' \in [Sym -> Nat],
         \A s \in Sym : freqs'[s] > 0 <=> freqs[s] > 0,
         UNCHANGED <<phase, data, left, x, stream, blob, out, pending, damage, trail>>
  PROVE  IInv'
<1>1. /\ TypeOK /\ TableOK /\ EncodeOK /\ BufferOK /\ StoredOK /\ DecodeOK
      /\ Lossless /\ RefusesTheDamaged
  BY DEF IInv
<1>2. TypeOK'
  BY <1>1 DEF TypeOK
<1>3. Len(trail) = 1 /\ data # <<>>
  BY <1>1 DEF TableOK
<1>4. TrailOK' /\ Last' = Last
  BY <1>1, <1>3 DEF EncodeOK, TrailOK, Last
<1>5. TableOK'
  BY <1>1, <1>3 DEF TableOK, Occurs
<1>6. EncodeOK'
  BY <1>1, <1>4 DEF EncodeOK
<1>7. BufferOK' /\ StoredOK' /\ DecodeOK' /\ Lossless' /\ RefusesTheDamaged'
  BY <1>1 DEF BufferOK, StoredOK, DecodeOK, Lossless, RefusesTheDamaged, Died
<1>8. QED
  BY <1>2, <1>5, <1>6, <1>7 DEF IInv

LEMMA TakeExcessStep ==
  ASSUME IInv, TakeExcess
  PROVE  IInv'
<1>1. freqs \in [Sym -> Nat]
  BY DEF IInv, TypeOK
<1>2. PICK m \in Sym :
        /\ freqs[m] > 1 /\ Total(freqs) > M
        /\ freqs' = [freqs EXCEPT ![m] = @ - Lesser(Total(freqs) - M, @ - 1)]
  BY DEF TakeExcess
<1>3. Total(freqs) \in Nat
  BY <1>1, <1>2, RangeWithin
<1> DEFINE v == freqs[m] - Lesser(Total(freqs) - M, freqs[m] - 1)
<1>4. v \in Nat /\ v > 0
  BY <1>1, <1>2, <1>3, Constants DEF Lesser
<1>5. freqs' = [freqs EXCEPT ![m] = v]
  BY <1>2
<1> HIDE DEF v
<1>6. freqs' \in [Sym -> Nat] /\ \A s \in Sym : freqs'[s] > 0 <=> freqs[s] > 0
  BY <1>1, <1>2, <1>4, <1>5
<1>7. QED
  BY <1>6, TableStep DEF TakeExcess

LEMMA GiveSlackStep ==
  ASSUME IInv, GiveSlack
  PROVE  IInv'
<1>1. /\ freqs \in [Sym -> Nat] /\ data \in Seq(Sym) /\ data # <<>>
      /\ \A s \in Sym : freqs[s] > 0 <=> Occurs(s)
  BY InputsAssumption DEF IInv, TypeOK, TableOK, GiveSlack
<1>2. PICK m \in Sym :
        /\ \A s \in Sym : freqs[s] <= freqs[m]
        /\ Total(freqs) < M
        /\ freqs' = [freqs EXCEPT ![m] = @ + (M - Total(freqs))]
  BY DEF GiveSlack, Largest
<1>3. Total(freqs) \in Nat
  BY <1>1, <1>2, RangeWithin
<1>4. freqs[m] > 0
  <2>1. data[1] \in Sym /\ Occurs(data[1])
    BY <1>1 DEF Occurs
  <2>2. QED
    BY <1>1, <1>2, <2>1
<1> DEFINE v == freqs[m] + (M - Total(freqs))
<1>5. v \in Nat /\ v > 0
  BY <1>1, <1>2, <1>3, <1>4, Constants
<1>6. freqs' = [freqs EXCEPT ![m] = v]
  BY <1>2
<1> HIDE DEF v
<1>7. freqs' \in [Sym -> Nat] /\ \A s \in Sym : freqs'[s] > 0 <=> freqs[s] > 0
  BY <1>1, <1>2, <1>4, <1>5, <1>6
<1>8. QED
  BY <1>7, TableStep DEF GiveSlack

LEMMA StartEncodingStep ==
  ASSUME IInv, StartEncoding
  PROVE  IInv'
<1>1. /\ TypeOK /\ TableOK /\ EncodeOK /\ BufferOK /\ StoredOK /\ DecodeOK
      /\ Lossless /\ RefusesTheDamaged
  BY DEF IInv
<1>2. /\ phase = "reconcile" /\ phase' = "encode" /\ Reconciled
      /\ UNCHANGED <<data, freqs, left, x, stream, blob, out, pending, damage, trail>>
  BY DEF StartEncoding
\* the excess is never stuck, for there are at most as many symbols as slots
<1>3. Total(freqs) = M
  <2>1. freqs \in [Sym -> Nat]
    BY <1>1 DEF TypeOK
  <2>2. ASSUME Total(freqs) > M, \A s \in Sym : freqs[s] <= 1 PROVE FALSE
    <3>1. Total(freqs) <= N
      BY <2>1, <2>2, CumOnes
    <3>2. 0 \in Sym
      BY Constants DEF Sym
    <3>3. Total(freqs) \in Nat
      BY <2>1, <3>2, RangeWithin
    <3>4. QED
      BY <2>2, <3>1, <3>3, Constants
  <2>3. QED
    BY <1>2, <2>2 DEF Reconciled
<1>4. /\ Len(trail) = 1 /\ data # <<>> /\ TrailOK /\ Last = State(x, left, stream)
      /\ damage = "none" /\ out = <<>> /\ pending = None
      /\ \A s \in Sym : freqs[s] > 0 <=> Occurs(s)
  BY <1>1, <1>2 DEF TableOK, EncodeOK
<1>5. x = RANS_BYTE_L /\ left = Len(data) /\ stream = <<>>
  BY <1>4 DEF TrailOK, Last, State
<1>6. TypeOK'
  BY <1>1, <1>2 DEF TypeOK
<1>7. TrailOK' /\ Last' = Last
  BY <1>2, <1>4 DEF TrailOK, Last
<1>8. TableOK' /\ EncodeOK'
  BY <1>2, <1>3, <1>4, <1>7 DEF TableOK, EncodeOK, Occurs
<1>9. BufferOK'
  <2>1. Len(data) \in Nat /\ Len(stream) = 0
    BY <1>1, <1>5, InputsAssumption DEF TypeOK
  <2>2. QED
    BY <1>2, <1>5, <2>1, Constants DEF BufferOK
<1>10. StoredOK' /\ DecodeOK' /\ Lossless' /\ RefusesTheDamaged'
  BY <1>1, <1>2 DEF StoredOK, DecodeOK, Lossless, RefusesTheDamaged, Died
<1>11. QED
  BY <1>6, <1>8, <1>9, <1>10 DEF IInv

-----------------------------------------------------------------------------
(* compress                                                                *)

LEMMA Parts ==
  ASSUME IInv
  PROVE  /\ TypeOK /\ TableOK /\ EncodeOK /\ BufferOK /\ StoredOK /\ DecodeOK
         /\ Lossless /\ RefusesTheDamaged
         /\ data \in Seq(Sym) /\ Len(data) \in Nat /\ freqs \in [Sym -> Nat]
         /\ left \in Nat /\ left <= Len(data) /\ x \in Nat
         /\ stream \in Seq(Byte) /\ Len(stream) \in Nat
         /\ out \in Seq(Sym) /\ Len(out) \in Nat /\ trail \in Seq(Entry)
         /\ blob \in Blob /\ pending \in Sym \cup {None}
         /\ damage \in {"none", "cut", "garbled"}
<1>1. /\ TypeOK /\ TableOK /\ EncodeOK /\ BufferOK /\ StoredOK /\ DecodeOK
      /\ Lossless /\ RefusesTheDamaged
  BY DEF IInv
<1>2. data \in Seq(Sym) /\ Len(data) \in Nat
  BY <1>1, InputsAssumption DEF TypeOK
<1>3. left \in Nat /\ left <= Len(data)
  BY <1>1, <1>2 DEF TypeOK
<1>4. x \in Nat
  BY <1>1, Constants DEF TypeOK
<1>5. QED
  BY <1>1, <1>2, <1>3, <1>4 DEF TypeOK, Entry

\* What the encoder knows of the symbol it is at.
LEMMA NextSymbol ==
  ASSUME IInv, phase = "encode", left > 0
  PROVE  /\ left \in 1..Len(data) /\ data[left] \in Sym
         /\ freqs[data[left]] \in Nat /\ freqs[data[left]] > 0
         /\ freqs[data[left]] <= M
         /\ Cum(freqs)[data[left]] \in Nat
         /\ Cum(freqs)[data[left]] + freqs[data[left]] <= M
         /\ x < RANS_BYTE_L * Radix /\ x >= Quot * freqs[data[left]]
         /\ TrailOK /\ Last = State(x, left, stream)
<1>1. left \in 1..Len(data) /\ data[left] \in Sym
  BY Parts
<1> DEFINE s == data[left]
<1>2. TrailOK /\ Last = State(x, left, stream) /\ data # <<>>
  BY Parts DEF EncodeOK
<1>3. freqs[s] \in Nat /\ freqs[s] > 0
  <2>1. Occurs(s)
    BY <1>1 DEF Occurs
  <2>2. QED
    BY <1>1, <1>2, <2>1, Parts DEF TableOK
<1>4. Cum(freqs)[s] \in Nat /\ Cum(freqs)[s] + freqs[s] <= M
  <2>1. Total(freqs) = M
    BY <1>2, Parts DEF TableOK
  <2>2. QED
    BY <1>1, <2>1, Parts, RangeWithin
<1>5. Last.x = x /\ Last.left = left
  BY <1>2 DEF State
<1>6. x < RANS_BYTE_L * Radix
  <2>1. Len(trail) \in Nat /\ Len(trail) > 0
    BY <1>2, Parts DEF TrailOK
  <2>2. Len(trail) \in 1..Len(trail)
    BY <2>1
  <2>3. Last.x < RANS_BYTE_L * Radix
    BY <1>2, <2>2 DEF TrailOK, Last
  <2>4. QED
    BY <1>5, <2>3
<1> HIDE DEF s
<1>7. Quot * freqs[s] <= RANS_BYTE_L
  <2>1. freqs[s] <= M
    BY <1>3, <1>4, Constants
  <2>2. QED
    BY <2>1, <1>3, MulMono, Constants DEF RANS_BYTE_L
<1>8. x >= Quot * freqs[s]
  <2>0. x \in Nat /\ Quot * freqs[s] \in Nat
    BY <1>3, Parts, Constants
  <2>1. CASE x >= RANS_BYTE_L
    BY <2>0, <2>1, <1>7, Constants
  <2>2. CASE ~(x >= RANS_BYTE_L)
    <3>1. ~(Len(trail) = 1 /\ Last = State(RANS_BYTE_L, Len(data), <<>>))
      BY <2>2, <1>5, Constants DEF State
    <3>2. PICK e \in Entry : ByteLink(e, Last) \/ SymLink(e, Last)
      BY <3>1, <1>2, LastLink, Parts
    <3>3. ~SymLink(e, Last)
      BY <2>2, <1>5 DEF SymLink
    <3>4. Last.x >= Quot * freqs[data[e.left]] /\ Last.left = e.left
      BY <3>2, <3>3 DEF ByteLink
    <3>5. QED
      BY <3>4, <1>5 DEF s
  <2>3. QED
    BY <2>1, <2>2
<1>9. QED
  BY <1>1, <1>2, <1>3, <1>4, <1>6, <1>8, Constants DEF s

LEMMA EncodeByteStep ==
  ASSUME IInv, EncodeByte
  PROVE  IInv'
<1>1. /\ phase = "encode" /\ left > 0 /\ x >= XMax(data[left])
      /\ stream' = <<x % Radix>> \o stream /\ x' = Shr(x)
      /\ trail' = Append(trail, State(x', left, stream'))
      /\ UNCHANGED <<phase, data, freqs, left, blob, out, pending, damage>>
  BY DEF EncodeByte
<1> DEFINE f == freqs[data[left]]
<1>2. /\ left \in 1..Len(data) /\ data[left] \in Sym /\ f \in Nat /\ f > 0
      /\ x < RANS_BYTE_L * Radix /\ TrailOK /\ Last = State(x, left, stream)
  BY <1>1, NextSymbol
<1>3. x \in Nat /\ x >= Quot * Radix * f
  BY <1>1, Parts DEF XMax
<1>4. /\ x' \in Nat /\ x' < RANS_BYTE_L /\ x' >= Quot * f
      /\ x % Radix \in Byte /\ x = x' * Radix + (x % Radix)
  <2> HIDE DEF f
  <2>1. QED
    BY <1>1, <1>2, <1>3, Spill
<1>5. stream' \in Seq(Byte) /\ Len(stream') = Len(stream) + 1
  BY <1>1, <1>4, Parts, Cons
<1> DEFINE e == State(x', left, stream')
<1>6. e \in Entry /\ e.x = x' /\ e.left = left /\ e.stream = stream'
  BY <1>4, <1>5, Parts DEF State, Entry
<1>7. ByteLink(Last, e)
  BY <1>1, <1>2, <1>4, <1>6 DEF ByteLink, State
<1>8. e.x < RANS_BYTE_L * Radix /\ e.left <= Len(data)
  <2>1. /\ RANS_BYTE_L \in Nat /\ RANS_BYTE_L * Radix \in Nat
        /\ RANS_BYTE_L < RANS_BYTE_L * Radix
    BY Words, Constants
  <2>2. x' < RANS_BYTE_L * Radix
    BY <2>1, <1>4
  <2> HIDE DEF e
  <2>3. QED
    BY <2>2, <1>6, Parts
<1>9. TrailOK' /\ Last' = e /\ trail' \in Seq(Entry)
  BY <1>1, <1>2, <1>6, <1>7, <1>8, Parts, Extend
<1>10. TypeOK'
  <2>1. x' \in 0..(U32 - 1)
    BY <1>4, <1>6, <1>8, Words
  <2>2. QED
    BY <1>1, <1>5, <1>9, <2>1, Parts DEF TypeOK, Entry
<1>11. TableOK' /\ EncodeOK'
  BY <1>1, <1>9, Parts DEF TableOK, EncodeOK, Occurs, State
<1>12. BufferOK'
  <2>1. x >= Quot * Radix /\ Quot * Radix \in Nat
    <3>1. Quot * Radix * 1 <= Quot * Radix * f /\ Quot * Radix \in Nat
      <4> HIDE DEF f
      <4>1. QED
        BY <1>2, MulMono, Constants
    <3> HIDE DEF f
    <3>2. QED
      BY <3>1, <1>2, <1>3, Constants
  <2> DEFINE b == Quot * Radix
             l == Len(stream)
             d == 2 * (Len(data) - left)
  <2>a. /\ b \in Nat /\ l \in Nat /\ d \in Nat /\ Len(stream') = l + 1
        /\ RANS_BYTE_L \in Nat /\ x \in Nat /\ x >= b /\ x' \in Nat
    <3>1. Len(data) \in Nat /\ left \in Nat /\ left <= Len(data) /\ Len(stream) \in Nat
      BY Parts
    <3>2. d \in Nat /\ l \in Nat
      BY <3>1
    <3> HIDE DEF d, l
    <3>3. b \in Nat /\ x >= b
      BY <2>1
    <3> HIDE DEF b
    <3>4. Len(stream') = l + 1
      BY <1>5 DEF l
    <3>5. x \in Nat /\ x' \in Nat /\ RANS_BYTE_L \in Nat
      BY <1>3, <1>4, Constants
    <3>6. QED
      BY <3>2, <3>3, <3>4, <3>5
  <2>b. l <= d + IF x >= RANS_BYTE_L THEN 0 ELSE IF x >= b THEN 1 ELSE 2
    BY <1>1, Parts DEF BufferOK
  <2>c. ASSUME Len(stream') <= d + IF x' >= RANS_BYTE_L THEN 0 ELSE IF x' >= b THEN 1 ELSE 2
        PROVE  BufferOK'
    BY <2>c, <1>1 DEF BufferOK
  <2>2. CASE x >= RANS_BYTE_L
    <3> HIDE DEF b, l, d
    <3>1. l <= d
      BY <2>2, <2>b, <2>a
    <3>2. Len(stream') <= d + IF x' >= RANS_BYTE_L THEN 0 ELSE IF x' >= b THEN 1 ELSE 2
      BY <3>1, <2>a, <1>4
    <3>3. QED
      BY <3>2, <2>c
  <2>3. CASE x < RANS_BYTE_L
    <3>1. x' < Quot * Radix
      <4>1. Quot * M <= Quot * U16
        BY MulMono, Constants
      <4>2. Quot * U16 = Radix * (Quot * Radix)
        BY Constants DEF U16
      <4>3. x < Radix * (Quot * Radix)
        BY <4>1, <4>2, <2>3, <1>3, <2>1, Constants DEF RANS_BYTE_L
      <4>4. x \div Radix < b
        <5> HIDE DEF b
        <5>1. x < Radix * b
          BY <4>3 DEF b
        <5>2. Radix \in Nat /\ Radix > 0
          BY Constants
        <5>3. QED
          BY <5>1, <5>2, <2>a, DivBelow
      <4>5. QED
        BY <4>4, <1>1 DEF Shr
    <3>2. x' < b
      BY <3>1
    <3> HIDE DEF b, l, d
    <3>3. l <= d + 1
      BY <2>3, <2>b, <2>a
    <3>4. Len(stream') <= d + IF x' >= RANS_BYTE_L THEN 0 ELSE IF x' >= b THEN 1 ELSE 2
      BY <3>2, <3>3, <2>a, <1>4
    <3>5. QED
      BY <3>4, <2>c
  <2>4. QED
    BY <2>2, <2>3, <1>3, Constants
<1>13. StoredOK' /\ DecodeOK' /\ Lossless' /\ RefusesTheDamaged'
  BY <1>1, Parts DEF StoredOK, DecodeOK, Lossless, RefusesTheDamaged, Died
<1>14. QED
  BY <1>10, <1>11, <1>12, <1>13 DEF IInv

LEMMA EncodeSymbolStep ==
  ASSUME IInv, EncodeSymbol
  PROVE  IInv'
<1>1. /\ phase = "encode" /\ left > 0 /\ x < XMax(data[left])
      /\ x' = Absorb(data[left]) /\ left' = left - 1
      /\ trail' = Append(trail, State(x', left', stream))
      /\ UNCHANGED <<phase, data, freqs, stream, blob, out, pending, damage>>
  BY DEF EncodeSymbol
<1> DEFINE f == freqs[data[left]]
           c == Cum(freqs)[data[left]]
<1>2. /\ left \in 1..Len(data) /\ data[left] \in Sym /\ f \in Nat /\ f > 0
      /\ c \in Nat /\ c + f <= M /\ x \in Nat /\ x >= Quot * f
      /\ TrailOK /\ Last = State(x, left, stream)
  BY <1>1, NextSymbol, Parts
<1>3. x < Quot * Radix * f /\ x' = (x \div f) * M + (x % f) + c
  BY <1>1 DEF XMax, Absorb
<1>4. /\ x' \in Nat /\ x' >= RANS_BYTE_L /\ x' < RANS_BYTE_L * Radix
      /\ x' % M \in c..(c + f - 1)
      /\ f * (x' \div M) + (x' % M) - c = x
  <2> HIDE DEF f, c
  <2>1. QED
    BY <1>2, <1>3, AbsorbFacts
<1>5. InRange(freqs, data[left], x' % M)
  <2>1. x' % M <= c + f - 1 /\ c <= x' % M /\ x' % M \in Int
    BY <1>4, <1>2
  <2> HIDE DEF f, c
  <2>2. c <= x' % M /\ x' % M < c + f
    BY <2>1, <1>2
  <2>3. QED
    BY <2>2 DEF InRange, f, c
<1> DEFINE e == State(x', left', stream)
<1>6. e \in Entry /\ e.x = x' /\ e.left = left - 1 /\ e.stream = stream
  <2>1. left' \in Nat /\ x' \in Nat /\ stream \in Seq(Byte) /\ left' = left - 1
    <3>1. left - 1 \in Nat
      BY <1>1, Parts
    <3>2. stream \in Seq(Byte)
      BY Parts
    <3>3. x' \in Nat
      BY <1>4
    <3>4. QED
      BY <1>1, <3>1, <3>2, <3>3, Zenon
  <2>2. QED
    BY <2>1 DEF State, Entry
<1>7. SymLink(Last, e)
  BY <1>2, <1>4, <1>5, <1>6 DEF SymLink, State
<1>8. e.x < RANS_BYTE_L * Radix /\ e.left <= Len(data)
  BY <1>2, <1>4, <1>6
<1>9. TrailOK' /\ Last' = e /\ trail' \in Seq(Entry)
  BY <1>1, <1>2, <1>6, <1>7, <1>8, Parts, Extend
<1>10. TypeOK'
  <2>1. x' \in 0..(U32 - 1)
    BY <1>4, Words
  <2>2. left' \in 0..Len(data)
    BY <1>1, <1>2
  <2>3. QED
    BY <1>1, <1>9, <2>1, <2>2, Parts DEF TypeOK, Entry
<1>11. TableOK' /\ EncodeOK'
  BY <1>1, <1>9, Parts DEF TableOK, EncodeOK, Occurs, State
<1>12. BufferOK'
  <2> DEFINE b == Quot * Radix
             l == Len(stream)
  <2>1. b \in Nat /\ l \in Nat /\ RANS_BYTE_L \in Nat
    BY Parts, Constants
  <2>2. l <= 2 * (Len(data) - left) + IF x >= RANS_BYTE_L THEN 0 ELSE IF x >= b THEN 1 ELSE 2
    BY <1>1, Parts DEF BufferOK
  <2>3. l <= 2 * (Len(data) - left')
    <3> HIDE DEF b, l
    <3>1. QED
      BY <1>1, <1>2, <2>1, <2>2, Parts
  <2>4. Len(stream') <= 2 * (Len(data') - left')
    BY <1>1, <2>3
  <2>5. x' >= RANS_BYTE_L
    BY <1>4
  <2>6. 2 * (Len(data') - left') \in Int
    BY <1>1, Parts
  <2>7. QED
    BY <2>4, <2>5, <2>6 DEF BufferOK
<1>13. StoredOK' /\ DecodeOK' /\ Lossless' /\ RefusesTheDamaged'
  BY <1>1, Parts DEF StoredOK, DecodeOK, Lossless, RefusesTheDamaged, Died
<1>14. QED
  BY <1>10, <1>11, <1>12, <1>13 DEF IInv

LEMMA FlushStep ==
  ASSUME IInv, Flush
  PROVE  IInv'
<1>1. /\ phase = "encode" /\ left = 0 /\ phase' = "stored"
      /\ blob' = [part |-> "table", len |-> Len(data),
                  table |-> [s \in Sym |-> freqs[s] % U16],
                  stream |-> Digits(x) \o stream]
      /\ UNCHANGED <<data, freqs, left, x, stream, out, pending, damage, trail>>
  BY DEF Flush
<1>2. /\ TrailOK /\ Last = State(x, left, stream) /\ out = <<>> /\ pending = None
      /\ data # <<>> /\ damage = "none"
      /\ \A s \in Sym : freqs[s] > 0 <=> Occurs(s)
      /\ Total(freqs) = M
  BY <1>1, Parts DEF EncodeOK, TableOK
<1>3. ASSUME NEW s \in Sym PROVE freqs[s] % U16 = freqs[s] /\ freqs[s] \in 0..(U16 - 1)
  <2>1. /\ freqs[s] \in Nat /\ Cum(freqs)[s] \in Nat
        /\ Cum(freqs)[s] + freqs[s] <= M
    BY <1>2, Parts, RangeWithin
  <2>2. freqs[s] \in 0..(U16 - 1) /\ U16 \in Nat /\ U16 > 0
    BY <2>1, Constants
  <2>3. U16 * 0 + freqs[s] = freqs[s]
    BY <2>1, <2>2
  <2>4. QED
    BY <2>2, <2>3, DivUnique
<1>4. [s \in Sym |-> freqs[s] % U16] = freqs /\ freqs \in [Sym -> 0..(U16 - 1)]
  BY <1>3, Parts
<1>5. /\ Digits(x) \o stream \in Seq(Byte)
      /\ Len(Digits(x) \o stream) = Len(stream) + 4
  <2>1. x \in 0..(U32 - 1)
    BY Parts DEF TypeOK
  <2>2. Digits(x) \in Seq(Byte) /\ Len(Digits(x)) = 4
    BY <2>1, DigitsBack
  <2>3. stream \in Seq(Byte) /\ Len(stream) \in Nat
    BY Parts
  <2> DEFINE g == Digits(x)
  <2> HIDE DEF g
  <2>4. g \o stream \in Seq(Byte) /\ Len(g \o stream) = 4 + Len(stream)
    <3>1. g \in Seq(Byte) /\ Len(g) = 4
      BY <2>2 DEF g
    <3>2. g \o stream \in Seq(Byte) /\ Len(g \o stream) = Len(g) + Len(stream)
      BY <3>1, <2>3, Concat, Zenon
    <3>3. QED
      BY <3>1, <3>2
  <2>5. QED
    BY <2>3, <2>4 DEF g
<1>6. /\ blob'.part = "table" /\ blob'.len = Len(data) /\ blob'.table = freqs
      /\ blob'.stream = Digits(x) \o stream
  BY <1>1, <1>4
<1>7. blob' \in Blob
  <2>1. blob' = [part |-> "table", len |-> Len(data), table |-> freqs,
                 stream |-> Digits(x) \o stream]
    BY <1>1, <1>4
  <2>2. Len(data) \in Nat
    BY Parts
  <2>3. QED
    BY <1>4, <1>5, <2>1, <2>2, Zenon DEF Blob
<1>8. TypeOK'
  BY <1>1, <1>7, Parts DEF TypeOK
<1>9. TrailOK' /\ Last' = Last
  BY <1>1, <1>2, TrailSame
<1>10. TableOK' /\ EncodeOK'
  BY <1>1, <1>2, <1>9 DEF TableOK, EncodeOK, Occurs
<1>11. StoredOK'
  <2>1. Prefix(Digits(x) \o stream, Digits(x) \o stream)
    BY <1>5 DEF Prefix
  <2>2. Digits(x)' = Digits(x) /\ Len(data)' = Len(data)
    BY <1>1 DEF Digits, Shr
  <2>3. Prefix(blob'.stream, Digits(x)' \o stream')
    BY <1>1, <1>6, <2>1, <2>2
  <2>4. QED
    BY <1>1, <1>2, <1>5, <1>6, <2>2, <2>3 DEF StoredOK
<1>12. BufferOK' /\ DecodeOK' /\ Lossless' /\ RefusesTheDamaged'
  BY <1>1, Parts DEF BufferOK, DecodeOK, Lossless, RefusesTheDamaged, Died
<1>13. QED
  BY <1>8, <1>10, <1>11, <1>12 DEF IInv

-----------------------------------------------------------------------------
(* Storage                                                                 *)

\* Only StoredOK looks at the blob.
LEMMA StorageStep ==
  ASSUME IInv, phase = "stored", blob' \in Blob, damage' \in {"cut", "garbled"}, StoredOK',
         UNCHANGED <<phase, data, freqs, left, x, stream, out, pending, trail>>
  PROVE  IInv'
<1>1. TypeOK'
  BY Parts DEF TypeOK
<1>2. TrailOK' /\ Last' = Last
  BY Parts, TrailSame DEF EncodeOK
<1>3. TableOK' /\ EncodeOK'
  BY <1>2, Parts DEF TableOK, EncodeOK, Occurs
<1>4. out = <<>>
  BY Parts DEF EncodeOK
<1>5. BufferOK' /\ DecodeOK' /\ Lossless' /\ RefusesTheDamaged'
  BY <1>4, Parts DEF BufferOK, DecodeOK, Lossless, RefusesTheDamaged, Died
<1>6. QED
  BY <1>1, <1>3, <1>5 DEF IInv

LEMMA CutStep ==
  ASSUME IInv, Cut
  PROVE  IInv'
<1>1. /\ phase = "stored" /\ damage = "none" /\ damage' = "cut"
      /\ UNCHANGED <<phase, data, freqs, left, x, stream, out, pending, trail>>
  BY DEF Cut
<1>2. StoredOK /\ damage # "garbled"
  BY <1>1, Parts
<1>3. /\ blob.len \in Nat /\ blob.table \in [Sym -> 0..(U16 - 1)]
      /\ blob.stream \in Seq(Byte) /\ blob.part \in {"none", "header", "table"}
      /\ blob = [part |-> blob.part, len |-> blob.len, table |-> blob.table,
                 stream |-> blob.stream]
  BY Parts DEF Blob
<1>4. Digits(x)' = Digits(x) /\ Len(data)' = Len(data)
  BY <1>1 DEF Digits, Shr
<1>5. CASE \E n \in 0..(Len(blob.stream) - 1) :
              blob' = [blob EXCEPT !.stream = SubSeq(@, 1, n)]
  <2>1. PICK n \in 0..(Len(blob.stream) - 1) :
              blob' = [blob EXCEPT !.stream = SubSeq(@, 1, n)]
    BY <1>5
  <2> DEFINE b == SubSeq(blob.stream, 1, n)
             ln == Len(blob.stream)
  <2>2. b \in Seq(Byte) /\ Len(b) = n /\ \A i \in 1..n : b[i] = blob.stream[i]
    <3>1. n \in Nat /\ n <= Len(blob.stream)
      BY <1>3
    <3>2. \A i \in 1..n : blob.stream[i] \in Byte
      BY <1>3, <3>1
    <3>3. /\ b \in Seq(Byte) /\ Len(b) = IF 1 <= n THEN n - 1 + 1 ELSE 0
          /\ \A i \in 1..(n - 1 + 1) : b[i] = blob.stream[1 + i - 1]
      BY <3>1, <3>2, SubSeqProperties
    <3> HIDE DEF b
    <3>4. n - 1 + 1 = n
      BY <3>1
    <3>5. Len(b) = n
      BY <3>1, <3>3
    <3>6. ASSUME NEW i \in 1..n PROVE b[i] = blob.stream[i]
      <4>1. 1 + i - 1 = i
        OBVIOUS
      <4>2. QED
        BY <3>3, <3>4, <4>1
    <3>7. QED
      BY <3>3, <3>5, <3>6
  <2>3. blob' = [part |-> blob.part, len |-> blob.len, table |-> blob.table, stream |-> b]
    BY <1>3, <2>1
  <2> HIDE DEF b
  <2>4. blob' \in Blob
    BY <1>3, <2>2, <2>3, Zenon DEF Blob
  <2>5. /\ blob'.part = blob.part /\ blob'.len = blob.len /\ blob'.table = blob.table
        /\ blob'.stream = b
    BY <2>3
  <2>6. ln \in Nat /\ n \in Nat /\ n < ln
    BY <1>3
  <2>7. blob.part = "table" /\ data # <<>>
    BY <1>1, <1>2, <1>3, <2>6 DEF StoredOK
  <2>8. StoredOK'
    <3>1. Prefix(blob.stream, Digits(x) \o stream) /\ ln = Len(stream) + 4
      BY <1>1, <1>2, <2>7 DEF StoredOK
    <3>2. Prefix(b, Digits(x) \o stream)
      <4>1. Len(b) <= Len(Digits(x) \o stream)
        <5>1. Len(Digits(x) \o stream) \in Nat
          <6>1. Digits(x) \o stream \in Seq(Byte)
            BY DigitsBack, Concat, Parts DEF TypeOK
          <6>2. QED
            BY <6>1
        <5>2. ln <= Len(Digits(x) \o stream)
          BY <3>1 DEF Prefix
        <5>3. QED
          BY <5>1, <5>2, <2>2, <2>6
      <4>2. ASSUME NEW i \in 1..Len(b) PROVE b[i] = (Digits(x) \o stream)[i]
        <5>1. i \in 1..n /\ i \in 1..ln
          BY <2>2, <2>6
        <5>2. QED
          BY <5>1, <2>2, <3>1 DEF Prefix
      <4>3. QED
        BY <4>1, <4>2 DEF Prefix
    <3>3. Prefix(blob'.stream, Digits(x)' \o stream') /\ Len(blob'.stream) < Len(stream') + 4
      BY <1>1, <1>4, <2>2, <2>5, <2>6, <3>1, <3>2
    <3>4. QED
      BY <1>1, <1>2, <1>4, <2>5, <2>7, <3>3 DEF StoredOK
  <2>9. QED
    BY <1>1, <2>4, <2>8, StorageStep
<1>6. CASE \E q \in {"none", "header"} :
              q # blob.part /\ blob' = [blob EXCEPT !.part = q, !.stream = <<>>]
  <2>1. PICK q \in {"none", "header"} :
              q # blob.part /\ blob' = [blob EXCEPT !.part = q, !.stream = <<>>]
    BY <1>6
  <2>2. blob' = [part |-> q, len |-> blob.len, table |-> blob.table, stream |-> <<>>]
    BY <1>3, <2>1
  <2>3. blob' \in Blob
    <3>1. <<>> \in Seq(Byte) /\ q \in {"none", "header", "table"}
      BY <2>1
    <3>2. QED
      BY <1>3, <2>2, <3>1, Zenon DEF Blob
  <2>4. blob'.part = q /\ blob'.len = blob.len /\ blob'.stream = <<>>
    BY <2>2
  <2>5. data = <<>> => q = "none"
    BY <1>1, <1>2, <2>1 DEF StoredOK
  <2>6. StoredOK'
    BY <1>1, <1>2, <1>4, <2>1, <2>4, <2>5 DEF StoredOK
  <2>7. QED
    BY <1>1, <2>3, <2>6, StorageStep
<1>7. QED
  BY <1>5, <1>6 DEF Cut

LEMMA GarbleStep ==
  ASSUME IInv, Garble
  PROVE  IInv'
<1>1. blob' \in Blob /\ StoredOK' /\ damage' = "garbled"
  BY InputsAssumption DEF Garble, StoredOK
<1>2. QED
  BY <1>1, StorageStep DEF Garble

-----------------------------------------------------------------------------
(* decompress: the parts before the stream                                 *)

LEMMA RefuseStep ==
  ASSUME IInv, Refuse
  PROVE  IInv'
<1>1. /\ phase = "stored" /\ phase' = "error" /\ Refused
      /\ UNCHANGED <<data, freqs, left, x, stream, blob, out, pending, damage, trail>>
  BY DEF Refuse
<1>2. damage # "none"
  <2> SUFFICES ASSUME damage = "none" PROVE FALSE
    OBVIOUS
  <2>1. /\ blob.len = Len(data) /\ blob.part # "none"
        /\ blob.part = "header" => data = <<>>
        /\ blob.part = "table" => blob.table = freqs /\ Len(blob.stream) = Len(stream) + 4
    BY <1>1, Parts DEF StoredOK
  <2>2. blob.part \in {"none", "header", "table"}
    BY Parts DEF Blob
  <2>3. blob.len > 0
    BY <1>1, <2>1 DEF Refused
  <2>4. data # <<>>
    BY <2>1, <2>3
  <2>5. Total(freqs) = M
    BY <1>1, <2>4, Parts DEF TableOK
  <2>6. blob.table = freqs /\ ~(Len(blob.stream) < 4)
    BY <2>1, <2>2, <2>4, Parts
  <2>7. QED
    BY <1>1, <2>1, <2>4, <2>5, <2>6 DEF Refused
<1>3. TypeOK'
  BY <1>1, Parts DEF TypeOK
<1>4. TableOK' /\ EncodeOK' /\ BufferOK' /\ StoredOK' /\ DecodeOK'
  BY <1>1 DEF TableOK, EncodeOK, BufferOK, StoredOK, DecodeOK
<1>5. Lossless' /\ RefusesTheDamaged'
  BY <1>1, <1>2, Parts DEF Lossless, RefusesTheDamaged, Died
<1>6. QED
  BY <1>3, <1>4, <1>5 DEF IInv

LEMMA OpenEmptyStep ==
  ASSUME IInv, OpenEmpty
  PROVE  IInv'
<1>1. /\ phase = "stored" /\ phase' = "done" /\ ~Refused /\ blob.len = 0
      /\ UNCHANGED <<data, freqs, left, x, stream, blob, out, pending, damage, trail>>
  BY DEF OpenEmpty
<1>2. out = <<>> /\ blob.part # "none"
  BY <1>1, Parts DEF EncodeOK, Refused
<1>3. TypeOK'
  BY <1>1, Parts DEF TypeOK
<1>4. TableOK' /\ EncodeOK' /\ BufferOK' /\ StoredOK' /\ DecodeOK'
  BY <1>1 DEF TableOK, EncodeOK, BufferOK, StoredOK, DecodeOK
<1>5. damage # "garbled" => Len(data) = 0 /\ damage # "cut"
  <2>1. damage # "garbled" => Len(data) = 0
    BY <1>1, Parts DEF StoredOK
  <2>2. Len(data) = 0 => data = <<>>
    BY Parts
  <2>3. QED
    BY <1>1, <1>2, <2>1, <2>2, Parts DEF StoredOK
<1>6. Lossless' /\ RefusesTheDamaged'
  BY <1>1, <1>2, <1>5 DEF Lossless, RefusesTheDamaged, Died
<1>7. QED
  BY <1>3, <1>4, <1>6 DEF IInv

\* Only a garbled blob is fatal: there is room for the data.
LEMMA FatalStep ==
  ASSUME IInv, CapacityOverflow \/ AllocationFails
  PROVE  IInv'
<1>1. /\ phase = "stored" /\ phase' \in {"panic", "abort"} /\ blob.len > Memory
      /\ UNCHANGED <<data, freqs, left, x, stream, blob, out, pending, damage, trail>>
  <2>1. blob.len \in Nat
    BY Parts DEF Blob
  <2>2. QED
    BY <2>1, MemoryAssumption DEF CapacityOverflow, AllocationFails, Opens
<1>2. damage = "garbled"
  <2> SUFFICES ASSUME damage # "garbled" PROVE FALSE
    OBVIOUS
  <2>1. blob.len = Len(data) /\ data \in Messages
    BY <1>1, Parts DEF StoredOK, TypeOK
  <2>2. Len(data) <= Memory
    BY <2>1, MemoryAssumption
  <2>3. QED
    BY <1>1, <2>1, <2>2, Parts, MemoryAssumption
<1>3. TypeOK'
  BY <1>1, Parts DEF TypeOK
<1>4. TableOK' /\ EncodeOK' /\ BufferOK' /\ StoredOK' /\ DecodeOK'
  BY <1>1 DEF TableOK, EncodeOK, BufferOK, StoredOK, DecodeOK
<1>5. Lossless' /\ RefusesTheDamaged'
  BY <1>1, <1>2, Parts DEF Lossless, RefusesTheDamaged, Died
<1>6. QED
  BY <1>3, <1>4, <1>5 DEF IInv

\* Any four bytes are a word.
LEMMA UndigitsWord ==
  ASSUME NEW b \in Seq(Byte), Len(b) >= 4
  PROVE  Undigits(b) \in 0..(U32 - 1)
<1>1. ASSUME NEW a \in Byte, NEW h \in Nat, NEW k \in Nat, h < k
      PROVE  a + Radix * h \in Nat /\ a + Radix * h < Radix * k
  <2>1. Radix * (h + 1) <= Radix * k
    BY <1>1, MulMono, Constants
  <2>2. Radix * (h + 1) = Radix * h + Radix /\ Radix * h \in Nat /\ Radix * k \in Nat
    BY <1>1, Constants
  <2>3. a \in Nat /\ a < Radix
    BY Constants DEF Byte
  <2>4. QED
    BY <2>1, <2>2, <2>3, Constants
<1>2. b[1] \in Byte /\ b[2] \in Byte /\ b[3] \in Byte /\ b[4] \in Byte
  <2>1. \A i \in 1..4 : i \in 1..Len(b)
    OBVIOUS
  <2>2. \A i \in 1..Len(b) : b[i] \in Byte
    OBVIOUS
  <2>3. QED
    BY <2>1, <2>2
<1>3. b[4] \in Nat /\ b[4] < Radix
  BY <1>2, Constants DEF Byte
<1> DEFINE h3 == b[3] + Radix * b[4]
           h2 == b[2] + Radix * h3
           h1 == b[1] + Radix * h2
<1>4. h3 \in Nat /\ h3 < Radix * Radix /\ Radix * Radix \in Nat
  <2>1. Radix \in Nat /\ Radix * Radix \in Nat
    BY Constants
  <2>2. QED
    BY <1>1, <1>2, <1>3, <2>1
<1> HIDE DEF h3
<1>5. h2 \in Nat /\ h2 < Radix * (Radix * Radix) /\ Radix * (Radix * Radix) \in Nat
  <2>1. Radix * (Radix * Radix) \in Nat
    BY <1>4, Constants
  <2>2. QED
    BY <1>1, <1>2, <1>4, <2>1
<1> HIDE DEF h2
<1>6. h1 \in Nat /\ h1 < Radix * (Radix * (Radix * Radix))
  BY <1>1, <1>2, <1>5
<1> HIDE DEF h1
<1>7. U32 = Radix * (Radix * (Radix * Radix))
  BY Constants DEF U32, U16
<1>8. h1 \in 0..(U32 - 1)
  BY <1>6, <1>7, Constants
<1>9. QED
  BY <1>8 DEF h1, h2, h3, Undigits

LEMMA OpenStep ==
  ASSUME IInv, Open
  PROVE  IInv'
<1>1. /\ phase = "stored" /\ phase' = "decode" /\ ~Refused /\ blob.len > 0
      /\ freqs' = blob.table /\ x' = Undigits(blob.stream)
      /\ stream' = SubSeq(blob.stream, 5, Len(blob.stream))
      /\ UNCHANGED <<data, left, blob, out, pending, damage, trail>>
  BY DEF Open, Opens
<1> DEFINE b == blob.stream
<1>2. /\ b \in Seq(Byte) /\ Len(b) \in Nat /\ Len(b) >= 4 /\ blob.part = "table"
      /\ Total(blob.table) = M /\ blob.table \in [Sym -> Nat]
  <2>1. blob.part \in {"none", "header", "table"} /\ b \in Seq(Byte)
        /\ blob.table \in [Sym -> 0..(U16 - 1)]
    BY Parts DEF Blob
  <2>2. blob.table \in [Sym -> Nat]
    BY <2>1, Constants
  <2>3. blob.part = "table" /\ Total(blob.table) = M /\ ~(Len(b) < 4)
    BY <1>1, <2>1 DEF Refused
  <2>4. QED
    BY <2>1, <2>2, <2>3
<1>3. x' \in 0..(U32 - 1)
  BY <1>1, <1>2, UndigitsWord
<1>4. /\ stream' \in Seq(Byte) /\ Len(stream') = Len(b) - 4
      /\ \A i \in 1..(Len(b) - 4) : stream'[i] = b[i + 4]
  <2>1. PICK n \in Nat : n = Len(b)
    BY <1>2
  <2>2. 5 \in Int /\ n \in Int /\ \A i \in 5..n : b[i] \in Byte
    BY <1>2, <2>1
  <2> DEFINE u == SubSeq(b, 5, n)
  <2>3. /\ u \in Seq(Byte) /\ Len(u) = IF 5 <= n THEN n - 5 + 1 ELSE 0
        /\ \A i \in 1..(n - 5 + 1) : u[i] = b[5 + i - 1]
    BY <2>2, SubSeqProperties
  <2> HIDE DEF u
  <2>4. n >= 4 /\ n - 5 + 1 = n - 4
    BY <1>2, <2>1
  <2>5. Len(u) = n - 4
    BY <2>3, <2>4
  <2>6. ASSUME NEW i \in 1..(n - 4) PROVE u[i] = b[i + 4]
    <3>1. 5 + i - 1 = i + 4
      OBVIOUS
    <3>2. QED
      BY <2>3, <2>4, <3>1
  <2>7. stream' = u
    BY <1>1, <2>1 DEF u
  <2>8. QED
    BY <2>1, <2>3, <2>5, <2>6, <2>7
<1>5. out = <<>> /\ pending = None /\ left = 0 /\ TrailOK /\ Last = State(x, left, stream)
  BY <1>1, Parts DEF EncodeOK
<1>6. TypeOK'
  BY <1>1, <1>2, <1>3, <1>4, Parts DEF TypeOK
<1>7. TableOK' /\ EncodeOK' /\ BufferOK' /\ StoredOK' /\ RefusesTheDamaged'
  BY <1>1, <1>2 DEF TableOK, EncodeOK, BufferOK, StoredOK, RefusesTheDamaged, Died
<1>8. Lossless'
  <2>1. out' = <<>> /\ Len(data') \in Nat /\ phase' # "done"
    BY <1>1, <1>5, Parts
  <2>2. QED
    BY <2>1 DEF Lossless
<1>9. DecodeOK'
  <2> SUFFICES ASSUME damage' # "garbled"
               PROVE  DecodeOK'
    BY DEF DecodeOK
  <2>1. /\ blob.len = Len(data) /\ blob.table = freqs
        /\ Prefix(b, Digits(x) \o stream)
        /\ damage = "none" => Len(b) = Len(stream) + 4
        /\ damage = "cut" => Len(b) < Len(stream) + 4
    BY <1>1, <1>2, Parts DEF StoredOK
  <2>2. data # <<>> /\ Len(data) > 0 /\ freqs' = freqs
    BY <1>1, <2>1, Parts
  <2>3. \A s \in Sym : freqs[s] > 0 <=> Occurs(s)
    BY <1>1, <2>2, Parts DEF TableOK
  <2>4. TrailOK' /\ Last' = Last
    BY <1>1, <1>5, <2>2, TrailSame
  <2>5. /\ Digits(x) \in Seq(Byte) /\ Len(Digits(x)) = 4 /\ Undigits(Digits(x)) = x
        /\ Digits(x) \o stream \in Seq(Byte) /\ Len(Digits(x) \o stream) = 4 + Len(stream)
        /\ \A i \in 1..4 : (Digits(x) \o stream)[i] = Digits(x)[i]
        /\ \A i \in 1..Len(stream) : (Digits(x) \o stream)[4 + i] = stream[i]
    <3>1. Digits(x) \in Seq(Byte) /\ Len(Digits(x)) = 4 /\ Undigits(Digits(x)) = x
      BY DigitsBack, Parts DEF TypeOK
    <3>2. stream \in Seq(Byte)
      BY Parts
    <3>3. QED
      BY <3>1, <3>2, FourThen, Zenon
  <2> DEFINE z == Digits(x) \o stream
  <2>6. Len(b) <= 4 + Len(stream) /\ \A i \in 1..Len(b) : b[i] = z[i]
    BY <2>1, <2>5 DEF Prefix
  <2>7. x' = x
    <3>1. /\ b[1] = Digits(x)[1] /\ b[2] = Digits(x)[2]
          /\ b[3] = Digits(x)[3] /\ b[4] = Digits(x)[4]
      <4>1. \A i \in 1..4 : i \in 1..Len(b)
        BY <1>2
      <4>2. \A i \in 1..4 : b[i] = Digits(x)[i]
        BY <4>1, <2>5, <2>6
      <4> HIDE DEF b
      <4>3. QED
        BY <4>2
    <3>2. Undigits(b) = Undigits(Digits(x))
      BY <3>1, Zenon DEF Undigits
    <3>3. QED
      BY <1>1, <2>5, <3>2
  <2>8. Prefix(stream', stream)
    <3>1. Len(stream') <= Len(stream)
      BY <1>2, <1>4, <2>6, Parts
    <3>2. ASSUME NEW i \in 1..Len(stream') PROVE stream'[i] = stream[i]
      <4>1. i \in 1..Len(stream) /\ i \in 1..(Len(b) - 4) /\ i + 4 \in 1..Len(b) /\ i + 4 = 4 + i
        BY <1>2, <1>4, <3>1, Parts
      <4>2. stream'[i] = z[i + 4]
        BY <1>4, <2>6, <4>1
      <4>3. QED
        BY <2>5, <4>1, <4>2
    <3>3. QED
      BY <3>1, <3>2 DEF Prefix
  <2>9. damage = "none" <=> Len(stream') = Len(stream)
    <3>1. damage = "none" \/ damage = "cut"
      BY <1>1, Parts
    <3>2. QED
      BY <1>2, <1>4, <2>1, <3>1, Parts
  <2>10. x >= RANS_BYTE_L
    <3>1. Last.left = 0 /\ Last.x = x
      BY <1>5 DEF State
    <3>2. ~(Last = State(RANS_BYTE_L, Len(data), <<>>))
      BY <2>2, <3>1 DEF State
    <3>3. PICK e \in Entry : ByteLink(e, Last) \/ SymLink(e, Last)
      BY <1>5, <3>2, LastLink, Parts
    <3>4. ~ByteLink(e, Last)
      BY <3>1 DEF ByteLink
    <3>5. QED
      BY <3>1, <3>3, <3>4 DEF SymLink
  <2>11. Last.x = x /\ Last.left = 0 /\ Last.stream = stream
    BY <1>5 DEF State
  <2>12. Last'.left = Len(out') + IF pending' = None THEN 0 ELSE 1
    BY <1>1, <1>5, <2>4, <2>11
  <2>13. /\ Prefix(stream', Last'.stream)
         /\ damage' = "none" <=> Len(stream') = Len(Last'.stream)
    BY <1>1, <2>4, <2>8, <2>9, <2>11
  <2>14. (\A s \in Sym : freqs[s] > 0 <=> Occurs(s))'
    BY <1>1, <2>2, <2>3 DEF Occurs
  <2>15. /\ Last'.x = x' /\ x' >= RANS_BYTE_L /\ blob'.len = Len(data') /\ pending' = None
    BY <1>1, <1>5, <2>1, <2>4, <2>7, <2>10, <2>11
  <2>16. QED
    BY <2>4, <2>12, <2>13, <2>14, <2>15 DEF DecodeOK
<1>10. QED
  BY <1>6, <1>7, <1>8, <1>9 DEF IInv

-----------------------------------------------------------------------------
(* decompress: the stream                                                  *)

\* A step of the decoder in a garbled blob can break the types only.
LEMMA GarbledStep ==
  ASSUME IInv, phase = "decode", phase' \in {"decode", "done", "error"},
         damage = "garbled", damage' = damage, freqs' = freqs, TypeOK'
  PROVE  IInv'
<1>1. TableOK'
  BY Parts DEF TableOK
<1>2. /\ EncodeOK' /\ BufferOK' /\ StoredOK' /\ DecodeOK' /\ Lossless'
      /\ RefusesTheDamaged'
  BY DEF EncodeOK, BufferOK, StoredOK, DecodeOK, Lossless, RefusesTheDamaged, Died
<1>3. QED
  BY <1>1, <1>2 DEF IInv

\* A step of the decoder that goes on.
LEMMA GoesOn ==
  ASSUME IInv, phase = "decode", phase' = "decode", UNCHANGED <<freqs, damage>>,
         TypeOK', Lossless', damage # "garbled" => DecodeOK'
  PROVE  IInv'
<1>1. TableOK'
  BY Parts DEF TableOK
<1>2. EncodeOK' /\ BufferOK' /\ StoredOK' /\ RefusesTheDamaged' /\ DecodeOK'
  BY DEF EncodeOK, BufferOK, StoredOK, RefusesTheDamaged, Died, DecodeOK
<1>3. QED
  BY <1>1, <1>2 DEF IInv

LEMMA EarlierTyped ==
  ASSUME trail \in Seq(Entry)
  PROVE  Earlier \in Seq(Entry)
BY Front DEF Earlier

\* The symbol that the decoder reads off its word, and the word it leaves.
LEMMA SlotFacts ==
  ASSUME NEW fr \in [Sym -> Nat], Total(fr) = M, NEW w \in Nat,
         NEW s, s = Symbol(fr, w % M),
         NEW y, y = fr[s] * (w \div M) + (w % M) - Cum(fr)[s]
  PROVE  s \in Sym /\ y \in Nat /\ y <= w
<1> DEFINE slot == w % M
           q == w \div M
<1>1. slot \in Nat /\ slot < M /\ q \in Nat /\ w = M * q + slot
  BY DivMod, Constants
<1> HIDE DEF slot, q
<1>2. PICK u \in Sym : InRange(fr, u, slot)
  BY <1>1, SlotCovered
<1>3. s = u
  BY <1>1, <1>2, SlotUnique DEF slot
<1>4. /\ Cum(fr)[s] \in Nat /\ fr[s] \in Nat /\ Cum(fr)[s] + fr[s] <= M
      /\ Cum(fr)[s] <= slot
  BY <1>2, <1>3, RangeWithin DEF InRange
<1>5. fr[s] * q <= M * q /\ fr[s] * q \in Nat /\ M * q \in Nat
  <2>1. fr[s] <= M
    BY <1>4, Constants
  <2>2. QED
    BY <2>1, <1>1, <1>4, MulMono, Constants
<1>6. y = fr[s] * q + slot - Cum(fr)[s]
  BY DEF slot, q
<1>7. y \in Nat /\ y <= w
  BY <1>1, <1>4, <1>5, <1>6
<1>8. QED
  BY <1>2, <1>3, <1>7

LEMMA DecodeSymbolStep ==
  ASSUME IInv, DecodeSymbol
  PROVE  IInv'
<1> DEFINE s == Symbol(freqs, x % M)
<1>1. /\ phase = "decode" /\ pending = None /\ Len(out) < blob.len
      /\ x' = freqs[s] * (x \div M) + (x % M) - Cum(freqs)[s]
      /\ pending' = s /\ trail' = Earlier
      /\ UNCHANGED <<phase, data, freqs, left, stream, blob, out, damage>>
  BY DEF DecodeSymbol
<1>2. Total(freqs) = M
  BY <1>1, Parts DEF TableOK
<1>3. s \in Sym /\ x' \in Nat /\ x' <= x
  <2> HIDE DEF s
  <2>1. s = Symbol(freqs, x % M)
    BY DEF s
  <2>2. QED
    BY <1>1, <1>2, <2>1, Parts, SlotFacts
<1>4. TypeOK'
  <2>1. x' \in 0..(U32 - 1)
    BY <1>3, Parts, Constants DEF TypeOK
  <2>2. pending' \in Sym \cup {None}
    BY <1>1, <1>3
  <2>3. trail' \in Seq(Entry)
    BY <1>1, Parts, EarlierTyped
  <2>4. QED
    BY <1>1, <2>1, <2>2, <2>3, Parts DEF TypeOK, Entry
<1>5. Lossless'
  BY <1>1, Parts DEF Lossless
<1>6. ASSUME damage # "garbled" PROVE DecodeOK'
  <2>1. /\ TrailOK /\ \A u \in Sym : freqs[u] > 0 <=> Occurs(u)
        /\ blob.len = Len(data) /\ Last.x = x /\ Last.left = Len(out)
        /\ Prefix(stream, Last.stream)
        /\ damage = "none" <=> Len(stream) = Len(Last.stream)
        /\ x >= RANS_BYTE_L
    BY <1>1, <1>6, Parts DEF DecodeOK
  <2>2. ~(Last = State(RANS_BYTE_L, Len(data), <<>>))
    BY <1>1, <2>1, Parts DEF State
  <2> DEFINE e == trail[Len(trail) - 1]
  <2>3. Len(trail) > 1 /\ e \in Entry /\ (ByteLink(e, Last) \/ SymLink(e, Last))
    BY <2>1, <2>2, LastLink, Parts
  <2>4. ~ByteLink(e, Last)
    BY <2>1, Parts, Constants DEF ByteLink
  <2>5. TrailOK' /\ Last' = e
    BY <1>1, <2>1, <2>3, Parts, Retreat
  <2> HIDE DEF e
  <2>6. /\ e.left \in 1..Len(data) /\ Last.left = e.left - 1
        /\ Last.stream = e.stream
        /\ InRange(freqs, data[e.left], x % M)
        /\ freqs[data[e.left]] * (x \div M) + (x % M) - Cum(freqs)[data[e.left]] = e.x
    BY <2>1, <2>3, <2>4 DEF SymLink
  <2>7. data[e.left] \in Sym
    BY <2>6, Parts
  <2>8. s = data[e.left]
    <3>1. x % M \in Nat
      BY Parts, DivMod, Constants
    <3> DEFINE slot == x % M
    <3> HIDE DEF slot
    <3>2. Symbol(freqs, slot) = data[e.left]
      BY <3>1, <2>6, <2>7, Parts, SlotUnique DEF slot
    <3>3. QED
      BY <3>2 DEF slot
  <2>9. x' = e.x /\ pending' = data[e.left] /\ pending' # None
    <3>1. pending' # None
      BY <1>1, <1>3 DEF Sym, None
    <3>2. QED
      BY <1>1, <2>6, <2>8, <3>1
  <2>10. e.left = Len(out) + 1
    BY <2>1, <2>6, Parts
  <2>11. (\A u \in Sym : freqs[u] > 0 <=> Occurs(u))'
    BY <1>1, <2>1 DEF Occurs
  <2>12. /\ Prefix(stream', Last'.stream)
         /\ damage' = "none" <=> Len(stream') = Len(Last'.stream)
    BY <1>1, <2>1, <2>5, <2>6
  <2>13. /\ Last'.x = x' /\ Last'.left = Len(out') + 1 /\ blob'.len = Len(data')
         /\ Last'.left > 0 /\ pending' = data'[Last'.left]
    BY <1>1, <2>1, <2>5, <2>6, <2>9, <2>10
  <2>14. QED
    BY <2>5, <2>9, <2>11, <2>12, <2>13 DEF DecodeOK
<1>7. QED
  BY <1>1, <1>4, <1>5, <1>6, GoesOn

LEMMA DecodeByteStep ==
  ASSUME IInv, DecodeByte
  PROVE  IInv'
<1>1. /\ phase = "decode" /\ pending # None /\ x < RANS_BYTE_L /\ stream # <<>>
      /\ x' = x * Radix + Head(stream) /\ stream' = Tail(stream)
      /\ trail' = Earlier
      /\ UNCHANGED <<phase, data, freqs, left, blob, out, pending, damage>>
  BY DEF DecodeByte, Low
<1>2. /\ Len(stream) > 0 /\ Head(stream) = stream[1] /\ stream[1] \in Byte
      /\ stream' \in Seq(Byte) /\ Len(stream') = Len(stream) - 1
      /\ \A i \in 1..(Len(stream) - 1) : stream'[i] = stream[i + 1]
  <2>1. stream \in Seq(Byte)
    BY Parts
  <2>2. QED
    BY <1>1, <2>1, HeadTailProperties
<1>3. x' \in Nat /\ x' < RANS_BYTE_L * Radix
  <2>1. (x + 1) * Radix <= RANS_BYTE_L * Radix
    <3>1. x + 1 \in Nat /\ x + 1 <= RANS_BYTE_L
      BY <1>1, Parts, Constants
    <3>2. QED
      BY <3>1, MulMono, Constants
  <2>2. (x + 1) * Radix = x * Radix + Radix /\ x * Radix \in Nat
    BY Parts, Constants
  <2>3. stream[1] \in Nat /\ stream[1] < Radix
    BY <1>2, Constants DEF Byte
  <2>4. RANS_BYTE_L * Radix \in Nat /\ Radix \in Nat
    BY Constants
  <2>5. x' = x * Radix + stream[1]
    BY <1>1, <1>2
  <2>6. QED
    BY <2>1, <2>2, <2>3, <2>4, <2>5
<1>4. TypeOK'
  <2>1. x' \in 0..(U32 - 1)
    BY <1>3, Words
  <2>2. trail' \in Seq(Entry)
    BY <1>1, Parts, EarlierTyped
  <2>3. QED
    BY <1>1, <1>2, <2>1, <2>2, Parts DEF TypeOK, Entry
<1>5. Lossless'
  BY <1>1, Parts DEF Lossless
<1>6. ASSUME damage # "garbled" PROVE DecodeOK'
  <2>1. /\ TrailOK /\ \A u \in Sym : freqs[u] > 0 <=> Occurs(u)
        /\ blob.len = Len(data) /\ Last.x = x /\ Last.left = Len(out) + 1
        /\ Prefix(stream, Last.stream)
        /\ damage = "none" <=> Len(stream) = Len(Last.stream)
        /\ Last.left > 0 /\ pending = data[Last.left]
    BY <1>1, <1>6, Parts DEF DecodeOK
  <2>2. ~(Last = State(RANS_BYTE_L, Len(data), <<>>))
    BY <1>1, <2>1, Constants DEF State
  <2> DEFINE e == trail[Len(trail) - 1]
  <2>3. Len(trail) > 1 /\ e \in Entry /\ (ByteLink(e, Last) \/ SymLink(e, Last))
    BY <2>1, <2>2, LastLink, Parts
  <2>4. ~SymLink(e, Last)
    BY <1>1, <2>1, Parts, Constants DEF SymLink
  <2>5. TrailOK' /\ Last' = e
    BY <1>1, <2>1, <2>3, Parts, Retreat
  <2> HIDE DEF e
  <2>6. /\ Last.left = e.left /\ e.x % Radix \in Byte
        /\ e.x = x * Radix + (e.x % Radix)
        /\ Last.stream = <<e.x % Radix>> \o e.stream
    BY <2>1, <2>3, <2>4 DEF ByteLink
  <2>7. e.stream \in Seq(Byte) /\ Len(e.stream) \in Nat
    BY <2>3 DEF Entry
  <2>8. /\ Len(Last.stream) = Len(e.stream) + 1 /\ Last.stream[1] = e.x % Radix
        /\ \A i \in 1..Len(e.stream) : Last.stream[i + 1] = e.stream[i]
    <3> DEFINE r == e.x % Radix
    <3> HIDE DEF r
    <3>1. /\ Len(<<r>> \o e.stream) = Len(e.stream) + 1
          /\ (<<r>> \o e.stream)[1] = r
          /\ \A i \in 1..Len(e.stream) : (<<r>> \o e.stream)[i + 1] = e.stream[i]
      BY <2>7, SMT
    <3>2. QED
      BY <3>1, <2>6 DEF r
  <2>9. /\ Len(stream) <= Len(e.stream) + 1
        /\ \A i \in 1..Len(stream) : stream[i] = Last.stream[i]
    BY <2>1, <2>8 DEF Prefix
  <2>10. x' = e.x
    <3>1. stream[1] = Last.stream[1]
      BY <1>2, <2>9, Parts
    <3>2. QED
      BY <1>1, <1>2, <2>6, <2>8, <3>1
  <2>11. Prefix(stream', e.stream)
    <3>1. Len(stream') <= Len(e.stream)
      BY <1>2, <2>7, <2>9, Parts
    <3>2. ASSUME NEW i \in 1..Len(stream') PROVE stream'[i] = e.stream[i]
      <4>1. i \in 1..(Len(stream) - 1) /\ i \in 1..Len(e.stream) /\ i + 1 \in 1..Len(stream)
        BY <1>2, <2>7, <3>1, Parts
      <4>2. QED
        BY <1>2, <2>8, <2>9, <4>1
    <3>3. QED
      BY <3>1, <3>2 DEF Prefix
  <2>12. damage = "none" <=> Len(stream') = Len(e.stream)
    BY <1>2, <2>1, <2>7, <2>8, Parts
  <2>13. (\A u \in Sym : freqs[u] > 0 <=> Occurs(u))'
    BY <1>1, <2>1 DEF Occurs
  <2>14. /\ Prefix(stream', Last'.stream)
         /\ damage' = "none" <=> Len(stream') = Len(Last'.stream)
    BY <1>1, <2>5, <2>11, <2>12
  <2>15. /\ Last'.x = x' /\ Last'.left = Len(out') + 1 /\ blob'.len = Len(data')
         /\ Last'.left > 0 /\ pending' = data'[Last'.left] /\ pending' # None
    BY <1>1, <2>1, <2>5, <2>6, <2>10
  <2>16. QED
    BY <2>5, <2>13, <2>14, <2>15 DEF DecodeOK
<1>7. QED
  BY <1>1, <1>4, <1>5, <1>6, GoesOn

LEMMA EndOfStreamStep ==
  ASSUME IInv, EndOfStream
  PROVE  IInv'
<1>1. /\ phase = "decode" /\ pending # None /\ x < RANS_BYTE_L /\ stream = <<>>
      /\ phase' = "error"
      /\ UNCHANGED <<data, freqs, left, x, stream, blob, out, pending, damage, trail>>
  BY DEF EndOfStream, Low
\* below its interval, the word is one that spilled a byte
<1>2. damage # "none"
  <2> SUFFICES ASSUME damage = "none" PROVE FALSE
    OBVIOUS
  <2>1. /\ TrailOK /\ Last.x = x /\ Len(stream) = Len(Last.stream)
    BY <1>1, Parts DEF DecodeOK
  <2>2. ~(Last = State(RANS_BYTE_L, Len(data), <<>>))
    BY <1>1, <2>1, Constants DEF State
  <2>3. PICK e \in Entry : ByteLink(e, Last) \/ SymLink(e, Last)
    BY <2>1, <2>2, LastLink, Parts
  <2>4. ~SymLink(e, Last)
    BY <1>1, <2>1, Parts, Constants DEF SymLink
  <2>5. Last.stream = <<e.x % Radix>> \o e.stream /\ e.x % Radix \in Byte
    BY <2>3, <2>4 DEF ByteLink
  <2>6. e.stream \in Seq(Byte) /\ Len(e.stream) \in Nat
    BY <2>3 DEF Entry
  <2> DEFINE r == e.x % Radix
  <2>7. r \in Byte /\ Last.stream = <<r>> \o e.stream
    BY <2>5
  <2> HIDE DEF r
  <2>8. Len(Last.stream) = Len(e.stream) + 1
    BY <2>6, <2>7, Cons
  <2>9. QED
    BY <1>1, <2>1, <2>6, <2>8
<1>3. TypeOK'
  BY <1>1, Parts DEF TypeOK
<1>4. TableOK' /\ EncodeOK' /\ BufferOK' /\ StoredOK' /\ DecodeOK'
  BY <1>1 DEF TableOK, EncodeOK, BufferOK, StoredOK, DecodeOK
<1>5. Lossless' /\ RefusesTheDamaged'
  BY <1>1, <1>2, Parts DEF Lossless, RefusesTheDamaged, Died
<1>6. QED
  BY <1>3, <1>4, <1>5 DEF IInv

LEMMA PushStep ==
  ASSUME IInv, Push
  PROVE  IInv'
<1>1. /\ phase = "decode" /\ pending # None /\ ~(x < RANS_BYTE_L)
      /\ out' = Append(out, pending) /\ pending' = None
      /\ UNCHANGED <<phase, data, freqs, left, x, stream, blob, damage, trail>>
  BY DEF Push, Low
<1>2. /\ out' \in Seq(Sym) /\ Len(out') = Len(out) + 1
      /\ out'[Len(out) + 1] = pending
      /\ \A i \in 1..Len(out) : out'[i] = out[i]
  BY <1>1, Parts
<1>3. TypeOK'
  BY <1>1, <1>2, Parts DEF TypeOK
<1>4. ASSUME damage # "garbled"
      PROVE  /\ TrailOK /\ (\A u \in Sym : freqs[u] > 0 <=> Occurs(u))
             /\ blob.len = Len(data) /\ Last.x = x /\ Last.left = Len(out) + 1
             /\ Prefix(stream, Last.stream)
             /\ damage = "none" <=> Len(stream) = Len(Last.stream)
             /\ pending = data[Len(out) + 1]
             /\ Len(out) + 1 <= Len(data)
  <2>1. /\ TrailOK /\ (\A u \in Sym : freqs[u] > 0 <=> Occurs(u))
        /\ blob.len = Len(data) /\ Last.x = x /\ Last.left = Len(out) + 1
        /\ Prefix(stream, Last.stream)
        /\ damage = "none" <=> Len(stream) = Len(Last.stream)
        /\ pending = data[Last.left]
    BY <1>1, <1>4, Parts DEF DecodeOK
  <2>2. Len(trail) \in 1..Len(trail)
    BY <2>1, Parts DEF TrailOK
  <2>3. Last.left <= Len(data)
    BY <2>1, <2>2 DEF TrailOK, Last
  <2>4. QED
    BY <2>1, <2>3
<1>5. Lossless'
  <2> SUFFICES ASSUME damage # "garbled"
               PROVE  /\ Len(out') <= Len(data)
                      /\ \A i \in 1..Len(out') : out'[i] = data[i]
    BY <1>1 DEF Lossless
  <2>1. \A i \in 1..Len(out) : out[i] = data[i]
    BY Parts DEF Lossless
  <2>2. Len(out') <= Len(data)
    BY <1>2, <1>4
  <2>3. ASSUME NEW i \in 1..Len(out') PROVE out'[i] = data[i]
    <3>1. CASE i = Len(out) + 1
      BY <3>1, <1>2, <1>4
    <3>2. CASE i \in 1..Len(out)
      BY <3>2, <1>2, <2>1
    <3>3. QED
      BY <3>1, <3>2, <1>2, Parts
  <2>4. QED
    BY <2>2, <2>3
<1>6. ASSUME damage # "garbled" PROVE DecodeOK'
  <2>1. TrailOK' /\ Last' = Last
    BY <1>1, <1>4, <1>6, TrailSame
  <2>2. (\A u \in Sym : freqs[u] > 0 <=> Occurs(u))'
    BY <1>1, <1>4, <1>6 DEF Occurs
  <2>3. x' >= RANS_BYTE_L
    BY <1>1, Parts, Constants
  <2>4. Last'.left = Len(out') + IF pending' = None THEN 0 ELSE 1
    BY <1>1, <1>2, <1>4, <1>6, <2>1
  <2>5. QED
    BY <1>1, <1>4, <1>6, <2>1, <2>2, <2>3, <2>4 DEF DecodeOK
<1>7. QED
  BY <1>1, <1>3, <1>5, <1>6, GoesOn

LEMMA FinishStep ==
  ASSUME IInv, Finish
  PROVE  IInv'
<1>1. /\ phase = "decode" /\ pending = None /\ Len(out) = blob.len
      /\ phase' = "done"
      /\ UNCHANGED <<data, freqs, left, x, stream, blob, out, pending, damage, trail>>
  BY DEF Finish
<1>2. ASSUME damage # "garbled" PROVE blob.len = Len(data) /\ damage # "cut"
  <2>1. /\ TrailOK /\ blob.len = Len(data) /\ Last.left = Len(out)
        /\ Prefix(stream, Last.stream) /\ x >= RANS_BYTE_L /\ Last.x = x
        /\ damage = "none" <=> Len(stream) = Len(Last.stream)
    BY <1>1, <1>2, Parts DEF DecodeOK
  \* nothing is encoded in the state the decoder arrives at, so nothing was cut
  <2>2. Last.stream = <<>>
    <3>1. Len(trail) = 1
      <4> SUFFICES ASSUME Len(trail) # 1 PROVE FALSE
        OBVIOUS
      <4>1. PICK e \in Entry : e.left <= Len(data) /\ (ByteLink(e, Last) \/ SymLink(e, Last))
        BY <2>1, LastLink, Parts
      <4>2. SymLink(e, Last)
        BY <2>1, <4>1, Parts, Constants DEF ByteLink
      <4>3. e.left \in 1..Len(data) /\ Last.left = e.left - 1
        BY <4>2 DEF SymLink
      <4>4. QED
        BY <1>1, <2>1, <4>3, Parts
    <3>2. QED
      BY <2>1, <3>1 DEF TrailOK, Last, State
  <2>3. Len(stream) = 0
    BY <2>1, <2>2, Parts DEF Prefix
  <2>4. QED
    BY <2>1, <2>2, <2>3
<1>3. TypeOK'
  BY <1>1, Parts DEF TypeOK
<1>4. TableOK' /\ EncodeOK' /\ BufferOK' /\ StoredOK' /\ DecodeOK'
  BY <1>1 DEF TableOK, EncodeOK, BufferOK, StoredOK, DecodeOK
<1>5. Lossless' /\ RefusesTheDamaged'
  BY <1>1, <1>2, Parts DEF Lossless, RefusesTheDamaged, Died
<1>6. QED
  BY <1>3, <1>4, <1>5 DEF IInv

-----------------------------------------------------------------------------
(* The theorems                                                            *)

LEMMA Step ==
  ASSUME IInv, [Next]_vars
  PROVE  IInv'
<1>1. CASE UNCHANGED vars
  <2>1. /\ TypeOK' /\ TableOK' /\ BufferOK' /\ Lossless' /\ RefusesTheDamaged'
    BY <1>1, Parts
       DEF vars, TypeOK, TableOK, BufferOK, Lossless, RefusesTheDamaged, Died, Occurs
  <2>2. (TrailOK => TrailOK') /\ Last' = Last
    BY <1>1, TrailSame DEF vars, Last
  <2>3. EncodeOK'
    BY <1>1, <2>2, Parts DEF vars, EncodeOK
  <2>4. StoredOK'
    BY <1>1, Parts DEF vars, StoredOK, Prefix, Digits, Shr
  <2>5. DecodeOK'
    BY <1>1, <2>2, Parts DEF vars, DecodeOK, Prefix, Occurs
  <2>6. QED
    BY <2>1, <2>3, <2>4, <2>5 DEF IInv
<1>2. CASE TakeExcess
  BY <1>2, TakeExcessStep
<1>3. CASE GiveSlack
  BY <1>3, GiveSlackStep
<1>4. CASE StartEncoding
  BY <1>4, StartEncodingStep
<1>5. CASE EncodeByte
  BY <1>5, EncodeByteStep
<1>6. CASE EncodeSymbol
  BY <1>6, EncodeSymbolStep
<1>7. CASE Flush
  BY <1>7, FlushStep
<1>8. CASE Cut
  BY <1>8, CutStep
<1>9. CASE Garble
  BY <1>9, GarbleStep
<1>10. CASE Refuse
  BY <1>10, RefuseStep
<1>11. CASE OpenEmpty
  BY <1>11, OpenEmptyStep
<1>12. CASE Open
  BY <1>12, OpenStep
<1>13. CASE DecodeSymbol
  BY <1>13, DecodeSymbolStep
<1>14. CASE DecodeByte
  BY <1>14, DecodeByteStep
<1>15. CASE EndOfStream
  BY <1>15, EndOfStreamStep
<1>16. CASE Push
  BY <1>16, PushStep
<1>17. CASE Finish
  BY <1>17, FinishStep
<1>18. CASE CapacityOverflow \/ AllocationFails
  BY <1>18, FatalStep
<1>19. QED
  BY <1>1, <1>2, <1>3, <1>4, <1>5, <1>6, <1>7, <1>8, <1>9, <1>10, <1>11, <1>12,
     <1>13, <1>14, <1>15, <1>16, <1>17, <1>18, Zenon DEF Next

\* The coder's word retraces, from Open to Finish, the words that the encoder
\* went through (rans.rs encode and decode), whatever is compressed.
THEOREM Invariance == Spec => []IInv
<1>1. Init => IInv
  BY InitIInv
<1>2. IInv /\ [Next]_vars => IInv'
  BY Step
<1>3. QED
  BY <1>1, <1>2, PTL DEF Spec

\* No word leaves the u32 and no slot is without a symbol, in either direction,
\* for every table that decompress accepts (rans.rs encode, decode).
THEOREM TypeCorrect == Spec => []TypeOK
<1>1. IInv => TypeOK
  BY DEF IInv
<1>2. QED
  BY <1>1, Invariance, PTL

\* normalize reaches a total of exactly M and drops no symbol: the excess is
\* never stuck, since there are at most as many symbols as slots.
THEOREM TableRight == Spec => []TableSound
<1>1. IInv => TableSound
  <2> SUFFICES ASSUME IInv, phase = "encode" \/ (phase = "decode" /\ damage # "garbled")
               PROVE  /\ Total(freqs) = M
                      /\ \A s \in Sym : freqs[s] > 0 <=> Occurs(s)
    BY DEF TableSound, Occurs
  <2>1. CASE phase = "encode"
    BY <2>1, Parts DEF TableOK, EncodeOK
  <2>2. CASE phase = "decode" /\ damage # "garbled"
    BY <2>2, Parts DEF TableOK, DecodeOK
  <2>3. QED
    BY <2>1, <2>2
<1>2. QED
  BY <1>1, Invariance, PTL

\* decompress returns what compress was given (rans.rs round trip).
THEOREM RoundTrip == Spec => []Lossless
<1>1. IInv => Lossless
  BY DEF IInv
<1>2. QED
  BY <1>1, Invariance, PTL

\* decompress refuses every blob that lost its tail, and no whole one; neither is
\* ever fatal, whatever the memory that the messages fit in.
THEOREM Refusals == Spec => []RefusesTheDamaged
<1>1. IInv => RefusesTheDamaged
  BY DEF IInv
<1>2. QED
  BY <1>1, Invariance, PTL

\* encode never writes past the buffer it reserved: a symbol spills two bytes
\* at most, for the interval is less than two bytes wider than a slot.
THEOREM BufferLargeEnough == Spec => []BufferFits
<1>1. IInv => BufferFits
  <2> SUFFICES ASSUME IInv, phase = "encode"
               PROVE  Len(stream) <= 2 * (Len(data) - left + 1)
    BY DEF BufferFits
  <2> DEFINE b == Quot * Radix
             l == Len(stream)
  <2>1. b \in Int /\ l \in Nat /\ RANS_BYTE_L \in Nat
    BY Parts, Constants
  <2>2. l <= 2 * (Len(data) - left) + IF x >= RANS_BYTE_L THEN 0 ELSE IF x >= b THEN 1 ELSE 2
    BY Parts DEF BufferOK
  <2> HIDE DEF b, l
  <2>3. l <= 2 * (Len(data) - left) + 2
    BY <2>1, <2>2, Parts
  <2>4. QED
    BY <2>1, <2>3, Parts DEF l
<1>2. QED
  BY <1>1, Invariance, PTL
=============================================================================
