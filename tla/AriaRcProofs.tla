---------------------------- MODULE AriaRcProofs ----------------------------
(***************************************************************************)
(* The rc pass balances every well-formed program: whatever branches a     *)
(* path takes, each reference is consumed once and so is each reuse token. *)
(***************************************************************************)
EXTENDS AriaRc, AriaInduction, FiniteSetTheorems

-----------------------------------------------------------------------------
(* The levels of code                                                      *)

LEMMA Levels ==
  \A d \in Nat : Nested[d] = ExprForms(IF d = 0 THEN {} ELSE Nested[d - 1])
<1> DEFINE Upto(n, g) == g = [k \in 0..n |-> ExprForms(IF k = 0 THEN {} ELSE g[k - 1])]
           S == {n \in Nat : \E g : Upto(n, g)}
           Same == {n \in Nat : \A m \in Nat : n <= m =>
                       \A g, h : Upto(n, g) /\ Upto(m, h) => h[n] = g[n]}
<1>1. \A n \in Nat : n \in S
  <2>1. 0 \in S
    <3> DEFINE g == [k \in 0..0 |-> ExprForms({})]
    <3>1. Upto(0, g)
      OBVIOUS
    <3>2. QED
      BY <3>1
  <2>2. ASSUME NEW n \in Nat, n \in S PROVE n + 1 \in S
    <3>1. PICK g : Upto(n, g)
      BY <2>2
    <3> DEFINE h == [k \in 0..(n + 1) |-> IF k = n + 1 THEN ExprForms(g[n]) ELSE g[k]]
    <3>2. Upto(n + 1, h)
      <4>1. ASSUME NEW k \in 0..(n + 1)
            PROVE  h[k] = ExprForms(IF k = 0 THEN {} ELSE h[k - 1])
        <5>1. CASE k = n + 1
          BY <5>1
        <5>2. CASE k # n + 1
          <6>1. k \in 0..n /\ h[k] = g[k] /\ (k # 0 => h[k - 1] = g[k - 1])
            BY <5>2
          <6>2. g[k] = ExprForms(IF k = 0 THEN {} ELSE g[k - 1])
            BY <3>1, <6>1
          <6> HIDE DEF h
          <6>3. QED
            BY <6>1, <6>2
        <5>3. QED
          BY <5>1, <5>2
      <4>2. h = [k \in 0..(n + 1) |-> h[k]]
        OBVIOUS
      <4> HIDE DEF h
      <4>3. QED
        BY <4>1, <4>2
    <3> HIDE DEF h, Upto
    <3>3. QED
      BY <3>2
  <2> HIDE DEF S
  <2>3. QED
    BY <2>1, <2>2, Induction
<1>2. \A n \in Nat : n \in Same
  <2>1. 0 \in Same
    <3>1. ASSUME NEW m \in Nat, NEW g, NEW h, Upto(0, g), Upto(m, h) PROVE h[0] = g[0]
      <4>1. 0 \in 0..m /\ 0 \in 0..0
        OBVIOUS
      <4>2. QED
        BY <3>1, <4>1
    <3> HIDE DEF Upto
    <3>2. QED
      BY <3>1
  <2>2. ASSUME NEW n \in Nat, n \in Same PROVE n + 1 \in Same
    <3>1. ASSUME NEW m \in Nat, n + 1 <= m, NEW g, NEW h, Upto(n + 1, g), Upto(m, h)
          PROVE  h[n + 1] = g[n + 1]
      <4> DEFINE low == [k \in 0..n |-> g[k]]
      <4>1. Upto(n, low)
        <5>1. ASSUME NEW k \in 0..n PROVE low[k] = ExprForms(IF k = 0 THEN {} ELSE low[k - 1])
          <6>1. k \in 0..(n + 1) /\ low[k] = g[k] /\ (k # 0 => low[k - 1] = g[k - 1])
            OBVIOUS
          <6> HIDE DEF low
          <6>2. QED
            BY <3>1, <6>1
        <5>2. QED
          BY <5>1
      <4>2. h[n] = low[n]
        <5> HIDE DEF Upto, low
        <5>1. QED
          BY <2>2, <3>1, <4>1
      <4>3. h[n + 1] = ExprForms(h[n]) /\ g[n + 1] = ExprForms(g[n])
        <5>1. n + 1 \in 0..m /\ n + 1 \in 0..(n + 1) /\ n + 1 # 0 /\ (n + 1) - 1 = n
          BY <3>1
        <5>2. QED
          BY <3>1, <5>1
      <4>4. QED
        BY <4>2, <4>3
    <3> HIDE DEF Upto
    <3>2. QED
      BY <3>1
  <2> HIDE DEF Same
  <2>3. QED
    BY <2>1, <2>2, Induction
<1> DEFINE F == [n \in Nat |-> (CHOOSE g : Upto(n, g))[n]]
<1>3. F = [d \in Nat |-> ExprForms(IF d = 0 THEN {} ELSE F[d - 1])]
  <2>1. ASSUME NEW n \in Nat, NEW g, Upto(n, g) PROVE F[n] = g[n]
    <3>1. Upto(n, CHOOSE x : Upto(n, x))
      <4> HIDE DEF Upto
      <4>1. QED
        BY <2>1, Zenon
    <3>2. \A x : Upto(n, x) => x[n] = g[n]
      <4> HIDE DEF Upto
      <4>1. QED
        BY <1>2, <2>1
    <3>3. F[n] = (CHOOSE x : Upto(n, x))[n]
      BY Zenon
    <3> HIDE DEF F, Upto
    <3>4. QED
      BY <3>1, <3>2, <3>3
  <2>2. ASSUME NEW n \in Nat PROVE F[n] = ExprForms(IF n = 0 THEN {} ELSE F[n - 1])
    <3>1. PICK g : Upto(n, g)
      BY <1>1
    <3>2. g[n] = ExprForms(IF n = 0 THEN {} ELSE g[n - 1])
      BY <3>1
    <3>3. n # 0 => F[n - 1] = g[n - 1]
      <4> SUFFICES ASSUME n # 0 PROVE F[n - 1] = g[n - 1]
        OBVIOUS
      <4> DEFINE low == [k \in 0..(n - 1) |-> g[k]]
      <4>1. Upto(n - 1, low)
        <5>1. ASSUME NEW k \in 0..(n - 1) PROVE low[k] = ExprForms(IF k = 0 THEN {} ELSE low[k - 1])
          <6>1. k \in 0..n /\ low[k] = g[k] /\ (k # 0 => low[k - 1] = g[k - 1])
            OBVIOUS
          <6> HIDE DEF low
          <6>2. QED
            BY <3>1, <6>1
        <5>2. QED
          BY <5>1
      <4>2. low[n - 1] = g[n - 1] /\ n - 1 \in Nat
        OBVIOUS
      <4> HIDE DEF Upto, low, F
      <4>3. QED
        BY <2>1, <4>1, <4>2
    <3> HIDE DEF F, Upto
    <3>4. QED
      BY <2>1, <3>1, <3>2, <3>3
  <2>3. F = [d \in Nat |-> F[d]]
    OBVIOUS
  <2> HIDE DEF F
  <2>4. QED
    BY <2>2, <2>3
<1> HIDE DEF F
<1>4. Nested = [d \in Nat |-> ExprForms(IF d = 0 THEN {} ELSE Nested[d - 1])]
  BY <1>3, Zenon DEF Nested
<1>5. QED
  BY <1>4

LEMMA ExprParts ==
  ASSUME NEW parts, NEW e \in ExprForms(parts)
  PROVE  /\ e.is \in Seq(InstrForms(parts)) /\ e.k \in {"ret", "tailcall"} /\ e.as \in Seq(Names)
         /\ e = [is |-> e.is, k |-> e.k, as |-> e.as]
BY DEF ExprForms

LEMMA InstrParts ==
  ASSUME NEW parts, NEW i \in InstrForms(parts)
  PROVE  \/ i.k = "let" /\ i.x \in Names /\ i.b \in BindForms(parts) /\ i = LetIn(i.x, i.b)
         \/ i.k \in {"dup", "drop", "dropreuse"} /\ i.v \in Names /\ i = [k |-> i.k, v |-> i.v]
BY DEF InstrForms, LetIn

LEMMA BindParts ==
  ASSUME NEW parts, NEW b \in BindForms(parts)
  PROVE  \/ /\ b.op \in SimpleOps /\ b.n \in STRING /\ b.as \in Seq(Names) /\ b.op \notin {"ctorreuse", "if", "match"}
            /\ b = Bind(b.op, b.n, b.as)
         \/ /\ b.op = "ctorreuse" /\ b.t \in Names /\ b.n \in STRING /\ b.as \in Seq(Names)
            /\ b = BReuse(b.t, b.n, b.as)
         \/ b.op = "if" /\ b.v \in Names /\ b.th \in parts /\ b.el \in parts /\ b = BIf(b.v, b.th, b.el)
         \/ b.op = "match" /\ b.v \in Names /\ b.arms \in Seq(ArmForms(parts)) /\ b = BMatch(b.v, b.arms)
BY DEF BindForms, SimpleOps, Bind, BReuse, BIf, BMatch

LEMMA ArmParts ==
  ASSUME NEW parts, NEW arm \in ArmForms(parts)
  PROVE  /\ arm.c \in STRING /\ arm.bs \in Seq(Names) /\ arm.e \in parts /\ arm = Arm(arm.c, arm.bs, arm.e)
         /\ arm.c = CatchAll => Len(arm.bs) = 1
BY DEF ArmForms, Arm

LEMMA ExprMade ==
  ASSUME NEW parts, NEW is \in Seq(InstrForms(parts)), NEW k \in {"ret", "tailcall"}, NEW as \in Seq(Names)
  PROVE  [is |-> is, k |-> k, as |-> as] \in ExprForms(parts)
BY DEF ExprForms

LEMMA InstrMade ==
  ASSUME NEW parts
  PROVE  /\ \A x \in Names, b \in BindForms(parts) : LetIn(x, b) \in InstrForms(parts)
         /\ \A v \in Names : {DupOf(v), DropOf(v), DropReuseOf(v)} \subseteq InstrForms(parts)
BY DEF InstrForms, LetIn, DupOf, DropOf, DropReuseOf

LEMMA BindMade ==
  ASSUME NEW parts
  PROVE  /\ \A op \in SimpleOps, n \in STRING, as \in Seq(Names) : Bind(op, n, as) \in BindForms(parts)
         /\ \A t \in Names, n \in STRING, as \in Seq(Names) : BReuse(t, n, as) \in BindForms(parts)
         /\ \A v \in Names, th \in parts, el \in parts : BIf(v, th, el) \in BindForms(parts)
         /\ \A v \in Names, arms \in Seq(ArmForms(parts)) : BMatch(v, arms) \in BindForms(parts)
BY DEF BindForms, Bind, BReuse, BIf, BMatch

LEMMA ArmMade ==
  ASSUME NEW parts, NEW c \in STRING, NEW bs \in Seq(Names), NEW e \in parts, c = CatchAll => Len(bs) = 1
  PROVE  Arm(c, bs, e) \in ArmForms(parts)
BY DEF ArmForms, Arm

LEMMA SeqMono ==
  ASSUME NEW A, NEW B, A \subseteq B
  PROVE  Seq(A) \subseteq Seq(B)
OBVIOUS

\* A deeper level holds what the others hold.
LEMMA FormsMono ==
  ASSUME NEW parts, NEW more, parts \subseteq more
  PROVE  ExprForms(parts) \subseteq ExprForms(more) /\ InstrForms(parts) \subseteq InstrForms(more)
<1>1. ArmForms(parts) \subseteq ArmForms(more)
  BY DEF ArmForms
<1>2. Seq(ArmForms(parts)) \subseteq Seq(ArmForms(more))
  BY <1>1, SeqMono
<1>3. BindForms(parts) \subseteq BindForms(more)
  <2>1. ASSUME NEW b \in BindForms(parts) PROVE b \in BindForms(more)
    <3>1. CASE b.op \in SimpleOps
      <4>1. b.n \in STRING /\ b.as \in Seq(Names) /\ b = Bind(b.op, b.n, b.as)
        BY <3>1, BindParts DEF SimpleOps
      <4>2. QED
        BY <3>1, <4>1, BindMade, Zenon
    <3>2. CASE b.op = "ctorreuse"
      <4>1. b.t \in Names /\ b.n \in STRING /\ b.as \in Seq(Names) /\ b = BReuse(b.t, b.n, b.as)
        BY <3>2, BindParts DEF SimpleOps
      <4>2. QED
        BY <4>1, BindMade, Zenon
    <3>3. CASE b.op = "if"
      <4>1. b.v \in Names /\ b.th \in more /\ b.el \in more /\ b = BIf(b.v, b.th, b.el)
        BY <3>3, BindParts DEF SimpleOps
      <4>2. QED
        BY <4>1, BindMade, Zenon
    <3>4. CASE b.op = "match"
      <4>1. b.v \in Names /\ b.arms \in Seq(ArmForms(more)) /\ b = BMatch(b.v, b.arms)
        BY <3>4, <1>2, BindParts DEF SimpleOps
      <4>2. QED
        BY <4>1, BindMade, Zenon
    <3>5. QED
      BY <3>1, <3>2, <3>3, <3>4, BindParts
  <2>2. QED
    BY <2>1
<1>4. InstrForms(parts) \subseteq InstrForms(more)
  BY <1>3 DEF InstrForms
<1>5. Seq(InstrForms(parts)) \subseteq Seq(InstrForms(more))
  BY <1>4, SeqMono
<1>6. QED
  BY <1>4, <1>5 DEF ExprForms

Parts(d) == IF d = 0 THEN {} ELSE Nested[d - 1]

LEMMA LevelsRise ==
  \A d \in Nat : Nested[d] = ExprForms(Parts(d)) /\ Parts(d) \subseteq Nested[d]
<1> DEFINE S == {d \in Nat : Parts(d) \subseteq Nested[d]}
<1>1. \A d \in Nat : Nested[d] = ExprForms(Parts(d))
  BY Levels DEF Parts
<1>2. 0 \in S
  BY DEF Parts
<1>3. ASSUME NEW d \in Nat, d \in S PROVE d + 1 \in S
  <2>1. Parts(d + 1) = Nested[d] /\ d + 1 \in Nat
    BY DEF Parts
  <2>2. ExprForms(Parts(d)) \subseteq ExprForms(Parts(d + 1))
    BY <1>3, <2>1, FormsMono
  <2>3. QED
    BY <1>1, <2>1, <2>2
<1>4. \A d \in Nat : d \in S
  <2> HIDE DEF S
  <2>1. QED
    BY <1>2, <1>3, Induction
<1>5. QED
  BY <1>1, <1>4

LEMMA LevelsWithin ==
  \A d \in Nat : d <= MaxNesting => Nested[d] \subseteq Code
<1> DEFINE S == {n \in Nat : n <= MaxNesting => Nested[MaxNesting - n] \subseteq Code}
<1>1. 0 \in S
  BY CodeAssumption DEF Code
<1>2. ASSUME NEW n \in Nat, n \in S PROVE n + 1 \in S
  <2>1. CASE n + 1 <= MaxNesting
    <3>1. MaxNesting - n \in Nat /\ MaxNesting - n # 0 /\ (MaxNesting - n) - 1 = MaxNesting - (n + 1)
      BY <2>1, CodeAssumption
    <3>2. Nested[MaxNesting - (n + 1)] = Parts(MaxNesting - n)
      BY <3>1 DEF Parts
    <3>3. QED
      BY <1>2, <2>1, <3>1, <3>2, LevelsRise, CodeAssumption
  <2>2. QED
    BY <2>1, <1>2
<1>3. \A n \in Nat : n \in S
  <2> HIDE DEF S
  <2>1. QED
    BY <1>1, <1>2, Induction
<1>4. ASSUME NEW d \in Nat, d <= MaxNesting PROVE Nested[d] \subseteq Code
  <2>1. MaxNesting - d \in Nat /\ MaxNesting - d <= MaxNesting /\ MaxNesting - (MaxNesting - d) = d
    BY <1>4, CodeAssumption
  <2>2. QED
    BY <1>3, <2>1
<1>5. QED
  BY <1>4

\* The least level of each expression.
Rank == CHOOSE rank \in [Code -> Nat] :
           \A e \in Code : /\ rank[e] <= MaxNesting /\ e \in Nested[rank[e]]
                           /\ \A d \in Nat : e \in Nested[d] => rank[e] <= d
\* Where the branches of e are from.
Inner(e) == Parts(Rank[e])

LEMMA RankType ==
  /\ Rank \in [Code -> Nat]
  /\ \A e \in Code : /\ Rank[e] <= MaxNesting /\ e \in Nested[Rank[e]]
                     /\ \A d \in Nat : e \in Nested[d] => Rank[e] <= d
<1> DEFINE Ds(e) == {d \in Nat : e \in Nested[d]}
           r == [e \in Code |-> CHOOSE d \in Ds(e) : \A k \in Ds(e) : d <= k]
<1>1. ASSUME NEW e \in Code
      PROVE  r[e] \in Ds(e) /\ \A k \in Ds(e) : r[e] <= k
  <2>1. Ds(e) \subseteq Nat /\ Ds(e) # {}
    BY CodeAssumption DEF Code
  <2> HIDE DEF Ds
  <2>2. \E d \in Ds(e) : \A k \in Ds(e) : d <= k
    BY <2>1, Least, Zenon
  <2>3. QED
    BY <2>2
<1>2. \A e \in Code : MaxNesting \in Ds(e)
  BY CodeAssumption DEF Code
<1>3. r \in [Code -> Nat]
  <2>1. \A e \in Code : r[e] \in Nat
    BY <1>1
  <2>2. r = [e \in Code |-> r[e]]
    OBVIOUS
  <2> HIDE DEF r
  <2>3. QED
    BY <2>1, <2>2
<1>4. \A e \in Code : /\ r[e] <= MaxNesting /\ e \in Nested[r[e]]
                      /\ \A d \in Nat : e \in Nested[d] => r[e] <= d
  <2>1. ASSUME NEW e \in Code
        PROVE  /\ r[e] <= MaxNesting /\ e \in Nested[r[e]]
               /\ \A d \in Nat : e \in Nested[d] => r[e] <= d
    <3> HIDE DEF r
    <3>1. QED
      BY <1>1, <1>2, <2>1
  <2> HIDE DEF r
  <2>2. QED
    BY <2>1
<1> HIDE DEF r
<1>5. QED
  BY <1>3, <1>4, Zenon DEF Rank

LEMMA InnerCode ==
  ASSUME NEW e \in Code
  PROVE  /\ e \in ExprForms(Inner(e))
         /\ Inner(e) \subseteq Code
         /\ \A c \in Inner(e) : Rank[c] < Rank[e]
<1>1. Rank[e] \in Nat /\ Rank[e] <= MaxNesting /\ e \in Nested[Rank[e]]
  BY RankType
<1>2. e \in ExprForms(Inner(e))
  BY <1>1, LevelsRise DEF Inner
<1>3. CASE Rank[e] = 0
  BY <1>2, <1>3 DEF Inner, Parts
<1>4. CASE Rank[e] # 0
  <2>1. Inner(e) = Nested[Rank[e] - 1] /\ Rank[e] - 1 \in Nat /\ Rank[e] - 1 <= MaxNesting
    BY <1>1, <1>4, CodeAssumption DEF Inner, Parts
  <2>2. Inner(e) \subseteq Code
    BY <2>1, LevelsWithin
  <2>3. \A c \in Inner(e) : Rank[c] <= Rank[e] - 1 /\ Rank[c] \in Nat
    BY <2>1, <2>2, RankType
  <2>4. QED
    BY <1>1, <1>2, <2>2, <2>3
<1>5. QED
  BY <1>3, <1>4

LEMMA CodeInduction ==
  ASSUME NEW S, \A e \in Code : Inner(e) \subseteq S => e \in S
  PROVE  Code \subseteq S
<1> DEFINE R == {Rank[e] : e \in Code \ S}
<1>1. R = {}
  <2> SUFFICES ASSUME R # {} PROVE FALSE
    OBVIOUS
  <2>1. R \subseteq Nat
    BY RankType
  <2> HIDE DEF R
  <2>2. PICK m \in R : \A k \in R : m <= k
    BY <2>1, Least
  <2>3. PICK e \in Code \ S : m = Rank[e]
    BY <2>2 DEF R
  <2>4. \A c \in Inner(e) : c \in S
    <3>1. ASSUME NEW c \in Inner(e), c \notin S PROVE FALSE
      <4>1. c \in Code /\ Rank[c] < Rank[e]
        BY InnerCode
      <4>2. Rank[c] \in R /\ Rank[c] \in Nat /\ Rank[e] \in Nat
        BY <3>1, <4>1, RankType DEF R
      <4>3. QED
        BY <2>2, <2>3, <4>1, <4>2
    <3>2. QED
      BY <3>1
  <2>5. QED
    BY <2>3, <2>4
<1>2. QED
  BY <1>1

\* Expressions of branches from Code make instructions of a larger set, to which
\* all those of Code belong.
Items == InstrForms(Code)
Exprs == ExprForms(Code)

LEMMA CodeExprs == Code \subseteq Exprs
<1>1. ASSUME NEW e \in Code PROVE e \in Exprs
  BY InnerCode, FormsMono DEF Exprs
<1>2. QED
  BY <1>1

LEMMA SeqAt ==
  ASSUME NEW A, NEW s \in Seq(A)
  PROVE  Len(s) \in Nat /\ DOMAIN s = 1..Len(s) /\ \A n \in 1..Len(s) : s[n] \in A
OBVIOUS

-----------------------------------------------------------------------------
(* Free variables                                                          *)

LEMMA ElemsType ==
  ASSUME NEW A, NEW s \in Seq(A)
  PROVE  Elems(s) \subseteq A /\ IsFiniteSet(Elems(s))
<1>1. Elems(s) \subseteq A
  BY SeqAt DEF Elems
<1>2. s \in Surjection(1..Len(s), Elems(s))
  BY SeqAt DEF Elems, Surjection
<1>3. IsFiniteSet(1..Len(s))
  BY SeqAt, FS_Interval
<1>4. QED
  BY <1>1, <1>2, <1>3, FS_Surjection

\* The free variables of an instruction are looked up in those of its branches.
LEMMA FvInstrFacts ==
  ASSUME NEW parts, NEW i \in InstrForms(parts),
         NEW f, NEW g, \A c \in parts : f[c] \subseteq Names /\ f[c] = g[c]
  PROVE  FvInstr(i, f) \subseteq Names /\ FvInstr(i, f) = FvInstr(i, g)
<1>1. CASE i.k = "let"
  <2>1. i.b \in BindForms(parts)
    BY <1>1, InstrParts
  <2>2. CASE i.b.op = "if"
    BY <1>1, <2>1, <2>2, BindParts DEF FvInstr, FvBind, SimpleOps
  <2>3. CASE i.b.op = "match"
    <3>1. i.b.v \in Names /\ i.b.arms \in Seq(ArmForms(parts))
      BY <2>1, <2>3, BindParts DEF SimpleOps
    <3>2. \A m \in DOMAIN i.b.arms : i.b.arms[m].e \in parts
      BY <3>1, SeqAt, ArmParts
    <3> DEFINE U(h) == UNION {h[i.b.arms[m].e] \ Elems(i.b.arms[m].bs) : m \in DOMAIN i.b.arms}
    <3>3. U(f) \subseteq Names /\ U(f) = U(g)
      BY <3>2
    <3>4. FvInstr(i, f) = {i.b.v} \cup U(f) /\ FvInstr(i, g) = {i.b.v} \cup U(g)
      BY <1>1, <2>3 DEF FvInstr, FvBind
    <3> HIDE DEF U
    <3>5. QED
      BY <3>1, <3>3, <3>4
  <2>4. CASE i.b.op \notin {"if", "match"}
    <3>1. i.b.as \in Seq(Names)
      BY <2>1, <2>4, BindParts
    <3>2. FvInstr(i, f) = Elems(i.b.as) /\ FvInstr(i, g) = Elems(i.b.as)
      BY <1>1, <2>4 DEF FvInstr, FvBind
    <3>3. QED
      BY <3>1, <3>2, ElemsType
  <2>5. QED
    BY <2>2, <2>3, <2>4
<1>2. CASE i.k # "let"
  BY <1>2 DEF FvInstr
<1>3. QED
  BY <1>1, <1>2

LEMMA FvFromFacts ==
  ASSUME NEW parts, NEW e \in ExprForms(parts), NEW n \in Nat \ {0},
         NEW f, NEW g, \A c \in parts : f[c] \subseteq Names /\ f[c] = g[c]
  PROVE  FvFrom(e, n, f) \subseteq Names /\ FvFrom(e, n, f) = FvFrom(e, n, g)
<1>1. e.is \in Seq(InstrForms(parts)) /\ e.as \in Seq(Names)
  BY ExprParts
<1>2. \A m \in n..Len(e.is) : e.is[m] \in InstrForms(parts)
  BY <1>1, SeqAt
<1>3. \A m \in n..Len(e.is) : FvInstr(e.is[m], f) \subseteq Names /\ FvInstr(e.is[m], f) = FvInstr(e.is[m], g)
  BY <1>2, FvInstrFacts
<1>4. Elems(e.as) \subseteq Names
  BY <1>1, ElemsType
<1> DEFINE U(h) == UNION {FvInstr(e.is[m], h) \ BoundFrom(e, n, m) : m \in n..Len(e.is)}
<1>5. U(f) \subseteq Names /\ U(f) = U(g)
  BY <1>3
<1>6. \A h : FvFrom(e, n, h) = U(h) \cup (Elems(e.as) \ BoundFrom(e, n, Len(e.is) + 1))
  BY Zenon DEF FvFrom
<1> HIDE DEF U
<1>7. QED
  BY <1>4, <1>5, <1>6

LEMMA FvType ==
  /\ Fv \in [Code -> SUBSET Names]
  /\ \A e \in Code : Fv[e] = FvFrom(e, 1, Fv)
<1> DEFINE V == SUBSET Names
           step == [p \in Code \X [Code -> V] |-> FvFrom(p[1], 1, p[2])]
<1>1. ASSUME NEW e \in Code, NEW f \in [Code -> V] PROVE FvFrom(e, 1, f) \in V
  <2>1. \A c \in Inner(e) : f[c] \subseteq Names /\ f[c] = f[c]
    BY InnerCode
  <2>2. QED
    BY <2>1, InnerCode, FvFromFacts
<1>2. step \in [Code \X [Code -> V] -> V]
  BY <1>1
<1>3. ASSUME NEW e \in Code, NEW f \in [Code -> V], NEW g \in [Code -> V],
             \A c \in Code : Rank[c] < Rank[e] => f[c] = g[c]
      PROVE  step[<<e, f>>] = step[<<e, g>>]
  <2>1. \A c \in Inner(e) : f[c] \subseteq Names /\ f[c] = g[c]
    BY InnerCode, <1>3
  <2>2. FvFrom(e, 1, f) = FvFrom(e, 1, g)
    BY <2>1, InnerCode, FvFromFacts
  <2>3. QED
    BY <2>2
<1>4. V # {}
  OBVIOUS
<1>5. \A e \in Code, f \in [Code -> V] : step[<<e, f>>] = FvFrom(e, 1, f)
  OBVIOUS
<1> HIDE DEF step, V
<1>6. Ranked(Rank, step, Code, V)
  BY <1>2, <1>3, <1>4, RankType DEF Ranked
<1>7. PICK f : Solves(f, step, Code, V)
  BY <1>6, RankedRecursion
<1>8. f = [e \in Code |-> FvFrom(e, 1, f)] /\ f \in [Code -> V]
  BY <1>5, <1>7 DEF Solves
<1>9. Fv = [e \in Code |-> FvFrom(e, 1, Fv)]
  BY <1>8, Zenon DEF Fv
<1>10. \A e \in Code : Fv[e] = FvFrom(e, 1, Fv)
  BY <1>9
<1>11. \A e \in Code : Fv[e] \in SUBSET Names
  <2> DEFINE S == {e \in Code : Fv[e] \in SUBSET Names}
  <2>1. ASSUME NEW e \in Code, Inner(e) \subseteq S PROVE e \in S
    <3>1. \A c \in Inner(e) : Fv[c] \subseteq Names /\ Fv[c] = Fv[c]
      BY <2>1
    <3>2. FvFrom(e, 1, Fv) \subseteq Names
      BY <3>1, InnerCode, FvFromFacts
    <3>3. QED
      BY <3>2, <1>10
  <2> HIDE DEF S
  <2>2. Code \subseteq S
    BY <2>1, CodeInduction
  <2>3. QED
    BY <2>2 DEF S
<1>12. QED
  BY <1>9, <1>10, <1>11

LEMMA FvFromEnd ==
  ASSUME NEW e \in Exprs, NEW fv
  PROVE  FvFrom(e, Len(e.is) + 1, fv) = Elems(e.as)
<1>1. Len(e.is) \in Nat
  BY ExprParts, SeqAt DEF Exprs
<1> DEFINE n == Len(e.is) + 1
           U == UNION {FvInstr(e.is[m], fv) \ BoundFrom(e, n, m) : m \in n..Len(e.is)}
<1>2. n..Len(e.is) = {} /\ n..(n - 1) = {}
  BY <1>1
<1>3. BoundFrom(e, n, n) = {}
  BY <1>2 DEF BoundFrom
<1>4. U = {}
  BY <1>2
<1>5. FvFrom(e, n, fv) = U \cup (Elems(e.as) \ BoundFrom(e, n, n))
  BY Zenon DEF FvFrom
<1> HIDE DEF U
<1>6. QED
  BY <1>3, <1>4, <1>5

LEMMA FvFromStep ==
  ASSUME NEW e \in Exprs, NEW n \in 1..Len(e.is), e.is[n].k = "let", NEW fv
  PROVE  FvFrom(e, n, fv) = FvBind(e.is[n].b, fv) \cup (FvFrom(e, n + 1, fv) \ {e.is[n].x})
<1>1. Len(e.is) \in Nat
  BY ExprParts, SeqAt DEF Exprs
<1> DEFINE U(l) == UNION {FvInstr(e.is[m], fv) \ BoundFrom(e, l, m) : m \in l..Len(e.is)}
           x == e.is[n].x
<1>2. BoundFrom(e, n, n) = {}
  <2>1. n..(n - 1) = {}
    BY <1>1
  <2>2. QED
    BY <2>1 DEF BoundFrom
<1>3. ASSUME NEW m \in (n + 1)..(Len(e.is) + 1) PROVE BoundFrom(e, n, m) = BoundFrom(e, n + 1, m) \cup {x}
  <2>1. {l \in n..(m - 1) : e.is[l].k = "let"} = {l \in (n + 1)..(m - 1) : e.is[l].k = "let"} \cup {n}
    BY <1>1
  <2>2. QED
    BY <2>1 DEF BoundFrom
<1>4. U(n) = FvBind(e.is[n].b, fv) \cup (U(n + 1) \ {x})
  <2>1. n..Len(e.is) = {n} \cup (n + 1)..Len(e.is) /\ (n + 1)..Len(e.is) \subseteq (n + 1)..(Len(e.is) + 1)
    BY <1>1
  <2>2. FvInstr(e.is[n], fv) = FvBind(e.is[n].b, fv)
    BY DEF FvInstr
  <2>3. ASSUME NEW v PROVE v \in U(n) <=> v \in FvBind(e.is[n].b, fv) \cup (U(n + 1) \ {x})
    <3>1. v \in U(n) <=> \E m \in n..Len(e.is) : v \in FvInstr(e.is[m], fv) /\ v \notin BoundFrom(e, n, m)
      OBVIOUS
    <3>2. v \in U(n + 1) <=> \E m \in (n + 1)..Len(e.is) : v \in FvInstr(e.is[m], fv) /\ v \notin BoundFrom(e, n + 1, m)
      OBVIOUS
    <3> HIDE DEF U
    <3>3. QED
      BY <3>1, <3>2, <2>1, <2>2, <1>2, <1>3
  <2> HIDE DEF U
  <2>4. QED
    BY <2>3
<1>5. /\ FvFrom(e, n, fv) = U(n) \cup (Elems(e.as) \ BoundFrom(e, n, Len(e.is) + 1))
      /\ FvFrom(e, n + 1, fv) = U(n + 1) \cup (Elems(e.as) \ BoundFrom(e, n + 1, Len(e.is) + 1))
  BY Zenon DEF FvFrom
<1>6. BoundFrom(e, n, Len(e.is) + 1) = BoundFrom(e, n + 1, Len(e.is) + 1) \cup {x}
  BY <1>1, <1>3
<1> HIDE DEF U
<1>7. QED
  BY <1>4, <1>5, <1>6

-----------------------------------------------------------------------------
(* Knowledge                                                               *)

\* q differs from o in nothing else.
OnlyFaults(o, q) ==
    /\ q.own = o.own /\ q.root = o.root /\ q.lender = o.lender /\ q.size = o.size
    /\ q.tokens = o.tokens /\ q.unboxed = o.unboxed /\ q.scope = o.scope
OnlyOwn(o, q) ==
    /\ q.root = o.root /\ q.lender = o.lender /\ q.size = o.size
    /\ q.tokens = o.tokens /\ q.unboxed = o.unboxed /\ q.scope = o.scope

LEMMA SameKnowledge ==
  ASSUME NEW o \in Knowledge, NEW q \in Knowledge, OnlyOwn(o, q), q.own = o.own, q.faults = o.faults
  PROVE  q = o
BY DEF OnlyOwn, Knowledge

LEMMA FaultFacts ==
  ASSUME NEW o \in Knowledge, NEW v \in Names, NEW wrong \in BOOLEAN
  PROVE  /\ Fault(o, v, wrong) \in Knowledge
         /\ OnlyFaults(o, Fault(o, v, wrong))
         /\ Fault(o, v, wrong).faults = IF wrong THEN o.faults \cup {v} ELSE o.faults
         /\ ~wrong => Fault(o, v, wrong) = o
BY DEF Fault, Knowledge, OnlyFaults

LEMMA UsesType ==
  ASSUME NEW o \in Knowledge, NEW as \in Seq(Names), NEW r \in Names
  PROVE  IsFiniteSet(Uses(o, as, r)) /\ Cardinality(Uses(o, as, r)) \in Nat
<1>1. DOMAIN as = 1..Len(as) /\ Len(as) \in Nat
  BY SeqAt
<1>2. Uses(o, as, r) \subseteq DOMAIN as
  BY DEF Uses
<1>3. IsFiniteSet(1..Len(as))
  <2>1. 1 \in Int /\ Len(as) \in Int
    BY <1>1
  <2>2. QED
    BY <2>1, FS_Interval, Zenon
<1>4. QED
  BY <1>1, <1>2, <1>3, FS_Subset, FS_CardinalityType

LEMMA ConsumeFacts ==
  ASSUME NEW o \in Knowledge, NEW as \in Seq(Names)
  PROVE  /\ Consume(o, as) \in Knowledge
         /\ \A r \in Names : Consume(o, as).own[r] = o.own[r] - Cardinality(Uses(o, as, r))
         /\ Consume(o, as).faults = o.faults \cup {r \in Names : o.own[r] < Cardinality(Uses(o, as, r))}
         /\ OnlyOwn(o, Consume(o, as))
<1> DEFINE C(r) == Cardinality(Uses(o, as, r))
           own == [r \in Names |-> o.own[r] - C(r)]
           faults == o.faults \cup {r \in Names : o.own[r] < C(r)}
<1>1. ASSUME NEW r \in Names PROVE C(r) \in Int
  <2>1. C(r) \in Nat
    BY UsesType, Zenon
  <2> HIDE DEF C
  <2>2. QED
    BY <2>1
<1>2. Consume(o, as) = [o EXCEPT !.own = own, !.faults = faults]
  BY DEF Consume, Knowledge
<1> HIDE DEF C
<1>3. own \in [Names -> Int] /\ \A r \in Names : own[r] = o.own[r] - C(r)
  BY <1>1 DEF Knowledge
<1>4. faults \subseteq Names
  BY DEF Knowledge
<1> HIDE DEF own, faults
<1>5. Consume(o, as) \in Knowledge
  BY <1>2, <1>3, <1>4 DEF Knowledge
<1>6. Consume(o, as).own = own /\ Consume(o, as).faults = faults
  BY <1>2 DEF Knowledge
<1>7. OnlyOwn(o, Consume(o, as))
  BY <1>2 DEF Knowledge, OnlyOwn
<1>8. QED
  BY <1>3, <1>5, <1>6, <1>7 DEF C, faults

LEMMA GainFacts ==
  ASSUME NEW o \in Knowledge, NEW v \in Names
  PROVE  /\ Gain(o, v) \in Knowledge
         /\ OnlyOwn(o, Gain(o, v))
         /\ o.root[v] \in o.unboxed => Gain(o, v) = o
         /\ o.root[v] \notin o.unboxed =>
              /\ Gain(o, v).own = [o.own EXCEPT ![o.root[v]] = @ + 1]
              /\ Gain(o, v).faults = IF o.own[o.root[v]] <= 0 /\ o.own[o.lender[o.root[v]]] <= 0
                                     THEN o.faults \cup {v} ELSE o.faults
<1> DEFINE r == o.root[v]
           own == [o.own EXCEPT ![r] = @ + 1]
           q == [o EXCEPT !.own = own]
           w == o.own[r] <= 0 /\ o.own[o.lender[r]] <= 0
<1>1. r \in Names /\ o.own \in [Names -> Int]
  BY DEF Knowledge
<1>2. own \in [Names -> Int]
  BY <1>1
<1>3. [o EXCEPT !.own[r] = @ + 1] = q
  BY DEF Knowledge
<1>4. Gain(o, v) = IF r \in o.unboxed THEN o ELSE Fault(q, v, w)
  BY <1>3 DEF Gain
<1>5. w \in BOOLEAN
  OBVIOUS
<1>6. q \in Knowledge /\ q.own = own /\ q.faults = o.faults /\ OnlyOwn(o, q)
  <2> HIDE DEF own
  <2>1. QED
    BY <1>2 DEF Knowledge, OnlyOwn
<1> HIDE DEF q, w, own
<1>7. CASE r \in o.unboxed
  BY <1>4, <1>7 DEF OnlyOwn
<1>8. CASE r \notin o.unboxed
  <2> DEFINE p == Fault(q, v, w)
  <2>0. Gain(o, v) = p /\ p \in Knowledge /\ OnlyFaults(q, p) /\ p.faults = IF w THEN q.faults \cup {v} ELSE q.faults
    <3>1. q \in Knowledge
      BY <1>6
    <3>2. p \in Knowledge /\ OnlyFaults(q, p) /\ p.faults = IF w THEN q.faults \cup {v} ELSE q.faults
      BY <1>5, <3>1, FaultFacts, Zenon
    <3>3. QED
      BY <3>2, <1>4, <1>8
  <2> HIDE DEF p
  <2>1. /\ Gain(o, v) \in Knowledge /\ OnlyFaults(q, Gain(o, v))
        /\ Gain(o, v).faults = IF w THEN q.faults \cup {v} ELSE q.faults
    BY <2>0
  <2>2. OnlyOwn(o, Gain(o, v)) /\ Gain(o, v).own = own
    BY <2>1, <1>6 DEF OnlyOwn, OnlyFaults
  <2>3. QED
    BY <2>1, <2>2, <1>6, <1>8 DEF w, own
<1>9. QED
  BY <1>7, <1>8

\* p is o with x bound.
BoundTo(o, x, boxed, p) ==
    /\ p \in Knowledge
    /\ p.own = [o.own EXCEPT ![x] = IF boxed THEN 1 ELSE 0]
    /\ p.root = [o.root EXCEPT ![x] = x]
    /\ p.unboxed = IF boxed THEN o.unboxed \ {x} ELSE o.unboxed \cup {x}
    /\ p.scope = o.scope \cup {x}
    /\ p.tokens = o.tokens
    /\ p.faults = IF o.own[x] > 0 THEN o.faults \cup {x} ELSE o.faults

LEMMA BoundFacts ==
  ASSUME NEW o \in Knowledge, NEW x \in Names, NEW boxed \in BOOLEAN
  PROVE  BoundTo(o, x, boxed, Bound(o, x, boxed))
<1> DEFINE own == [o.own EXCEPT ![x] = IF boxed THEN 1 ELSE 0]
           root == [o.root EXCEPT ![x] = x]
           lender == [o.lender EXCEPT ![x] = x]
           unboxed == IF boxed THEN o.unboxed \ {x} ELSE o.unboxed \cup {x}
           q == [o EXCEPT !.own = own, !.root = root, !.lender = lender, !.unboxed = unboxed,
                          !.scope = @ \cup {x}]
<1>1. /\ o.own \in [Names -> Int] /\ o.root \in [Names -> Names] /\ o.lender \in [Names -> Names]
      /\ o.unboxed \in SUBSET Names /\ o.scope \in SUBSET Names
  BY DEF Knowledge
<1>2. /\ own \in [Names -> Int] /\ root \in [Names -> Names] /\ lender \in [Names -> Names]
      /\ unboxed \in SUBSET Names /\ o.scope \cup {x} \in SUBSET Names
  BY <1>1
<1>3. Bound(o, x, boxed) = Fault(q, x, o.own[x] > 0)
  BY DEF Bound, Knowledge
<1> HIDE DEF own, root, lender, unboxed
<1>4. /\ q \in Knowledge
      /\ q.own = own /\ q.root = root /\ q.unboxed = unboxed /\ q.scope = o.scope \cup {x}
      /\ q.tokens = o.tokens /\ q.faults = o.faults
  BY <1>2 DEF Knowledge
<1>5. (o.own[x] > 0) \in BOOLEAN
  OBVIOUS
<1> HIDE DEF q
<1>6. /\ Fault(q, x, o.own[x] > 0) \in Knowledge
      /\ OnlyFaults(q, Fault(q, x, o.own[x] > 0))
      /\ Fault(q, x, o.own[x] > 0).faults = IF o.own[x] > 0 THEN q.faults \cup {x} ELSE q.faults
  BY <1>4, <1>5, FaultFacts
<1>7. QED
  BY <1>3, <1>4, <1>6 DEF OnlyFaults, own, root, unboxed, BoundTo

LEMMA EnterArmFacts ==
  ASSUME NEW o \in Knowledge, NEW v \in Names, NEW arm, arm.bs \in Seq(Names)
  PROVE  LET p == EnterArm(o, v, arm)
             bs == Elems(arm.bs)
             r == o.root[v]
         IN  /\ p \in Knowledge
             /\ \A x \in Names : p.own[x] = IF x \in bs THEN 0 ELSE o.own[x]
             /\ \A x \in Names : p.root[x] = IF x \in bs THEN (IF arm.c = CatchAll THEN r ELSE x) ELSE o.root[x]
             /\ \A x \in Names : p.lender[x] = IF x \in bs THEN r ELSE o.lender[x]
             /\ arm.c # CatchAll => p.size[r] = Len(arm.bs)
             /\ p.unboxed = o.unboxed \ bs /\ p.scope = o.scope \cup bs /\ p.tokens = o.tokens
             /\ p.faults = o.faults \cup {x \in bs : o.own[x] > 0}
<1> DEFINE bs == Elems(arm.bs)
           r == o.root[v]
           own == [x \in Names |-> IF x \in bs THEN 0 ELSE o.own[x]]
           root == [x \in Names |-> IF x \in bs THEN (IF arm.c = CatchAll THEN r ELSE x) ELSE o.root[x]]
           lender == [x \in Names |-> IF x \in bs THEN r ELSE o.lender[x]]
           size == [x \in Names |-> IF x = r /\ arm.c # CatchAll THEN Len(arm.bs) ELSE o.size[x]]
           faults == o.faults \cup {x \in bs : o.own[x] > 0}
<1>1. bs \subseteq Names /\ Len(arm.bs) \in Nat
  BY ElemsType, SeqAt
<1>2. EnterArm(o, v, arm) = [o EXCEPT !.own = own, !.root = root, !.lender = lender, !.size = size,
                                      !.unboxed = o.unboxed \ bs, !.scope = o.scope \cup bs, !.faults = faults]
  BY DEF EnterArm, Knowledge
<1> HIDE DEF bs
<1>3. r \in Names /\ o.own \in [Names -> Int] /\ o.root \in [Names -> Names] /\ o.lender \in [Names -> Names]
      /\ o.size \in [Names -> Nat]
  BY DEF Knowledge
<1>4. /\ own \in [Names -> Int] /\ \A x \in Names : own[x] = IF x \in bs THEN 0 ELSE o.own[x]
  BY <1>3
<1>5. /\ root \in [Names -> Names]
      /\ \A x \in Names : root[x] = IF x \in bs THEN (IF arm.c = CatchAll THEN r ELSE x) ELSE o.root[x]
  BY <1>3
<1>6. /\ lender \in [Names -> Names] /\ \A x \in Names : lender[x] = IF x \in bs THEN r ELSE o.lender[x]
  BY <1>3
<1>7. /\ size \in [Names -> Nat] /\ (arm.c # CatchAll => size[r] = Len(arm.bs))
  BY <1>1, <1>3
<1>8. faults \subseteq Names /\ o.unboxed \ bs \subseteq Names /\ o.scope \cup bs \subseteq Names
  BY <1>1 DEF Knowledge
<1> HIDE DEF own, root, lender, size, faults
<1> DEFINE p == EnterArm(o, v, arm)
<1>9. /\ p.own = own /\ p.root = root /\ p.lender = lender /\ p.size = size /\ p.tokens = o.tokens
      /\ p.unboxed = o.unboxed \ bs /\ p.scope = o.scope \cup bs /\ p.faults = faults
  BY <1>2 DEF Knowledge
<1>10. p \in Knowledge
  <2>1. /\ own \in [Names -> Int] /\ root \in [Names -> Names] /\ lender \in [Names -> Names]
        /\ size \in [Names -> Nat]
    BY <1>4, <1>5, <1>6, <1>7
  <2>2. QED
    BY <1>2, <1>8, <2>1, ZenonT(40) DEF Knowledge
<1> HIDE DEF p
<1>11. QED
  BY <1>4, <1>5, <1>6, <1>7, <1>9, <1>10 DEF p, bs, faults

\* What the branches leave alike.
Alike(results) == \A p, q \in results : p.own = q.own /\ p.tokens = q.tokens
Settled(o, results) == \A q \in results : \A x \in Names \ o.scope : q.own[x] = 0
FaultsOf(o, results) == o.faults \cup UNION {p.faults : p \in results}

LEMMA JoinFacts ==
  ASSUME NEW o \in Knowledge, NEW v \in Names, NEW results \in SUBSET Knowledge, results # {}
  PROVE  LET j == Join(o, v, results)
         IN  /\ j \in Knowledge
             /\ j.root = o.root /\ j.lender = o.lender /\ j.size = o.size
             /\ j.unboxed = o.unboxed /\ j.scope = o.scope
             /\ \E q \in results : j.own = q.own /\ j.tokens = q.tokens
             /\ j.faults = IF Alike(results) /\ Settled(o, results)
                           THEN FaultsOf(o, results) ELSE FaultsOf(o, results) \cup {v}
<1> DEFINE q == CHOOSE q \in results : TRUE
           same == \A p \in results : p.own = q.own /\ p.tokens = q.tokens
           clean == \A x \in Names \ o.scope : q.own[x] = 0
           faults == o.faults \cup UNION {p.faults : p \in results}
           k == [o EXCEPT !.own = q.own, !.tokens = q.tokens, !.faults = faults]
<1>1. q \in results /\ q \in Knowledge
  BY Zenon
<1>2. Join(o, v, results) = Fault(k, v, ~same \/ ~clean)
  BY DEF Join, Knowledge
<1> HIDE DEF q
<1>3. faults = FaultsOf(o, results) /\ faults \subseteq Names
  BY DEF FaultsOf, Knowledge
<1>4. Alike(results) <=> same
  BY <1>1 DEF Alike
<1>5. same => (Settled(o, results) <=> clean)
  BY <1>1 DEF Settled
<1> DEFINE wrong == ~same \/ ~clean
<1>6. wrong \in BOOLEAN /\ (wrong <=> ~(Alike(results) /\ Settled(o, results)))
  BY <1>4, <1>5
<1> HIDE DEF same, clean, faults
<1>7. /\ k \in Knowledge /\ k.own = q.own /\ k.tokens = q.tokens /\ k.faults = faults
      /\ k.root = o.root /\ k.lender = o.lender /\ k.size = o.size
      /\ k.unboxed = o.unboxed /\ k.scope = o.scope
  BY <1>1, <1>3 DEF Knowledge
<1> HIDE DEF k
<1>8. Join(o, v, results) = Fault(k, v, wrong)
  BY <1>2 DEF wrong
<1> HIDE DEF wrong
<1>9. /\ Fault(k, v, wrong) \in Knowledge /\ OnlyFaults(k, Fault(k, v, wrong))
      /\ Fault(k, v, wrong).faults = IF wrong THEN k.faults \cup {v} ELSE k.faults
  <2>1. wrong \in BOOLEAN
    BY <1>6
  <2>2. QED
    BY <1>7, <2>1, FaultFacts, Zenon
<1>10. QED
  BY <1>1, <1>3, <1>6, <1>7, <1>8, <1>9 DEF OnlyFaults

\* `after` gives the knowledge after the branches of an instruction.
Answers(after, parts) == \A p \in Knowledge, c \in parts : after[<<p, c>>] \in Knowledge

MatchResults(o, b, after) == {after[<<EnterArm(o, b.v, b.arms[i]), b.arms[i].e>>] : i \in DOMAIN b.arms}
IfResults(o, b, after) == {after[<<o, b.th>>], after[<<o, b.el>>]}

LEMMA ResultsType ==
  ASSUME NEW parts, NEW after, Answers(after, parts), NEW o \in Knowledge, NEW b \in BindForms(parts)
  PROVE  /\ b.op = "if" => IfResults(o, b, after) \in SUBSET Knowledge /\ IfResults(o, b, after) # {}
         /\ b.op = "match" =>
              /\ \A i \in DOMAIN b.arms : EnterArm(o, b.v, b.arms[i]) \in Knowledge /\ b.arms[i].e \in parts
              /\ MatchResults(o, b, after) \in SUBSET Knowledge
              /\ b.arms # <<>> => MatchResults(o, b, after) # {}
<1>1. CASE b.op = "if"
  <2>1. b.th \in parts /\ b.el \in parts
    BY <1>1, BindParts DEF SimpleOps
  <2>2. QED
    BY <1>1, <2>1 DEF Answers, IfResults
<1>2. CASE b.op = "match"
  <2>1. b.v \in Names /\ b.arms \in Seq(ArmForms(parts))
    BY <1>2, BindParts DEF SimpleOps
  <2>2. ASSUME NEW i \in DOMAIN b.arms
        PROVE  EnterArm(o, b.v, b.arms[i]) \in Knowledge /\ b.arms[i].e \in parts
    <3>1. b.arms[i].bs \in Seq(Names) /\ b.arms[i].e \in parts
      BY <2>1, SeqAt, ArmParts
    <3>2. QED
      BY <2>1, <3>1, EnterArmFacts
  <2>3. MatchResults(o, b, after) \in SUBSET Knowledge
    BY <2>2 DEF Answers, MatchResults
  <2>4. ASSUME b.arms # <<>> PROVE MatchResults(o, b, after) # {}
    <3>1. 1 \in DOMAIN b.arms
      BY <2>1, <2>4
    <3>2. QED
      BY <3>1 DEF MatchResults
  <2>5. QED
    BY <1>2, <2>2, <2>3, <2>4
<1>3. QED
  BY <1>1, <1>2

LEMMA AfterBindType ==
  ASSUME NEW parts, NEW after, Answers(after, parts), NEW o \in Knowledge, NEW b \in BindForms(parts)
  PROVE  AfterBind(o, b, after) \in Knowledge
<1>1. CASE b.op = "if"
  <2>1. b.v \in Names /\ AfterBind(o, b, after) = Join(o, b.v, IfResults(o, b, after))
    BY <1>1, BindParts DEF AfterBind, IfResults, SimpleOps
  <2> DEFINE rs == IfResults(o, b, after)
  <2>2. rs \in SUBSET Knowledge /\ rs # {}
    BY <1>1, ResultsType
  <2> HIDE DEF rs
  <2>3. Join(o, b.v, rs) \in Knowledge
    BY <2>1, <2>2, JoinFacts
  <2>4. QED
    BY <2>1, <2>3 DEF rs
<1>2. CASE b.op = "match"
  <2>1. b.v \in Names
    BY <1>2, BindParts DEF SimpleOps
  <2> DEFINE q == IF b.arms = <<>> THEN o ELSE Join(o, b.v, MatchResults(o, b, after))
             w == o.own[o.root[b.v]] <= 0
  <2>2. AfterBind(o, b, after) = Fault(q, b.v, w)
    BY <1>2 DEF AfterBind, MatchResults
  <2>3. q \in Knowledge
    <3> DEFINE rs == MatchResults(o, b, after)
    <3>1. rs \in SUBSET Knowledge /\ (b.arms # <<>> => rs # {})
      BY <1>2, ResultsType
    <3> HIDE DEF rs
    <3>2. b.arms # <<>> => Join(o, b.v, rs) \in Knowledge
      BY <2>1, <3>1, JoinFacts
    <3>3. QED
      BY <3>2 DEF rs
  <2>4. w \in BOOLEAN
    OBVIOUS
  <2> HIDE DEF q, w
  <2>5. Fault(q, b.v, w) \in Knowledge
    BY <2>1, <2>3, <2>4, FaultFacts, Zenon
  <2>6. QED
    BY <2>2, <2>5
<1>3. CASE b.op = "ctorreuse"
  <2>1. b.t \in Names /\ b.as \in Seq(Names) /\ Len(b.as) \in Nat
    BY <1>3, BindParts, SeqAt DEF SimpleOps
  <2> DEFINE c == Consume(o, b.as)
             q == [c EXCEPT !.tokens = @ \ {<<b.t, Len(b.as)>>}]
             w == <<b.t, Len(b.as)>> \notin o.tokens
  <2>2. AfterBind(o, b, after) = Fault(q, b.t, w)
    BY <1>3 DEF AfterBind
  <2>3. c \in Knowledge
    BY <2>1, ConsumeFacts
  <2> HIDE DEF c
  <2>4. q \in Knowledge
    BY <2>1, <2>3 DEF Knowledge
  <2>5. w \in BOOLEAN
    OBVIOUS
  <2> HIDE DEF q, w
  <2>6. Fault(q, b.t, w) \in Knowledge
    BY <2>1, <2>4, <2>5, FaultFacts, Zenon
  <2>7. QED
    BY <2>2, <2>6
<1>4. CASE b.op \in SimpleOps
  <2>1. b.as \in Seq(Names) /\ AfterBind(o, b, after) = Consume(o, b.as)
    BY <1>4, BindParts DEF AfterBind, SimpleOps
  <2>2. QED
    BY <2>1, ConsumeFacts
<1>5. QED
  BY <1>1, <1>2, <1>3, <1>4, BindParts

LEMMA StepType ==
  ASSUME NEW parts, NEW after, Answers(after, parts), NEW o \in Knowledge, NEW i \in InstrForms(parts)
  PROVE  Step(o, i, after) \in Knowledge
<1>1. CASE i.k = "let"
  <2>1. i.x \in Names /\ i.b \in BindForms(parts)
    BY <1>1, InstrParts
  <2>2. AfterBind(o, i.b, after) \in Knowledge /\ (i.b.op # "equal") \in BOOLEAN
    BY <2>1, AfterBindType
  <2>3. Step(o, i, after) = Bound(AfterBind(o, i.b, after), i.x, i.b.op # "equal")
    BY <1>1 DEF Step
  <2>4. Bound(AfterBind(o, i.b, after), i.x, i.b.op # "equal") \in Knowledge
    BY <2>1, <2>2, BoundFacts, Zenon DEF BoundTo
  <2>5. QED
    BY <2>3, <2>4
<1>2. CASE i.k = "dup"
  BY <1>2, InstrParts, GainFacts DEF Step
<1>3. CASE i.k = "drop"
  <2>1. <<i.v>> \in Seq(Names)
    BY <1>3, InstrParts
  <2>2. QED
    BY <1>3, <2>1, ConsumeFacts DEF Step
<1>4. CASE i.k = "dropreuse"
  <2>1. i.v \in Names /\ <<i.v>> \in Seq(Names)
    BY <1>4, InstrParts
  <2> DEFINE c == Consume(o, <<i.v>>)
             q == [c EXCEPT !.tokens = @ \cup {<<i.v, o.size[o.root[i.v]]>>}]
             w == \E t \in o.tokens : t[1] = i.v
  <2>2. Step(o, i, after) = Fault(q, i.v, w)
    BY <1>4 DEF Step
  <2>3. c \in Knowledge
    BY <2>1, ConsumeFacts
  <2>4. o.size[o.root[i.v]] \in Nat
    BY <2>1 DEF Knowledge
  <2> HIDE DEF c
  <2>5. q \in Knowledge
    BY <2>1, <2>3, <2>4, SMTT(40) DEF Knowledge
  <2>6. w \in BOOLEAN
    OBVIOUS
  <2> HIDE DEF q, w
  <2>7. Fault(q, i.v, w) \in Knowledge
    BY <2>1, <2>5, <2>6, FaultFacts, Zenon
  <2>8. QED
    BY <2>2, <2>7
<1>5. QED
  BY <1>1, <1>2, <1>3, <1>4, InstrParts

\* What comes after an instruction depends only on what comes after its branches.
LEMMA StepLocal ==
  ASSUME NEW parts, NEW f, NEW g, Answers(f, parts),
         \A p \in Knowledge, c \in parts : f[<<p, c>>] = g[<<p, c>>],
         NEW o \in Knowledge, NEW i \in InstrForms(parts)
  PROVE  Step(o, i, f) = Step(o, i, g)
<1>1. CASE i.k = "let"
  <2>1. i.b \in BindForms(parts)
    BY <1>1, InstrParts
  <2>2. CASE i.b.op = "if"
    <3>1. i.b.th \in parts /\ i.b.el \in parts
      BY <2>1, <2>2, BindParts DEF SimpleOps
    <3>2. f[<<o, i.b.th>>] = g[<<o, i.b.th>>] /\ f[<<o, i.b.el>>] = g[<<o, i.b.el>>]
      BY <3>1
    <3>3. AfterBind(o, i.b, f) = AfterBind(o, i.b, g)
      BY <2>2, <3>2 DEF AfterBind
    <3>4. QED
      BY <1>1, <3>3 DEF Step
  <2>3. CASE i.b.op = "match"
    <3>1. \A m \in DOMAIN i.b.arms : EnterArm(o, i.b.v, i.b.arms[m]) \in Knowledge /\ i.b.arms[m].e \in parts
      BY <2>1, <2>3, ResultsType
    <3>2. MatchResults(o, i.b, f) = MatchResults(o, i.b, g)
      BY <3>1 DEF MatchResults
    <3>3. \A h : AfterBind(o, i.b, h) =
            Fault(IF i.b.arms = <<>> THEN o ELSE Join(o, i.b.v, MatchResults(o, i.b, h)), i.b.v, o.own[o.root[i.b.v]] <= 0)
      BY <2>3 DEF AfterBind, MatchResults
    <3>4. AfterBind(o, i.b, f) = AfterBind(o, i.b, g)
      BY <3>2, <3>3
    <3>5. QED
      BY <1>1, <3>4 DEF Step
  <2>4. CASE i.b.op \notin {"if", "match"}
    <3>1. AfterBind(o, i.b, f) = AfterBind(o, i.b, g)
      BY <2>4 DEF AfterBind
    <3>2. QED
      BY <1>1, <3>1 DEF Step
  <2>5. QED
    BY <2>2, <2>3, <2>4
<1>2. CASE i.k # "let"
  BY <1>2, InstrParts DEF Step
<1>3. QED
  BY <1>1, <1>2

-----------------------------------------------------------------------------
(* Sequences of instructions                                               *)

\* know holds the knowledge before and after each of the instructions.
Walk(know, o, is, after) ==
    /\ know \in [0..Len(is) -> Knowledge] /\ know[0] = o
    /\ \A n \in 1..Len(is) : know[n] = Step(know[n - 1], is[n], after)

LEMMA WalkUnique ==
  ASSUME NEW o, NEW is, Len(is) \in Nat, NEW after, NEW k, NEW h,
         Walk(k, o, is, after), Walk(h, o, is, after)
  PROVE  \A n \in 0..Len(is) : k[n] = h[n]
<1> DEFINE S == {n \in Nat : n <= Len(is) => k[n] = h[n]}
<1>1. 0 \in S
  BY DEF Walk
<1>2. ASSUME NEW n \in Nat, n \in S PROVE n + 1 \in S
  <2>1. CASE n + 1 <= Len(is)
    <3>1. n + 1 \in 1..Len(is) /\ (n + 1) - 1 = n
      BY <2>1
    <3>2. k[n + 1] = Step(k[n], is[n + 1], after) /\ h[n + 1] = Step(h[n], is[n + 1], after)
      BY <3>1 DEF Walk
    <3>3. QED
      BY <1>2, <2>1, <3>2
  <2>2. QED
    BY <2>1
<1>3. \A n \in Nat : n \in S
  <2> HIDE DEF S
  <2>1. QED
    BY <1>1, <1>2, Induction
<1>4. QED
  BY <1>3

LEMMA ThroughWalk ==
  ASSUME NEW parts, NEW after, Answers(after, parts), NEW o \in Knowledge, NEW is \in Seq(InstrForms(parts))
  PROVE  \E know : Walk(know, o, is, after) /\ Through(o, is, after) = know[Len(is)]
<1>1. Len(is) \in Nat /\ \A n \in 1..Len(is) : is[n] \in InstrForms(parts)
  BY SeqAt
<1> DEFINE next == [n \in Nat |-> [p \in Knowledge |-> IF n < Len(is) THEN Step(p, is[n + 1], after) ELSE p]]
<1>2. next \in [Nat -> [Knowledge -> Knowledge]]
  <2>1. ASSUME NEW n \in Nat, NEW p \in Knowledge
        PROVE  (IF n < Len(is) THEN Step(p, is[n + 1], after) ELSE p) \in Knowledge
    <3>1. CASE n < Len(is)
      <4>1. n + 1 \in 1..Len(is)
        BY <3>1, <1>1
      <4>2. is[n + 1] \in InstrForms(parts)
        BY <4>1, <1>1
      <4>3. QED
        BY <3>1, <4>2, StepType
    <3>2. QED
      BY <3>1
  <2>2. QED
    BY <2>1
<1>3. PICK f : CourseTo(f, Len(is), Knowledge, o, next)
  <2> HIDE DEF next
  <2>1. QED
    BY <1>1, <1>2, RecursionUpTo
<1>4. f \in [0..Len(is) -> Knowledge] /\ f[0] = o
  BY <1>3 DEF CourseTo
<1>5. ASSUME NEW n \in 1..Len(is) PROVE f[n] = Step(f[n - 1], is[n], after)
  <2>1. f[n] = next[n - 1][f[n - 1]]
    BY <1>3 DEF CourseTo
  <2>2. n - 1 \in Nat /\ n - 1 < Len(is) /\ (n - 1) + 1 = n /\ f[n - 1] \in Knowledge
    BY <1>1, <1>4
  <2>3. next[n - 1][f[n - 1]] = Step(f[n - 1], is[n], after)
    BY <2>2
  <2> HIDE DEF next
  <2>4. QED
    BY <2>1, <2>3
<1> DEFINE know == CHOOSE know : know = [i \in 0..Len(is) |-> IF i = 0 THEN o ELSE Step(know[i - 1], is[i], after)]
<1>6. f = [i \in 0..Len(is) |-> IF i = 0 THEN o ELSE Step(f[i - 1], is[i], after)]
  <2>1. \A i \in 0..Len(is) : f[i] = IF i = 0 THEN o ELSE Step(f[i - 1], is[i], after)
    <3>1. ASSUME NEW i \in 0..Len(is) PROVE f[i] = IF i = 0 THEN o ELSE Step(f[i - 1], is[i], after)
      <4>1. CASE i = 0
        BY <4>1, <1>4
      <4>2. CASE i # 0
        <5>1. i \in 1..Len(is)
          BY <4>2, <1>1
        <5>2. QED
          BY <4>2, <5>1, <1>5
      <4>3. QED
        BY <4>1, <4>2
    <3>2. QED
      BY <3>1
  <2>2. f = [i \in 0..Len(is) |-> f[i]]
    BY <1>4
  <2>3. QED
    BY <2>1, <2>2
<1>7. know = [i \in 0..Len(is) |-> IF i = 0 THEN o ELSE Step(know[i - 1], is[i], after)]
  BY <1>6, Zenon
<1>8. Through(o, is, after) = know[Len(is)]
  BY Zenon DEF Through
<1> HIDE DEF know
<1>9. know[0] = o /\ \A n \in 1..Len(is) : know[n] = Step(know[n - 1], is[n], after)
  <2>1. 0 \in 0..Len(is)
    BY <1>1
  <2>2. know[0] = o
    BY <2>1, <1>7
  <2>3. ASSUME NEW n \in 1..Len(is) PROVE know[n] = Step(know[n - 1], is[n], after)
    <3>1. n \in 0..Len(is) /\ n # 0
      BY <1>1
    <3>2. QED
      BY <3>1, <1>7
  <2>4. QED
    BY <2>2, <2>3
<1> DEFINE S == {n \in Nat : n <= Len(is) => know[n] = f[n]}
<1>10. 0 \in S
  BY <1>9, <1>4
<1>11. ASSUME NEW n \in Nat, n \in S PROVE n + 1 \in S
  <2>1. CASE n + 1 <= Len(is)
    <3>1. n + 1 \in 1..Len(is) /\ (n + 1) - 1 = n
      BY <2>1, <1>1
    <3>2. know[n + 1] = Step(know[n], is[n + 1], after) /\ f[n + 1] = Step(f[n], is[n + 1], after)
      BY <3>1, <1>5, <1>9
    <3>3. QED
      BY <1>11, <2>1, <3>2, <1>1
  <2>2. QED
    BY <2>1
<1>12. \A n \in Nat : n \in S
  <2> HIDE DEF S
  <2>1. QED
    BY <1>10, <1>11, Induction
<1>13. know[Len(is)] = f[Len(is)]
  BY <1>12, <1>1
<1>14. Walk(f, o, is, after)
  BY <1>4, <1>5 DEF Walk
<1>15. QED
  BY <1>8, <1>13, <1>14

LEMMA ThroughIs ==
  ASSUME NEW parts, NEW after, Answers(after, parts), NEW o \in Knowledge, NEW is \in Seq(InstrForms(parts)),
         NEW know, Walk(know, o, is, after)
  PROVE  Through(o, is, after) = know[Len(is)] /\ Through(o, is, after) \in Knowledge
<1>1. Len(is) \in Nat
  BY SeqAt
<1>2. PICK k : Walk(k, o, is, after) /\ Through(o, is, after) = k[Len(is)]
  BY ThroughWalk
<1>3. k[Len(is)] = know[Len(is)]
  <2>1. Len(is) \in 0..Len(is)
    BY <1>1
  <2>2. \A n \in 0..Len(is) : k[n] = know[n]
    BY <1>1, <1>2, WalkUnique
  <2>3. QED
    BY <2>1, <2>2
<1>4. QED
  BY <1>1, <1>2, <1>3 DEF Walk

LEMMA ThroughType ==
  ASSUME NEW parts, NEW after, Answers(after, parts), NEW o \in Knowledge, NEW is \in Seq(InstrForms(parts))
  PROVE  Through(o, is, after) \in Knowledge
BY ThroughWalk, ThroughIs, Zenon

LEMMA ThroughNone ==
  ASSUME NEW parts, NEW after, Answers(after, parts), NEW o \in Knowledge
  PROVE  Through(o, <<>>, after) = o
<1>1. <<>> \in Seq(InstrForms(parts)) /\ Len(<<>>) = 0
  OBVIOUS
<1>2. PICK k : Walk(k, o, <<>>, after) /\ Through(o, <<>>, after) = k[Len(<<>>)]
  BY <1>1, ThroughWalk, ZenonT(40)
<1>3. QED
  BY <1>1, <1>2 DEF Walk

LEMMA ThroughOne ==
  ASSUME NEW parts, NEW after, Answers(after, parts), NEW o \in Knowledge, NEW i \in InstrForms(parts)
  PROVE  Through(o, <<i>>, after) = Step(o, i, after)
<1>1. <<i>> \in Seq(InstrForms(parts)) /\ Len(<<i>>) = 1 /\ <<i>>[1] = i
  OBVIOUS
<1>2. PICK k : Walk(k, o, <<i>>, after) /\ Through(o, <<i>>, after) = k[Len(<<i>>)]
  BY <1>1, ThroughWalk, ZenonT(40)
<1>3. 1 \in 1..1 /\ 1 - 1 = 0
  OBVIOUS
<1>4. k[1] = Step(k[0], i, after) /\ k[0] = o
  BY <1>1, <1>2, <1>3 DEF Walk
<1>5. QED
  BY <1>1, <1>2, <1>4

LEMMA ThroughBoth ==
  ASSUME NEW parts, NEW after, Answers(after, parts), NEW o \in Knowledge,
         NEW s \in Seq(InstrForms(parts)), NEW t \in Seq(InstrForms(parts))
  PROVE  Through(o, s \o t, after) = Through(Through(o, s, after), t, after)
<1> DEFINE q == Through(o, s, after)
           u == s \o t
<1>1. PICK k : Walk(k, o, s, after) /\ q = k[Len(s)]
  BY ThroughWalk
<1>2. q \in Knowledge
  BY ThroughType
<1>3. PICK h : Walk(h, q, t, after) /\ Through(q, t, after) = h[Len(t)]
  <2> HIDE DEF q
  <2>1. QED
    BY <1>2, ThroughWalk
<1> HIDE DEF q
<1>4. /\ Len(s) \in Nat /\ Len(t) \in Nat /\ u \in Seq(InstrForms(parts)) /\ Len(u) = Len(s) + Len(t)
      /\ \A n \in 1..Len(s) : u[n] = s[n]
      /\ \A n \in (Len(s) + 1)..(Len(s) + Len(t)) : u[n] = t[n - Len(s)]
  OBVIOUS
<1> HIDE DEF u
<1> DEFINE w == [n \in 0..Len(u) |-> IF n <= Len(s) THEN k[n] ELSE h[n - Len(s)]]
<1>5. ASSUME NEW n \in 0..Len(u) PROVE w[n] \in Knowledge
  <2>1. CASE n <= Len(s)
    <3>1. n \in 0..Len(s)
      BY <2>1, <1>4
    <3>2. QED
      BY <2>1, <3>1, <1>1 DEF Walk
  <2>2. CASE ~(n <= Len(s))
    <3>1. n - Len(s) \in 0..Len(t)
      BY <2>2, <1>4
    <3>2. QED
      BY <2>2, <3>1, <1>3 DEF Walk
  <2>3. QED
    BY <2>1, <2>2
<1>6. w \in [0..Len(u) -> Knowledge] /\ w[0] = o
  <2>1. w[0] = k[0]
    BY <1>4
  <2>2. w \in [0..Len(u) -> Knowledge]
    BY <1>5
  <2> HIDE DEF w
  <2>3. QED
    BY <2>1, <2>2, <1>1 DEF Walk
<1>7. ASSUME NEW n \in 1..Len(u) PROVE w[n] = Step(w[n - 1], u[n], after)
  <2>1. CASE n <= Len(s)
    <3>1. n \in 1..Len(s) /\ w[n] = k[n] /\ w[n - 1] = k[n - 1] /\ u[n] = s[n]
      BY <2>1, <1>4
    <3> HIDE DEF w
    <3>2. QED
      BY <3>1, <1>1 DEF Walk
  <2>2. CASE n = Len(s) + 1
    <3>1. 1 \in 1..Len(t) /\ n - Len(s) = 1 /\ (n - 1) = Len(s) /\ n \in (Len(s) + 1)..(Len(s) + Len(t))
      BY <2>2, <1>4
    <3>2. w[n] = h[1] /\ w[n - 1] = k[Len(s)] /\ u[n] = t[1]
      BY <2>2, <1>4, <3>1
    <3>3. h[1] = Step(h[0], t[1], after) /\ h[0] = q
      BY <3>1, <1>3 DEF Walk
    <3> HIDE DEF w
    <3>4. QED
      BY <3>2, <3>3, <1>1
  <2>3. CASE n > Len(s) + 1
    <3>1. PICK m \in 1..Len(t) : m = n - Len(s) /\ (n - 1) - Len(s) = m - 1
      BY <2>3, <1>4, SMTT(40)
    <3>2. n \in (Len(s) + 1)..(Len(s) + Len(t))
      BY <2>3, <1>4
    <3>3. w[n] = h[m] /\ w[n - 1] = h[m - 1] /\ u[n] = t[m]
      BY <2>3, <1>4, <3>1, <3>2
    <3>4. h[m] = Step(h[m - 1], t[m], after)
      BY <1>3 DEF Walk
    <3> HIDE DEF w
    <3>5. QED
      BY <3>3, <3>4
  <2>4. QED
    <3>1. n <= Len(s) \/ n = Len(s) + 1 \/ n > Len(s) + 1
      BY <1>4
    <3> HIDE DEF w
    <3>2. QED
      BY <2>1, <2>2, <2>3, <3>1
<1>8. w[Len(u)] = h[Len(t)]
  <2>1. CASE Len(t) = 0
    BY <2>1, <1>4, <1>1, <1>3 DEF Walk
  <2>2. CASE Len(t) # 0
    BY <2>2, <1>4
  <2>3. QED
    BY <2>1, <2>2
<1> HIDE DEF w
<1>9. Walk(w, o, u, after)
  BY <1>6, <1>7 DEF Walk
<1>10. Through(o, u, after) = w[Len(u)]
  <2>1. u \in Seq(InstrForms(parts))
    BY <1>4
  <2>2. QED
    BY <2>1, <1>9, ThroughIs
<1>11. QED
  BY <1>3, <1>8, <1>10 DEF u, q

LEMMA ThroughLocal ==
  ASSUME NEW parts, NEW f, NEW g, Answers(f, parts), Answers(g, parts),
         \A p \in Knowledge, c \in parts : f[<<p, c>>] = g[<<p, c>>],
         NEW o \in Knowledge, NEW is \in Seq(InstrForms(parts))
  PROVE  Through(o, is, f) = Through(o, is, g)
<1>1. Len(is) \in Nat /\ \A n \in 1..Len(is) : is[n] \in InstrForms(parts)
  BY SeqAt
<1>2. PICK k : Walk(k, o, is, f) /\ Through(o, is, f) = k[Len(is)]
  BY ThroughWalk
<1>3. ASSUME NEW n \in 1..Len(is) PROVE k[n] = Step(k[n - 1], is[n], g)
  <2>1. k[n] = Step(k[n - 1], is[n], f)
    BY <1>2 DEF Walk
  <2>2. n - 1 \in 0..Len(is)
    BY <1>1
  <2>3. k[n - 1] \in Knowledge /\ is[n] \in InstrForms(parts)
    BY <2>2, <1>1, <1>2 DEF Walk
  <2>4. QED
    BY <2>1, <2>3, StepLocal
<1>4. Walk(k, o, is, g)
  BY <1>2, <1>3 DEF Walk
<1>5. QED
  BY <1>2, <1>4, ThroughIs

\* The discipline has a solution: what comes after each expression.
LEMMA AfterType ==
  /\ Answers(After, Code)
  /\ \A o \in Knowledge, e \in Code : After[<<o, e>>] = Consume(Through(o, e.is, After), e.as)
<1> DEFINE D == Knowledge \X Code
           V == Knowledge
           Body(o, e, f) == Consume(Through(o, e.is, f), e.as)
           step == [q \in D \X [D -> V] |-> Body(q[1][1], q[1][2], q[2])]
           rank == [p \in D |-> Rank[p[2]]]
<1>1. ASSUME NEW parts, NEW e \in ExprForms(parts), NEW o \in Knowledge, NEW f, Answers(f, parts)
      PROVE  Body(o, e, f) \in Knowledge
  <2>1. e.is \in Seq(InstrForms(parts)) /\ e.as \in Seq(Names)
    BY ExprParts
  <2>2. Through(o, e.is, f) \in Knowledge
    BY <1>1, <2>1, ThroughType
  <2>3. QED
    BY <2>1, <2>2, ConsumeFacts
<1>2. ASSUME NEW e \in Code, NEW o \in Knowledge, NEW f, NEW g, Answers(f, Inner(e)),
             \A p \in Knowledge, c \in Inner(e) : f[<<p, c>>] = g[<<p, c>>]
      PROVE  Body(o, e, f) = Body(o, e, g)
  <2>1. e.is \in Seq(InstrForms(Inner(e)))
    BY InnerCode, ExprParts
  <2>2. Answers(g, Inner(e))
    BY <1>2 DEF Answers
  <2>3. Through(o, e.is, f) = Through(o, e.is, g)
    BY <1>2, <2>1, <2>2, ThroughLocal
  <2>4. QED
    BY <2>3
<1> HIDE DEF Body
<1>3. ASSUME NEW f \in [D -> V] PROVE Answers(f, Code)
  BY DEF Answers
<1>4. step \in [D \X [D -> V] -> V]
  <2>1. ASSUME NEW p \in D, NEW f \in [D -> V] PROVE Body(p[1], p[2], f) \in V
    <3>1. p[1] \in Knowledge /\ p[2] \in ExprForms(Code)
      BY CodeExprs DEF Exprs
    <3>2. QED
      BY <1>1, <1>3, <3>1
  <2>2. QED
    BY <2>1
<1>5. rank \in [D -> Nat]
  BY RankType
<1>6. \A p \in D, f \in [D -> V] : step[<<p, f>>] = Body(p[1], p[2], f)
  OBVIOUS
<1>7. \A p \in D : rank[p] = Rank[p[2]]
  OBVIOUS
<1>8. ASSUME NEW p \in D, NEW f \in [D -> V], NEW g \in [D -> V],
             \A c \in D : rank[c] < rank[p] => f[c] = g[c]
      PROVE  step[<<p, f>>] = step[<<p, g>>]
  <2>1. p[1] \in Knowledge /\ p[2] \in Code
    OBVIOUS
  <2>2. ASSUME NEW o \in Knowledge, NEW c \in Inner(p[2]) PROVE f[<<o, c>>] = g[<<o, c>>]
    <3>1. c \in Code /\ Rank[c] < Rank[p[2]]
      BY <2>1, InnerCode
    <3>2. <<o, c>> \in D /\ rank[<<o, c>>] = Rank[c]
      BY <3>1, <1>7
    <3>3. rank[<<o, c>>] < rank[p]
      BY <3>1, <3>2, <1>7
    <3> HIDE DEF rank, D, V
    <3>4. QED
      BY <1>8, <3>2, <3>3
  <2>3. Answers(f, Inner(p[2]))
    <3>1. Answers(f, Code) /\ Inner(p[2]) \subseteq Code
      BY <2>1, <1>3, InnerCode
    <3>2. QED
      BY <3>1 DEF Answers
  <2>4. Body(p[1], p[2], f) = Body(p[1], p[2], g)
    BY <2>1, <2>2, <2>3, <1>2
  <2>5. QED
    BY <2>4, <1>6
<1>9. V # {}
  <2>1. [own |-> [v \in Names |-> 0], root |-> [v \in Names |-> v], lender |-> [v \in Names |-> v],
         size |-> [v \in Names |-> 0], tokens |-> {}, unboxed |-> {}, scope |-> {}, faults |-> {}] \in Knowledge
    BY DEF Knowledge
  <2>2. QED
    BY <2>1
<1> HIDE DEF step, rank, V, D
<1>10. Ranked(rank, step, D, V)
  BY <1>4, <1>5, <1>8, <1>9 DEF Ranked
<1>11. PICK f : Solves(f, step, D, V)
  BY <1>10, RankedRecursion
<1>12. f = [p \in D |-> Body(p[1], p[2], f)]
  BY <1>6, <1>11 DEF Solves
<1>13. After = [p \in D |-> Body(p[1], p[2], After)]
  BY <1>12, Zenon DEF After, Body, D
<1>14. \A o \in Knowledge, e \in Code : After[<<o, e>>] = Body(o, e, After)
  BY <1>13 DEF D
<1> DEFINE S == {e \in Code : \A o \in Knowledge : After[<<o, e>>] \in Knowledge}
<1>15. ASSUME NEW e \in Code, Inner(e) \subseteq S PROVE e \in S
  <2>1. Answers(After, Inner(e))
    BY <1>15 DEF Answers
  <2>2. \A o \in Knowledge : Body(o, e, After) \in Knowledge
    BY <2>1, <1>1, InnerCode
  <2>3. QED
    BY <2>2, <1>14
<1> HIDE DEF S
<1>16. Code \subseteq S
  BY <1>15, CodeInduction
<1>17. Answers(After, Code)
  BY <1>16 DEF S, Answers
<1>18. QED
  BY <1>14, <1>17 DEF Body

\* u holds what the first pieces make.
Grows(u, ss) == u[0] = <<>> /\ \A n \in 1..Len(ss) : u[n] = u[n - 1] \o ss[n]
Joined(u, ss, I) == u \in [0..Len(ss) -> Seq(I)] /\ Grows(u, ss)

LEMMA JoinedUnique ==
  ASSUME NEW I, NEW ss, Len(ss) \in Nat, NEW u, NEW w, Joined(u, ss, I), Grows(w, ss)
  PROVE  \A n \in 0..Len(ss) : u[n] = w[n]
<1> DEFINE S == {n \in Nat : n <= Len(ss) => u[n] = w[n]}
<1>1. 0 \in S
  BY DEF Joined, Grows
<1>2. ASSUME NEW n \in Nat, n \in S PROVE n + 1 \in S
  <2>1. CASE n + 1 <= Len(ss)
    <3>1. n + 1 \in 1..Len(ss) /\ (n + 1) - 1 = n
      BY <2>1
    <3>2. u[n + 1] = u[(n + 1) - 1] \o ss[n + 1] /\ w[n + 1] = w[(n + 1) - 1] \o ss[n + 1]
      BY <3>1, Zenon DEF Joined, Grows
    <3>3. u[(n + 1) - 1] = w[(n + 1) - 1]
      BY <1>2, <2>1, <3>1
    <3>4. u[n + 1] = w[n + 1]
      BY <3>2, <3>3, Zenon
    <3>5. QED
      BY <3>4
  <2>2. QED
    BY <2>1
<1>3. \A n \in Nat : n \in S
  <2> HIDE DEF S
  <2>1. QED
    BY <1>1, <1>2, Induction
<1>4. QED
  BY <1>3

LEMMA ConcatJoined ==
  ASSUME NEW I, NEW ss \in Seq(Seq(I))
  PROVE  \E u : Joined(u, ss, I) /\ Concat(ss) = u[Len(ss)]
<1>1. Len(ss) \in Nat /\ \A n \in 1..Len(ss) : ss[n] \in Seq(I)
  BY SeqAt
<1> DEFINE V == Seq(I)
           next == [n \in Nat |-> [s \in V |-> IF n < Len(ss) THEN s \o ss[n + 1] ELSE s]]
<1>2. next \in [Nat -> [V -> V]] /\ <<>> \in V
  <2>1. ASSUME NEW n \in Nat, NEW s \in V PROVE (IF n < Len(ss) THEN s \o ss[n + 1] ELSE s) \in V
    <3>1. CASE n < Len(ss)
      <4>1. n + 1 \in 1..Len(ss)
        BY <3>1, <1>1
      <4>2. ss[n + 1] \in Seq(I)
        BY <4>1, <1>1
      <4>3. QED
        BY <3>1, <4>2
    <3>2. QED
      BY <3>1
  <2>2. QED
    BY <2>1
<1>3. PICK u : CourseTo(u, Len(ss), V, <<>>, next)
  <2> HIDE DEF next, V
  <2>1. QED
    BY <1>1, <1>2, RecursionUpTo
<1>4. u \in [0..Len(ss) -> Seq(I)] /\ u[0] = <<>>
  BY <1>3 DEF CourseTo
<1>5. ASSUME NEW n \in 1..Len(ss) PROVE u[n] = u[n - 1] \o ss[n]
  <2>1. u[n] = next[n - 1][u[n - 1]]
    BY <1>3 DEF CourseTo
  <2>2. n - 1 \in Nat /\ n - 1 < Len(ss) /\ (n - 1) + 1 = n /\ n - 1 \in 0..Len(ss)
    BY <1>1
  <2>0. u[n - 1] \in V
    BY <1>4, <2>2, Zenon
  <2>3. next[n - 1][u[n - 1]] = u[n - 1] \o ss[n]
    BY <2>0, <2>2
  <2> HIDE DEF next
  <2>4. QED
    BY <2>1, <2>3
<1>6. Joined(u, ss, I)
  BY <1>4, <1>5 DEF Joined, Grows
<1> DEFINE w == CHOOSE w : w = [n \in 0..Len(ss) |-> IF n = 0 THEN <<>> ELSE w[n - 1] \o ss[n]]
<1>7. u = [n \in 0..Len(ss) |-> IF n = 0 THEN <<>> ELSE u[n - 1] \o ss[n]]
  <2>1. \A n \in 0..Len(ss) : u[n] = IF n = 0 THEN <<>> ELSE u[n - 1] \o ss[n]
    <3>1. ASSUME NEW n \in 0..Len(ss) PROVE u[n] = IF n = 0 THEN <<>> ELSE u[n - 1] \o ss[n]
      <4>1. CASE n = 0
        BY <4>1, <1>4
      <4>2. CASE n # 0
        <5>1. n \in 1..Len(ss)
          BY <4>2, <1>1
        <5>2. QED
          BY <4>2, <5>1, <1>5
      <4>3. QED
        BY <4>1, <4>2
    <3>2. QED
      BY <3>1
  <2>2. u = [n \in 0..Len(ss) |-> u[n]]
    BY <1>4
  <2>3. QED
    BY <2>1, <2>2
<1>8. w = [n \in 0..Len(ss) |-> IF n = 0 THEN <<>> ELSE w[n - 1] \o ss[n]]
  BY <1>7, Zenon
<1>9. Concat(ss) = w[Len(ss)]
  BY Zenon DEF Concat
<1> HIDE DEF w
<1>10. w[0] = <<>>
  <2>1. 0 \in 0..Len(ss)
    BY <1>1
  <2>2. QED
    BY <2>1, <1>8
<1>11. ASSUME NEW n \in 1..Len(ss) PROVE w[n] = w[n - 1] \o ss[n]
  <2>1. n \in 0..Len(ss) /\ n # 0
    BY <1>1
  <2>2. QED
    BY <2>1, <1>8
<1>12. \A n \in 0..Len(ss) : u[n] = w[n]
  <2>1. Grows(w, ss)
    BY <1>10, <1>11, Zenon DEF Grows
  <2>2. QED
    BY <1>1, <1>6, <2>1, JoinedUnique
<1>13. QED
  BY <1>1, <1>6, <1>9, <1>12

LEMMA ConcatNone == Concat(<<>>) = <<>>
<1>1. <<>> \in Seq(Seq({})) /\ Len(<<>>) = 0
  OBVIOUS
<1>2. PICK u : Joined(u, <<>>, {}) /\ Concat(<<>>) = u[Len(<<>>)]
  BY <1>1, ConcatJoined
<1>3. QED
  BY <1>1, <1>2 DEF Joined, Grows

LEMMA ConcatType ==
  ASSUME NEW I, NEW ss \in Seq(Seq(I))
  PROVE  Concat(ss) \in Seq(I)
<1>1. PICK u : Joined(u, ss, I) /\ Concat(ss) = u[Len(ss)]
  BY ConcatJoined
<1>2. Len(ss) \in 0..Len(ss)
  BY SeqAt
<1>3. QED
  BY <1>1, <1>2 DEF Joined, Grows

Front(ss) == [n \in 1..(Len(ss) - 1) |-> ss[n]]

LEMMA FrontFacts ==
  ASSUME NEW A, NEW ss \in Seq(A), Len(ss) # 0
  PROVE  /\ Front(ss) \in Seq(A) /\ Len(Front(ss)) = Len(ss) - 1 /\ Len(ss) - 1 \in Nat
         /\ \A n \in 1..(Len(ss) - 1) : Front(ss)[n] = ss[n]
         /\ Len(ss) \in 1..Len(ss) /\ ss[Len(ss)] \in A
BY DEF Front

LEMMA ConcatLast ==
  ASSUME NEW I, NEW ss \in Seq(Seq(I)), Len(ss) # 0
  PROVE  Concat(ss) = Concat(Front(ss)) \o ss[Len(ss)]
<1>1. /\ Front(ss) \in Seq(Seq(I)) /\ Len(Front(ss)) = Len(ss) - 1 /\ Len(ss) - 1 \in Nat
      /\ \A n \in 1..(Len(ss) - 1) : Front(ss)[n] = ss[n]
  BY FrontFacts
<1>2. PICK u : Joined(u, ss, I) /\ Concat(ss) = u[Len(ss)]
  BY ConcatJoined
<1>3. PICK w : Joined(w, Front(ss), I) /\ Concat(Front(ss)) = w[Len(ss) - 1]
  BY <1>1, ConcatJoined
<1>4. \A n \in 0..(Len(ss) - 1) : w[n] = u[n]
  <2>1. u[0] = <<>>
    BY <1>2, Zenon DEF Joined, Grows
  <2>2. ASSUME NEW n \in 1..Len(Front(ss)) PROVE u[n] = u[n - 1] \o Front(ss)[n]
    <3>1. n \in 1..Len(ss) /\ n \in 1..(Len(ss) - 1)
      BY <1>1
    <3>2. u[n] = u[n - 1] \o ss[n] /\ Front(ss)[n] = ss[n]
      BY <3>1, <1>1, <1>2, Zenon DEF Joined, Grows
    <3>3. QED
      BY <3>2, Zenon
  <2>3. \A n \in 0..Len(Front(ss)) : w[n] = u[n]
    <3>1. Len(Front(ss)) \in Nat /\ Joined(w, Front(ss), I)
      BY <1>1, <1>3
    <3>2. Grows(u, Front(ss))
      BY <2>1, <2>2, Zenon DEF Grows
    <3>3. QED
      BY <3>1, <3>2, JoinedUnique
  <2>4. QED
    BY <2>3, <1>1
<1>5. u[Len(ss)] = u[Len(ss) - 1] \o ss[Len(ss)]
  <2>1. Len(ss) \in 1..Len(ss)
    BY FrontFacts
  <2>2. QED
    BY <2>1, <1>2, Zenon DEF Joined, Grows
<1>6. w[Len(ss) - 1] = u[Len(ss) - 1]
  BY <1>1, <1>4
<1>7. QED
  BY <1>2, <1>3, <1>5, <1>6, Zenon

LEMMA SeqExt ==
  ASSUME NEW A, NEW s \in Seq(A), NEW t \in Seq(A), Len(s) = Len(t), \A n \in 1..Len(s) : s[n] = t[n]
  PROVE  s = t
OBVIOUS

LEMMA BothFacts ==
  ASSUME NEW A, NEW s \in Seq(A), NEW t \in Seq(A)
  PROVE  /\ s \o t \in Seq(A) /\ Len(s \o t) = Len(s) + Len(t) /\ Len(s) \in Nat /\ Len(t) \in Nat
         /\ \A n \in 1..Len(s) : (s \o t)[n] = s[n]
         /\ \A n \in 1..Len(t) : (s \o t)[Len(s) + n] = t[n]
OBVIOUS

\* s with y in place of its n-th element.
Patched(s, n, y) == [s EXCEPT ![n] = y]

LEMMA PatchedType ==
  ASSUME NEW A, NEW s \in Seq(A), NEW n \in 1..Len(s), NEW y \in A
  PROVE  /\ Patched(s, n, y) \in Seq(A) /\ Len(Patched(s, n, y)) = Len(s)
         /\ Patched(s, n, y)[n] = y
         /\ \A m \in 1..Len(s) : m # n => Patched(s, n, y)[m] = s[m]
BY DEF Patched

LEMMA PatchedLeft ==
  ASSUME NEW A, NEW s \in Seq(A), NEW t \in Seq(A), NEW n \in 1..Len(s), NEW y \in A
  PROVE  n \in 1..Len(s \o t) /\ (s \o t)[n] = s[n] /\ Patched(s \o t, n, y) = Patched(s, n, y) \o t
<1> DEFINE u == s \o t
           p == Patched(s, n, y)
           w == p \o t
           z == Patched(u, n, y)
<1>1. /\ u \in Seq(A) /\ Len(u) = Len(s) + Len(t) /\ Len(s) \in Nat /\ Len(t) \in Nat
      /\ \A m \in 1..Len(s) : u[m] = s[m]
      /\ \A m \in 1..Len(t) : u[Len(s) + m] = t[m]
  BY BothFacts
<1>2. /\ p \in Seq(A) /\ Len(p) = Len(s) /\ p[n] = y
      /\ \A m \in 1..Len(s) : m # n => p[m] = s[m]
  BY PatchedType
<1> HIDE DEF p, u
<1>3. /\ w \in Seq(A) /\ Len(w) = Len(p) + Len(t)
      /\ \A m \in 1..Len(p) : w[m] = p[m]
      /\ \A m \in 1..Len(t) : w[Len(p) + m] = t[m]
  <2>1. p \in Seq(A)
    BY <1>2
  <2>2. QED
    BY <2>1, BothFacts
<1> HIDE DEF w
<1>4. n \in 1..Len(u)
  BY <1>1
<1>5. /\ z \in Seq(A) /\ Len(z) = Len(u) /\ z[n] = y
      /\ \A m \in 1..Len(u) : m # n => z[m] = u[m]
  <2>1. u \in Seq(A)
    BY <1>1
  <2>2. QED
    BY <2>1, <1>4, PatchedType
<1> HIDE DEF z
<1>6. ASSUME NEW m \in 1..Len(z) PROVE z[m] = w[m]
  <2>1. CASE m \in 1..Len(s)
    BY <2>1, <1>1, <1>2, <1>3, <1>5
  <2>2. CASE m \notin 1..Len(s)
    <3>1. PICK l \in 1..Len(t) : m = Len(s) + l
      <4>1. m - Len(s) \in 1..Len(t) /\ m = Len(s) + (m - Len(s))
        BY <2>2, <1>1, <1>5
      <4>2. QED
        BY <4>1
    <3>2. m # n /\ m \in 1..Len(u)
      BY <2>2, <1>5
    <3>3. QED
      BY <3>1, <3>2, <1>1, <1>2, <1>3, <1>5
  <2>3. QED
    BY <2>1, <2>2
<1>7. z = w
  <2>1. Len(z) = Len(w)
    BY <1>1, <1>2, <1>3, <1>5
  <2>2. \A m \in 1..Len(z) : z[m] = w[m]
    BY <1>6
  <2>3. QED
    BY <2>1, <2>2, <1>3, <1>5, SeqExt
<1>8. QED
  BY <1>1, <1>4, <1>7 DEF z, w, u, p

LEMMA PatchedRight ==
  ASSUME NEW A, NEW s \in Seq(A), NEW t \in Seq(A), NEW n \in 1..Len(t), NEW y \in A
  PROVE  /\ Len(s) + n \in 1..Len(s \o t) /\ (s \o t)[Len(s) + n] = t[n]
         /\ Patched(s \o t, Len(s) + n, y) = s \o Patched(t, n, y)
<1> DEFINE u == s \o t
           p == Patched(t, n, y)
           w == s \o p
           k == Len(s) + n
           z == Patched(u, k, y)
<1>1. /\ u \in Seq(A) /\ Len(u) = Len(s) + Len(t) /\ Len(s) \in Nat /\ Len(t) \in Nat
      /\ \A m \in 1..Len(s) : u[m] = s[m]
      /\ \A m \in 1..Len(t) : u[Len(s) + m] = t[m]
  BY BothFacts
<1>2. /\ p \in Seq(A) /\ Len(p) = Len(t) /\ p[n] = y
      /\ \A m \in 1..Len(t) : m # n => p[m] = t[m]
  BY PatchedType
<1> HIDE DEF p, u
<1>3. /\ w \in Seq(A) /\ Len(w) = Len(s) + Len(p)
      /\ \A m \in 1..Len(s) : w[m] = s[m]
      /\ \A m \in 1..Len(p) : w[Len(s) + m] = p[m]
  <2>1. p \in Seq(A)
    BY <1>2
  <2>2. QED
    BY <2>1, BothFacts
<1> HIDE DEF w
<1>4. k \in 1..Len(u) /\ k \notin 1..Len(s)
  BY <1>1
<1> HIDE DEF k
<1>5. /\ z \in Seq(A) /\ Len(z) = Len(u) /\ z[k] = y
      /\ \A m \in 1..Len(u) : m # k => z[m] = u[m]
  <2>1. u \in Seq(A) /\ k \in 1..Len(u)
    BY <1>1, <1>4
  <2>2. QED
    BY <2>1, PatchedType
<1> HIDE DEF z
<1>6. ASSUME NEW m \in 1..Len(z) PROVE z[m] = w[m]
  <2>1. CASE m \in 1..Len(s)
    <3>1. m # k
      BY <2>1, <1>4
    <3>2. QED
      BY <2>1, <3>1, <1>1, <1>3, <1>5
  <2>2. CASE m \notin 1..Len(s)
    <3>1. PICK l \in 1..Len(t) : m = Len(s) + l
      <4>1. m - Len(s) \in 1..Len(t) /\ m = Len(s) + (m - Len(s))
        BY <2>2, <1>1, <1>5
      <4>2. QED
        BY <4>1
    <3>2. w[m] = p[l] /\ u[m] = t[l]
      BY <3>1, <1>1, <1>2, <1>3
    <3>3. CASE l = n
      BY <3>1, <3>2, <3>3, <1>2, <1>5 DEF k
    <3>4. CASE l # n
      <4>1. m # k
        BY <3>1, <3>4, <1>1 DEF k
      <4>2. QED
        BY <3>2, <3>4, <4>1, <1>2, <1>5
    <3>5. QED
      BY <3>3, <3>4
  <2>3. QED
    BY <2>1, <2>2
<1>7. z = w
  <2>1. Len(z) = Len(w)
    BY <1>1, <1>2, <1>3, <1>5
  <2>2. \A m \in 1..Len(z) : z[m] = w[m]
    BY <1>6
  <2>3. QED
    BY <2>1, <2>2, <1>3, <1>5, SeqExt
<1>8. u[k] = t[n]
  BY <1>1 DEF k
<1>9. QED
  BY <1>4, <1>7, <1>8 DEF z, w, u, p, k

Pieces(I) == Seq(Seq(I))

LEMMA PiecesLast ==
  ASSUME NEW I, NEW ss \in Pieces(I), Len(ss) # 0
  PROVE  /\ Front(ss) \in Pieces(I) /\ Len(Front(ss)) = Len(ss) - 1 /\ Len(ss) - 1 \in Nat
         /\ \A n \in 1..(Len(ss) - 1) : Front(ss)[n] = ss[n]
         /\ ss[Len(ss)] \in Seq(I) /\ Concat(Front(ss)) \in Seq(I)
         /\ Concat(ss) = Concat(Front(ss)) \o ss[Len(ss)]
<1>1. /\ Front(ss) \in Pieces(I) /\ Len(Front(ss)) = Len(ss) - 1 /\ Len(ss) - 1 \in Nat
      /\ \A n \in 1..(Len(ss) - 1) : Front(ss)[n] = ss[n]
      /\ ss[Len(ss)] \in Seq(I)
  BY FrontFacts DEF Pieces
<1>2. Concat(Front(ss)) \in Seq(I) /\ Concat(ss) = Concat(Front(ss)) \o ss[Len(ss)]
  BY <1>1, ConcatType, ConcatLast DEF Pieces
<1>3. QED
  BY <1>1, <1>2

LEMMA FrontPatched ==
  ASSUME NEW A, NEW s \in Seq(A), NEW j \in 1..Len(s), NEW p \in A
  PROVE  /\ j = Len(s) => Front(Patched(s, j, p)) = Front(s)
         /\ j # Len(s) => Front(Patched(s, j, p)) = Patched(Front(s), j, p)
<1> DEFINE z == Patched(s, j, p)
<1>1. /\ z \in Seq(A) /\ Len(z) = Len(s) /\ z[j] = p
      /\ \A m \in 1..Len(s) : m # j => z[m] = s[m]
  BY DEF Patched
<1> HIDE DEF z
<1>2. Len(s) \in Nat /\ Len(s) # 0
  BY SeqAt
<1>3. /\ Front(s) \in Seq(A) /\ Len(Front(s)) = Len(s) - 1
      /\ \A n \in 1..(Len(s) - 1) : Front(s)[n] = s[n]
  BY <1>2, FrontFacts
<1>4. /\ Front(z) \in Seq(A) /\ Len(Front(z)) = Len(s) - 1
      /\ \A n \in 1..(Len(s) - 1) : Front(z)[n] = z[n]
  BY <1>1, <1>2, FrontFacts
<1>5. CASE j = Len(s)
  <2>1. \A n \in 1..(Len(s) - 1) : Front(z)[n] = Front(s)[n]
    BY <1>1, <1>2, <1>3, <1>4, <1>5
  <2>2. Front(z) = Front(s)
    BY <2>1, <1>3, <1>4, SeqExt
  <2>3. QED
    BY <2>2, <1>5 DEF z
<1>6. CASE j # Len(s)
  <2> DEFINE h == Front(s)
             f == Patched(h, j, p)
  <2>1. j \in 1..Len(h) /\ h \in Seq(A)
    BY <1>2, <1>3, <1>6
  <2> HIDE DEF h
  <2>2. /\ f \in Seq(A) /\ Len(f) = Len(h) /\ f[j] = p
        /\ \A m \in 1..Len(h) : m # j => f[m] = h[m]
    BY <2>1, PatchedType
  <2> HIDE DEF f
  <2>3. ASSUME NEW n \in 1..(Len(s) - 1) PROVE Front(z)[n] = f[n]
    <3>1. n \in 1..Len(s)
      BY <1>2
    <3>2. QED
      BY <3>1, <1>1, <1>3, <1>4, <2>2 DEF h
  <2>4. Front(z) = f
    BY <2>2, <2>3, <1>3, <1>4, SeqExt DEF h
  <2>5. QED
    BY <2>4, <1>6 DEF z, f, h
<1>7. QED
  BY <1>5, <1>6

LEMMA PiecesPatched ==
  ASSUME NEW I, NEW s \in Pieces(I), NEW j \in 1..Len(s), NEW p \in Seq(I)
  PROVE  LET z == Patched(s, j, p)
         IN  /\ z \in Pieces(I) /\ Len(z) = Len(s) /\ z[j] = p
             /\ \A m \in 1..Len(s) : m # j => z[m] = s[m]
             /\ j = Len(s) => Front(z) = Front(s)
             /\ j # Len(s) => Front(z) = Patched(Front(s), j, p)
<1>1. s \in Seq(Seq(I))
  BY DEF Pieces
<1>2. /\ Patched(s, j, p) \in Seq(Seq(I)) /\ Len(Patched(s, j, p)) = Len(s) /\ Patched(s, j, p)[j] = p
      /\ \A m \in 1..Len(s) : m # j => Patched(s, j, p)[m] = s[m]
  BY <1>1 DEF Patched
<1>3. /\ j = Len(s) => Front(Patched(s, j, p)) = Front(s)
      /\ j # Len(s) => Front(Patched(s, j, p)) = Patched(Front(s), j, p)
  BY <1>1, FrontPatched
<1>4. QED
  BY <1>2, <1>3, Zenon DEF Pieces

\* What holds between the pieces of a sequence, one after the other.
LEMMA ThroughConcat ==
  ASSUME NEW parts, NEW after, Answers(after, parts), NEW ss \in Pieces(InstrForms(parts)),
         NEW J, \A n \in 0..Len(ss) : J[n] \subseteq Knowledge,
         \A n \in 1..Len(ss) : \A q \in J[n - 1] : Through(q, ss[n], after) \in J[n],
         NEW o \in J[0]
  PROVE  Through(o, Concat(ss), after) \in J[Len(ss)]
<1> DEFINE I == InstrForms(parts)
           S == {m \in Nat : \A s \in Pieces(I) :
                    Len(s) = m /\ m <= Len(ss) /\ (\A n \in 1..m : s[n] = ss[n])
                      => Through(o, Concat(s), after) \in J[m]}
<1>1. Len(ss) \in Nat /\ o \in Knowledge
  BY SeqAt DEF Pieces
<1>2. 0 \in S
  <2>1. ASSUME NEW s \in Pieces(I), Len(s) = 0 PROVE Through(o, Concat(s), after) \in J[0]
    <3>1. s = <<>>
      BY <2>1 DEF Pieces
    <3>2. QED
      BY <3>1, <1>1, ConcatNone, ThroughNone
  <2>2. QED
    BY <2>1
<1>3. ASSUME NEW m \in Nat, m \in S PROVE m + 1 \in S
  <2>1. ASSUME NEW s \in Pieces(I), Len(s) = m + 1, m + 1 <= Len(ss), \A n \in 1..(m + 1) : s[n] = ss[n]
        PROVE  Through(o, Concat(s), after) \in J[m + 1]
    <3>1. Len(s) # 0 /\ Len(s) - 1 = m
      BY <2>1
    <3>2. /\ Front(s) \in Pieces(I) /\ Len(Front(s)) = m
          /\ \A n \in 1..m : Front(s)[n] = s[n]
          /\ s[m + 1] \in Seq(I) /\ Concat(Front(s)) \in Seq(I)
          /\ Concat(s) = Concat(Front(s)) \o s[m + 1]
      <4> HIDE DEF I
      <4>1. QED
        BY <2>1, <3>1, PiecesLast
    <3>3. (\A n \in 1..m : Front(s)[n] = ss[n]) /\ m <= Len(ss)
      BY <3>2, <2>1, <1>1
    <3>4. Through(o, Concat(Front(s)), after) \in J[m]
      <4> HIDE DEF I
      <4>1. QED
        BY <1>3, <3>2, <3>3
    <3>5. s[m + 1] = ss[m + 1]
      BY <2>1
    <3>6. Through(o, Concat(s), after) = Through(Through(o, Concat(Front(s)), after), ss[m + 1], after)
      BY <1>1, <3>2, <3>5, ThroughBoth
    <3>7. m + 1 \in 1..Len(ss) /\ (m + 1) - 1 = m
      BY <2>1
    <3>8. QED
      BY <3>4, <3>6, <3>7
  <2>2. QED
    BY <2>1
<1>4. \A m \in Nat : m \in S
  <2> HIDE DEF S
  <2>1. QED
    BY <1>2, <1>3, Induction
<1>5. QED
  BY <1>1, <1>4

\* The n-th element of the concatenation of s is the l-th of the j-th piece.
FromPiece(I, s, n, j, l) ==
    /\ Concat(s)[n] = s[j][l]
    /\ \A y \in I : Patched(Concat(s), n, y) = Concat(Patched(s, j, Patched(s[j], l, y)))
\* Where an element of a concatenation comes from.
LEMMA ConcatIndex ==
  ASSUME NEW I, NEW ss \in Pieces(I), NEW k \in 1..Len(Concat(ss))
  PROVE  \E j \in 1..Len(ss) : \E l \in 1..Len(ss[j]) :
            FromPiece(I, ss, k, j, l)
<1> USE DEF FromPiece
<1> DEFINE From(s, n, j, l) == FromPiece(I, s, n, j, l)
           S == {m \in Nat : \A s \in Pieces(I) : Len(s) = m =>
                    \A n \in 1..Len(Concat(s)) : \E j \in 1..Len(s) : \E l \in 1..Len(s[j]) : From(s, n, j, l)}
<1>1. 0 \in S
  <2>1. ASSUME NEW s \in Pieces(I), Len(s) = 0, NEW n \in 1..Len(Concat(s)) PROVE FALSE
    <3>1. s = <<>>
      BY <2>1 DEF Pieces
    <3>2. Concat(s) = <<>>
      BY <3>1, ConcatNone
    <3>3. QED
      BY <3>2
  <2> HIDE DEF FromPiece
  <2>2. QED
    BY <2>1
<1>2. ASSUME NEW m \in Nat, m \in S PROVE m + 1 \in S
  <2>1. ASSUME NEW s \in Pieces(I), Len(s) = m + 1, NEW n \in 1..Len(Concat(s))
        PROVE  \E j \in 1..Len(s) : \E l \in 1..Len(s[j]) : From(s, n, j, l)
    <3> DEFINE f == Front(s)
               c == Concat(f)
               t == s[m + 1]
    <3>1. Len(s) # 0 /\ Len(s) - 1 = m
      BY <2>1
    <3>2. /\ f \in Pieces(I) /\ Len(f) = m
          /\ \A j \in 1..m : f[j] = s[j]
          /\ t \in Seq(I) /\ c \in Seq(I) /\ Concat(s) = c \o t
      BY <2>1, <3>1, PiecesLast
    <3> HIDE DEF f, c, t
    <3>3. CASE n \in 1..Len(c)
      <4>1. PICK j \in 1..Len(f) : \E l \in 1..Len(f[j]) : From(f, n, j, l)
        <5> HIDE DEF FromPiece
        <5>1. QED
          BY <1>2, <3>2, <3>3 DEF c
      <4>2. PICK l \in 1..Len(f[j]) : From(f, n, j, l)
        BY <4>1
      <4>3. j \in 1..Len(s) /\ f[j] = s[j] /\ j # Len(s)
        BY <2>1, <3>2
      <4>4. f[j] \in Seq(I)
        BY <3>2 DEF Pieces
      <4>5. /\ (c \o t)[n] = c[n]
            /\ \A y \in I : Patched(c \o t, n, y) = Patched(c, n, y) \o t
        <5>1. c \in Seq(I) /\ t \in Seq(I)
          BY <3>2
        <5>2. QED
          BY <5>1, <3>3, PatchedLeft, SMTT(40)
      <4>6. Concat(s)[n] = s[j][l]
        BY <3>2, <4>2, <4>3, <4>5 DEF c
      <4>7. ASSUME NEW y \in I
            PROVE  Patched(Concat(s), n, y) = Concat(Patched(s, j, Patched(s[j], l, y)))
        <5> DEFINE p == Patched(s[j], l, y)
                   z == Patched(s, j, p)
        <5>1. p \in Seq(I)
          BY <4>3, <4>4, PatchedType
        <5>2. /\ z \in Pieces(I) /\ Len(z) = Len(s) /\ z[Len(s)] = t /\ Front(z) = Patched(f, j, p)
          <6> HIDE DEF p
          <6>1. Len(s) \in 1..Len(s) /\ s[Len(s)] = t
            BY <2>1 DEF t
          <6>2. s \in Pieces(I) /\ j \in 1..Len(s) /\ j # Len(s)
            BY <4>3
          <6>3. z \in Pieces(I) /\ Len(z) = Len(s) /\ Front(z) = Patched(Front(s), j, p)
            BY <5>1, <6>2, PiecesPatched
          <6>4. \A i \in 1..Len(s) : i # j => z[i] = s[i]
            BY <5>1, <6>2, PiecesPatched
          <6> HIDE DEF z
          <6>5. QED
            BY <6>1, <6>2, <6>3, <6>4 DEF f
        <5>3. Concat(Patched(f, j, p)) = Patched(c, n, y)
          BY <4>2, <4>3 DEF c
        <5> HIDE DEF z, p
        <5>4. Concat(z) = Concat(Front(z)) \o z[Len(z)]
          <6>1. z \in Pieces(I)
            BY <5>2
          <6>0. Len(z) # 0
            BY <2>1, <5>2
          <6>2. QED
            BY <6>0, <6>1, PiecesLast
        <5>5. Concat(z) = Patched(c \o t, n, y)
          BY <5>2, <5>3, <5>4, <4>5
        <5>6. QED
          BY <3>2, <5>5 DEF z, p
      <4>8. From(s, n, j, l)
        BY <4>6, <4>7
      <4> HIDE DEF FromPiece
      <4>9. QED
        BY <4>2, <4>3, <4>8
    <3>4. CASE n \notin 1..Len(c)
      <4>1. PICK l \in 1..Len(t) : n = Len(c) + l
        <5>1. Len(c \o t) = Len(c) + Len(t) /\ Len(c) \in Nat /\ Len(t) \in Nat
          BY <3>2, BothFacts
        <5>2. n \in 1..(Len(c) + Len(t))
          BY <2>1, <3>2, <5>1
        <5>3. n - Len(c) \in 1..Len(t) /\ n = Len(c) + (n - Len(c))
          BY <5>1, <5>2, <3>4
        <5>4. QED
          BY <5>3
      <4>2. /\ (c \o t)[n] = t[l]
            /\ \A y \in I : Patched(c \o t, n, y) = c \o Patched(t, l, y)
        <5>1. c \in Seq(I) /\ t \in Seq(I) /\ l \in 1..Len(t)
          BY <3>2
        <5>2. /\ (c \o t)[Len(c) + l] = t[l]
              /\ \A y \in I : Patched(c \o t, Len(c) + l, y) = c \o Patched(t, l, y)
          <6>1. ASSUME NEW y \in I
                PROVE  /\ (c \o t)[Len(c) + l] = t[l]
                       /\ Patched(c \o t, Len(c) + l, y) = c \o Patched(t, l, y)
            BY <5>1, PatchedRight, SMTT(40)
          <6>2. (c \o t)[Len(c) + l] = t[l]
            BY <5>1, BothFacts
          <6>3. QED
            BY <6>1, <6>2
        <5>3. QED
          BY <5>2, <4>1
      <4>3. Concat(s)[n] = s[m + 1][l] /\ m + 1 \in 1..Len(s) /\ m + 1 = Len(s)
        BY <2>1, <3>2, <4>2 DEF t
      <4>4. ASSUME NEW y \in I
            PROVE  Patched(Concat(s), n, y) = Concat(Patched(s, m + 1, Patched(s[m + 1], l, y)))
        <5> DEFINE p == Patched(t, l, y)
                   z == Patched(s, m + 1, p)
        <5>1. p \in Seq(I)
          BY <3>2, PatchedType
        <5> HIDE DEF p
        <5>2. z \in Pieces(I) /\ Len(z) = Len(s) /\ z[Len(s)] = p /\ Front(z) = f /\ Len(z) # 0
          BY <2>1, <4>3, <5>1, PiecesPatched DEF f
        <5> HIDE DEF z
        <5>3. Concat(z) = Concat(Front(z)) \o z[Len(z)]
          BY <2>1, <5>2, PiecesLast
        <5>4. Concat(z) = Patched(c \o t, n, y)
          BY <5>2, <5>3, <4>2 DEF c, p
        <5>5. QED
          BY <3>2, <5>4 DEF z, p, t
      <4>5. From(s, n, m + 1, l)
        BY <4>3, <4>4
      <4>6. l \in 1..Len(s[m + 1])
        BY DEF t
      <4> HIDE DEF FromPiece
      <4>7. QED
        BY <4>3, <4>5, <4>6
    <3>5. QED
      BY <3>3, <3>4
  <2> HIDE DEF FromPiece
  <2>2. QED
    BY <2>1
<1>3. \A m \in Nat : m \in S
  <2> HIDE DEF S
  <2>1. QED
    BY <1>1, <1>2, Induction
<1>4. \E j \in 1..Len(ss) : \E l \in 1..Len(ss[j]) : From(ss, k, j, l)
  <2> HIDE DEF FromPiece
  <2>1. Len(ss) \in Nat
    BY SeqAt DEF Pieces
  <2>2. QED
    BY <1>3, <2>1
<1>5. QED
  BY <1>4

-----------------------------------------------------------------------------
(* Holders of references                                                   *)

\* A holder is a variable with a number, which tells the references apart that
\* one variable holds.
Holders(H) == IsFiniteSet(H) /\ H \subseteq Names \X Nat
\* The holders of references to what r names.
Of(o, H, r) == {h \in H : o.root[h[1]] = r}
\* What the roots own when these hold one reference each.
Owed(o, H) == [r \in Names |-> IF r \in o.unboxed THEN 0 ELSE Cardinality(Of(o, H, r))]
Counts(o, H) == Holders(H) /\ o.own = Owed(o, H)
\* Nothing but the references changed, and nothing was wrong.
Quiet(o, q) == OnlyOwn(o, q) /\ q.faults = o.faults

Tag(S) == S \X {0}

LEMMA OfFinite ==
  ASSUME NEW o \in Knowledge, NEW H, Holders(H), NEW r
  PROVE  /\ Of(o, H, r) \subseteq H /\ IsFiniteSet(Of(o, H, r)) /\ Cardinality(Of(o, H, r)) \in Nat
<1>1. Of(o, H, r) \in SUBSET H
  BY DEF Of
<1>2. IsFiniteSet(Of(o, H, r))
  BY <1>1, FS_Subset DEF Holders
<1>3. QED
  BY <1>1, <1>2, FS_CardinalityType

LEMMA TagHolders ==
  ASSUME NEW S, S \subseteq Names
  PROVE  Holders(Tag(S)) /\ IsFiniteSet(S) /\ Cardinality(S) \in Nat
<1>1. IsFiniteSet(S)
  BY FS_Subset, CodeAssumption
<1>2. IsFiniteSet({0})
  BY FS_Singleton
<1>3. IsFiniteSet(S \X {0})
  BY <1>1, <1>2, FS_Product
<1>4. QED
  BY <1>1, <1>3, FS_CardinalityType DEF Holders, Tag

LEMMA OwedType ==
  ASSUME NEW o \in Knowledge, NEW H, Holders(H)
  PROVE  Owed(o, H) \in [Names -> Nat]
BY OfFinite DEF Owed

\* Somebody holds it.
LEMMA HeldOwned ==
  ASSUME NEW o \in Knowledge, NEW H, Counts(o, H), NEW h \in H, o.root[h[1]] \notin o.unboxed
  PROVE  o.own[o.root[h[1]]] > 0
<1> DEFINE r == o.root[h[1]]
<1>1. h[1] \in Names /\ r \in Names
  BY DEF Counts, Holders, Knowledge
<1>2. h \in Of(o, H, r)
  BY DEF Of
<1>3. IsFiniteSet(Of(o, H, r)) /\ Cardinality(Of(o, H, r)) \in Nat
  BY OfFinite DEF Counts
<1>4. Cardinality(Of(o, H, r)) # 0
  BY <1>2, <1>3, FS_EmptySet
<1>5. o.own[r] = Cardinality(Of(o, H, r))
  BY <1>1 DEF Counts, Owed
<1> HIDE DEF r
<1>6. QED
  BY <1>3, <1>4, <1>5 DEF r

\* The holders count the same where the roots and what is unboxed are the same.
LEMMA OwedSame ==
  ASSUME NEW o \in Knowledge, NEW q \in Knowledge, NEW H, Holders(H),
         \A h \in H : /\ q.root[h[1]] = o.root[h[1]]
                      /\ q.root[h[1]] \in q.unboxed <=> o.root[h[1]] \in o.unboxed
  PROVE  Owed(q, H) = Owed(o, H)
<1>1. ASSUME NEW r \in Names
      PROVE  (IF r \in q.unboxed THEN 0 ELSE Cardinality(Of(q, H, r))) =
             (IF r \in o.unboxed THEN 0 ELSE Cardinality(Of(o, H, r)))
  <2>1. Of(q, H, r) = Of(o, H, r)
    BY DEF Of
  <2>2. CASE Of(o, H, r) = {}
    <3>1. Cardinality(Of(o, H, r)) = 0
      BY <2>2, FS_EmptySet
    <3>2. QED
      BY <2>1, <3>1
  <2>3. CASE Of(o, H, r) # {}
    <3>1. r \in q.unboxed <=> r \in o.unboxed
      BY <2>3 DEF Of
    <3>2. QED
      BY <2>1, <3>1
  <2>4. QED
    BY <2>2, <2>3
<1>2. QED
  BY <1>1 DEF Owed

\* Those who hold nothing do not count.
LEMMA OwedUnboxed ==
  ASSUME NEW o \in Knowledge, NEW H, NEW K,
         \A h \in (H \ K) \cup (K \ H) : o.root[h[1]] \in o.unboxed
  PROVE  Owed(o, H) = Owed(o, K)
<1>1. ASSUME NEW r \in Names, r \notin o.unboxed PROVE Of(o, H, r) = Of(o, K, r)
  BY <1>1 DEF Of
<1>2. QED
  BY <1>1 DEF Owed

\* The same reference under another name.
LEMMA OwedRenamed ==
  ASSUME NEW o \in Knowledge, NEW H, Holders(H), NEW h \in H, NEW k, k \notin H, o.root[k[1]] = o.root[h[1]]
  PROVE  Owed(o, (H \ {h}) \cup {k}) = Owed(o, H)
<1> DEFINE K == (H \ {h}) \cup {k}
<1>1. ASSUME NEW r \in Names PROVE Cardinality(Of(o, K, r)) = Cardinality(Of(o, H, r))
  <2>1. IsFiniteSet(Of(o, H, r)) /\ Cardinality(Of(o, H, r)) \in Nat
    BY OfFinite
  <2>2. CASE o.root[h[1]] = r
    <3> DEFINE less == Of(o, H, r) \ {h}
    <3>1. h \in Of(o, H, r) /\ k \notin less
      BY <2>2 DEF Of
    <3>2. Of(o, K, r) = less \cup {k}
      BY <2>2 DEF Of
    <3>3. IsFiniteSet(less) /\ Cardinality(less) = Cardinality(Of(o, H, r)) - 1
      BY <2>1, <3>1, FS_RemoveElement
    <3> HIDE DEF less
    <3>4. Cardinality(less \cup {k}) = Cardinality(less) + 1
      BY <3>1, <3>3, FS_AddElement
    <3> HIDE DEF K
    <3>5. QED
      BY <2>1, <3>2, <3>3, <3>4
  <2>3. CASE o.root[h[1]] # r
    <3>1. Of(o, K, r) = Of(o, H, r)
      BY <2>3 DEF Of
    <3>2. QED
      BY <3>1
  <2>4. QED
    BY <2>2, <2>3
<1> HIDE DEF K
<1>2. Owed(o, K) = Owed(o, H)
  BY <1>1 DEF Owed
<1>3. QED
  BY <1>2 DEF K

-----------------------------------------------------------------------------
(* What dups, drops and uses do to the holders                             *)

LEMMA ListedFacts ==
  ASSUME NEW S, IsFiniteSet(S)
  PROVE  /\ Listed(S) \in [1..Cardinality(S) -> S] /\ Cardinality(S) \in Nat
         /\ \A i, j \in 1..Cardinality(S) : Listed(S)[i] = Listed(S)[j] => i = j
         /\ {Listed(S)[i] : i \in 1..Cardinality(S)} = S
<1>1. Bijection(1..Cardinality(S), S) # {} /\ Cardinality(S) \in Nat
  BY FS_CardinalityType DEF ExistsBijection
<1>2. Listed(S) \in Bijection(1..Cardinality(S), S)
  BY <1>1, Zenon DEF Listed
<1>3. /\ Listed(S) \in [1..Cardinality(S) -> S]
      /\ \A i, j \in 1..Cardinality(S) : Listed(S)[i] = Listed(S)[j] => i = j
      /\ \A v \in S : \E i \in 1..Cardinality(S) : Listed(S)[i] = v
  BY <1>2, Zenon DEF Bijection, Injection, Surjection, IsInjective
<1>4. QED
  BY <1>1, <1>3

\* Each operand moves a reference of a holder of its own.
Moves(o, as, H, f) ==
    /\ f \in [DOMAIN as -> H]
    /\ \A i, j \in DOMAIN as : f[i] = f[j] => i = j
    /\ \A i \in DOMAIN as : o.root[f[i][1]] = o.root[as[i]]
Moved(as, f) == {f[i] : i \in DOMAIN as}

LEMMA ConsumeCounts ==
  ASSUME NEW o \in Knowledge, NEW as \in Seq(Names), NEW H, Counts(o, H), NEW f, Moves(o, as, H, f)
  PROVE  Quiet(o, Consume(o, as)) /\ Counts(Consume(o, as), H \ Moved(as, f))
<1> DEFINE q == Consume(o, as)
           M == Moved(as, f)
<1>1. /\ q \in Knowledge
      /\ \A r \in Names : q.own[r] = o.own[r] - Cardinality(Uses(o, as, r))
      /\ q.faults = o.faults \cup {r \in Names : o.own[r] < Cardinality(Uses(o, as, r))}
      /\ OnlyOwn(o, q)
  BY ConsumeFacts
<1> HIDE DEF q
<1>2. M \subseteq H
  <2>1. \A i \in DOMAIN as : f[i] \in H
    BY DEF Moves
  <2>2. QED
    BY <2>1 DEF Moved
<1>3. Holders(H) /\ Holders(H \ M)
  BY FS_Difference DEF Counts, Holders
<1>4. ASSUME NEW r \in Names
      PROVE  /\ Cardinality(Uses(o, as, r)) <= o.own[r]
             /\ q.own[r] = IF r \in o.unboxed THEN 0 ELSE Cardinality(Of(o, H \ M, r))
  <2>1. IsFiniteSet(Uses(o, as, r)) /\ Cardinality(Uses(o, as, r)) \in Nat
    BY UsesType
  <2>0. q.own[r] = o.own[r] - Cardinality(Uses(o, as, r))
    BY <1>1
  <2>2. CASE r \in o.unboxed
    <3>1. Uses(o, as, r) = {}
      BY <2>2 DEF Uses
    <3>2. Cardinality(Uses(o, as, r)) = 0
      BY <3>1, FS_EmptySet
    <3>3. o.own[r] = 0
      BY <2>2 DEF Counts, Owed
    <3>4. QED
      BY <3>2, <3>3, <2>2, <2>0
  <2>3. CASE r \notin o.unboxed
    <3> DEFINE U == Uses(o, as, r)
               P == Of(o, H, r) \cap M
               g == [i \in U |-> f[i]]
    <3>1. g \in Bijection(U, P)
      <4>1. ASSUME NEW i \in U PROVE g[i] \in P
        <5>1. i \in DOMAIN as /\ o.root[as[i]] = r
          BY DEF Uses
        <5>2. f[i] \in H /\ f[i] \in M /\ o.root[f[i][1]] = r
          BY <5>1 DEF Moved, Moves
        <5>3. QED
          BY <5>2 DEF Of
      <4>2. \A i, j \in U : g[i] = g[j] => i = j
        BY DEF Uses, Moves
      <4>3. ASSUME NEW h \in P PROVE \E i \in U : g[i] = h
        <5>1. PICK i \in DOMAIN as : h = f[i]
          BY DEF Moved
        <5>2. o.root[as[i]] = r
          BY <5>1 DEF Of, Moves
        <5>3. i \in U
          BY <5>1, <5>2, <2>3 DEF Uses
        <5>4. QED
          BY <5>1, <5>3
      <4>4. g \in [U -> P]
        BY <4>1
      <4> HIDE DEF g, U, P
      <4>5. QED
        BY <4>2, <4>3, <4>4, Zenon DEF Bijection, Injection, Surjection, IsInjective
    <3>2. Cardinality(P) = Cardinality(U)
      <4>1. IsFiniteSet(U) /\ ExistsBijection(U, P)
        BY <2>1, <3>1 DEF ExistsBijection
      <4> HIDE DEF U, P, g
      <4>2. QED
        BY <4>1, FS_Bijection
    <3>3. Of(o, H \ M, r) = Of(o, H, r) \ M
      BY DEF Of
    <3>4. IsFiniteSet(Of(o, H, r)) /\ Cardinality(Of(o, H, r)) \in Nat
      BY <1>3, OfFinite
    <3>5. Cardinality(Of(o, H, r) \ M) = Cardinality(Of(o, H, r)) - Cardinality(P)
      BY <3>4, FS_Difference
    <3>6. Cardinality(Of(o, H, r) \ M) \in Nat
      BY <3>4, FS_Difference, FS_CardinalityType
    <3>7. o.own[r] = Cardinality(Of(o, H, r))
      BY <2>3 DEF Counts, Owed
    <3> HIDE DEF P, g, M
    <3> DEFINE a == o.own[r]
               c == Cardinality(U)
               d == Cardinality(Of(o, H, r) \ M)
               all == Cardinality(Of(o, H, r))
               p == Cardinality(P)
    <3>12. all \in Nat /\ c \in Nat /\ d \in Nat /\ d = all - p /\ p = c /\ a = all
      BY <2>1, <3>2, <3>4, <3>5, <3>6, <3>7, Zenon
    <3> HIDE DEF a, c, d, all, p
    <3>8. a = d + c /\ c \in Nat /\ d \in Nat /\ a \in Nat
      BY <3>12
    <3>9. q.own[r] = a - c /\ d = Cardinality(Of(o, H \ M, r))
      BY <2>0, <3>3, Zenon DEF a, c, d
    <3>10. c <= a /\ q.own[r] = d
      BY <3>8, <3>9
    <3>11. QED
      BY <3>9, <3>10, <2>3 DEF a, c, U
  <2>4. QED
    BY <2>2, <2>3
<1>5. q.faults = o.faults
  <2>1. \A r \in Names : ~(o.own[r] < Cardinality(Uses(o, as, r)))
    <3>1. ASSUME NEW r \in Names PROVE ~(o.own[r] < Cardinality(Uses(o, as, r)))
      <4>1. o.own[r] \in Int /\ Cardinality(Uses(o, as, r)) \in Nat
        BY UsesType DEF Knowledge
      <4>2. Cardinality(Uses(o, as, r)) <= o.own[r]
        BY <1>4
      <4> DEFINE a == o.own[r]
                 c == Cardinality(Uses(o, as, r))
      <4>3. a \in Int /\ c \in Nat /\ c <= a
        BY <4>1, <4>2, Zenon
      <4> HIDE DEF a, c
      <4>4. ~(a < c)
        BY <4>3
      <4>5. QED
        BY <4>4 DEF a, c
    <3>2. QED
      BY <3>1
  <2>2. QED
    BY <2>1, <1>1
<1>6. q.own = Owed(q, H \ M)
  <2>1. q.own \in [Names -> Int] /\ q.unboxed = o.unboxed /\ q.root = o.root
    BY <1>1 DEF Knowledge, OnlyOwn
  <2>2. \A r : Of(q, H \ M, r) = Of(o, H \ M, r)
    BY <2>1 DEF Of
  <2>3. \A r \in Names : q.own[r] = IF r \in q.unboxed THEN 0 ELSE Cardinality(Of(q, H \ M, r))
    BY <2>1, <2>2, <1>4
  <2> HIDE DEF M
  <2>4. QED
    BY <2>1, <2>3 DEF Owed
<1>7. QED
  BY <1>1, <1>3, <1>5, <1>6 DEF Quiet, Counts, q

\* A reference of the root of h can be had.
Backed(o, H, h) ==
    \E g \in H : /\ o.root[g[1]] \notin o.unboxed
                 /\ o.root[g[1]] \in {o.root[h[1]], o.lender[o.root[h[1]]]}

LEMMA GainCounts ==
  ASSUME NEW o \in Knowledge, NEW H, Counts(o, H), NEW h \in Names \X Nat, h \notin H,
         o.root[h[1]] \notin o.unboxed => Backed(o, H, h)
  PROVE  Quiet(o, Gain(o, h[1])) /\ Counts(Gain(o, h[1]), H \cup {h}) /\ Gain(o, h[1]) \in Knowledge
<1> DEFINE v == h[1]
           K == H \cup {h}
           s == o.root[v]
           q == Gain(o, v)
<1>1. v \in Names /\ s \in Names
  BY DEF Knowledge
<1>2. Holders(H) /\ Holders(K)
  BY FS_AddElement DEF Holders, Counts
<1>3. q \in Knowledge /\ OnlyOwn(o, q)
  BY <1>1, GainFacts
<1>4. \A r : Of(q, K, r) = Of(o, K, r)
  BY <1>3 DEF Of, OnlyOwn
<1>5. \A r : r # s => Of(o, K, r) = Of(o, H, r)
  BY DEF Of
<1>6. CASE s \in o.unboxed
  <2>1. q = o
    BY <1>6, <1>1, GainFacts
  <2>2. Owed(o, K) = Owed(o, H)
    BY <1>5, <1>6 DEF Owed
  <2>3. QED
    BY <2>1, <2>2, <1>2 DEF Quiet, OnlyOwn, Counts
<1>7. CASE s \notin o.unboxed
  <2>1. /\ q.own = [o.own EXCEPT ![s] = @ + 1]
        /\ q.faults = IF o.own[s] <= 0 /\ o.own[o.lender[s]] <= 0 THEN o.faults \cup {v} ELSE o.faults
    BY <1>1, <1>7, GainFacts
  <2>2. Of(o, K, s) = Of(o, H, s) \cup {h} /\ h \notin Of(o, H, s)
    BY DEF Of
  <2>3. IsFiniteSet(Of(o, H, s)) /\ Cardinality(Of(o, H, s)) \in Nat
    BY <1>2, OfFinite
  <2>4. Cardinality(Of(o, K, s)) = Cardinality(Of(o, H, s)) + 1
    BY <2>2, <2>3, FS_AddElement
  <2>5. o.own[s] = Cardinality(Of(o, H, s))
    BY <1>1, <1>7 DEF Counts, Owed
  <2>6. o.own \in [Names -> Int] /\ o.own = Owed(o, H)
    BY DEF Knowledge, Counts
  <2>7. q.unboxed = o.unboxed
    BY <1>3 DEF OnlyOwn
  <2>8. ASSUME NEW r \in Names
        PROVE  q.own[r] = IF r \in q.unboxed THEN 0 ELSE Cardinality(Of(q, K, r))
    <3>1. CASE r = s
      <4>1. q.own[s] = o.own[s] + 1
        BY <2>1, <2>6, <1>1
      <4>2. Of(q, K, r) = Of(o, K, s)
        BY <1>4, <3>1
      <4> HIDE DEF q, K, s, v
      <4>3. QED
        BY <3>1, <4>1, <4>2, <2>4, <2>5, <2>7, <1>7
    <3>2. CASE r # s
      <4>1. q.own[r] = o.own[r]
        BY <2>1, <2>6, <1>1, <3>2
      <4>2. o.own[r] = IF r \in o.unboxed THEN 0 ELSE Cardinality(Of(o, H, r))
        BY <2>6 DEF Owed
      <4>3. Of(q, K, r) = Of(o, H, r)
        BY <1>4, <1>5, <3>2
      <4> HIDE DEF q, K, s, v
      <4>4. QED
        BY <4>1, <4>2, <4>3, <2>7
    <3>3. QED
      BY <3>1, <3>2
  <2>9. q.own = Owed(q, K)
    <3>1. q.own \in [Names -> Int]
      BY <1>3 DEF Knowledge
    <3> HIDE DEF q, K, s, v
    <3>2. QED
      BY <2>8, <3>1 DEF Owed
  <2>10. o.own[s] > 0 \/ o.own[o.lender[s]] > 0
    <3>1. PICK g \in H : o.root[g[1]] \notin o.unboxed /\ o.root[g[1]] \in {s, o.lender[s]}
      BY <1>7 DEF Backed
    <3>2. o.own[o.root[g[1]]] > 0
      BY <3>1, HeldOwned
    <3>3. QED
      BY <3>1, <3>2
  <2>11. q.faults = o.faults
    <3>1. o.own[s] \in Int /\ o.own[o.lender[s]] \in Int
      BY <1>1 DEF Knowledge
    <3>2. QED
      BY <2>1, <2>10, <3>1
  <2>12. QED
    BY <2>9, <2>11, <1>2, <1>3 DEF Quiet, Counts
<1>8. QED
  BY <1>6, <1>7

Run(o, is) == Through(o, is, After)

LEMMA RunFacts ==
  ASSUME NEW o \in Knowledge
  PROVE  /\ Run(o, <<>>) = o
         /\ \A i \in Items : Run(o, <<i>>) = Step(o, i, After) /\ Step(o, i, After) \in Knowledge
         /\ \A s \in Seq(Items) : Run(o, s) \in Knowledge
         /\ \A s, t \in Seq(Items) : Run(o, s \o t) = Run(Run(o, s), t)
<1>1. Answers(After, Code)
  BY AfterType
<1>2. Run(o, <<>>) = o
  BY <1>1, ThroughNone DEF Run
<1>3. \A i \in Items : Run(o, <<i>>) = Step(o, i, After) /\ Step(o, i, After) \in Knowledge
  BY <1>1, ThroughOne, StepType DEF Run, Items
<1>4. \A s \in Seq(Items) : Run(o, s) \in Knowledge
  BY <1>1, ThroughType DEF Run, Items
<1>5. \A s, t \in Seq(Items) : Run(o, s \o t) = Run(Run(o, s), t)
  BY <1>1, ThroughBoth DEF Run, Items
<1>6. QED
  BY <1>2, <1>3, <1>4, <1>5

\* What holds between the instructions, one after the other.
LEMMA RunSteps ==
  ASSUME NEW is \in Seq(Items), NEW J, \A n \in 0..Len(is) : J[n] \subseteq Knowledge,
         \A n \in 1..Len(is) : \A q \in J[n - 1] : Step(q, is[n], After) \in J[n],
         NEW o \in J[0]
  PROVE  Run(o, is) \in J[Len(is)]
<1>1. Answers(After, Code) /\ o \in Knowledge /\ Len(is) \in Nat
  BY AfterType
<1>2. PICK know : Walk(know, o, is, After) /\ Through(o, is, After) = know[Len(is)]
  BY <1>1, ThroughWalk DEF Items
<1> DEFINE S == {m \in Nat : m <= Len(is) => know[m] \in J[m]}
<1>3. 0 \in S
  BY <1>2 DEF Walk
<1>4. ASSUME NEW m \in Nat, m \in S PROVE m + 1 \in S
  <2>1. CASE m + 1 <= Len(is)
    <3>1. m + 1 \in 1..Len(is) /\ (m + 1) - 1 = m /\ know[m] \in J[m]
      BY <2>1, <1>1, <1>4
    <3>2. know[m + 1] = Step(know[m], is[m + 1], After)
      BY <3>1, <1>2 DEF Walk
    <3>3. QED
      BY <3>1, <3>2
  <2>2. CASE ~(m + 1 <= Len(is))
    BY <2>2
  <2>3. QED
    BY <2>1, <2>2
<1>5. \A m \in Nat : m \in S
  <2> HIDE DEF S
  <2>1. QED
    BY <1>3, <1>4, Induction
<1>6. QED
  BY <1>1, <1>2, <1>5 DEF Run

LEMMA QuietOn ==
  /\ \A o : Quiet(o, o)
  /\ \A o, p, q : Quiet(o, p) /\ Quiet(p, q) => Quiet(o, q)
BY DEF Quiet, OnlyOwn

LEMMA StepDup ==
  ASSUME NEW o, NEW v
  PROVE  Step(o, DupOf(v), After) = Gain(o, v)
BY DEF Step, DupOf

LEMMA StepDrop ==
  ASSUME NEW o, NEW v
  PROVE  Step(o, DropOf(v), After) = Consume(o, <<v>>)
BY DEF Step, DropOf

\* n dups give references to as many new holders f[i].
Dupping(o, H, n, f, is) ==
    /\ n \in Nat /\ f \in [1..n -> Names \X Nat] /\ is \in Seq(Items) /\ Len(is) = n
    /\ \A i, j \in 1..n : f[i] = f[j] => i = j
    /\ \A i \in 1..n : /\ is[i] = DupOf(f[i][1]) /\ f[i] \notin H
                       /\ o.root[f[i][1]] \notin o.unboxed => Backed(o, H, f[i])

LEMMA DupsRun ==
  ASSUME NEW o \in Knowledge, NEW H, Counts(o, H), NEW n, NEW f, NEW is, Dupping(o, H, n, f, is)
  PROVE  /\ Run(o, is) \in Knowledge /\ Quiet(o, Run(o, is))
         /\ Counts(Run(o, is), H \cup {f[i] : i \in 1..n})
<1> DEFINE K(m) == H \cup {f[i] : i \in 1..m}
           J == [m \in 0..n |-> {q \in Knowledge : Quiet(o, q) /\ Counts(q, K(m))}]
<1>0. n \in Nat /\ is \in Seq(Items) /\ Len(is) = n
  BY DEF Dupping
<1>1. o \in J[0]
  <2>1. K(0) = H
    OBVIOUS
  <2> HIDE DEF K
  <2>2. QED
    BY <2>1, <1>0, QuietOn
<1>2. ASSUME NEW m \in 1..n, NEW q \in J[m - 1] PROVE Step(q, is[m], After) \in J[m]
  <2>1. m - 1 \in 0..n /\ m \in 0..n
    BY <1>0
  <2>2. q \in Knowledge /\ Quiet(o, q) /\ Counts(q, K(m - 1))
    BY <2>1
  <2>3. /\ f[m] \in Names \X Nat /\ is[m] = DupOf(f[m][1]) /\ f[m] \notin H
        /\ o.root[f[m][1]] \notin o.unboxed => Backed(o, H, f[m])
    BY DEF Dupping
  <2>4. f[m] \notin K(m - 1)
    <3>1. \A i \in 1..(m - 1) : f[i] # f[m]
      BY <1>0 DEF Dupping
    <3>2. QED
      BY <3>1, <2>3
  <2>5. q.root[f[m][1]] \notin q.unboxed => Backed(q, K(m - 1), f[m])
    <3>1. q.root = o.root /\ q.unboxed = o.unboxed /\ q.lender = o.lender
      BY <2>2 DEF Quiet, OnlyOwn
    <3>2. H \subseteq K(m - 1)
      OBVIOUS
    <3> HIDE DEF K, J
    <3>3. QED
      BY <3>1, <3>2, <2>3 DEF Backed
  <2>6. K(m - 1) \cup {f[m]} = K(m)
    <3>1. 1..m = (1..(m - 1)) \cup {m}
      BY <1>0
    <3>2. QED
      BY <3>1
  <2> HIDE DEF K
  <2>7. /\ Quiet(q, Gain(q, f[m][1])) /\ Counts(Gain(q, f[m][1]), K(m - 1) \cup {f[m]})
        /\ Gain(q, f[m][1]) \in Knowledge
    <3>1. q \in Knowledge /\ Counts(q, K(m - 1)) /\ f[m] \in Names \X Nat
      BY <2>2, <2>3
    <3> HIDE DEF J
    <3>2. QED
      BY <3>1, <2>4, <2>5, GainCounts
  <2>8. Step(q, is[m], After) = Gain(q, f[m][1])
    BY <2>3, StepDup
  <2>9. QED
    BY <2>1, <2>2, <2>6, <2>7, <2>8, QuietOn
<1>3. \A m \in 0..Len(is) : J[m] \subseteq Knowledge
  BY <1>0
<1>4. Run(o, is) \in J[n]
  <2> HIDE DEF J
  <2>1. QED
    BY <1>0, <1>1, <1>2, <1>3, RunSteps
<1>5. n \in 0..n
  BY <1>0
<1> HIDE DEF K
<1>6. Run(o, is) \in Knowledge /\ Quiet(o, Run(o, is)) /\ Counts(Run(o, is), K(n))
  BY <1>4, <1>5
<1>7. QED
  BY <1>6 DEF K

\* Dropping those in D, which hold a reference each.
LEMMA DropsRun ==
  ASSUME NEW o \in Knowledge, NEW H, Counts(o, H), NEW D, D \subseteq Names, Tag(D) \subseteq H
  PROVE  /\ Drops(D) \in Seq(Items)
         /\ Run(o, Drops(D)) \in Knowledge /\ Quiet(o, Run(o, Drops(D)))
         /\ Counts(Run(o, Drops(D)), H \ Tag(D))
<1> DEFINE n == Cardinality(D)
           f == Listed(D)
           K(m) == H \ Tag({f[i] : i \in 1..m})
           J == [m \in 0..n |-> {q \in Knowledge : Quiet(o, q) /\ Counts(q, K(m))}]
           is == Drops(D)
<1>1. /\ n \in Nat /\ f \in [1..n -> D] /\ (\A i, j \in 1..n : f[i] = f[j] => i = j)
      /\ {f[i] : i \in 1..n} = D
  BY TagHolders, ListedFacts
<1>2. is = [i \in 1..n |-> DropOf(f[i])]
  BY DEF Drops
<1> HIDE DEF n, f
<1>3. is \in Seq(Items) /\ Len(is) = n /\ \A i \in 1..n : is[i] = DropOf(f[i])
  <2>1. \A i \in 1..n : DropOf(f[i]) \in Items
    BY <1>1, InstrMade DEF Items
  <2> HIDE DEF is
  <2>2. QED
    BY <1>1, <1>2, <2>1
<1> HIDE DEF is
<1>4. o \in J[0]
  <2>1. {f[i] : i \in 1..0} = {}
    OBVIOUS
  <2>2. K(0) = H
    BY <2>1 DEF Tag
  <2> HIDE DEF K
  <2>3. QED
    BY <2>2, <1>1, QuietOn
<1>5. ASSUME NEW m \in 1..n, NEW q \in J[m - 1] PROVE Step(q, is[m], After) \in J[m]
  <2>1. m - 1 \in 0..n /\ m \in 0..n
    BY <1>1
  <2>2. q \in Knowledge /\ Quiet(o, q) /\ Counts(q, K(m - 1))
    BY <2>1
  <2> DEFINE v == f[m]
             h == <<v, 0>>
             g == [i \in {1} |-> h]
  <2>3. v \in D /\ v \in Names
    BY <1>1
  <2>4. h \in K(m - 1)
    <3>1. \A i \in 1..(m - 1) : f[i] # v
      BY <1>1
    <3>2. h \in H
      BY <2>3 DEF Tag
    <3>3. QED
      BY <3>1, <3>2 DEF Tag
  <2>5. Moves(q, <<v>>, K(m - 1), g)
    <3>1. DOMAIN <<v>> = {1} /\ <<v>>[1] = v
      OBVIOUS
    <3> HIDE DEF K
    <3>2. QED
      BY <3>1, <2>4 DEF Moves
  <2>6. Moved(<<v>>, g) = {h}
    <3>1. DOMAIN <<v>> = {1}
      OBVIOUS
    <3>2. QED
      BY <3>1 DEF Moved
  <2>7. K(m - 1) \ {h} = K(m)
    <3>1. 1..m = (1..(m - 1)) \cup {m}
      BY <1>1
    <3>2. {f[i] : i \in 1..m} = {f[i] : i \in 1..(m - 1)} \cup {v}
      BY <3>1
    <3>3. QED
      BY <3>2 DEF Tag
  <2> HIDE DEF K, v, g, h
  <2>8. Quiet(q, Consume(q, <<v>>)) /\ Counts(Consume(q, <<v>>), K(m)) /\ Consume(q, <<v>>) \in Knowledge
    <3>1. <<v>> \in Seq(Names)
      BY <2>3
    <3>2. q \in Knowledge /\ Counts(q, K(m - 1))
      BY <2>2
    <3> HIDE DEF J
    <3>3. Quiet(q, Consume(q, <<v>>)) /\ Counts(Consume(q, <<v>>), K(m - 1) \ Moved(<<v>>, g))
      BY <3>1, <3>2, <2>5, ConsumeCounts
    <3>4. Consume(q, <<v>>) \in Knowledge
      BY <3>1, <3>2, ConsumeFacts
    <3>5. QED
      BY <3>3, <3>4, <2>6, <2>7
  <2>9. Step(q, is[m], After) = Consume(q, <<v>>)
    BY <1>3, StepDrop DEF v
  <2>10. QED
    BY <2>1, <2>2, <2>8, <2>9, QuietOn
<1>6. \A m \in 0..Len(is) : J[m] \subseteq Knowledge
  BY <1>3
<1>7. Run(o, is) \in J[n]
  <2> HIDE DEF J
  <2>1. QED
    BY <1>3, <1>4, <1>5, <1>6, RunSteps
<1>8. n \in 0..n
  BY <1>1
<1> HIDE DEF K
<1>9. Run(o, is) \in Knowledge /\ Quiet(o, Run(o, is)) /\ Counts(Run(o, is), K(n))
  BY <1>7, <1>8
<1>10. QED
  BY <1>1, <1>3, <1>9 DEF K, is

-----------------------------------------------------------------------------
(* The pass turns code into code                                           *)

CtorAt(is, k) == is[k].k = "let" /\ is[k].b.op = "ctor"
\* The constructor at k takes the token t.
Reused(is, k, t) == Patched(is, k, LetIn(is[k].x, BReuse(t, is[k].b.n, is[k].b.as)))
With(e, is) == [is |-> is, k |-> e.k, as |-> e.as]

LEMMA WithType ==
  ASSUME NEW parts, NEW e \in ExprForms(parts), NEW is \in Seq(InstrForms(parts))
  PROVE  /\ With(e, is) \in ExprForms(parts)
         /\ With(e, is).is = is /\ With(e, is).k = e.k /\ With(e, is).as = e.as
         /\ [e EXCEPT !.is = is] = With(e, is)
BY DEF ExprForms, With

LEMMA BeforeType ==
  ASSUME NEW parts, NEW e \in ExprForms(parts), NEW is \in Seq(InstrForms(parts))
  PROVE  /\ Before(is, e) = With(e, is \o e.is) /\ Before(is, e) \in ExprForms(parts)
         /\ is \o e.is \in Seq(InstrForms(parts)) /\ Before(is, e).is = is \o e.is
<1>1. e.is \in Seq(InstrForms(parts))
  BY ExprParts
<1>2. is \o e.is \in Seq(InstrForms(parts))
  BY <1>1, BothFacts
<1> DEFINE u == is \o e.is
<1>3. Before(is, e) = [e EXCEPT !.is = u]
  BY DEF Before
<1>4. u \in Seq(InstrForms(parts))
  BY <1>2
<1> HIDE DEF u
<1>5. /\ With(e, u) \in ExprForms(parts) /\ With(e, u).is = u
      /\ [e EXCEPT !.is = u] = With(e, u)
  BY <1>4, WithType
<1>6. Before(is, e) = With(e, u) /\ Before(is, e) \in ExprForms(parts) /\ Before(is, e).is = u
  BY <1>3, <1>5
<1>7. QED
  BY <1>4, <1>6, Zenon DEF u

LEMMA ReusedType ==
  ASSUME NEW parts, NEW is \in Seq(InstrForms(parts)), NEW k \in 1..Len(is), CtorAt(is, k), NEW t \in Names
  PROVE  /\ is[k].x \in Names /\ is[k].b.n \in STRING /\ is[k].b.as \in Seq(Names)
         /\ is[k] = LetIn(is[k].x, Bind("ctor", is[k].b.n, is[k].b.as))
         /\ LetIn(is[k].x, BReuse(t, is[k].b.n, is[k].b.as)) \in InstrForms(parts)
         /\ Reused(is, k, t) \in Seq(InstrForms(parts)) /\ Len(Reused(is, k, t)) = Len(is)
<1>1. is[k] \in InstrForms(parts)
  BY SeqAt
<1>2. is[k].x \in Names /\ is[k].b \in BindForms(parts) /\ is[k] = LetIn(is[k].x, is[k].b)
  BY <1>1, InstrParts DEF CtorAt
<1>3. /\ is[k].b.n \in STRING /\ is[k].b.as \in Seq(Names)
      /\ is[k].b = Bind("ctor", is[k].b.n, is[k].b.as)
  BY <1>2, BindParts DEF CtorAt
<1>4. LetIn(is[k].x, BReuse(t, is[k].b.n, is[k].b.as)) \in InstrForms(parts)
  <2>1. BReuse(t, is[k].b.n, is[k].b.as) \in BindForms(parts)
    BY <1>3, BindMade
  <2>2. QED
    BY <2>1, <1>2, InstrMade
<1>5. Reused(is, k, t) \in Seq(InstrForms(parts)) /\ Len(Reused(is, k, t)) = Len(is)
  BY <1>4, PatchedType DEF Reused
<1>6. QED
  BY <1>2, <1>3, <1>4, <1>5

LEMMA OneFacts ==
  ASSUME NEW A, NEW s \in Seq(A), Len(s) = 1
  PROVE  1 \in 1..Len(s) /\ s[1] \in A /\ Elems(s) = {s[1]} /\ DOMAIN s = {1} /\ s = <<s[1]>>
<1>1. DOMAIN s = {1} /\ 1 \in 1..Len(s) /\ s[1] \in A
  OBVIOUS
<1>2. Elems(s) = {s[1]}
  BY <1>1 DEF Elems
<1>3. QED
  BY <1>1, <1>2

\* Of the constructors of n fields the first.
LEMMA TryReuseFacts ==
  ASSUME NEW parts, NEW e \in ExprForms(parts), NEW n, Reusable(e, n) # {}, NEW t \in Names
  PROVE  /\ TryReuse(e, n, t) \in ExprForms(parts)
         /\ \E k \in 1..Len(e.is) : /\ CtorAt(e.is, k) /\ Len(e.is[k].b.as) = n
                                    /\ TryReuse(e, n, t) = With(e, Reused(e.is, k, t))
<1> DEFINE R == Reusable(e, n)
           k == CHOOSE i \in R : \A j \in R : i <= j
<1>1. e.is \in Seq(InstrForms(parts)) /\ DOMAIN e.is = 1..Len(e.is) /\ Len(e.is) \in Nat
  BY ExprParts, SeqAt
<1>2. R \subseteq Nat /\ R \subseteq 1..Len(e.is)
  BY <1>1 DEF Reusable
<1>3. \E i \in R : \A j \in R : i <= j
  <2> HIDE DEF R
  <2>1. R # {}
    BY DEF R
  <2>2. QED
    BY <1>2, <2>1, Least
<1>4. k \in R
  <2> HIDE DEF R
  <2>1. QED
    BY <1>3
<1>5. k \in 1..Len(e.is) /\ CtorAt(e.is, k) /\ Len(e.is[k].b.as) = n
  <2>1. k \in Reusable(e, n)
    BY <1>4
  <2> HIDE DEF k
  <2>2. QED
    BY <2>1, <1>1 DEF Reusable, CtorAt
<1>6. TryReuse(e, n, t) = [e EXCEPT !.is = Reused(e.is, k, t)]
  BY DEF TryReuse, Reused, Patched
<1> HIDE DEF k
<1>7. Reused(e.is, k, t) \in Seq(InstrForms(parts))
  BY <1>1, <1>5, ReusedType
<1>8. TryReuse(e, n, t) = With(e, Reused(e.is, k, t)) /\ TryReuse(e, n, t) \in ExprForms(parts)
  BY <1>6, <1>7, WithType
<1>9. QED
  BY <1>5, <1>8

LEMMA DupsType ==
  ASSUME NEW parts, NEW S, S \subseteq Names
  PROVE  /\ Dups(S) \in Seq(InstrForms(parts)) /\ Len(Dups(S)) = Cardinality(S)
         /\ \A i \in 1..Cardinality(S) : Dups(S)[i] = DupOf(Listed(S)[i])
         /\ Drops(S) \in Seq(InstrForms(parts))
<1>1. Listed(S) \in [1..Cardinality(S) -> S] /\ Cardinality(S) \in Nat
  BY TagHolders, ListedFacts
<1>2. \A i \in 1..Cardinality(S) : /\ DupOf(Listed(S)[i]) \in InstrForms(parts)
                                   /\ DropOf(Listed(S)[i]) \in InstrForms(parts)
  BY <1>1, InstrMade
<1> DEFINE n == Cardinality(S)
           l == Listed(S)
<1>3. /\ Dups(S) = [i \in 1..n |-> DupOf(l[i])]
      /\ Drops(S) = [i \in 1..n |-> DropOf(l[i])]
  BY DEF Dups, Drops
<1> HIDE DEF n, l
<1>4. QED
  BY <1>1, <1>2, <1>3 DEF n, l

LEMMA ExtraFacts ==
  ASSUME NEW as \in Seq(Names), NEW after
  PROVE  /\ Extra(as, after) \subseteq 1..Len(as) /\ IsFiniteSet(Extra(as, after))
         /\ Cardinality(Extra(as, after)) \in Nat
<1>1. Len(as) \in Nat /\ DOMAIN as = 1..Len(as)
  BY SeqAt
<1>2. Extra(as, after) \in SUBSET (1..Len(as))
  BY <1>1 DEF Extra
<1>3. IsFiniteSet(1..Len(as))
  <2> DEFINE n == Len(as)
  <2>1. n \in Nat
    BY <1>1
  <2> HIDE DEF n
  <2>2. IsFiniteSet(1..n)
    BY <2>1, FS_Interval
  <2>3. QED
    BY <2>2 DEF n
<1>4. IsFiniteSet(Extra(as, after))
  BY <1>2, <1>3, FS_Subset
<1>5. QED
  BY <1>2, <1>4, FS_CardinalityType

LEMMA OperandDupsType ==
  ASSUME NEW parts, NEW as \in Seq(Names), NEW after
  PROVE  LET ps == Extra(as, after)
         IN  /\ OperandDups(as, after) \in Seq(InstrForms(parts)) /\ Len(OperandDups(as, after)) = Cardinality(ps)
             /\ \A i \in 1..Cardinality(ps) : OperandDups(as, after)[i] = DupOf(as[Listed(ps)[i]])
<1> DEFINE ps == Extra(as, after)
           n == Cardinality(ps)
           l == Listed(ps)
<1>1. ps \subseteq 1..Len(as) /\ l \in [1..n -> ps] /\ n \in Nat
  BY ExtraFacts, ListedFacts
<1>2. OperandDups(as, after) = [i \in 1..n |-> DupOf(as[l[i]])]
  BY DEF OperandDups
<1> HIDE DEF n, l, ps
<1>3. \A i \in 1..n : as[l[i]] \in Names
  BY <1>1, SeqAt
<1>4. \A i \in 1..n : DupOf(as[l[i]]) \in InstrForms(parts)
  BY <1>3, InstrMade
<1> DEFINE d == OperandDups(as, after)
<1>5. d \in Seq(InstrForms(parts)) /\ Len(d) = n /\ \A i \in 1..n : d[i] = DupOf(as[l[i]])
  <2> DEFINE I == InstrForms(parts)
             w(i) == DupOf(as[l[i]])
  <2>1. d = [i \in 1..n |-> w(i)] /\ (\A i \in 1..n : w(i) \in I) /\ n \in Nat
    BY <1>1, <1>2, <1>4
  <2> HIDE DEF I, w, d
  <2>2. d \in [1..n -> I]
    BY <2>1
  <2>3. d \in Seq(I) /\ Len(d) = n /\ \A i \in 1..n : d[i] = w(i)
    BY <2>1, <2>2
  <2>4. QED
    BY <2>3 DEF I, w
<1> HIDE DEF d
<1>6. QED
  BY <1>5 DEF n, l, ps, d

\* Nothing, or expressions of some form.
Tree(parts) == parts = {} \/ \E q : parts = ExprForms(q)
\* rc makes expressions of parts of them.
Within(rc, parts) == \A c \in parts, l \in SUBSET Names : rc[<<c, l>>] \in parts

LEMMA WithDropsType ==
  ASSUME NEW parts, Tree(parts), NEW e \in parts, NEW S, S \subseteq Names
  PROVE  WithDrops(S, e) \in parts
<1>1. PICK q : parts = ExprForms(q)
  BY DEF Tree
<1>2. Drops(S) \in Seq(InstrForms(q))
  BY DupsType
<1>3. QED
  BY <1>1, <1>2, BeforeType DEF WithDrops

ArmFvs(b) == [j \in DOMAIN b.arms |-> Fv[b.arms[j].e] \ Elems(b.arms[j].bs)]
\* The body of an arm before its entry is put there.
ArmBody(b, i, after, rc) ==
    WithDrops(ArmDrops(b.v, ArmFvs(b), i, after), rc[<<b.arms[i].e, after>>])

LEMMA ArmBodyType ==
  ASSUME NEW parts, Tree(parts), parts \subseteq Code, NEW b, b.arms \in Seq(ArmForms(parts)),
         NEW i \in DOMAIN b.arms, NEW after \in SUBSET Names, NEW rc, Within(rc, parts)
  PROVE  /\ ArmDrops(b.v, ArmFvs(b), i, after) \subseteq Names
         /\ ArmBody(b, i, after, rc) \in parts
<1>1. \A j \in DOMAIN b.arms : b.arms[j] \in ArmForms(parts)
  BY SeqAt
<1>2. \A j \in DOMAIN b.arms : b.arms[j].e \in parts
  BY <1>1, ArmParts
<1>3. \A j \in DOMAIN b.arms : ArmFvs(b)[j] \subseteq Names
  BY <1>2, FvType DEF ArmFvs
<1>4. ArmDrops(b.v, ArmFvs(b), i, after) \subseteq Names
  <2>1. DOMAIN ArmFvs(b) = DOMAIN b.arms
    BY DEF ArmFvs
  <2>2. QED
    BY <1>3, <2>1 DEF ArmDrops, Union
<1>5. rc[<<b.arms[i].e, after>>] \in parts
  BY <1>2 DEF Within
<1>6. QED
  BY <1>4, <1>5, WithDropsType DEF ArmBody

LEMMA ArmOfType ==
  ASSUME NEW parts, Tree(parts), parts \subseteq Code, NEW b, b.v \in Names, b.arms \in Seq(ArmForms(parts)),
         NEW i \in DOMAIN b.arms, NEW after \in SUBSET Names, NEW rc, Within(rc, parts)
  PROVE  ArmOf(b, i, after, rc) \in ArmForms(parts)
<1> DEFINE arm == b.arms[i]
           e == ArmBody(b, i, after, rc)
<1>1. arm \in ArmForms(parts)
  BY SeqAt
<1>2. /\ arm.c \in STRING /\ arm.bs \in Seq(Names) /\ arm.e \in parts
      /\ arm.c = CatchAll => Len(arm.bs) = 1
  BY <1>1, ArmParts
<1>3. e \in parts
  BY ArmBodyType
<1>4. PICK q : parts = ExprForms(q)
  BY <1>2 DEF Tree
<1> HIDE DEF e
<1>5. ASSUME arm.c = CatchAll PROVE CatchAllArm(b.v, arm, after, e) \in parts
  <2>1. 1 \in 1..Len(arm.bs) /\ arm.bs[1] \in Names
    <3>1. Len(arm.bs) = 1 /\ arm.bs \in Seq(Names)
      BY <1>2, <1>5
    <3>2. QED
      BY <3>1, OneFacts
  <2>2. <<DupOf(arm.bs[1])>> \in Seq(InstrForms(q)) /\ <<DropOf(arm.bs[1])>> \in Seq(InstrForms(q))
    BY <2>1, InstrMade
  <2>3. Before(<<DupOf(arm.bs[1])>>, e) \in parts /\ Before(<<DropOf(arm.bs[1])>>, e) \in parts
    BY <2>2, <1>3, <1>4, BeforeType
  <2>4. QED
    BY <2>3, <1>3 DEF CatchAllArm
<1>6. CtorArm(b.v, arm, after, e) \in parts
  <2>1. Elems(arm.bs) \cap Fv[arm.e] \subseteq Names
    BY <1>2, ElemsType
  <2>2. Dups(Elems(arm.bs) \cap Fv[arm.e]) \in Seq(InstrForms(q))
    BY <2>1, DupsType
  <2>3. <<DropReuseOf(b.v)>> \in Seq(InstrForms(q)) /\ <<DropOf(b.v)>> \in Seq(InstrForms(q))
    BY InstrMade
  <2>4. Before(<<DropOf(b.v)>>, e) \in parts
    BY <2>3, <1>3, <1>4, BeforeType
  <2>5. ASSUME Reusable(e, Len(arm.bs)) # {}
        PROVE  Before(<<DropReuseOf(b.v)>>, TryReuse(e, Len(arm.bs), b.v)) \in parts
    <3>1. TryReuse(e, Len(arm.bs), b.v) \in parts
      BY <2>5, <1>3, <1>4, TryReuseFacts
    <3>2. QED
      BY <3>1, <2>3, <1>4, BeforeType
  <2> DEFINE r == IF Borrowed(b.v, arm, after) THEN e
                  ELSE IF Reusable(e, Len(arm.bs)) # {}
                       THEN Before(<<DropReuseOf(b.v)>>, TryReuse(e, Len(arm.bs), b.v))
                  ELSE Before(<<DropOf(b.v)>>, e)
  <2>6. r \in parts
    BY <2>4, <2>5, <1>3
  <2>7. CtorArm(b.v, arm, after, e) = Before(Dups(Elems(arm.bs) \cap Fv[arm.e]), r)
    BY DEF CtorArm
  <2> HIDE DEF r
  <2>8. QED
    BY <2>2, <2>6, <2>7, <1>4, BeforeType
<1>7. ArmOf(b, i, after, rc) = Arm(arm.c, arm.bs, IF arm.c = CatchAll THEN CatchAllArm(b.v, arm, after, e)
                                                  ELSE CtorArm(b.v, arm, after, e))
  BY DEF ArmOf, e, ArmBody, ArmFvs
<1>8. QED
  BY <1>2, <1>5, <1>6, <1>7, ArmMade

\* What becomes of the bind of a let.
LetPart(i, after, rc) ==
    CASE i.b.op = "if" ->
           <<LetIn(i.x, BIf(i.b.v, Branch(i.b.th, i.b.el, after, rc), Branch(i.b.el, i.b.th, after, rc)))>>
      [] i.b.op = "match" ->
           <<LetIn(i.x, BMatch(i.b.v, [j \in DOMAIN i.b.arms |-> ArmOf(i.b, j, after, rc)]))>>
      [] OTHER -> OperandDups(i.b.as, after) \o <<i>>
AfterLet(i, rest, live) == (rest \ {i.x}) \cup live

LEMMA ConvertedIs ==
  ASSUME NEW i, NEW rest, NEW live, NEW rc
  PROVE  Converted(i, rest, live, rc) =
           LetPart(i, AfterLet(i, rest, live), rc) \o MaybeDrop(i.x, i.x \notin rest \cup live)
BY DEF Converted, LetPart, AfterLet

LEMMA LetPartType ==
  ASSUME NEW parts, Tree(parts), parts \subseteq Code, NEW i \in InstrForms(parts), i.k = "let",
         NEW after \in SUBSET Names, NEW rc, Within(rc, parts)
  PROVE  LetPart(i, after, rc) \in Seq(InstrForms(parts))
<1>1. i.x \in Names /\ i.b \in BindForms(parts)
  BY InstrParts
<1>2. CASE i.b.op = "if"
  <2>1. i.b.v \in Names /\ i.b.th \in parts /\ i.b.el \in parts
    BY <1>1, <1>2, BindParts DEF SimpleOps
  <2>2. ASSUME NEW c \in parts, NEW d \in parts PROVE Branch(c, d, after, rc) \in parts
    <3>1. rc[<<c, after>>] \in parts /\ Fv[d] \ (Fv[c] \cup after) \subseteq Names
      BY FvType DEF Within
    <3>2. QED
      BY <3>1, WithDropsType DEF Branch
  <2>3. Branch(i.b.th, i.b.el, after, rc) \in parts /\ Branch(i.b.el, i.b.th, after, rc) \in parts
    BY <2>1, <2>2
  <2>4. LetIn(i.x, BIf(i.b.v, Branch(i.b.th, i.b.el, after, rc), Branch(i.b.el, i.b.th, after, rc)))
          \in InstrForms(parts)
    BY <1>1, <2>1, <2>3, BindMade, InstrMade
  <2>5. QED
    BY <2>4, <1>2 DEF LetPart
<1>3. CASE i.b.op = "match"
  <2>1. i.b.v \in Names /\ i.b.arms \in Seq(ArmForms(parts))
    BY <1>1, <1>3, BindParts DEF SimpleOps
  <2> DEFINE arms == [j \in DOMAIN i.b.arms |-> ArmOf(i.b, j, after, rc)]
  <2>2. \A j \in DOMAIN i.b.arms : ArmOf(i.b, j, after, rc) \in ArmForms(parts)
    BY <2>1, ArmOfType
  <2>3. arms \in Seq(ArmForms(parts))
    <3>1. DOMAIN i.b.arms = 1..Len(i.b.arms) /\ Len(i.b.arms) \in Nat
      BY <2>1, SeqAt
    <3> DEFINE A == ArmForms(parts)
               n == Len(i.b.arms)
    <3>2. arms \in [1..n -> A] /\ n \in Nat
      BY <2>2, <3>1
    <3> HIDE DEF arms, A, n
    <3>3. arms \in Seq(A)
      BY <3>2
    <3>4. QED
      BY <3>3 DEF A
  <2> HIDE DEF arms
  <2>4. LetIn(i.x, BMatch(i.b.v, arms)) \in InstrForms(parts)
    BY <1>1, <2>1, <2>3, BindMade, InstrMade
  <2>5. LetPart(i, after, rc) = <<LetIn(i.x, BMatch(i.b.v, arms))>>
    BY <1>3 DEF LetPart, arms
  <2>6. QED
    BY <2>4, <2>5
<1>4. CASE i.b.op \notin {"if", "match"}
  <2>1. i.b.as \in Seq(Names)
    BY <1>1, <1>4, BindParts
  <2>2. OperandDups(i.b.as, after) \in Seq(InstrForms(parts)) /\ <<i>> \in Seq(InstrForms(parts))
    BY <2>1, OperandDupsType
  <2>3. OperandDups(i.b.as, after) \o <<i>> \in Seq(InstrForms(parts))
    BY <2>2, BothFacts
  <2>4. QED
    BY <2>3, <1>4 DEF LetPart
<1>5. QED
  BY <1>2, <1>3, <1>4

Agree(f, g, parts) == \A c \in parts, l \in SUBSET Names : f[<<c, l>>] = g[<<c, l>>]

LEMMA LetPartLocal ==
  ASSUME NEW parts, NEW i \in InstrForms(parts), i.k = "let", NEW after \in SUBSET Names,
         NEW f, NEW g, Agree(f, g, parts)
  PROVE  LetPart(i, after, f) = LetPart(i, after, g)
<1>1. i.b \in BindForms(parts)
  BY InstrParts
<1>2. CASE i.b.op = "if"
  <2>1. i.b.th \in parts /\ i.b.el \in parts
    BY <1>1, <1>2, BindParts DEF SimpleOps
  <2>2. f[<<i.b.th, after>>] = g[<<i.b.th, after>>] /\ f[<<i.b.el, after>>] = g[<<i.b.el, after>>]
    BY <2>1 DEF Agree
  <2>3. QED
    BY <2>2, <1>2 DEF LetPart, Branch
<1>3. CASE i.b.op = "match"
  <2>1. i.b.arms \in Seq(ArmForms(parts))
    BY <1>1, <1>3, BindParts DEF SimpleOps
  <2>2. ASSUME NEW j \in DOMAIN i.b.arms PROVE ArmOf(i.b, j, after, f) = ArmOf(i.b, j, after, g)
    <3>1. i.b.arms[j].e \in parts
      BY <2>1, SeqAt, ArmParts
    <3>2. f[<<i.b.arms[j].e, after>>] = g[<<i.b.arms[j].e, after>>]
      BY <3>1 DEF Agree
    <3>3. QED
      BY <3>2, Zenon DEF ArmOf
  <2>3. [j \in DOMAIN i.b.arms |-> ArmOf(i.b, j, after, f)] = [j \in DOMAIN i.b.arms |-> ArmOf(i.b, j, after, g)]
    BY <2>2
  <2>4. QED
    BY <2>3, <1>3 DEF LetPart
<1>4. CASE i.b.op \notin {"if", "match"}
  BY <1>4 DEF LetPart
<1>5. QED
  BY <1>2, <1>3, <1>4

MaybeDropIs(parts) == \A x \in Names : \A dead : MaybeDrop(x, dead) \in Seq(InstrForms(parts))

LEMMA MaybeDropType == \A parts : MaybeDropIs(parts)
<1>1. ASSUME NEW parts, NEW x \in Names, NEW dead PROVE MaybeDrop(x, dead) \in Seq(InstrForms(parts))
  <2>1. <<DropOf(x)>> \in Seq(InstrForms(parts))
    BY InstrMade
  <2>2. QED
    BY <2>1 DEF MaybeDrop
<1>2. QED
  BY <1>1 DEF MaybeDropIs

LEMMA ConvertedType ==
  ASSUME NEW parts, Tree(parts), parts \subseteq Code, NEW i \in InstrForms(parts), i.k = "let",
         NEW rest \in SUBSET Names, NEW live \in SUBSET Names, NEW rc, Within(rc, parts)
  PROVE  Converted(i, rest, live, rc) \in Seq(InstrForms(parts))
<1> DEFINE after == AfterLet(i, rest, live)
           s == LetPart(i, after, rc)
           t == MaybeDrop(i.x, i.x \notin rest \cup live)
           I == InstrForms(parts)
<1>1. i.x \in Names /\ after \in SUBSET Names
  BY InstrParts DEF AfterLet
<1>2. s \in Seq(I)
  <2> HIDE DEF after
  <2>1. QED
    BY <1>1, LetPartType
<1>3. t \in Seq(I)
  BY <1>1, MaybeDropType DEF MaybeDropIs
<1>4. Converted(i, rest, live, rc) = s \o t
  BY ConvertedIs
<1> HIDE DEF s, t, I
<1>5. s \o t \in Seq(I)
  BY <1>2, <1>3, BothFacts
<1>6. QED
  BY <1>4, <1>5 DEF I

\* The pass on one expression, given what it makes of others.
RcAt(e, live, rc) ==
    [e EXCEPT !.is = Concat(Spine(e, live, rc))
                       \o (IF e.k = "ret" THEN Dups(Elems(e.as) \cap live) ELSE <<>>)]
\* What the returned variable needs to survive.
LastDups(e, live) == IF e.k = "ret" THEN Dups(Elems(e.as) \cap live) ELSE <<>>

LEMMA SpineType ==
  ASSUME NEW parts, Tree(parts), parts \subseteq Code, NEW e \in ExprForms(parts), NEW live \in SUBSET Names,
         NEW rc, Within(rc, parts)
  PROVE  /\ Spine(e, live, rc) \in Pieces(InstrForms(parts)) /\ Len(Spine(e, live, rc)) = Len(e.is)
         /\ \A n \in 1..Len(e.is) :
               Spine(e, live, rc)[n] = IF e.is[n].k = "let"
                                       THEN Converted(e.is[n], FvFrom(e, n + 1, Fv), live, rc) ELSE <<e.is[n]>>
         /\ \A n \in 1..Len(e.is) : FvFrom(e, n + 1, Fv) \in SUBSET Names
<1> DEFINE I == InstrForms(parts)
           s == Spine(e, live, rc)
           m == Len(e.is)
           W(n) == IF e.is[n].k = "let"
                   THEN Converted(e.is[n], FvFrom(e, n + 1, Fv), live, rc) ELSE <<e.is[n]>>
<1>1. e.is \in Seq(I) /\ m \in Nat /\ \A n \in 1..m : e.is[n] \in I
  BY ExprParts, SeqAt
<1>2. ASSUME NEW n \in 1..m PROVE FvFrom(e, n + 1, Fv) \in SUBSET Names
  <2>1. n + 1 \in Nat \ {0}
    BY <1>1
  <2>2. \A c \in parts : Fv[c] \subseteq Names /\ Fv[c] = Fv[c]
    BY FvType
  <2>3. FvFrom(e, n + 1, Fv) \subseteq Names
    BY <2>1, <2>2, FvFromFacts
  <2>4. QED
    BY <2>3
<1>3. ASSUME NEW n \in 1..m PROVE W(n) \in Seq(I)
  <2>1. e.is[n] \in I
    BY <1>1
  <2>2. CASE e.is[n].k = "let"
    <3>1. Converted(e.is[n], FvFrom(e, n + 1, Fv), live, rc) \in Seq(I)
      BY <2>1, <2>2, <1>2, ConvertedType
    <3>2. QED
      BY <2>2, <3>1
  <2>3. CASE e.is[n].k # "let"
    <3>1. <<e.is[n]>> \in Seq(I)
      <4> HIDE DEF I
      <4>1. QED
        BY <2>1
    <3>2. QED
      BY <2>3, <3>1
  <2>4. QED
    BY <2>2, <2>3
<1>4. s = [n \in 1..m |-> W(n)]
  BY DEF Spine
<1> HIDE DEF s, W, I, m
<1>5. s \in Seq(Seq(I)) /\ Len(s) = m /\ \A n \in 1..m : s[n] = W(n)
  BY <1>1, <1>3, <1>4
<1>6. QED
  BY <1>5, <1>2 DEF Pieces, I, s, m, W

LEMMA RcAtType ==
  ASSUME NEW parts, Tree(parts), parts \subseteq Code, NEW e \in ExprForms(parts), NEW live \in SUBSET Names,
         NEW rc, Within(rc, parts)
  PROVE  /\ RcAt(e, live, rc) \in ExprForms(parts)
         /\ RcAt(e, live, rc) = With(e, Concat(Spine(e, live, rc)) \o LastDups(e, live))
         /\ Concat(Spine(e, live, rc)) \in Seq(InstrForms(parts)) /\ LastDups(e, live) \in Seq(InstrForms(parts))
<1> DEFINE I == InstrForms(parts)
           s == Concat(Spine(e, live, rc))
           t == LastDups(e, live)
           u == s \o t
<1>1. s \in Seq(I)
  BY SpineType, ConcatType DEF Pieces
<1>2. t \in Seq(I)
  <2>1. Dups(Elems(e.as) \cap live) \in Seq(I)
    BY DupsType
  <2>2. <<>> \in Seq(I)
    OBVIOUS
  <2>3. QED
    BY <2>1, <2>2 DEF LastDups
<1>3. RcAt(e, live, rc) = [e EXCEPT !.is = u]
  BY DEF RcAt, LastDups
<1> HIDE DEF s, t
<1>4. u \in Seq(I)
  <2> HIDE DEF I
  <2>1. QED
    BY <1>1, <1>2, BothFacts
<1> HIDE DEF u
<1>5. RcAt(e, live, rc) = With(e, u) /\ RcAt(e, live, rc) \in ExprForms(parts)
  BY <1>3, <1>4, WithType
<1>6. QED
  BY <1>1, <1>2, <1>5, Zenon DEF u, s, t, I

LEMMA RcAtLocal ==
  ASSUME NEW parts, parts \subseteq Code, NEW e \in ExprForms(parts), NEW live \in SUBSET Names,
         NEW f, NEW g, Agree(f, g, parts)
  PROVE  RcAt(e, live, f) = RcAt(e, live, g)
<1> DEFINE W(n, rc) == IF e.is[n].k = "let"
                       THEN Converted(e.is[n], FvFrom(e, n + 1, Fv), live, rc) ELSE <<e.is[n]>>
<1>1. e.is \in Seq(InstrForms(parts)) /\ Len(e.is) \in Nat /\ \A n \in 1..Len(e.is) : e.is[n] \in InstrForms(parts)
  BY ExprParts, SeqAt
<1>2. ASSUME NEW n \in 1..Len(e.is) PROVE W(n, f) = W(n, g)
  <2>1. CASE e.is[n].k = "let"
    <3> DEFINE rest == FvFrom(e, n + 1, Fv)
               after == AfterLet(e.is[n], rest, live)
    <3>1. n + 1 \in Nat \ {0}
      BY <1>1
    <3>2. \A c \in parts : Fv[c] \subseteq Names /\ Fv[c] = Fv[c]
      BY FvType
    <3>3. rest \in SUBSET Names
      BY <3>1, <3>2, FvFromFacts
    <3> HIDE DEF rest
    <3>4. after \in SUBSET Names
      BY <3>3 DEF AfterLet
    <3>5. LetPart(e.is[n], after, f) = LetPart(e.is[n], after, g)
      <4> DEFINE i == e.is[n]
      <4>1. i \in InstrForms(parts) /\ i.k = "let"
        BY <1>1, <2>1
      <4> HIDE DEF after, i
      <4>2. LetPart(i, after, f) = LetPart(i, after, g)
        BY <3>4, <4>1, LetPartLocal
      <4>3. QED
        BY <4>2 DEF i
    <3>6. Converted(e.is[n], rest, live, f) = Converted(e.is[n], rest, live, g)
      BY <3>5, ConvertedIs, Zenon
    <3>7. QED
      BY <2>1, <3>6 DEF rest
  <2>2. CASE e.is[n].k # "let"
    BY <2>2
  <2>3. QED
    BY <2>1, <2>2
<1>3. Spine(e, live, f) = Spine(e, live, g)
  <2>1. Spine(e, live, f) = [n \in 1..Len(e.is) |-> W(n, f)] /\ Spine(e, live, g) = [n \in 1..Len(e.is) |-> W(n, g)]
    BY DEF Spine
  <2> HIDE DEF W
  <2>2. QED
    BY <1>2, <2>1
<1>4. QED
  BY <1>3, Zenon DEF RcAt

LEMMA InnerTree ==
  /\ \A d \in Nat : Tree(Parts(d))
  /\ \A e \in Code : Tree(Inner(e))
<1>1. ASSUME NEW d \in Nat PROVE Tree(Parts(d))
  <2>1. CASE d = 0
    BY <2>1 DEF Tree, Parts
  <2>2. CASE d # 0
    <3>1. d - 1 \in Nat /\ Parts(d) = Nested[d - 1]
      BY <2>2 DEF Parts
    <3>2. Nested[d - 1] = ExprForms(Parts(d - 1))
      BY <3>1, LevelsRise
    <3>3. QED
      BY <3>1, <3>2 DEF Tree
  <2>3. QED
    BY <2>1, <2>2
<1>2. QED
  BY <1>1, RankType DEF Inner

\* r makes of each expression what the pass does, if that is code.
Does(r) ==
    \A e \in Code, live \in SUBSET Names : RcAt(e, live, r) \in Code => r[<<e, live>>] = RcAt(e, live, r)
LevelWithin(r, d) == \A e \in Nested[d], live \in SUBSET Names : r[<<e, live>>] \in Nested[d]

LEMMA WithinParts ==
  ASSUME NEW d \in Nat, NEW r, d # 0 => LevelWithin(r, d - 1)
  PROVE  Within(r, Parts(d))
BY DEF Within, Parts, LevelWithin

LEMMA DoesWithin ==
  ASSUME NEW r, Does(r), NEW d \in Nat, d <= MaxNesting
  PROVE  /\ LevelWithin(r, d)
         /\ \A e \in Nested[d], live \in SUBSET Names : RcAt(e, live, r) \in Nested[d]
<1> DEFINE S == {n \in Nat : n <= MaxNesting => LevelWithin(r, n)}
<1>1. ASSUME NEW n \in Nat, n <= MaxNesting, Within(r, Parts(n)), NEW e \in Nested[n], NEW live \in SUBSET Names
      PROVE  RcAt(e, live, r) \in Nested[n] /\ r[<<e, live>>] \in Nested[n]
  <2>1. Nested[n] = ExprForms(Parts(n)) /\ Parts(n) \subseteq Nested[n]
    BY LevelsRise
  <2>2. Nested[n] \subseteq Code
    BY <1>1, LevelsWithin
  <2>3. Tree(Parts(n)) /\ Parts(n) \subseteq Code /\ e \in ExprForms(Parts(n))
    BY <2>1, <2>2, InnerTree
  <2>4. RcAt(e, live, r) \in ExprForms(Parts(n))
    BY <1>1, <2>3, RcAtType
  <2>5. RcAt(e, live, r) \in Nested[n] /\ RcAt(e, live, r) \in Code /\ e \in Code
    BY <2>1, <2>2, <2>4
  <2>6. r[<<e, live>>] = RcAt(e, live, r)
    BY <2>5 DEF Does
  <2>7. QED
    BY <2>5, <2>6
<1>2. 0 \in S
  <2>1. Within(r, Parts(0))
    BY WithinParts
  <2>2. QED
    BY <2>1, <1>1 DEF LevelWithin
<1>3. ASSUME NEW n \in Nat, n \in S PROVE n + 1 \in S
  <2>1. ASSUME n + 1 <= MaxNesting PROVE LevelWithin(r, n + 1)
    <3>1. (n + 1) - 1 = n /\ n + 1 \in Nat /\ n <= MaxNesting
      BY <2>1, CodeAssumption
    <3>2. LevelWithin(r, n)
      BY <3>1, <1>3
    <3>3. Within(r, Parts(n + 1))
      BY <3>1, <3>2, WithinParts
    <3>4. QED
      BY <2>1, <3>1, <3>3, <1>1 DEF LevelWithin
  <2>2. QED
    BY <2>1
<1>4. \A n \in Nat : n \in S
  <2> HIDE DEF S
  <2>1. QED
    BY <1>2, <1>3, Induction
<1>5. LevelWithin(r, d)
  BY <1>4
<1>6. Within(r, Parts(d))
  <2>1. ASSUME d # 0 PROVE LevelWithin(r, d - 1)
    <3>1. d - 1 \in Nat /\ d - 1 <= MaxNesting
      BY <2>1, CodeAssumption
    <3>2. QED
      BY <3>1, <1>4
  <2>2. QED
    BY <2>1, WithinParts
<1>7. QED
  BY <1>1, <1>5, <1>6

LEMMA CodeTop == MaxNesting \in Nat /\ Code = Nested[MaxNesting] /\ Code # {}
<1>1. MaxNesting \in Nat /\ Code = Nested[MaxNesting]
  BY CodeAssumption DEF Code
<1>2. [is |-> <<>>, k |-> "ret", as |-> <<>>] \in ExprForms(Parts(MaxNesting))
  <2> DEFINE I == InstrForms(Parts(MaxNesting))
  <2>1. <<>> \in Seq(I) /\ <<>> \in Seq(Names)
    OBVIOUS
  <2>2. QED
    BY <2>1 DEF ExprForms
<1>3. QED
  BY <1>1, <1>2, LevelsRise

LEMMA RcType ==
  /\ \A e \in Code, live \in SUBSET Names : Rc[<<e, live>>] = RcAt(e, live, Rc)
  /\ \A e \in Code : Within(Rc, Inner(e))
  /\ Within(Rc, Code)
<1> DEFINE D == Code \X (SUBSET Names)
           V == Code
           G(p, f) == IF RcAt(p[1], p[2], f) \in Code THEN RcAt(p[1], p[2], f) ELSE p[1]
           step == [q \in D \X [D -> V] |-> G(q[1], q[2])]
           rank == [p \in D |-> Rank[p[1]]]
<1>1. step \in [D \X [D -> V] -> V]
  OBVIOUS
<1>2. rank \in [D -> Nat]
  BY RankType
<1>3. \A p \in D, f \in [D -> V] : step[<<p, f>>] = G(p, f)
  OBVIOUS
<1>4. \A p \in D : rank[p] = Rank[p[1]] /\ p[1] \in Code /\ p[2] \in SUBSET Names
  OBVIOUS
<1>5. ASSUME NEW p \in D, NEW f \in [D -> V], NEW g \in [D -> V],
             \A c \in D : rank[c] < rank[p] => f[c] = g[c]
      PROVE  step[<<p, f>>] = step[<<p, g>>]
  <2>1. ASSUME NEW c \in Inner(p[1]), NEW l \in SUBSET Names PROVE f[<<c, l>>] = g[<<c, l>>]
    <3>1. c \in Code /\ Rank[c] < Rank[p[1]]
      BY <1>4, InnerCode
    <3>2. <<c, l>> \in D /\ rank[<<c, l>>] = Rank[c]
      BY <3>1
    <3> HIDE DEF rank, D, V, step
    <3>3. QED
      BY <1>4, <1>5, <3>1, <3>2
  <2>2. Agree(f, g, Inner(p[1]))
    BY <2>1 DEF Agree
  <2>3. Inner(p[1]) \subseteq Code /\ p[1] \in ExprForms(Inner(p[1])) /\ p[2] \in SUBSET Names
    BY <1>4, InnerCode
  <2>4. RcAt(p[1], p[2], f) = RcAt(p[1], p[2], g)
    <3> HIDE DEF rank, D, V, step
    <3>1. QED
      BY <2>2, <2>3, RcAtLocal
  <2>5. G(p, f) = G(p, g)
    BY <2>4
  <2>6. QED
    BY <1>3, <2>5
<1>6. V # {}
  BY CodeTop
<1> HIDE DEF step, rank, V
<1>7. Ranked(rank, step, D, V)
  <2> HIDE DEF D
  <2>1. QED
    BY <1>1, <1>2, <1>5, <1>6 DEF Ranked
<1>8. PICK f : Solves(f, step, D, V)
  <2> HIDE DEF D
  <2>1. QED
    BY <1>7, RankedRecursion
<1>9. f \in [D -> V] /\ \A p \in D : f[p] = G(p, f)
  BY <1>3, <1>8 DEF Solves
<1>10. Does(f)
  <2>1. ASSUME NEW e \in Code, NEW live \in SUBSET Names, RcAt(e, live, f) \in Code
        PROVE  f[<<e, live>>] = RcAt(e, live, f)
    <3>1. <<e, live>> \in D /\ <<e, live>>[1] = e /\ <<e, live>>[2] = live
      OBVIOUS
    <3>2. f[<<e, live>>] = G(<<e, live>>, f)
      BY <1>9, <3>1
    <3>3. QED
      BY <2>1, <3>1, <3>2
  <2>2. QED
    BY <2>1 DEF Does
<1>11. \A e \in Code, live \in SUBSET Names : RcAt(e, live, f) \in Code
  BY <1>10, CodeTop, DoesWithin
<1>12. \A p \in D : f[p] = RcAt(p[1], p[2], f)
  BY <1>9, <1>11, <1>4
<1>13. f = [p \in D |-> RcAt(p[1], p[2], f)]
  <2> HIDE DEF D
  <2>1. QED
    BY <1>9, <1>12
<1>14. Rc = [p \in D |-> RcAt(p[1], p[2], Rc)]
  BY <1>13, Zenon DEF Rc, RcAt, D
<1>15. \A e \in Code, live \in SUBSET Names : Rc[<<e, live>>] = RcAt(e, live, Rc)
  <2>1. ASSUME NEW e \in Code, NEW live \in SUBSET Names PROVE Rc[<<e, live>>] = RcAt(e, live, Rc)
    <3>1. <<e, live>> \in D /\ <<e, live>>[1] = e /\ <<e, live>>[2] = live
      OBVIOUS
    <3> DEFINE R(p) == RcAt(p[1], p[2], Rc)
    <3>2. Rc = [p \in D |-> R(p)] /\ R(<<e, live>>) = RcAt(e, live, Rc)
      BY <1>14, <3>1
    <3> HIDE DEF R, D
    <3>3. QED
      BY <3>1, <3>2
  <2>2. QED
    BY <2>1
<1>16. Does(Rc)
  BY <1>15 DEF Does
<1>17. \A d \in Nat : d <= MaxNesting => LevelWithin(Rc, d)
  BY <1>16, DoesWithin
<1>18. ASSUME NEW e \in Code PROVE Within(Rc, Inner(e))
  <2> DEFINE d == Rank[e]
  <2>1. d \in Nat /\ d <= MaxNesting
    BY RankType
  <2> HIDE DEF d
  <2>2. ASSUME d # 0 PROVE LevelWithin(Rc, d - 1)
    <3>1. d - 1 \in Nat /\ d - 1 <= MaxNesting
      BY <2>1, <2>2, CodeAssumption
    <3>2. QED
      BY <3>1, <1>17
  <2>3. Within(Rc, Parts(d))
    BY <2>1, <2>2, WithinParts
  <2>4. QED
    BY <2>3 DEF Inner, d
<1>19. Within(Rc, Code)
  <2>1. MaxNesting <= MaxNesting
    BY CodeTop
  <2>2. LevelWithin(Rc, MaxNesting)
    BY <2>1, <1>17, CodeTop
  <2>3. QED
    BY <2>2, CodeTop DEF Within, LevelWithin
<1>20. QED
  BY <1>15, <1>18, <1>19

-----------------------------------------------------------------------------
(* What the pass relies on                                                 *)

\* That of one expression, given that of others.
FitsIn(e, fixed, flags, n, fits) ==
    LET fs == FlagsAt(e, flags, n)
    IN  /\ e.is[n].k = "let" /\ e.is[n].x \notin fixed \cup fs
        /\ LetFits(e.is[n], FixedAt(e, fixed, n), fs, fits)
FitsAt(e, fixed, flags, fits) ==
    /\ e.k = "ret" /\ Len(e.as) = 1
    /\ \A n \in DOMAIN e.is : FitsIn(e, fixed, flags, n, fits)

Agree3(f, g, parts) ==
    \A c \in parts, s \in SUBSET Names, t \in SUBSET Names : f[<<c, s, t>>] = g[<<c, s, t>>]

LEMMA LetFitsLocal ==
  ASSUME NEW parts, NEW i \in InstrForms(parts), i.k = "let", NEW f, NEW g, Agree3(f, g, parts),
         NEW fixed \in SUBSET Names, NEW flags \in SUBSET Names, LetFits(i, fixed, flags, f)
  PROVE  LetFits(i, fixed, flags, g)
<1> DEFINE b == i.b
<1>1. b \in BindForms(parts)
  BY InstrParts
<1> HIDE DEF b
<1>2. CASE b.op \in SimpleOps
  BY <1>2 DEF LetFits, b, SimpleOps
<1>3. CASE b.op = "if"
  <2>1. b.th \in parts /\ b.el \in parts
    BY <1>1, <1>3, BindParts DEF SimpleOps
  <2>2. f[<<b.th, fixed, flags>>] = g[<<b.th, fixed, flags>>] /\ f[<<b.el, fixed, flags>>] = g[<<b.el, fixed, flags>>]
    BY <2>1 DEF Agree3
  <2>3. b.v \in flags /\ f[<<b.th, fixed, flags>>] /\ f[<<b.el, fixed, flags>>]
    BY <1>3 DEF LetFits, b, SimpleOps
  <2>4. QED
    BY <2>2, <2>3, <1>3 DEF LetFits, b, SimpleOps
<1>4. CASE b.op = "match"
  <2> DEFINE Good(j, h) ==
               /\ Elems(b.arms[j].bs) \cap (fixed \cup FvBind(b, Fv) \cup flags) = {}
               /\ \A m, n \in DOMAIN b.arms[j].bs : b.arms[j].bs[m] = b.arms[j].bs[n] => m = n
               /\ h[<<b.arms[j].e, fixed \cup {b.v}, flags>>]
  <2>1. b.arms \in Seq(ArmForms(parts)) /\ b.v \in Names
    BY <1>1, <1>4, BindParts DEF SimpleOps
  <2>2. b.v \notin flags /\ b.arms # <<>> /\ \A j \in DOMAIN b.arms : Good(j, f)
    BY <1>4 DEF LetFits, b, SimpleOps
  <2>3. ASSUME NEW j \in DOMAIN b.arms PROVE Good(j, g)
    <3>1. b.arms[j].e \in parts /\ fixed \cup {b.v} \in SUBSET Names
      BY <2>1, SeqAt, ArmParts
    <3>2. f[<<b.arms[j].e, fixed \cup {b.v}, flags>>] = g[<<b.arms[j].e, fixed \cup {b.v}, flags>>]
      BY <3>1 DEF Agree3
    <3>3. Good(j, f)
      BY <2>2
    <3>4. QED
      BY <3>2, <3>3
  <2>4. QED
    BY <2>2, <2>3, <1>4 DEF LetFits, b, SimpleOps
<1>5. b.op \in SimpleOps \/ b.op = "if" \/ b.op = "match"
  BY DEF LetFits, b
<1>6. QED
  BY <1>2, <1>3, <1>4, <1>5

LEMMA FitsAtLocal ==
  ASSUME NEW parts, parts \subseteq Code, NEW e \in ExprForms(parts), NEW f, NEW g, Agree3(f, g, parts),
         NEW fixed \in SUBSET Names, NEW flags \in SUBSET Names, FitsAt(e, fixed, flags, f)
  PROVE  FitsAt(e, fixed, flags, g)
<1>1. /\ e.is \in Seq(InstrForms(parts)) /\ DOMAIN e.is = 1..Len(e.is) /\ Len(e.is) \in Nat
      /\ \A n \in 1..Len(e.is) : e.is[n] \in InstrForms(parts)
  BY ExprParts, SeqAt
<1>2. \A n \in 1..Len(e.is) : e.is[n].k = "let" /\ e.is[n].x \in Names
  BY <1>1, InstrParts DEF FitsAt, FitsIn
<1>3. ASSUME NEW n \in DOMAIN e.is PROVE FitsIn(e, fixed, flags, n, g)
  <2> DEFINE fs == FlagsAt(e, flags, n)
             fx == FixedAt(e, fixed, n)
  <2>1. fs \in SUBSET Names
    BY <1>1, <1>2 DEF FlagsAt
  <2>2. fx \in SUBSET Names
    <3>1. \A c \in parts : Fv[c] \subseteq Names /\ Fv[c] = Fv[c]
      BY FvType
    <3>2. n + 1 \in Nat \ {0}
      BY <1>1
    <3>3. FvFrom(e, n + 1, Fv) \subseteq Names
      BY <3>1, <3>2, FvFromFacts
    <3>4. QED
      BY <3>3 DEF FixedAt
  <2>3. e.is[n].k = "let" /\ e.is[n].x \notin fixed \cup fs /\ LetFits(e.is[n], fx, fs, f)
    BY DEF FitsAt, FitsIn
  <2>4. e.is[n] \in InstrForms(parts)
    BY <1>1
  <2> HIDE DEF fs, fx
  <2>5. LetFits(e.is[n], fx, fs, g)
    <3> DEFINE i == e.is[n]
    <3>1. i \in InstrForms(parts) /\ i.k = "let" /\ LetFits(i, fx, fs, f)
      BY <2>3, <2>4
    <3> HIDE DEF i
    <3>2. LetFits(i, fx, fs, g)
      BY <2>1, <2>2, <3>1, LetFitsLocal
    <3>3. QED
      BY <3>2 DEF i
  <2>6. QED
    BY <2>3, <2>5 DEF FitsIn, fs, fx
<1>4. QED
  BY <1>3 DEF FitsAt

LEMMA FitsType ==
  \A e \in Code, fixed \in SUBSET Names, flags \in SUBSET Names :
     Fits[<<e, fixed, flags>>] <=> FitsAt(e, fixed, flags, Fits)
<1> DEFINE D == Code \X (SUBSET Names) \X (SUBSET Names)
           V == BOOLEAN
           G(p, f) == FitsAt(p[1], p[2], p[3], f)
           step == [q \in D \X [D -> V] |-> G(q[1], q[2])]
           rank == [p \in D |-> Rank[p[1]]]
<1>0. \A p, f : G(p, f) \in BOOLEAN
  BY DEF FitsAt
<1>1. step \in [D \X [D -> V] -> V]
  <2> HIDE DEF G, D
  <2>1. QED
    BY <1>0
<1>2. rank \in [D -> Nat]
  BY RankType
<1>3. \A p \in D, f \in [D -> V] : step[<<p, f>>] = G(p, f)
  <2> HIDE DEF G
  <2>1. QED
    OBVIOUS
<1>4. \A p \in D : rank[p] = Rank[p[1]] /\ p[1] \in Code /\ p[2] \in SUBSET Names /\ p[3] \in SUBSET Names
  OBVIOUS
<1>5. ASSUME NEW p \in D, NEW f \in [D -> V], NEW g \in [D -> V],
             \A c \in D : rank[c] < rank[p] => f[c] = g[c]
      PROVE  step[<<p, f>>] = step[<<p, g>>]
  <2>1. ASSUME NEW c \in Inner(p[1]), NEW s \in SUBSET Names, NEW t \in SUBSET Names
        PROVE  f[<<c, s, t>>] = g[<<c, s, t>>]
    <3>1. c \in Code /\ Rank[c] < Rank[p[1]]
      BY <1>4, InnerCode
    <3>2. <<c, s, t>> \in D /\ rank[<<c, s, t>>] = Rank[c]
      BY <3>1
    <3> HIDE DEF rank, D, V, step
    <3>3. QED
      BY <1>4, <1>5, <3>1, <3>2
  <2>2. Agree3(f, g, Inner(p[1])) /\ Agree3(g, f, Inner(p[1]))
    BY <2>1 DEF Agree3
  <2>3. /\ Inner(p[1]) \subseteq Code /\ p[1] \in ExprForms(Inner(p[1]))
        /\ p[2] \in SUBSET Names /\ p[3] \in SUBSET Names
    BY <1>4, InnerCode
  <2>4. G(p, f) <=> G(p, g)
    <3> HIDE DEF rank, D, V, step
    <3>1. QED
      BY <2>2, <2>3, FitsAtLocal
  <2>5. G(p, f) = G(p, g)
    <3> HIDE DEF G
    <3>1. QED
      BY <1>0, <2>4
  <2>6. QED
    BY <1>3, <2>5
<1>6. V # {}
  OBVIOUS
<1> HIDE DEF step, rank, V
<1>7. Ranked(rank, step, D, V)
  <2> HIDE DEF D
  <2>1. QED
    BY <1>1, <1>2, <1>5, <1>6 DEF Ranked
<1>8. PICK f : Solves(f, step, D, V)
  <2> HIDE DEF D
  <2>1. QED
    BY <1>7, RankedRecursion
<1>9. f = [p \in D |-> G(p, f)]
  <2> HIDE DEF D, G
  <2>1. QED
    BY <1>3, <1>8 DEF Solves
<1>10. Fits = [p \in D |-> G(p, Fits)]
  BY <1>9, Zenon DEF Fits, FitsAt, FitsIn, D
<1>11. ASSUME NEW e \in Code, NEW fixed \in SUBSET Names, NEW flags \in SUBSET Names
       PROVE  Fits[<<e, fixed, flags>>] <=> FitsAt(e, fixed, flags, Fits)
  <2> DEFINE p == <<e, fixed, flags>>
  <2>1. p \in D /\ p[1] = e /\ p[2] = fixed /\ p[3] = flags
    OBVIOUS
  <2>2. G(p, Fits) <=> FitsAt(e, fixed, flags, Fits)
    BY <2>1
  <2> HIDE DEF p, G, D
  <2>3. Fits[p] = G(p, Fits)
    BY <1>10, <2>1
  <2>4. QED
    BY <2>2, <2>3 DEF p
<1>12. QED
  BY <1>11

-----------------------------------------------------------------------------
(* A let with its dups and drops                                           *)

\* Those in S are bound, renamed if at all to a variable that stays, and
\* boxed unless they are flags; no pending token has the name of one.
Sane(o, S, fixed, flags) ==
    /\ o \in Knowledge /\ S \subseteq Names
    /\ \A w \in S : /\ o.root[w] \in {w} \cup fixed /\ o.root[w] \in o.scope
                    /\ o.root[w] \in o.unboxed <=> w \in flags
    /\ \A t \in o.tokens : t[1] \in fixed \ S
\* Each of them holds a reference.
Ready(o, S, fixed, flags) == Sane(o, S, fixed, flags) /\ Counts(o, Tag(S))

\* From q to r the references of all but those in after have been consumed.
Done(q, r, after, toks) ==
    /\ r \in Knowledge /\ r.root = q.root /\ r.unboxed = q.unboxed /\ r.scope = q.scope
    /\ Counts(r, Tag(after)) /\ r.tokens = toks /\ r.faults = q.faults
\* The instructions do that and bind x.
Lets(q, is, x, boxed, after, toks) ==
    /\ is \in Seq(Items)
    /\ \E r : Done(q, r, after, toks) /\ Run(q, is) = Bound(r, x, boxed)

\* What stays is as it was.
Same(o, q, fixed) ==
    /\ \A w \in fixed : q.root[w] = o.root[w] /\ (w \in q.unboxed <=> w \in o.unboxed)
    /\ o.scope \subseteq q.scope /\ q.faults = o.faults

LEMMA SaneRoots ==
  ASSUME NEW o, NEW S, NEW fixed, NEW flags, Sane(o, S, fixed, flags), NEW x \in Names, x \notin fixed \cup S
  PROVE  Of(o, Tag(S), x) = {}
BY DEF Sane, Of, Tag

LEMMA SaneLess ==
  ASSUME NEW o, NEW S, NEW fixed, NEW flags, Sane(o, S, fixed, flags), NEW T, T \subseteq S
  PROVE  Sane(o, T, fixed, flags)
BY DEF Sane

\* From q to p too, and x is bound.
HasBound(q, x, boxed, after, toks, p) ==
    /\ p \in Knowledge /\ Counts(p, Tag(after \cup {x}))
    /\ p.root = [q.root EXCEPT ![x] = x] /\ p.scope = q.scope \cup {x}
    /\ p.unboxed = IF boxed THEN q.unboxed \ {x} ELSE q.unboxed \cup {x}
    /\ p.tokens = toks /\ p.faults = q.faults

LEMMA BoundDone ==
  ASSUME NEW q, NEW after, NEW fixed, NEW flags, Sane(q, after, fixed, flags),
         NEW toks, NEW r, Done(q, r, after, toks),
         NEW x \in Names, x \notin fixed \cup after, NEW boxed \in BOOLEAN
  PROVE  HasBound(q, x, boxed, after, toks, Bound(r, x, boxed))
<1> DEFINE p == Bound(r, x, boxed)
           H == Tag(after)
           K == Tag(after \cup {x})
<1>1. q \in Knowledge /\ r \in Knowledge /\ after \subseteq Names
  BY DEF Sane, Done
<1>2. /\ p \in Knowledge /\ p.own = [r.own EXCEPT ![x] = IF boxed THEN 1 ELSE 0]
      /\ p.root = [r.root EXCEPT ![x] = x]
      /\ p.unboxed = (IF boxed THEN r.unboxed \ {x} ELSE r.unboxed \cup {x})
      /\ p.scope = r.scope \cup {x} /\ p.tokens = r.tokens
      /\ p.faults = (IF r.own[x] > 0 THEN r.faults \cup {x} ELSE r.faults)
  <2>1. BoundTo(r, x, boxed, p)
    BY <1>1, BoundFacts, Zenon
  <2> HIDE DEF p
  <2>2. QED
    BY <2>1 DEF BoundTo
<1>3. r.root = q.root /\ r.unboxed = q.unboxed /\ r.scope = q.scope /\ r.own = Owed(r, H) /\ r.tokens = toks /\ r.faults = q.faults
  BY DEF Done, Counts
<1>4. Of(r, H, x) = {}
  <2>1. Of(q, H, x) = {}
    BY SaneRoots
  <2>2. QED
    BY <2>1, <1>3 DEF Of
<1>5. r.own[x] = 0
  <2>1. Cardinality(Of(r, H, x)) = 0
    BY <1>4, FS_EmptySet
  <2>2. QED
    BY <2>1, <1>3 DEF Owed
<1>6. Holders(K)
  <2>1. after \cup {x} \subseteq Names
    BY <1>1
  <2>2. QED
    BY <2>1, TagHolders
<1> HIDE DEF p
<1>7. p.own = Owed(p, K)
  <2>1. r.own \in [Names -> Int] /\ p.own \in [Names -> Int] /\ q.root \in [Names -> Names]
    BY <1>1, <1>2 DEF Knowledge
  <2>2. ASSUME NEW s \in Names PROVE p.own[s] = IF s \in p.unboxed THEN 0 ELSE Cardinality(Of(p, K, s))
    <3>1. CASE s = x
      <4>1. p.own[x] = IF boxed THEN 1 ELSE 0
        BY <1>2, <2>1
      <4>2. x \in p.unboxed <=> ~boxed
        BY <1>2
      <4>3. Of(p, K, x) = {<<x, 0>>}
        <5>1. p.root[x] = x /\ \A w \in after : p.root[w] = r.root[w]
          BY <1>1, <1>2, <1>3, <2>1
        <5>2. \A h \in Tag(after) : r.root[h[1]] # x
          BY <1>4 DEF Of
        <5>3. QED
          BY <5>1, <5>2 DEF Of, Tag
      <4>4. Cardinality({<<x, 0>>}) = 1
        BY FS_Singleton
      <4>5. QED
        BY <3>1, <4>1, <4>2, <4>3, <4>4
    <3>2. CASE s # x
      <4>1. p.own[s] = r.own[s] /\ (s \in p.unboxed <=> s \in r.unboxed)
        BY <1>2, <2>1, <3>2
      <4>2. Of(p, K, s) = Of(r, H, s)
        <5>1. p.root[x] = x /\ \A w \in after : p.root[w] = r.root[w]
          BY <1>1, <1>2, <1>3, <2>1
        <5>2. QED
          BY <5>1, <3>2 DEF Of, Tag
      <4>3. r.own[s] = IF s \in r.unboxed THEN 0 ELSE Cardinality(Of(r, H, s))
        BY <1>3 DEF Owed
      <4>4. QED
        BY <4>1, <4>2, <4>3
    <3>3. QED
      BY <3>1, <3>2
  <2> HIDE DEF K
  <2>3. QED
    BY <2>1, <2>2 DEF Owed
<1>8. QED
  BY <1>2, <1>3, <1>5, <1>6, <1>7 DEF Counts, p, HasBound

\* A let that can be run, with what comes of it.
LetCan(q, S, fixed, flags, i, rest, live, boxed, toks, is) ==
    /\ Sane(q, S, fixed, flags) /\ i.x \in Names /\ i.x \notin fixed \cup flags
    /\ rest \in SUBSET Names /\ live \in SUBSET Names /\ live \subseteq fixed
    /\ AfterLet(i, rest, live) \subseteq S /\ boxed \in BOOLEAN /\ toks \subseteq q.tokens
    /\ Lets(q, is, i.x, boxed, AfterLet(i, rest, live), toks)
LetRan(q, fixed, flags, i, rest, live, boxed, toks, piece, p) ==
    /\ piece \in Seq(Items)
    /\ Ready(p, rest \cup live, fixed, IF boxed THEN flags ELSE flags \cup {i.x})
    /\ Same(q, p, fixed) /\ p.tokens = toks
\* A let, the drop of what it binds if nothing needs it, and what comes next.
LEMMA LetRun ==
  ASSUME NEW q, NEW S, NEW fixed, NEW flags, NEW i, NEW rest, NEW live, NEW boxed, NEW toks, NEW is,
         LetCan(q, S, fixed, flags, i, rest, live, boxed, toks, is)
  PROVE  LetRan(q, fixed, flags, i, rest, live, boxed, toks, is \o MaybeDrop(i.x, i.x \notin rest \cup live),
                Run(q, is \o MaybeDrop(i.x, i.x \notin rest \cup live)))
<1> USE DEF LetCan
<1> DEFINE x == i.x
           after == AfterLet(i, rest, live)
           dead == x \notin rest \cup live
           d == MaybeDrop(x, dead)
           p == Run(q, is)
           z == Run(q, is \o d)
           fs == IF boxed THEN flags ELSE flags \cup {x}
<1>1. q \in Knowledge /\ x \in Names /\ x \notin fixed /\ x \notin flags /\ is \in Seq(Items)
  BY DEF Sane, Lets
<1>2. after \subseteq Names /\ x \notin after /\ rest \cup live \subseteq Names
  BY DEF AfterLet
<1>3. Sane(q, after, fixed, flags)
  BY SaneLess
<1>4. PICK r : Done(q, r, after, toks) /\ p = Bound(r, x, boxed)
  BY DEF Lets
<1> HIDE DEF after, x, p
<1>5. /\ p \in Knowledge /\ Counts(p, Tag(after \cup {x}))
      /\ p.root = [q.root EXCEPT ![x] = x] /\ p.scope = q.scope \cup {x}
      /\ p.unboxed = (IF boxed THEN q.unboxed \ {x} ELSE q.unboxed \cup {x})
      /\ p.tokens = toks /\ p.faults = q.faults
  <2>1. x \in Names /\ x \notin fixed \cup after
    BY <1>1, <1>2
  <2>2. HasBound(q, x, boxed, after, toks, Bound(r, x, boxed))
    BY <1>3, <1>4, <2>1, BoundDone, ZenonT(40)
  <2>3. HasBound(q, x, boxed, after, toks, p)
    BY <1>4, <2>2, Zenon
  <2>4. QED
    BY <2>3 DEF HasBound
<1>6. d \in Seq(Items)
  BY <1>1, MaybeDropType DEF MaybeDropIs, Items
<1>7. is \o d \in Seq(Items) /\ z = Run(p, d)
  <2> HIDE DEF d
  <2>1. is \o d \in Seq(Items)
    BY <1>1, <1>6, BothFacts
  <2>2. z = Run(p, d)
    BY <1>1, <1>6, RunFacts DEF p
  <2>3. QED
    BY <2>1, <2>2
<1>8. z \in Knowledge /\ Quiet(p, z) /\ Counts(z, Tag(rest \cup live))
  <2>1. CASE dead
    <3>1. d = <<DropOf(x)>> /\ after = rest \cup live
      BY <2>1 DEF MaybeDrop, after, AfterLet, x
    <3> DEFINE h == <<x, 0>>
               g == [j \in {1} |-> h]
    <3>2. DropOf(x) \in Items
      BY <1>1, InstrMade DEF Items
    <3>3. z = Consume(p, <<x>>)
      <4>1. z = Step(p, DropOf(x), After)
        BY <3>1, <3>2, <1>5, <1>7, RunFacts
      <4>2. QED
        BY <4>1, StepDrop
    <3>4. Moves(p, <<x>>, Tag(after \cup {x}), g)
      <4>1. DOMAIN <<x>> = {1} /\ <<x>>[1] = x
        OBVIOUS
      <4>2. h \in Tag(after \cup {x})
        BY DEF Tag
      <4>3. QED
        BY <4>1, <4>2 DEF Moves
    <3>5. Moved(<<x>>, g) = {h}
      <4>1. DOMAIN <<x>> = {1}
        OBVIOUS
      <4>2. QED
        BY <4>1 DEF Moved
    <3>6. Tag(after \cup {x}) \ {h} = Tag(after)
      BY <1>2 DEF Tag
    <3> HIDE DEF h, g
    <3>7. <<x>> \in Seq(Names)
      BY <1>1
    <3>8. p \in Knowledge /\ Counts(p, Tag(after \cup {x}))
      BY <1>5
    <3>9. Quiet(p, Consume(p, <<x>>)) /\ Counts(Consume(p, <<x>>), Tag(after \cup {x}) \ Moved(<<x>>, g))
      BY <3>4, <3>7, <3>8, ConsumeCounts
    <3>10. Consume(p, <<x>>) \in Knowledge
      BY <3>7, <3>8, ConsumeFacts
    <3> HIDE DEF z, d, dead
    <3>11. QED
      BY <3>1, <3>3, <3>5, <3>6, <3>9, <3>10
  <2>2. CASE ~dead
    <3>1. d = <<>> /\ after \cup {x} = rest \cup live
      BY <2>2 DEF MaybeDrop, after, AfterLet, x
    <3>2. z = p
      BY <3>1, <1>5, <1>7, RunFacts
    <3> HIDE DEF z, d
    <3>3. QED
      BY <3>1, <3>2, <1>5, QuietOn
  <2>3. QED
    BY <2>1, <2>2
<1> HIDE DEF z
<1>9. /\ z.root = [q.root EXCEPT ![x] = x] /\ z.scope = q.scope \cup {x}
      /\ z.unboxed = (IF boxed THEN q.unboxed \ {x} ELSE q.unboxed \cup {x})
      /\ z.tokens = toks /\ z.faults = q.faults
  BY <1>5, <1>8 DEF Quiet, OnlyOwn
<1>10. q.root \in [Names -> Names]
  BY <1>1 DEF Knowledge
<1>11. Sane(z, rest \cup live, fixed, fs)
  <2>1. ASSUME NEW w \in rest \cup live
        PROVE  /\ z.root[w] \in {w} \cup fixed /\ z.root[w] \in z.scope
               /\ z.root[w] \in z.unboxed <=> w \in fs
    <3>1. CASE w = x
      BY <3>1, <1>1, <1>9, <1>10
    <3>2. CASE w # x
      <4>1. w \in after /\ w \in Names
        BY <3>2, <1>2 DEF after, AfterLet, x
      <4>2. /\ q.root[w] \in {w} \cup fixed /\ q.root[w] \in q.scope
            /\ q.root[w] \in q.unboxed <=> w \in flags
        BY <4>1, <1>3 DEF Sane
      <4>3. z.root[w] = q.root[w] /\ q.root[w] # x
        BY <3>2, <4>1, <4>2, <1>1, <1>9, <1>10
      <4>4. QED
        BY <3>2, <4>2, <4>3, <1>9
    <3>3. QED
      BY <3>1, <3>2
  <2>2. ASSUME NEW t \in z.tokens PROVE t[1] \in fixed \ (rest \cup live)
    <3>1. t \in q.tokens
      BY <1>9
    <3>2. t[1] \in fixed \ after
      BY <3>1, <1>3 DEF Sane
    <3>3. QED
      BY <3>2, <1>1 DEF after, AfterLet, x
  <2> HIDE DEF fs
  <2>3. QED
    BY <2>1, <2>2, <1>2, <1>8 DEF Sane
<1>12. Same(q, z, fixed)
  <2>1. fixed \cap {x} = {}
    BY <1>1
  <2>2. ASSUME NEW w \in fixed PROVE z.root[w] = q.root[w] /\ (w \in z.unboxed <=> w \in q.unboxed)
    <3>1. w # x
      BY <2>1
    <3>2. z.root[w] = q.root[w]
      BY <3>1, <1>9, <1>10
    <3>3. QED
      BY <3>1, <3>2, <1>9
  <2>3. QED
    BY <2>2, <1>9 DEF Same
<1>13. QED
  BY <1>7, <1>8, <1>9, <1>11, <1>12 DEF Ready, z, d, dead, x, fs, LetRan

-----------------------------------------------------------------------------
(* Binds without branches                                                  *)

\* No later operand is the same variable.
LastAt(as, p) == \A j \in DOMAIN as : j > p => as[j] # as[p]

LEMMA LastUse ==
  ASSUME NEW as \in Seq(Names), NEW w \in Elems(as)
  PROVE  \E p \in DOMAIN as : as[p] = w /\ LastAt(as, p)
<1> DEFINE T == {l \in Nat : \E i \in 1..Len(as) : l = Len(as) - i /\ as[i] = w}
<1>1. Len(as) \in Nat /\ DOMAIN as = 1..Len(as)
  BY SeqAt
<1>2. T # {}
  <2>1. PICK i \in 1..Len(as) : as[i] = w
    BY <1>1 DEF Elems
  <2> HIDE DEF T
  <2>2. Len(as) - i \in Nat
    <3> DEFINE N == Len(as)
    <3>1. N \in Nat /\ i \in 1..N
      BY <1>1
    <3> HIDE DEF N
    <3>2. N - i \in Nat
      BY <3>1
    <3>3. QED
      BY <3>2 DEF N
  <2>3. Len(as) - i \in T
    BY <2>1, <2>2 DEF T
  <2>4. QED
    BY <2>3
<1>3. PICK m \in T : \A k \in T : m <= k
  <2>1. T \subseteq Nat
    OBVIOUS
  <2> HIDE DEF T
  <2>2. QED
    BY <1>2, <2>1, Least
<1>4. PICK p \in 1..Len(as) : m = Len(as) - p /\ as[p] = w
  OBVIOUS
<1>5. ASSUME NEW j \in 1..Len(as), j > p, as[j] = w PROVE FALSE
  <2>0. Len(as) - j \in Nat
    <3> DEFINE N == Len(as)
    <3>1. N \in Nat /\ j \in 1..N
      BY <1>1
    <3> HIDE DEF N
    <3>2. N - j \in Nat
      BY <3>1
    <3>3. QED
      BY <3>2 DEF N
  <2>1. Len(as) - j \in T
    BY <2>0, <1>5
  <2>2. m <= Len(as) - j
    BY <1>3, <2>1
  <2>3. QED
    BY <1>1, <1>4, <1>5, <2>2
<1>6. QED
  BY <1>1, <1>4, <1>5 DEF LastAt

\* The operands are duplicated and then consumed: those in after are left.
LEMMA OperandsRun ==
  ASSUME NEW q \in Knowledge, NEW as \in Seq(Names), NEW after \in SUBSET Names,
         Counts(q, Tag(Elems(as) \cup after))
  PROVE  LET p == Run(q, OperandDups(as, after))
         IN  /\ p \in Knowledge /\ Quiet(q, p)
             /\ Done(q, Consume(p, as), after, q.tokens)
<1> DEFINE S == Elems(as) \cup after
           H == Tag(S)
           ps == Extra(as, after)
           n == Cardinality(ps)
           is == OperandDups(as, after)
           f == [i \in 1..n |-> <<as[Listed(ps)[i]], Listed(ps)[i]>>]
           G == {f[i] : i \in 1..n}
           p == Run(q, is)
           m == [i \in DOMAIN as |-> <<as[i], IF i \in ps THEN i ELSE 0>>]
<1>1. Len(as) \in Nat /\ DOMAIN as = 1..Len(as) /\ \A i \in 1..Len(as) : as[i] \in Names
  BY SeqAt
<1>2. ps \subseteq 1..Len(as) /\ IsFiniteSet(ps) /\ n \in Nat
  BY ExtraFacts
<1>3. /\ Listed(ps) \in [1..n -> ps]
      /\ \A i, j \in 1..n : Listed(ps)[i] = Listed(ps)[j] => i = j
      /\ {Listed(ps)[i] : i \in 1..n} = ps
  BY <1>2, ListedFacts
<1>4. is \in Seq(Items) /\ Len(is) = n /\ \A i \in 1..n : is[i] = DupOf(as[Listed(ps)[i]])
  BY OperandDupsType DEF Items
<1> HIDE DEF is
<1>5. Dupping(q, H, n, f, is)
  <2> DEFINE L == Listed(ps)
  <2> HIDE DEF L, ps, n
  <2>1. ASSUME NEW i \in 1..n
        PROVE  /\ L[i] \in 1..Len(as) /\ f[i] = <<as[L[i]], L[i]>> /\ f[i] \in Names \X Nat
               /\ is[i] = DupOf(f[i][1]) /\ f[i] \notin H
    <3>1. L[i] \in 1..Len(as)
      BY <1>2, <1>3 DEF L
    <3>2. f[i] = <<as[L[i]], L[i]>>
      BY DEF L
    <3>3. as[L[i]] \in Names /\ L[i] \in Nat /\ L[i] # 0
      <4> DEFINE N == Len(as)
                 l == L[i]
      <4>1. N \in Nat /\ l \in 1..N /\ as[l] \in Names
        BY <3>1, <1>1
      <4> HIDE DEF N, l
      <4>2. l \in Nat /\ l # 0
        BY <4>1
      <4>3. QED
        BY <4>1, <4>2 DEF l
    <3>4. f[i] \notin H
      BY <3>2, <3>3 DEF Tag
    <3>5. is[i] = DupOf(f[i][1])
      BY <3>2, <1>4 DEF L
    <3>6. QED
      BY <3>1, <3>2, <3>3, <3>4, <3>5
  <2>2. ASSUME NEW i \in 1..n PROVE q.root[f[i][1]] \notin q.unboxed => Backed(q, H, f[i])
    <3>1. f[i][1] \in Elems(as)
      BY <2>1, <1>1 DEF Elems
    <3>2. <<f[i][1], 0>> \in H
      BY <3>1 DEF Tag
    <3>3. QED
      BY <3>2 DEF Backed
  <2>3. f \in [1..n -> Names \X Nat]
    BY <2>1
  <2>4. \A i, j \in 1..n : f[i] = f[j] => i = j
    BY <2>1, <1>3 DEF L
  <2>5. QED
    BY <1>2, <1>4, <2>1, <2>2, <2>3, <2>4 DEF Dupping
<1>6. p \in Knowledge /\ Quiet(q, p) /\ Counts(p, H \cup G)
  <2> HIDE DEF f, n, H
  <2>1. Counts(q, H)
    BY DEF H
  <2>2. QED
    BY <1>5, <2>1, DupsRun
<1>7. G = {<<as[i], i>> : i \in ps}
  <2> HIDE DEF ps, n
  <2>1. \A i \in 1..n : f[i] = <<as[Listed(ps)[i]], Listed(ps)[i]>> /\ Listed(ps)[i] \in ps
    BY <1>3
  <2>2. \A i \in ps : \E j \in 1..n : i = Listed(ps)[j]
    BY <1>3
  <2> HIDE DEF f
  <2>3. \A h : h \in G <=> \E i \in 1..n : h = f[i]
    OBVIOUS
  <2>4. \A h : h \in G => \E i \in ps : h = <<as[i], i>>
    BY <2>1, <2>3, ZenonT(40)
  <2>5. ASSUME NEW i \in ps PROVE <<as[i], i>> \in G
    <3>1. PICK j \in 1..n : i = Listed(ps)[j]
      BY <2>2
    <3>2. f[j] = <<as[i], i>>
      BY <3>1, <2>1
    <3>3. QED
      BY <3>2
  <2> HIDE DEF G
  <2>6. QED
    BY <2>4, <2>5
<1> HIDE DEF f, n, G
<1>8. Moves(p, as, H \cup G, m)
  <2>1. ASSUME NEW i \in DOMAIN as PROVE m[i] \in H \cup G
    <3>1. CASE i \in ps
      BY <3>1, <1>7
    <3>2. CASE i \notin ps
      <4>1. as[i] \in S
        BY DEF Elems
      <4>2. QED
        BY <3>2, <4>1 DEF Tag
    <3>3. QED
      BY <3>1, <3>2
  <2>2. ASSUME NEW i \in DOMAIN as, NEW j \in DOMAIN as, m[i] = m[j] PROVE i = j
    <3>1. as[i] = as[j] /\ (IF i \in ps THEN i ELSE 0) = (IF j \in ps THEN j ELSE 0)
      BY <2>2
    <3>2. i \in Nat /\ i # 0 /\ j \in Nat /\ j # 0
      BY <1>1
    <3>3. CASE i \notin ps /\ j \notin ps
      <4>1. ~(j > i) /\ ~(i > j)
        BY <3>1, <3>3 DEF Extra
      <4>2. QED
        BY <4>1, <3>2
    <3>4. CASE i \in ps \/ j \in ps
      BY <3>1, <3>2, <3>4
    <3>5. QED
      BY <3>3, <3>4
  <2> HIDE DEF ps, H
  <2>3. QED
    BY <2>1, <2>2 DEF Moves
<1>9. (H \cup G) \ Moved(as, m) = Tag(after)
  <2>1. Moved(as, m) = {<<as[i], IF i \in ps THEN i ELSE 0>> : i \in DOMAIN as}
    BY DEF Moved
  <2>2. ASSUME NEW h \in H, h \notin Moved(as, m) PROVE h \in Tag(after)
    <3>1. PICK w \in S : h = <<w, 0>>
      <4>1. h \in Tag(S)
        BY <2>2
      <4> HIDE DEF S
      <4>2. QED
        BY <4>1 DEF Tag
    <3>2. ASSUME w \in Elems(as), w \notin after PROVE FALSE
      <4>1. PICK i \in DOMAIN as : as[i] = w /\ LastAt(as, i)
        BY <3>2, LastUse
      <4>2. i \notin ps
        BY <3>2, <4>1 DEF Extra, LastAt
      <4> HIDE DEF ps, H, m
      <4>3. h = <<as[i], IF i \in ps THEN i ELSE 0>>
        BY <3>1, <4>1, <4>2
      <4>4. QED
        BY <2>1, <2>2, <4>1, <4>3
    <3>3. w \in after
      BY <3>1, <3>2
    <3>4. QED
      BY <3>1, <3>3 DEF Tag
  <2>3. ASSUME NEW h \in G PROVE h \in Moved(as, m)
    <3>1. PICK i \in ps : h = <<as[i], i>>
      BY <1>7
    <3>2. QED
      BY <3>1, <2>1, <1>1, <1>2
  <2>4. ASSUME NEW w \in after PROVE <<w, 0>> \in H /\ <<w, 0>> \notin Moved(as, m)
    <3>1. <<w, 0>> \in H
      BY DEF Tag
    <3>2. ASSUME NEW i \in DOMAIN as, <<w, 0>> = <<as[i], IF i \in ps THEN i ELSE 0>> PROVE FALSE
      <4>1. as[i] = w /\ (i \in ps => i = 0)
        BY <3>2
      <4>2. i \in ps
        BY <4>1 DEF Extra
      <4>3. i \in 1..Len(as) /\ i = 0 /\ Len(as) \in Nat
        BY <4>1, <4>2, <1>1, <1>2
      <4> DEFINE N == Len(as)
      <4> HIDE DEF N
      <4>4. i \in 1..N /\ i = 0 /\ N \in Nat
        BY <4>3 DEF N
      <4>5. QED
        BY <4>4
    <3> HIDE DEF H, m, ps
    <3>3. QED
      BY <3>1, <3>2, <2>1
  <2>5. \A h : h \in Tag(after) <=> \E w \in after : h = <<w, 0>>
    BY DEF Tag
  <2> HIDE DEF H, m, ps
  <2>6. \A h : h \in (H \cup G) \ Moved(as, m) => h \in Tag(after)
    BY <2>2, <2>3
  <2>7. \A h : h \in Tag(after) => h \in (H \cup G) \ Moved(as, m)
    BY <2>4, <2>5
  <2>8. QED
    BY <2>6, <2>7
<1> HIDE DEF m, H, p
<1>10. Quiet(p, Consume(p, as)) /\ Counts(Consume(p, as), Tag(after))
  <2>1. Quiet(p, Consume(p, as)) /\ Counts(Consume(p, as), (H \cup G) \ Moved(as, m))
    BY <1>6, <1>8, ConsumeCounts
  <2>2. QED
    BY <2>1, <1>9
<1>11. Consume(p, as) \in Knowledge
  BY <1>6, ConsumeFacts
<1>12. Done(q, Consume(p, as), after, q.tokens)
  BY <1>6, <1>10, <1>11 DEF Done, Quiet, OnlyOwn
<1>13. QED
  BY <1>6, <1>12 DEF p, is

LEMMA SimpleLet ==
  ASSUME NEW q \in Knowledge, NEW i \in Items, i.k = "let", i.b.op \in SimpleOps, NEW after \in SUBSET Names,
         Counts(q, Tag(Elems(i.b.as) \cup after)), NEW rc
  PROVE  Lets(q, LetPart(i, after, rc), i.x, i.b.op # "equal", after, q.tokens)
<1> DEFINE as == i.b.as
           d == OperandDups(as, after)
           p == Run(q, d)
<1>1. i.x \in Names /\ i.b \in BindForms(Code)
  BY InstrParts DEF Items
<1>2. as \in Seq(Names) /\ i.b.op \notin {"ctorreuse", "if", "match"}
  BY <1>1, BindParts DEF SimpleOps
<1>3. LetPart(i, after, rc) = d \o <<i>>
  BY <1>2 DEF LetPart
<1>4. d \in Seq(Items)
  BY <1>2, OperandDupsType DEF Items
<1>5. <<i>> \in Seq(Items)
  OBVIOUS
<1>6. p \in Knowledge /\ Done(q, Consume(p, as), after, q.tokens)
  BY <1>2, OperandsRun
<1>7. Step(p, i, After) = Bound(Consume(p, as), i.x, i.b.op # "equal")
  BY <1>2 DEF Step, AfterBind
<1> HIDE DEF d, as
<1>8. Run(q, d \o <<i>>) = Step(p, i, After)
  <2>1. Run(q, d \o <<i>>) = Run(p, <<i>>)
    BY <1>4, <1>5, RunFacts
  <2>2. QED
    BY <2>1, <1>6, RunFacts
<1>9. d \o <<i>> \in Seq(Items)
  BY <1>4, <1>5, BothFacts
<1>10. QED
  BY <1>3, <1>6, <1>7, <1>8, <1>9 DEF Lets

\* The same with a constructor that takes a pending token of its size.
LEMMA ReuseLet ==
  ASSUME NEW q \in Knowledge, NEW i \in Items, i.k = "let", i.b.op = "ctor", NEW after \in SUBSET Names,
         Counts(q, Tag(Elems(i.b.as) \cup after)),
         NEW t \in Names, <<t, Len(i.b.as)>> \in q.tokens
  PROVE  Lets(q, OperandDups(i.b.as, after) \o <<LetIn(i.x, BReuse(t, i.b.n, i.b.as))>>, i.x, TRUE, after,
              q.tokens \ {<<t, Len(i.b.as)>>})
<1> DEFINE as == i.b.as
           d == OperandDups(as, after)
           p == Run(q, d)
           b == BReuse(t, i.b.n, as)
           y == LetIn(i.x, b)
           c == Consume(p, as)
           z == [c EXCEPT !.tokens = @ \ {<<t, Len(as)>>}]
<1>1. i.x \in Names /\ i.b \in BindForms(Code)
  BY InstrParts DEF Items
<1>2. as \in Seq(Names) /\ i.b.n \in STRING
  BY <1>1, BindParts DEF SimpleOps
<1>3. y \in Items
  <2>1. b \in BindForms(Code)
    BY <1>2, BindMade
  <2>2. QED
    BY <2>1, <1>1, InstrMade DEF Items
<1>4. d \in Seq(Items) /\ <<y>> \in Seq(Items)
  <2>1. d \in Seq(Items)
    BY <1>2, OperandDupsType DEF Items
  <2>2. QED
    BY <2>1, <1>3
<1>5. p \in Knowledge /\ Quiet(q, p) /\ Done(q, c, after, q.tokens)
  BY <1>2, OperandsRun
<1>6. Step(p, y, After) = Bound(AfterBind(p, b, After), i.x, TRUE)
  BY DEF Step, LetIn, BReuse
<1>7. AfterBind(p, b, After) = Fault(z, t, <<t, Len(as)>> \notin p.tokens)
  BY DEF AfterBind, BReuse
<1> HIDE DEF d, as, y, b, p, c
<1>8. /\ z \in Knowledge /\ z.root = c.root /\ z.unboxed = c.unboxed /\ z.scope = c.scope /\ z.own = c.own
      /\ z.tokens = c.tokens \ {<<t, Len(as)>>} /\ z.faults = c.faults
  BY <1>5 DEF Done, Knowledge
<1>9. Fault(z, t, <<t, Len(as)>> \notin p.tokens) = z
  <2>1. <<t, Len(as)>> \in p.tokens
    BY <1>5 DEF Quiet, OnlyOwn, as
  <2> HIDE DEF z
  <2>2. QED
    BY <2>1, <1>8, FaultFacts
<1> HIDE DEF z
<1>10. Done(q, z, after, q.tokens \ {<<t, Len(as)>>})
  <2>1. Owed(z, Tag(after)) = Owed(c, Tag(after))
    BY <1>8 DEF Owed, Of
  <2>2. QED
    BY <2>1, <1>5, <1>8 DEF Done, Counts
<1>11. Run(q, d \o <<y>>) = Step(p, y, After)
  <2>1. Run(q, d \o <<y>>) = Run(p, <<y>>)
    BY <1>4, RunFacts DEF p
  <2>2. QED
    BY <2>1, <1>3, <1>5, RunFacts
<1>12. d \o <<y>> \in Seq(Items)
  BY <1>4, BothFacts
<1>13. Run(q, d \o <<y>>) = Bound(z, i.x, TRUE)
  BY <1>6, <1>7, <1>9, <1>11
<1>14. Lets(q, d \o <<y>>, i.x, TRUE, after, q.tokens \ {<<t, Len(as)>>})
  BY <1>10, <1>12, <1>13 DEF Lets
<1>15. QED
  BY <1>14 DEF d, y, b, as

\* Where an element of s \o t comes from.
AtLeft(A, s, t, l) ==
    l \in 1..Len(s) /\ (s \o t)[l] = s[l] /\ \A y \in A : Patched(s \o t, l, y) = Patched(s, l, y) \o t
AtRight(A, s, t, l, n) ==
    /\ n \in 1..Len(t) /\ l = Len(s) + n /\ (s \o t)[l] = t[n]
    /\ \A y \in A : Patched(s \o t, l, y) = s \o Patched(t, n, y)
LEMMA PatchedAfter ==
  ASSUME NEW A, NEW s \in Seq(A), NEW t \in Seq(A), NEW n \in 1..Len(t)
  PROVE  \A y \in A : Patched(s \o t, Len(s) + n, y) = s \o Patched(t, n, y)
<1>1. ASSUME NEW y \in A PROVE Patched(s \o t, Len(s) + n, y) = s \o Patched(t, n, y)
  BY PatchedRight
<1>2. QED
  BY <1>1

LEMMA BothAt ==
  ASSUME NEW A, NEW s \in Seq(A), NEW t \in Seq(A), NEW l \in 1..Len(s \o t)
  PROVE  AtLeft(A, s, t, l) \/ \E n \in 1..Len(t) : AtRight(A, s, t, l, n)
<1>1. Len(s \o t) = Len(s) + Len(t) /\ Len(s) \in Nat /\ Len(t) \in Nat
  BY BothFacts
<1>2. CASE l \in 1..Len(s)
  <2>1. (s \o t)[l] = s[l]
    BY <1>2, BothFacts
  <2>2. ASSUME NEW y \in A PROVE Patched(s \o t, l, y) = Patched(s, l, y) \o t
    BY <1>2, PatchedLeft, SMTT(40)
  <2>3. QED
    BY <1>2, <2>1, <2>2 DEF AtLeft
<1>3. CASE l \notin 1..Len(s)
  <2> DEFINE n == l - Len(s)
  <2>1. n \in 1..Len(t) /\ l = Len(s) + n
    <3> DEFINE M == Len(s)
               N == Len(t)
    <3>1. M \in Nat /\ N \in Nat /\ l \in 1..(M + N) /\ l \notin 1..M
      BY <1>1, <1>3
    <3> HIDE DEF M, N
    <3>2. l - M \in 1..N /\ l = M + (l - M)
      BY <3>1
    <3>3. QED
      BY <3>2 DEF M, N
  <2> HIDE DEF n
  <2>2. (s \o t)[l] = t[n]
    BY <2>1, BothFacts
  <2>3. \A y \in A : Patched(s \o t, l, y) = s \o Patched(t, n, y)
    <3>1. n \in 1..Len(t)
      BY <2>1
    <3>2. \A y \in A : Patched(s \o t, Len(s) + n, y) = s \o Patched(t, n, y)
      BY <3>1, PatchedAfter
    <3>3. QED
      BY <2>1, <3>2
  <2>4. QED
    BY <2>1, <2>2, <2>3 DEF AtRight
<1>4. QED
  BY <1>2, <1>3

\* Where the constructors are that may take a token.
OnlyCtor(parts, i, after, piece, l, d) ==
    /\ i.b.op = "ctor" /\ piece[l] = i
    /\ \A y \in InstrForms(parts) :
          Patched(piece, l, y) = (OperandDups(i.b.as, after) \o <<y>>) \o d
LEMMA CtorPiece ==
  ASSUME NEW parts, NEW i \in InstrForms(parts), i.k = "let", i.b.op # "ctorreuse", NEW after \in SUBSET Names, NEW rc,
         LetPart(i, after, rc) \in Seq(InstrForms(parts)), NEW dead,
         NEW l \in 1..Len(LetPart(i, after, rc) \o MaybeDrop(i.x, dead)),
         CtorAt(LetPart(i, after, rc) \o MaybeDrop(i.x, dead), l)
  PROVE  OnlyCtor(parts, i, after, LetPart(i, after, rc) \o MaybeDrop(i.x, dead), l, MaybeDrop(i.x, dead))
<1> DEFINE I == InstrForms(parts)
           s == LetPart(i, after, rc)
           d == MaybeDrop(i.x, dead)
           u == OperandDups(i.b.as, after)
<1>1. i.x \in Names /\ i.b \in BindForms(parts)
  BY InstrParts
<1>2. s \in Seq(I) /\ d \in Seq(I) /\ <<i>> \in Seq(I)
  BY <1>1, MaybeDropType DEF MaybeDropIs
<1>3. ASSUME NEW n \in 1..Len(d), AtRight(I, s, d, l, n) PROVE FALSE
  <2>1. CtorAt(s \o d, l) /\ (s \o d)[l] = d[n]
    BY <1>3 DEF AtRight
  <2>2. d[n].k = "let"
    BY <2>1 DEF CtorAt
  <2>3. d = <<DropOf(i.x)>> \/ d = <<>>
    BY DEF MaybeDrop
  <2>4. d[n] = DropOf(i.x)
    BY <2>3
  <2>5. QED
    BY <2>2, <2>4 DEF DropOf
<1>4. AtLeft(I, s, d, l)
  BY <1>2, <1>3, BothAt
<1>5. l \in 1..Len(s) /\ s[l].k = "let" /\ s[l].b.op = "ctor"
  BY <1>4 DEF AtLeft, CtorAt
<1>6. ASSUME i.b.op \in {"if", "match"} PROVE FALSE
  <2>1. s = <<s[1]>> /\ s[1].b.op = i.b.op
    BY <1>6 DEF LetPart, LetIn, BIf, BMatch
  <2> HIDE DEF s
  <2>2. Len(s) = 1
    BY <2>1
  <2>3. l = 1
    BY <2>2, <1>5
  <2>4. QED
    BY <1>5, <1>6, <2>1, <2>3
<1>7. i.b.as \in Seq(Names) /\ s = u \o <<i>>
  <2>1. i.b.as \in Seq(Names)
    BY <1>1, <1>6, BindParts
  <2>2. QED
    BY <1>6, <2>1 DEF LetPart
<1>8. u \in Seq(I) /\ \A n \in 1..Len(u) : u[n].k = "dup"
  <2>1. OperandDups(i.b.as, after) \in Seq(I) /\ Len(OperandDups(i.b.as, after)) = Cardinality(Extra(i.b.as, after))
    BY <1>7, OperandDupsType
  <2>2. \A n \in 1..Cardinality(Extra(i.b.as, after)) : u[n] = DupOf(i.b.as[Listed(Extra(i.b.as, after))[n]])
    BY <1>7, OperandDupsType
  <2> DEFINE c == Cardinality(Extra(i.b.as, after))
  <2>3. u \in Seq(I) /\ Len(u) = c
    BY <2>1
  <2>4. ASSUME NEW n \in 1..c PROVE \E w : u[n] = DupOf(w)
    BY <2>2
  <2> HIDE DEF u, c
  <2>5. ASSUME NEW n \in 1..c PROVE u[n].k = "dup"
    <3>1. PICK w : u[n] = DupOf(w)
      BY <2>4
    <3>2. QED
      BY <3>1 DEF DupOf
  <2>6. QED
    BY <2>3, <2>5
<1> HIDE DEF s, d, u
<1>9. l \in 1..Len(u \o <<i>>)
  BY <1>5, <1>7
<1>10. ASSUME AtLeft(I, u, <<i>>, l) PROVE FALSE
  <2>1. l \in 1..Len(u) /\ s[l] = u[l]
    BY <1>7, <1>10 DEF AtLeft
  <2>2. QED
    BY <2>1, <1>5, <1>8
<1>11. PICK n \in 1..Len(<<i>>) : AtRight(I, u, <<i>>, l, n)
  BY <1>2, <1>8, <1>9, <1>10, BothAt
<1>12. n = 1 /\ <<i>>[n] = i
  OBVIOUS
<1>13. s[l] = i /\ \A y \in I : Patched(s, l, y) = u \o <<y>>
  <2>1. s[l] = i /\ \A y \in I : Patched(s, l, y) = u \o Patched(<<i>>, n, y)
    BY <1>7, <1>11, <1>12 DEF AtRight
  <2>2. ASSUME NEW y \in I PROVE Patched(<<i>>, n, y) = <<y>>
    BY <1>12 DEF Patched
  <2>3. QED
    BY <2>1, <2>2
<1>14. (s \o d)[l] = i /\ \A y \in I : Patched(s \o d, l, y) = (u \o <<y>>) \o d
  BY <1>4, <1>13 DEF AtLeft
<1>15. i.b.op = "ctor"
  BY <1>5, <1>13
<1>16. OnlyCtor(parts, i, after, s \o d, l, d)
  BY <1>14, <1>15 DEF OnlyCtor, u
<1>17. QED
  BY <1>16 DEF s, d

-----------------------------------------------------------------------------
(* What the pass promises of an expression                                 *)

\* From o to r the references of all but those in live have been consumed,
\* and of the tokens those in toks are left.
Served(o, r, live, toks) ==
    r \in Knowledge /\ r.own = Owed(o, Tag(live)) /\ r.tokens = toks /\ r.faults = o.faults
\* The converted e does that, and if a constructor of it takes a pending token
\* it does that too.
Serves(o, e, live) == Served(o, After[<<o, e>>], live, o.tokens)
TakesAt(o, e, live, k, t) ==
    LET token == <<t, Len(e.is[k].b.as)>>
    IN  CtorAt(e.is, k) /\ token \in o.tokens
           => Served(o, After[<<o, With(e, Reused(e.is, k, t))>>], live, o.tokens \ {token})
Takes(o, e, live) == \A k \in 1..Len(e.is), t \in Names : TakesAt(o, e, live, k, t)
Asked(o, e, fixed, flags, live) ==
    /\ fixed \in SUBSET Names /\ flags \in SUBSET Names /\ live \in SUBSET Names /\ live \subseteq fixed
    /\ Fits[<<e, fixed, flags>>] /\ Ready(o, Fv[e] \cup live, fixed, flags)
Right(e) ==
    \A o, fixed, flags, live : Asked(o, e, fixed, flags, live)
       => Serves(o, Rc[<<e, live>>], live) /\ Takes(o, Rc[<<e, live>>], live)

LEMMA ServedQuiet ==
  ASSUME NEW q, NEW p, Quiet(q, p), NEW r, NEW live, NEW toks, Served(p, r, live, toks)
  PROVE  Served(q, r, live, toks)
BY DEF Served, Quiet, OnlyOwn, Owed, Of

LEMMA SaneMore ==
  ASSUME NEW o, NEW S, NEW fixed, NEW flags, Sane(o, S, fixed, flags), NEW more, fixed \subseteq more
  PROVE  Sane(o, S, more, flags)
BY DEF Sane

LEMMA SaneQuiet ==
  ASSUME NEW q, NEW p \in Knowledge, Quiet(q, p), NEW S, NEW fixed, NEW flags, Sane(q, S, fixed, flags)
  PROVE  Sane(p, S, fixed, flags)
BY DEF Quiet, OnlyOwn, Sane

LEMMA AfterRun ==
  ASSUME NEW o \in Knowledge, NEW e \in Code
  PROVE  /\ e.is \in Seq(Items) /\ e.as \in Seq(Names)
         /\ After[<<o, e>>] = Consume(Run(o, e.is), e.as) /\ After[<<o, e>>] \in Knowledge
<1>1. e \in Exprs
  BY CodeExprs
<1>2. QED
  BY <1>1, AfterType, ExprParts DEF Exprs, Items, Run, Answers

LEMMA AfterBefore ==
  ASSUME NEW o \in Knowledge, NEW e \in Code, NEW is \in Seq(Items), Before(is, e) \in Code
  PROVE  After[<<o, Before(is, e)>>] = After[<<Run(o, is), e>>]
<1>1. e \in Exprs
  BY CodeExprs
<1>2. Before(is, e).is = is \o e.is /\ Before(is, e).as = e.as
  <2>1. Before(is, e) = With(e, is \o e.is)
    BY <1>1, BeforeType DEF Exprs, Items
  <2>2. QED
    BY <2>1 DEF With
<1>3. Run(o, is) \in Knowledge
  BY RunFacts
<1>4. e.is \in Seq(Items)
  BY AfterRun
<1>5. Run(o, is \o e.is) = Run(Run(o, is), e.is)
  BY <1>4, RunFacts
<1>6. After[<<o, Before(is, e)>>] = Consume(Run(o, is \o e.is), e.as)
  BY <1>2, AfterRun
<1>7. After[<<Run(o, is), e>>] = Consume(Run(Run(o, is), e.is), e.as)
  BY <1>3, AfterRun
<1>8. QED
  BY <1>5, <1>6, <1>7

\* Branches that all do that leave the variables alike.
LEMMA JoinDone ==
  ASSUME NEW q, NEW after, NEW fixed, NEW flags, Sane(q, after, fixed, flags), NEW v \in Names,
         NEW toks, NEW results, results # {}, \A r \in results : Served(q, r, after, toks)
  PROVE  Done(q, Join(q, v, results), after, toks)
<1> DEFINE j == Join(q, v, results)
<1>1. q \in Knowledge /\ results \in SUBSET Knowledge /\ after \subseteq Names
  BY DEF Sane, Served
<1>2. Alike(results)
  BY DEF Alike, Served
<1>3. Settled(q, results)
  <2> SUFFICES ASSUME NEW r \in results, NEW x \in Names \ q.scope PROVE r.own[x] = 0
    BY DEF Settled
  <2>1. Of(q, Tag(after), x) = {}
    BY DEF Of, Tag, Sane
  <2>2. r.own[x] = IF x \in q.unboxed THEN 0 ELSE Cardinality(Of(q, Tag(after), x))
    BY DEF Served, Owed
  <2>3. QED
    BY <2>1, <2>2, FS_EmptySet
<1>4. FaultsOf(q, results) = q.faults
  <2>1. \A r \in results : r.faults = q.faults
    BY DEF Served
  <2>2. QED
    BY <2>1 DEF FaultsOf
<1>5. /\ j \in Knowledge /\ j.root = q.root /\ j.unboxed = q.unboxed /\ j.scope = q.scope
      /\ \E r \in results : j.own = r.own /\ j.tokens = r.tokens
      /\ j.faults = IF Alike(results) /\ Settled(q, results)
                    THEN FaultsOf(q, results) ELSE FaultsOf(q, results) \cup {v}
  BY <1>1, JoinFacts, ZenonT(40)
<1> HIDE DEF j
<1>6. j.own = Owed(q, Tag(after)) /\ j.tokens = toks
  BY <1>5 DEF Served
<1>7. Owed(j, Tag(after)) = Owed(q, Tag(after))
  BY <1>5 DEF Owed, Of
<1>8. Holders(Tag(after))
  BY <1>1, TagHolders
<1>9. Done(q, j, after, toks)
  BY <1>2, <1>3, <1>4, <1>5, <1>6, <1>7, <1>8 DEF Done, Counts
<1>10. QED
  BY <1>9 DEF j

\* Dropping what only others need and going on.
LEMMA DropsThen ==
  ASSUME NEW q, NEW S, NEW fixed, NEW flags, Ready(q, S, fixed, flags), NEW D, D \subseteq S
  PROVE  /\ Drops(D) \in Seq(Items) /\ Run(q, Drops(D)) \in Knowledge /\ Quiet(q, Run(q, Drops(D)))
         /\ Ready(Run(q, Drops(D)), S \ D, fixed, flags)
<1> DEFINE p == Run(q, Drops(D))
<1>1. q \in Knowledge /\ D \subseteq Names /\ Counts(q, Tag(S)) /\ Tag(D) \subseteq Tag(S) /\ Sane(q, S, fixed, flags)
  BY DEF Ready, Sane, Tag
<1>2. Drops(D) \in Seq(Items) /\ p \in Knowledge /\ Quiet(q, p) /\ Counts(p, Tag(S) \ Tag(D))
  BY <1>1, DropsRun
<1> HIDE DEF p
<1>3. Tag(S) \ Tag(D) = Tag(S \ D)
  BY DEF Tag
<1>4. Sane(p, S, fixed, flags)
  BY <1>1, <1>2, SaneQuiet
<1>5. Sane(p, S \ D, fixed, flags)
  BY <1>4, SaneLess
<1>6. Ready(p, S \ D, fixed, flags)
  BY <1>2, <1>3, <1>5 DEF Ready
<1>7. QED
  BY <1>2, <1>6 DEF p

\* A branch of an if on the flag v.
LEMMA BranchServes ==
  ASSUME NEW parts, Tree(parts), parts \subseteq Code, Within(Rc, parts),
         NEW e \in parts, Right(e), NEW other \in parts,
         NEW fixed \in SUBSET Names, NEW flags \in SUBSET Names, NEW after \in SUBSET Names, after \subseteq fixed,
         Fits[<<e, fixed, flags>>], NEW v \in flags,
         NEW q, Ready(q, {v} \cup Fv[e] \cup Fv[other] \cup after, fixed, flags)
  PROVE  /\ Branch(e, other, after, Rc) \in parts
         /\ Serves(q, Branch(e, other, after, Rc), after)
<1> DEFINE D == Fv[other] \ (Fv[e] \cup after)
           S == {v} \cup Fv[e] \cup Fv[other] \cup after
           T == Fv[e] \cup after
           p == Run(q, Drops(D))
           c == Rc[<<e, after>>]
           m == Branch(e, other, after, Rc)
<1>1. m = WithDrops(D, c) /\ m = Before(Drops(D), c)
  BY DEF Branch, WithDrops
<1>2. c \in parts /\ D \subseteq Names /\ T \subseteq Names
  BY FvType DEF Within
<1>3. m \in parts
  BY <1>1, <1>2, WithDropsType
<1> HIDE DEF c, m, p
<1>4. /\ Drops(D) \in Seq(Items) /\ p \in Knowledge /\ Quiet(q, p)
      /\ Ready(p, S \ D, fixed, flags)
  <2>1. D \subseteq S
    OBVIOUS
  <2> HIDE DEF D, S
  <2>2. Ready(q, S, fixed, flags)
    BY DEF S
  <2>3. QED
    BY <2>1, <2>2, DropsThen DEF p
<1>5. T \subseteq S \ D /\ (S \ D) \ T \subseteq {v}
  OBVIOUS
<1> HIDE DEF D, S, T
<1>6. Sane(p, S \ D, fixed, flags) /\ Counts(p, Tag(S \ D))
  BY <1>4 DEF Ready
<1>7. Sane(p, T, fixed, flags)
  BY <1>5, <1>6, SaneLess
<1>8. Owed(p, Tag(S \ D)) = Owed(p, Tag(T))
  <2>1. ASSUME NEW h \in (Tag(S \ D) \ Tag(T)) \cup (Tag(T) \ Tag(S \ D))
        PROVE  p.root[h[1]] \in p.unboxed
    <3>1. h[1] = v /\ v \in S \ D
      BY <1>5 DEF Tag
    <3>2. QED
      BY <3>1, <1>6 DEF Sane
  <2>2. QED
    BY <2>1, <1>4, OwedUnboxed
<1>9. Ready(p, T, fixed, flags)
  <2>1. Holders(Tag(T))
    BY <1>2, TagHolders
  <2>2. QED
    BY <2>1, <1>6, <1>7, <1>8 DEF Ready, Counts
<1>10. Serves(p, c, after)
  <2>1. Asked(p, e, fixed, flags, after)
    BY <1>9 DEF Asked, T
  <2>2. QED
    BY <2>1 DEF Right, c
<1>11. After[<<q, m>>] = After[<<p, c>>]
  <2>1. q \in Knowledge /\ c \in Code /\ Before(Drops(D), c) \in Code
    BY <1>1, <1>2, <1>3 DEF Ready, Sane
  <2>2. After[<<q, Before(Drops(D), c)>>] = After[<<p, c>>]
    BY <2>1, <1>4, AfterBefore DEF p
  <2>3. QED
    BY <2>2, <1>1
<1>12. p.tokens = q.tokens
  BY <1>4 DEF Quiet, OnlyOwn
<1>13. Served(p, After[<<q, m>>], after, q.tokens)
  BY <1>10, <1>11, <1>12 DEF Serves
<1>14. Served(q, After[<<q, m>>], after, q.tokens)
  BY <1>4, <1>13, ServedQuiet
<1>15. QED
  BY <1>3, <1>14 DEF Serves, m

LEMMA OneLet ==
  ASSUME NEW q \in Knowledge, NEW x \in Names, NEW b, LetIn(x, b) \in Items, b.op # "equal",
         NEW after, NEW toks, Done(q, AfterBind(q, b, After), after, toks)
  PROVE  Lets(q, <<LetIn(x, b)>>, x, TRUE, after, toks)
<1>1. <<LetIn(x, b)>> \in Seq(Items)
  OBVIOUS
<1>2. Run(q, <<LetIn(x, b)>>) = Step(q, LetIn(x, b), After)
  BY RunFacts
<1>3. Step(q, LetIn(x, b), After) = Bound(AfterBind(q, b, After), x, TRUE)
  BY DEF Step, LetIn
<1>4. QED
  BY <1>1, <1>2, <1>3 DEF Lets

LEMMA IfLet ==
  ASSUME NEW parts, Tree(parts), parts \subseteq Code, Within(Rc, parts), \A e \in parts : Right(e),
         NEW i \in InstrForms(parts), i.k = "let", i.b.op = "if",
         NEW fixed \in SUBSET Names, NEW flags \in SUBSET Names, NEW after \in SUBSET Names, after \subseteq fixed,
         LetFits(i, fixed, flags, Fits),
         NEW q, Ready(q, FvBind(i.b, Fv) \cup after, fixed, flags)
  PROVE  Lets(q, LetPart(i, after, Rc), i.x, TRUE, after, q.tokens)
<1> DEFINE b == i.b
           th == Branch(b.th, b.el, after, Rc)
           el == Branch(b.el, b.th, after, Rc)
           c == BIf(b.v, th, el)
           S == FvBind(b, Fv) \cup after
<1>1. i.x \in Names /\ b \in BindForms(parts)
  BY InstrParts
<1>2. b.v \in Names /\ b.th \in parts /\ b.el \in parts
  BY <1>1, BindParts DEF SimpleOps
<1>3. b.v \in flags /\ Fits[<<b.th, fixed, flags>>] /\ Fits[<<b.el, fixed, flags>>]
  BY DEF LetFits, SimpleOps
<1>4. S = {b.v} \cup Fv[b.th] \cup Fv[b.el] \cup after /\ S = {b.v} \cup Fv[b.el] \cup Fv[b.th] \cup after
  BY DEF FvBind
<1>5. q \in Knowledge /\ Sane(q, after, fixed, flags)
  BY SaneLess DEF Ready, Sane
<1> HIDE DEF S
<1>6. Ready(q, S, fixed, flags)
  BY DEF S
<1> HIDE DEF b
<1>7. th \in parts /\ Serves(q, th, after)
  <2>1. Ready(q, {b.v} \cup Fv[b.th] \cup Fv[b.el] \cup after, fixed, flags)
    BY <1>4, <1>6
  <2>2. Right(b.th)
    BY <1>2
  <2>3. QED
    BY <2>1, <2>2, <1>2, <1>3, BranchServes
<1>8. el \in parts /\ Serves(q, el, after)
  <2>1. Ready(q, {b.v} \cup Fv[b.el] \cup Fv[b.th] \cup after, fixed, flags)
    BY <1>4, <1>6
  <2>2. Right(b.el)
    BY <1>2
  <2>3. QED
    BY <2>1, <2>2, <1>2, <1>3, BranchServes
<1> HIDE DEF th, el
<1>9. LetIn(i.x, c) \in Items
  <2>1. c \in BindForms(Code)
    BY <1>2, <1>7, <1>8, BindMade
  <2>2. QED
    BY <2>1, <1>1, InstrMade DEF Items
<1>10. AfterBind(q, c, After) = Join(q, b.v, {After[<<q, th>>], After[<<q, el>>]})
  BY DEF AfterBind, BIf
<1>11. Done(q, Join(q, b.v, {After[<<q, th>>], After[<<q, el>>]}), after, q.tokens)
  BY <1>2, <1>5, <1>7, <1>8, JoinDone DEF Serves
<1>12. c.op # "equal"
  BY DEF BIf
<1> HIDE DEF c
<1>13. Lets(q, <<LetIn(i.x, c)>>, i.x, TRUE, after, q.tokens)
  BY <1>1, <1>5, <1>9, <1>10, <1>11, <1>12, OneLet
<1>14. LetPart(i, after, Rc) = <<LetIn(i.x, c)>>
  BY DEF LetPart, c, b, th, el
<1>15. QED
  BY <1>13, <1>14

-----------------------------------------------------------------------------
(* The arms of a match                                                     *)

LEMMA ServedFrom ==
  ASSUME NEW q, NEW p, p.root = q.root, p.unboxed = q.unboxed, p.faults = q.faults,
         NEW r, NEW live, NEW toks, Served(p, r, live, toks)
  PROVE  Served(q, r, live, toks)
BY DEF Served, Owed, Of

\* Those in X too are bound, boxed and hold a reference.
LEMMA SaneAdd ==
  ASSUME NEW p, NEW S, NEW fixed, NEW flags, Sane(p, S, fixed, flags),
         NEW X, X \subseteq Names, X \cap (fixed \cup flags) = {},
         \A x \in X : /\ p.root[x] \in {x} \cup fixed /\ p.root[x] \in p.scope /\ p.root[x] \notin p.unboxed
  PROVE  Sane(p, S \cup X, fixed, flags)
BY DEF Sane

\* At the start of an arm of a match on s.
Entered(q, S, fixed, flags, s, arm, p) ==
    /\ Ready(p, S, fixed \cup {s}, flags) /\ p.faults = q.faults /\ p.tokens = q.tokens
    /\ \A T \in SUBSET S : Owed(p, Tag(T)) = Owed(q, Tag(T))
    /\ p.root[s] \notin p.unboxed /\ p.root[s] \in p.scope /\ p.root[s] \in {s} \cup fixed
    /\ \A x \in Elems(arm.bs) : /\ p.root[x] = IF arm.c = CatchAll THEN p.root[s] ELSE x
                                /\ p.lender[x] = p.root[s] /\ x \in p.scope /\ x \notin p.unboxed
    /\ arm.c # CatchAll => p.size[p.root[s]] = Len(arm.bs)

LEMMA EnterReady ==
  ASSUME NEW q, NEW S, NEW fixed \in SUBSET Names, NEW flags, Ready(q, S, fixed, flags),
         NEW s \in S, s \notin flags, NEW arm, arm.bs \in Seq(Names),
         Elems(arm.bs) \cap (fixed \cup S \cup flags) = {}
  PROVE  Entered(q, S, fixed, flags, s, arm, EnterArm(q, s, arm))
<1> DEFINE p == EnterArm(q, s, arm)
           bs == Elems(arm.bs)
           r == q.root[s]
           H == Tag(S)
<1>1. q \in Knowledge /\ S \subseteq Names /\ s \in Names /\ bs \subseteq Names /\ Sane(q, S, fixed, flags) /\ Counts(q, H)
  BY ElemsType DEF Ready, Sane
<1>2. /\ p \in Knowledge
      /\ \A x \in Names : p.own[x] = IF x \in bs THEN 0 ELSE q.own[x]
      /\ \A x \in Names : p.root[x] = IF x \in bs THEN (IF arm.c = CatchAll THEN r ELSE x) ELSE q.root[x]
      /\ \A x \in Names : p.lender[x] = IF x \in bs THEN r ELSE q.lender[x]
      /\ arm.c # CatchAll => p.size[r] = Len(arm.bs)
      /\ p.unboxed = q.unboxed \ bs /\ p.scope = q.scope \cup bs /\ p.tokens = q.tokens
      /\ p.faults = q.faults \cup {x \in bs : q.own[x] > 0}
  BY <1>1, EnterArmFacts
<1> HIDE DEF p, bs
<1>3. bs \cap (fixed \cup S \cup flags) = {}
  BY DEF bs
<1>4. ASSUME NEW x \in bs PROVE q.own[x] = 0
  <2>1. Of(q, H, x) = {}
    BY <1>1, <1>3, SaneRoots
  <2>2. q.own[x] = IF x \in q.unboxed THEN 0 ELSE Cardinality(Of(q, H, x))
    BY <1>1 DEF Counts, Owed
  <2>3. QED
    BY <2>1, <2>2, FS_EmptySet
<1>5. p.faults = q.faults
  <2>1. {x \in bs : q.own[x] > 0} = {}
    BY <1>4
  <2>2. QED
    BY <2>1, <1>2
<1>6. p.own = q.own
  <2>1. p.own \in [Names -> Int] /\ q.own \in [Names -> Int]
    BY <1>1, <1>2 DEF Knowledge
  <2>2. \A x \in Names : p.own[x] = q.own[x]
    BY <1>2, <1>4
  <2>3. QED
    BY <2>1, <2>2
<1>7. ASSUME NEW w \in S
      PROVE  /\ p.root[w] = q.root[w] /\ q.root[w] \notin bs /\ p.root[w] \in {w} \cup fixed
             /\ p.root[w] \in p.scope
             /\ p.root[w] \in p.unboxed <=> q.root[w] \in q.unboxed
             /\ p.root[w] \in p.unboxed <=> w \in flags
  <2>1. w \in Names /\ w \notin bs
    BY <1>1, <1>3
  <2>2. /\ q.root[w] \in {w} \cup fixed /\ q.root[w] \in q.scope
        /\ q.root[w] \in q.unboxed <=> w \in flags
    BY <1>1 DEF Sane
  <2>3. p.root[w] = q.root[w] /\ q.root[w] \notin bs
    BY <2>1, <2>2, <1>2, <1>3
  <2>4. QED
    BY <2>2, <2>3, <1>2
<1>8. ASSUME NEW T \in SUBSET S PROVE Owed(p, Tag(T)) = Owed(q, Tag(T))
  <2>1. Holders(Tag(T))
    BY <1>1, TagHolders
  <2>2. \A h \in Tag(T) : /\ p.root[h[1]] = q.root[h[1]]
                          /\ p.root[h[1]] \in p.unboxed <=> q.root[h[1]] \in q.unboxed
    BY <1>7 DEF Tag
  <2>3. QED
    BY <2>1, <2>2, <1>1, <1>2, OwedSame
<1>9. Ready(p, S, fixed \cup {s}, flags)
  <2>1. Sane(p, S, fixed, flags)
    <3>1. \A t \in p.tokens : t[1] \in fixed \ S
      BY <1>1, <1>2 DEF Sane
    <3>2. QED
      BY <3>1, <1>1, <1>2, <1>7 DEF Sane
  <2>2. Sane(p, S, fixed \cup {s}, flags)
    BY <2>1, SaneMore
  <2>3. Counts(p, H)
    BY <1>1, <1>6, <1>8 DEF Counts
  <2>4. QED
    BY <2>2, <2>3 DEF Ready
<1>10. p.root[s] = r /\ p.root[s] \notin p.unboxed /\ p.root[s] \in p.scope /\ p.root[s] \in {s} \cup fixed
  BY <1>7
<1>11. ASSUME NEW x \in bs
       PROVE  /\ p.root[x] = IF arm.c = CatchAll THEN p.root[s] ELSE x
              /\ p.lender[x] = p.root[s] /\ x \in p.scope /\ x \notin p.unboxed
  BY <1>1, <1>2, <1>10
<1>12. arm.c # CatchAll => p.size[p.root[s]] = Len(arm.bs)
  BY <1>2, <1>10
<1> HIDE DEF r
<1>13. Entered(q, S, fixed, flags, s, arm, p)
  BY <1>2, <1>5, <1>8, <1>9, <1>10, <1>11, <1>12 DEF Entered, bs
<1>14. QED
  BY <1>13 DEF p

\* The body of an arm, in front of which what only the other arms need is dropped.
Body(D, e, after) == Before(Drops(D), Rc[<<e, after>>])
LEMMA BodyServes ==
  ASSUME NEW e \in Code, Right(e), NEW fixed \in SUBSET Names, NEW flags \in SUBSET Names,
         NEW after \in SUBSET Names, after \subseteq fixed, Fits[<<e, fixed, flags>>],
         NEW q, NEW S, Ready(q, S, fixed, flags), NEW D, D \subseteq S, S \ D = Fv[e] \cup after,
         Body(D, e, after) \in Code
  PROVE  Serves(q, Body(D, e, after), after)
<1> DEFINE p == Run(q, Drops(D))
           c == Rc[<<e, after>>]
<1>1. c \in Code
  BY RcType DEF Within
<1>2. Drops(D) \in Seq(Items) /\ p \in Knowledge /\ Quiet(q, p) /\ Ready(p, S \ D, fixed, flags)
  BY DropsThen
<1> HIDE DEF p, c
<1>3. Asked(p, e, fixed, flags, after)
  BY <1>2 DEF Asked
<1>4. Serves(p, c, after)
  BY <1>3 DEF Right, c
<1>5. q \in Knowledge
  BY DEF Ready, Sane
<1>6. After[<<q, Before(Drops(D), c)>>] = After[<<p, c>>]
  BY <1>1, <1>2, <1>5, AfterBefore DEF p, Body, c
<1>7. p.tokens = q.tokens
  BY <1>2 DEF Quiet, OnlyOwn
<1>8. Served(p, After[<<q, Before(Drops(D), c)>>], after, q.tokens)
  BY <1>4, <1>6, <1>7 DEF Serves
<1>9. Served(q, After[<<q, Before(Drops(D), c)>>], after, q.tokens)
  BY <1>2, <1>8, ServedQuiet
<1>10. QED
  BY <1>9 DEF Serves, Body, c

\* The same if a constructor of it takes the token of s.
LEMMA BodyTakes ==
  ASSUME NEW e \in Code, Right(e), NEW fixed \in SUBSET Names, NEW flags \in SUBSET Names,
         NEW after \in SUBSET Names, after \subseteq fixed, Fits[<<e, fixed, flags>>],
         NEW q, NEW S, Ready(q, S, fixed, flags), NEW D, D \subseteq S, S \ D = Fv[e] \cup after,
         Body(D, e, after) \in Code, NEW n, NEW s \in Names, <<s, n>> \in q.tokens,
         Reusable(Body(D, e, after), n) # {}, TryReuse(Body(D, e, after), n, s) \in Code
  PROVE  Served(q, After[<<q, TryReuse(Body(D, e, after), n, s)>>], after, q.tokens \ {<<s, n>>})
<1> DEFINE p == Run(q, Drops(D))
           c == Rc[<<e, after>>]
           m == Body(D, e, after)
           d == Drops(D)
<1>1. c \in Code
  BY RcType DEF Within
<1>2. d \in Seq(Items) /\ p \in Knowledge /\ Quiet(q, p) /\ Ready(p, S \ D, fixed, flags)
  BY DropsThen
<1> HIDE DEF p, c
<1>3. Asked(p, e, fixed, flags, after)
  BY <1>2 DEF Asked
<1>4. Takes(p, c, after)
  BY <1>3 DEF Right, c
<1>5. q \in Knowledge
  BY DEF Ready, Sane
<1>6. m = With(c, d \o c.is) /\ c \in Exprs /\ c.is \in Seq(Items) /\ m \in Exprs
  <2>1. c \in Exprs
    BY <1>1, CodeExprs
  <2>2. c.is \in Seq(Items)
    BY <2>1, ExprParts DEF Exprs, Items
  <2>3. Before(d, c) = With(c, d \o c.is)
    BY <2>1, <1>2, BeforeType DEF Exprs, Items
  <2>4. m = Before(d, c)
    BY DEF Body, c
  <2>5. m \in Exprs
    BY CodeExprs
  <2>6. QED
    BY <2>1, <2>2, <2>3, <2>4, <2>5
<1>7. PICK k \in 1..Len(m.is) : /\ CtorAt(m.is, k) /\ Len(m.is[k].b.as) = n
                                /\ TryReuse(m, n, s) = With(m, Reused(m.is, k, s))
  BY <1>6, TryReuseFacts, SMTT(40) DEF Exprs
<1> HIDE DEF m
<1>8. m.is = d \o c.is /\ m.k = c.k /\ m.as = c.as
  BY <1>6 DEF With
<1>9. ASSUME AtLeft(Items, d, c.is, k) PROVE FALSE
  <2>1. k \in 1..Len(d) /\ m.is[k] = d[k] /\ m.is[k].k = "let"
    BY <1>7, <1>8, <1>9 DEF AtLeft, CtorAt
  <2>2. \E w : d[k] = DropOf(w)
    <3>1. k \in DOMAIN d
      <4> HIDE DEF d
      <4>1. QED
        BY <1>2, <2>1, SeqAt
    <3>2. \A l \in DOMAIN d : d[l] = DropOf(Listed(D)[l])
      BY DEF Drops
    <3> HIDE DEF d
    <3>3. QED
      BY <3>1, <3>2
  <2> HIDE DEF d
  <2>3. QED
    BY <2>1, <2>2 DEF DropOf
<1> HIDE DEF d
<1>10. PICK l \in 1..Len(c.is) : AtRight(Items, d, c.is, k, l)
  BY <1>2, <1>6, <1>7, <1>8, <1>9, BothAt
<1> DEFINE y == LetIn(c.is[l].x, BReuse(s, c.is[l].b.n, c.is[l].b.as))
<1>11. m.is[k] = c.is[l] /\ CtorAt(c.is, l) /\ Len(c.is[l].b.as) = n
  BY <1>7, <1>8, <1>10 DEF AtRight, CtorAt
<1>12. y \in Items /\ Reused(c.is, l, s) \in Seq(Items)
  BY <1>6, <1>11, ReusedType DEF Items
<1>13. Reused(m.is, k, s) = d \o Reused(c.is, l, s)
  <2>1. Reused(m.is, k, s) = Patched(d \o c.is, k, y)
    BY <1>8, <1>11 DEF Reused
  <2> HIDE DEF y
  <2>2. Patched(d \o c.is, k, y) = d \o Patched(c.is, l, y)
    BY <1>10, <1>12 DEF AtRight
  <2>3. QED
    BY <2>1, <2>2 DEF Reused, y
<1> HIDE DEF y
<1> DEFINE u == With(c, Reused(c.is, l, s))
<1>14. u.is = Reused(c.is, l, s) /\ u \in Exprs
  BY <1>6, <1>12, WithType DEF Exprs, Items
<1>15. TryReuse(m, n, s) = Before(d, u)
  <2>1. TryReuse(m, n, s) = With(c, d \o Reused(c.is, l, s))
    BY <1>7, <1>8, <1>13 DEF With
  <2>2. Before(d, u) = With(u, d \o u.is)
    BY <1>2, <1>14, BeforeType DEF Exprs, Items
  <2>3. With(u, d \o u.is) = With(c, d \o Reused(c.is, l, s))
    BY DEF With
  <2>4. QED
    BY <2>1, <2>2, <2>3
<1>16. u \in Code
  <2>1. PICK parts : c \in ExprForms(parts) /\ ExprForms(parts) \subseteq Code
    <3>1. MaxNesting \in Nat /\ Code = Nested[MaxNesting]
      BY CodeTop
    <3>2. Code = ExprForms(Parts(MaxNesting))
      BY <3>1, LevelsRise
    <3>3. QED
      BY <3>2, <1>1
  <2>2. Reused(c.is, l, s) \in Seq(InstrForms(parts))
    BY <2>1, <1>11, ExprParts, ReusedType
  <2>3. u \in ExprForms(parts)
    BY <2>1, <2>2, WithType
  <2>4. QED
    BY <2>1, <2>3
<1>17. <<s, n>> \in p.tokens /\ p.tokens = q.tokens
  BY <1>2 DEF Quiet, OnlyOwn
<1>18. Served(p, After[<<p, u>>], after, p.tokens \ {<<s, n>>})
  BY <1>4, <1>11, <1>17 DEF Takes, TakesAt
<1> HIDE DEF u
<1>19. After[<<q, Before(d, u)>>] = After[<<p, u>>]
  <2>1. Before(d, u) \in Code
    BY <1>15 DEF m
  <2>2. QED
    BY <2>1, <1>2, <1>5, <1>16, AfterBefore DEF p, d
<1>20. Served(q, After[<<q, Before(d, u)>>], after, q.tokens \ {<<s, n>>})
  BY <1>2, <1>17, <1>18, <1>19, ServedQuiet
<1>21. QED
  BY <1>15, <1>20 DEF m

\* Instructions that are no lets.
Plain(is) == \A parts : is \in Seq(InstrForms(parts))

LEMMA PlainOnes ==
  /\ \A v \in Names : Plain(<<DupOf(v)>>) /\ Plain(<<DropOf(v)>>) /\ Plain(<<DropReuseOf(v)>>)
  /\ \A S \in SUBSET Names : Plain(Dups(S)) /\ Plain(Drops(S))
<1>1. ASSUME NEW v \in Names PROVE Plain(<<DupOf(v)>>) /\ Plain(<<DropOf(v)>>) /\ Plain(<<DropReuseOf(v)>>)
  <2> SUFFICES ASSUME NEW parts
      PROVE  /\ <<DupOf(v)>> \in Seq(InstrForms(parts)) /\ <<DropOf(v)>> \in Seq(InstrForms(parts))
             /\ <<DropReuseOf(v)>> \in Seq(InstrForms(parts))
    BY DEF Plain
  <2>1. {DupOf(v), DropOf(v), DropReuseOf(v)} \subseteq InstrForms(parts)
    BY InstrMade
  <2>2. QED
    BY <2>1
<1>2. ASSUME NEW S \in SUBSET Names PROVE Plain(Dups(S)) /\ Plain(Drops(S))
  BY DupsType DEF Plain
<1>3. QED
  BY <1>1, <1>2

LEMMA CodeClosed ==
  ASSUME NEW e \in Code
  PROVE  /\ \A is : Plain(is) => Before(is, e) \in Code /\ is \in Seq(Items)
         /\ \A n : \A t \in Names : Reusable(e, n) # {} => TryReuse(e, n, t) \in Code
<1>1. PICK parts : Code = ExprForms(parts)
  <2>1. MaxNesting \in Nat /\ Code = Nested[MaxNesting]
    BY CodeTop
  <2>2. QED
    BY <2>1, LevelsRise
<1>2. e \in ExprForms(parts)
  BY <1>1
<1>3. ASSUME NEW is, Plain(is) PROVE Before(is, e) \in Code /\ is \in Seq(Items)
  <2>1. is \in Seq(InstrForms(parts)) /\ is \in Seq(InstrForms(Code))
    BY <1>3 DEF Plain
  <2>2. Before(is, e) \in ExprForms(parts)
    BY <1>2, <2>1, BeforeType
  <2>3. QED
    BY <1>1, <2>1, <2>2 DEF Items
<1>4. ASSUME NEW n, NEW t \in Names, Reusable(e, n) # {} PROVE TryReuse(e, n, t) \in Code
  <2>1. TryReuse(e, n, t) \in ExprForms(parts)
    BY <1>2, <1>4, TryReuseFacts
  <2>2. QED
    BY <1>1, <2>1
<1>5. QED
  BY <1>3, <1>4

\* Instructions in front that are quiet.
LEMMA ServesBefore ==
  ASSUME NEW o \in Knowledge, NEW is, Plain(is), NEW e \in Code, Quiet(o, Run(o, is)), NEW live,
         Serves(Run(o, is), e, live)
  PROVE  Serves(o, Before(is, e), live)
<1>1. is \in Seq(Items) /\ Before(is, e) \in Code
  BY CodeClosed
<1>2. After[<<o, Before(is, e)>>] = After[<<Run(o, is), e>>]
  BY <1>1, AfterBefore
<1>3. Run(o, is).tokens = o.tokens
  BY DEF Quiet, OnlyOwn
<1>4. Served(Run(o, is), After[<<o, Before(is, e)>>], live, o.tokens)
  BY <1>2, <1>3 DEF Serves
<1>5. Served(o, After[<<o, Before(is, e)>>], live, o.tokens)
  BY <1>4, ServedQuiet
<1>6. QED
  BY <1>5 DEF Serves

\* One dup for each in X.
DupsOf(is, n, f, X) ==
    /\ n \in Nat /\ f \in [1..n -> X] /\ is \in Seq(Items) /\ Len(is) = n
    /\ \A i, j \in 1..n : f[i] = f[j] => i = j
    /\ {f[i] : i \in 1..n} = X
    /\ \A i \in 1..n : is[i] = DupOf(f[i])
LEMMA BindersRun ==
  ASSUME NEW q, NEW S, NEW fixed, NEW flags, NEW s \in S, NEW arm, NEW p, Entered(q, S, fixed, flags, s, arm, p),
         NEW X, X \subseteq Elems(arm.bs), X \subseteq Names, X \cap (fixed \cup S \cup flags) = {},
         NEW is, NEW n, NEW f, DupsOf(is, n, f, X)
  PROVE  /\ Run(p, is) \in Knowledge /\ Quiet(p, Run(p, is))
         /\ Ready(Run(p, is), S \cup X, fixed \cup {s}, flags)
<1> DEFINE H == Tag(S)
           g == [i \in 1..n |-> <<f[i], 0>>]
           z == Run(p, is)
           fx == fixed \cup {s}
<1> USE DEF DupsOf
<1>1. /\ p \in Knowledge /\ S \subseteq Names /\ Counts(p, H) /\ Sane(p, S, fx, flags)
      /\ p.root[s] \notin p.unboxed /\ p.root[s] \in p.scope /\ p.root[s] \in {s} \cup fixed
  BY DEF Entered, Ready, Sane
<1>2. \A x \in X : /\ p.root[x] = x \/ p.root[x] = p.root[s]
                   /\ p.lender[x] = p.root[s] /\ x \in p.scope /\ x \notin p.unboxed
  BY DEF Entered
<1>3. Dupping(p, H, n, g, is)
  <2>1. ASSUME NEW i \in 1..n
        PROVE  /\ g[i] \in Names \X Nat /\ g[i][1] = f[i] /\ is[i] = DupOf(g[i][1]) /\ g[i] \notin H
               /\ Backed(p, H, g[i])
    <3>1. f[i] \in X /\ g[i] = <<f[i], 0>>
      OBVIOUS
    <3>2. g[i] \notin H
      BY <3>1 DEF Tag
    <3>3. <<s, 0>> \in H
      BY DEF Tag
    <3>4. p.root[s] \in {p.root[f[i]], p.lender[p.root[f[i]]]}
      BY <3>1, <1>2
    <3>5. Backed(p, H, g[i])
      BY <3>1, <3>3, <3>4, <1>1 DEF Backed
    <3>6. QED
      BY <3>1, <3>2, <3>5
  <2>2. g \in [1..n -> Names \X Nat]
    BY <2>1
  <2>3. \A i, j \in 1..n : g[i] = g[j] => i = j
    BY <2>1
  <2> HIDE DEF g, H
  <2>4. QED
    BY <2>1, <2>2, <2>3 DEF Dupping
<1>4. z \in Knowledge /\ Quiet(p, z) /\ Counts(z, H \cup {g[i] : i \in 1..n})
  <2> HIDE DEF g, H
  <2>1. QED
    BY <1>1, <1>3, DupsRun, SMTT(40)
<1>5. H \cup {g[i] : i \in 1..n} = Tag(S \cup X)
  <2>1. {g[i] : i \in 1..n} = Tag(X)
    <3>1. \A i \in 1..n : g[i] = <<f[i], 0>> /\ f[i] \in X
      OBVIOUS
    <3>2. \A x \in X : \E i \in 1..n : x = f[i]
      OBVIOUS
    <3> HIDE DEF g
    <3>3. ASSUME NEW i \in 1..n PROVE g[i] \in Tag(X)
      <4>1. \A x \in X : <<x, 0>> \in Tag(X)
        BY DEF Tag
      <4>2. QED
        BY <3>1, <4>1, ZenonT(40)
    <3>4. ASSUME NEW h \in Tag(X) PROVE \E i \in 1..n : h = g[i]
      <4>1. PICK x \in X : h = <<x, 0>>
        BY DEF Tag
      <4>2. QED
        BY <3>1, <3>2, <4>1
    <3>5. QED
      BY <3>3, <3>4
  <2>2. Tag(S) \cup Tag(X) = Tag(S \cup X)
    BY DEF Tag
  <2>3. QED
    BY <2>1, <2>2
<1> HIDE DEF z, g, H
<1>6. Sane(p, S \cup X, fx, flags)
  <2>1. X \cap (fx \cup flags) = {}
    OBVIOUS
  <2>2. \A x \in X : p.root[x] \in {x} \cup fx /\ p.root[x] \in p.scope /\ p.root[x] \notin p.unboxed
    BY <1>1, <1>2
  <2> HIDE DEF fx
  <2>3. QED
    BY <2>1, <2>2, <1>1, SaneAdd
<1>7. Sane(z, S \cup X, fx, flags)
  BY <1>4, <1>6, SaneQuiet
<1>8. Ready(z, S \cup X, fx, flags)
  BY <1>4, <1>5, <1>7 DEF Ready
<1>9. QED
  BY <1>4, <1>8 DEF z

\* s is given up, under its name or another.
LEMMA ReleaseUse ==
  ASSUME NEW p, NEW S, NEW fixed, NEW flags, Ready(p, S, fixed, flags), NEW s \in S, NEW v \in Names,
         p.root[v] = p.root[s]
  PROVE  LET z == Consume(p, <<v>>)
         IN  z \in Knowledge /\ Quiet(p, z) /\ Ready(z, S \ {s}, fixed, flags)
<1> DEFINE z == Consume(p, <<v>>)
           H == Tag(S)
           h == <<s, 0>>
           g == [j \in {1} |-> h]
<1>1. p \in Knowledge /\ Counts(p, H) /\ Sane(p, S, fixed, flags)
  BY DEF Ready, Sane
<1>2. <<v>> \in Seq(Names) /\ DOMAIN <<v>> = {1} /\ <<v>>[1] = v
  OBVIOUS
<1>3. Moves(p, <<v>>, H, g)
  <2>1. h \in H
    BY DEF Tag
  <2> HIDE DEF H
  <2>2. QED
    BY <1>2, <2>1 DEF Moves
<1>4. H \ Moved(<<v>>, g) = Tag(S \ {s})
  <2>1. Moved(<<v>>, g) = {h}
    BY <1>2 DEF Moved
  <2>2. Tag(S) \ {<<s, 0>>} = Tag(S \ {s})
    BY DEF Tag
  <2>3. QED
    BY <2>1, <2>2
<1> HIDE DEF g, h, H
<1>5. z \in Knowledge
  BY <1>1, <1>2, ConsumeFacts
<1>6. Quiet(p, z) /\ Counts(z, Tag(S \ {s}))
  <2>1. Quiet(p, z) /\ Counts(z, H \ Moved(<<v>>, g))
    BY <1>1, <1>2, <1>3, ConsumeCounts
  <2>2. QED
    BY <2>1, <1>4
<1> HIDE DEF z
<1>7. Sane(z, S, fixed, flags)
  BY <1>1, <1>5, <1>6, SaneQuiet
<1>8. Sane(z, S \ {s}, fixed, flags)
  BY <1>7, SaneLess
<1>9. z \in Knowledge /\ Quiet(p, z) /\ Ready(z, S \ {s}, fixed, flags)
  BY <1>5, <1>6, <1>8 DEF Ready
<1>10. QED
  BY <1>9 DEF z

LEMMA ReleaseRun ==
  ASSUME NEW p, NEW S, NEW fixed, NEW flags, Ready(p, S, fixed, flags), NEW s \in S, NEW v \in Names,
         p.root[v] = p.root[s]
  PROVE  LET z == Run(p, <<DropOf(v)>>)
         IN  z \in Knowledge /\ Quiet(p, z) /\ Ready(z, S \ {s}, fixed, flags)
<1>1. p \in Knowledge
  BY DEF Ready, Sane
<1>2. DropOf(v) \in Items
  BY InstrMade DEF Items
<1>3. Run(p, <<DropOf(v)>>) = Step(p, DropOf(v), After)
  BY <1>1, <1>2, RunFacts
<1>4. Run(p, <<DropOf(v)>>) = Consume(p, <<v>>)
  BY <1>3, StepDrop
<1>5. QED
  BY <1>4, ReleaseUse

\* The cell is kept: there is a token.
LEMMA ReleaseReuse ==
  ASSUME NEW p, NEW S, NEW fixed, NEW flags, Ready(p, S, fixed, flags), NEW s \in S, s \in fixed
  PROVE  LET z == Run(p, <<DropReuseOf(s)>>)
         IN  /\ z \in Knowledge /\ z.root = p.root /\ z.unboxed = p.unboxed /\ z.faults = p.faults
             /\ z.tokens = p.tokens \cup {<<s, p.size[p.root[s]]>>}
             /\ Ready(z, S \ {s}, fixed, flags)
<1> DEFINE c == Consume(p, <<s>>)
           token == <<s, p.size[p.root[s]]>>
           z == [c EXCEPT !.tokens = @ \cup {token}]
           i == DropReuseOf(s)
<1>1. p \in Knowledge /\ s \in Names /\ Sane(p, S, fixed, flags)
  BY DEF Ready, Sane
<1>2. c \in Knowledge /\ Quiet(p, c) /\ Ready(c, S \ {s}, fixed, flags)
  BY <1>1, ReleaseUse
<1>3. i \in Items
  BY <1>1, InstrMade DEF Items
<1>4. Run(p, <<i>>) = Step(p, i, After)
  BY <1>1, <1>3, RunFacts
<1>5. Step(p, i, After) = Fault(z, s, \E t \in p.tokens : t[1] = s)
  BY DEF Step, DropReuseOf
<1> HIDE DEF c, i
<1>6. token \in Names \X Nat
  BY <1>1 DEF Knowledge
<1> HIDE DEF token
<1>7. /\ z \in Knowledge /\ z.root = c.root /\ z.unboxed = c.unboxed /\ z.faults = c.faults /\ z.own = c.own
      /\ z.scope = c.scope /\ z.tokens = c.tokens \cup {token}
  BY <1>2, <1>6 DEF Knowledge
<1>8. ~\E t \in p.tokens : t[1] = s
  BY <1>1 DEF Sane
<1> HIDE DEF z
<1>9. Fault(z, s, \E t \in p.tokens : t[1] = s) = z
  BY <1>1, <1>7, <1>8, FaultFacts
<1>10. Sane(z, S \ {s}, fixed, flags)
  <2>1. \A t \in z.tokens : t[1] \in fixed \ (S \ {s})
    <3>1. \A t \in c.tokens : t[1] \in fixed \ (S \ {s})
      BY <1>2 DEF Ready, Sane
    <3>2. token[1] = s
      BY DEF token
    <3>3. QED
      BY <3>1, <3>2, <1>7
  <2>2. QED
    BY <2>1, <1>2, <1>7 DEF Ready, Sane
<1>11. Counts(z, Tag(S \ {s}))
  <2>1. Owed(z, Tag(S \ {s})) = Owed(c, Tag(S \ {s}))
    BY <1>7 DEF Owed, Of
  <2>2. QED
    BY <2>1, <1>2, <1>7 DEF Ready, Counts
<1>12. Run(p, <<i>>) = z
  BY <1>4, <1>5, <1>9
<1>13. QED
  BY <1>2, <1>7, <1>10, <1>11, <1>12 DEF Quiet, OnlyOwn, Ready, i, token

\* In an arm of a match on s: D is what only the other arms need.
InArm(q, arm, s, D, S, fixed, flags, after, p) ==
    /\ arm.e \in Code /\ Right(arm.e) /\ Body(D, arm.e, after) \in Code
    /\ fixed \in SUBSET Names /\ flags \in SUBSET Names /\ after \in SUBSET Names /\ after \subseteq fixed
    /\ Fits[<<arm.e, fixed \cup {s}, flags>>]
    /\ S \subseteq Names /\ s \in S
    /\ arm.bs \in Seq(Names) /\ Elems(arm.bs) \cap (fixed \cup S \cup flags) = {}
    /\ D \subseteq S /\ s \notin D /\ D \cap Fv[arm.e] = {} /\ D \cap after = {}
    /\ S \ D = {s} \cup (Fv[arm.e] \ Elems(arm.bs)) \cup after
    /\ Entered(q, S, fixed, flags, s, arm, p)

\* The body from where those in T hold references.
LEMMA ArmBodyServes ==
  ASSUME NEW q, NEW arm, NEW s, NEW D, NEW S, NEW fixed, NEW flags, NEW after, NEW p,
         InArm(q, arm, s, D, S, fixed, flags, after, p),
         NEW o, NEW T, Ready(o, T, fixed \cup {s}, flags), D \subseteq T, T \ D = Fv[arm.e] \cup after
  PROVE  /\ Serves(o, Body(D, arm.e, after), after)
         /\ \A n : /\ <<s, n>> \in o.tokens /\ Reusable(Body(D, arm.e, after), n) # {}
                   => Served(o, After[<<o, TryReuse(Body(D, arm.e, after), n, s)>>], after,
                             o.tokens \ {<<s, n>>})
<1> DEFINE fx == fixed \cup {s}
           m == Body(D, arm.e, after)
<1>1. /\ arm.e \in Code /\ Right(arm.e) /\ m \in Code /\ fx \in SUBSET Names /\ flags \in SUBSET Names
      /\ after \in SUBSET Names /\ after \subseteq fx /\ Fits[<<arm.e, fx, flags>>] /\ s \in Names
  BY DEF InArm
<1> HIDE DEF fx
<1>2. Ready(o, T, fx, flags)
  BY DEF fx
<1>3. Serves(o, m, after)
  BY <1>1, <1>2, BodyServes
<1>4. ASSUME NEW n, <<s, n>> \in o.tokens, Reusable(m, n) # {}
      PROVE  Served(o, After[<<o, TryReuse(m, n, s)>>], after, o.tokens \ {<<s, n>>})
  <2>1. TryReuse(m, n, s) \in Code
    BY <1>1, <1>4, CodeClosed
  <2>2. QED
    BY <1>1, <1>2, <1>4, <2>1, BodyTakes
<1>5. QED
  BY <1>3, <1>4

LEMMA CtorArmServes ==
  ASSUME NEW q, NEW arm, NEW s, NEW D, NEW S, NEW fixed, NEW flags, NEW after, NEW p,
         InArm(q, arm, s, D, S, fixed, flags, after, p), arm.c # CatchAll
  PROVE  Serves(p, CtorArm(s, arm, after, Body(D, arm.e, after)), after)
<1> DEFINE F == Fv[arm.e]
           X == Elems(arm.bs) \cap F
           is == Dups(X)
           m == Body(D, arm.e, after)
           n == Len(arm.bs)
           fx == fixed \cup {s}
           p1 == Run(p, is)
           released == IF Borrowed(s, arm, after) THEN m
                       ELSE IF Reusable(m, n) # {} THEN Before(<<DropReuseOf(s)>>, TryReuse(m, n, s))
                       ELSE Before(<<DropOf(s)>>, m)
<1>1. CtorArm(s, arm, after, m) = Before(is, released)
  BY DEF CtorArm
<1>2. X \subseteq Names /\ s \in Names /\ S \subseteq Names /\ m \in Code /\ s \in S /\ p \in Knowledge
  BY ElemsType DEF InArm, Entered, Ready, Sane
<1>3. Plain(is) /\ is \in Seq(Items)
  <2>1. Plain(is)
    BY <1>2, PlainOnes
  <2>2. QED
    BY <2>1 DEF Plain, Items
<1>4. p1 \in Knowledge /\ Quiet(p, p1) /\ Ready(p1, S \cup X, fx, flags)
  <2> DEFINE c == Cardinality(X)
             f == Listed(X)
  <2>1. f \in [1..c -> X] /\ c \in Nat /\ (\A i, j \in 1..c : f[i] = f[j] => i = j) /\ {f[i] : i \in 1..c} = X
    BY <1>2, TagHolders, ListedFacts
  <2>2. Len(is) = c /\ \A i \in 1..c : is[i] = DupOf(f[i])
    BY <1>2, DupsType
  <2>3. X \subseteq Elems(arm.bs) /\ X \cap (fixed \cup S \cup flags) = {} /\ Entered(q, S, fixed, flags, s, arm, p)
    BY DEF InArm
  <2> HIDE DEF X, is, c, f
  <2>4. DupsOf(is, c, f, X)
    BY <1>3, <2>1, <2>2 DEF DupsOf
  <2>5. QED
    BY <1>2, <2>3, <2>4, BindersRun
<1>5. p1.root = p.root /\ p1.size = p.size /\ p1.tokens = p.tokens
  BY <1>4 DEF Quiet, OnlyOwn
<1> HIDE DEF is, p1
<1>6. /\ D \subseteq S \cup X /\ s \in S \cup X
      /\ Borrowed(s, arm, after) => (S \cup X) \ D = F \cup after
      /\ ~Borrowed(s, arm, after) => /\ D \subseteq (S \cup X) \ {s}
                                     /\ ((S \cup X) \ {s}) \ D = F \cup after
  <2>1. /\ D \subseteq S /\ s \in S /\ s \notin D /\ D \cap F = {} /\ D \cap after = {}
        /\ S \ D = {s} \cup (F \ Elems(arm.bs)) \cup after /\ s \notin Elems(arm.bs)
    BY DEF InArm
  <2>2. Borrowed(s, arm, after) <=> s \in after \cup F
    BY DEF Borrowed
  <2> DEFINE B == Elems(arm.bs)
  <2> HIDE DEF F, B
  <2>3. X = B \cap F
    BY DEF B
  <2> HIDE DEF X
  <2>4. QED
    BY <2>1, <2>2, <2>3 DEF B
<1>7. CASE Borrowed(s, arm, after)
  <2>1. released = m
    BY <1>7
  <2>2. Serves(p1, m, after)
    BY <1>4, <1>6, <1>7, ArmBodyServes
  <2> HIDE DEF m, released
  <2>3. Serves(p, Before(is, m), after)
    BY <1>2, <1>3, <1>4, <2>2, ServesBefore DEF p1
  <2>4. QED
    BY <1>1, <2>1, <2>3 DEF m
<1>8. CASE ~Borrowed(s, arm, after) /\ Reusable(m, n) # {}
  <2> DEFINE r == <<DropReuseOf(s)>>
             e == TryReuse(m, n, s)
             z == Run(p1, r)
             T == (S \cup X) \ {s}
  <2>1. released = Before(r, e)
    BY <1>8
  <2>2. e \in Code /\ Plain(r)
    BY <1>2, <1>8, CodeClosed, PlainOnes
  <2>3. r \in Seq(Items) /\ Before(r, e) \in Code
    BY <2>2, CodeClosed
  <2>4. p1.size[p1.root[s]] = n
    BY <1>5 DEF InArm, Entered
  <2>5. /\ z \in Knowledge /\ z.root = p1.root /\ z.unboxed = p1.unboxed /\ z.faults = p1.faults
        /\ z.tokens = p1.tokens \cup {<<s, n>>}
        /\ Ready(z, T, fx, flags)
    <3>1. s \in S \cup X /\ s \in fx
      BY <1>6
    <3> HIDE DEF X, fx, n
    <3>2. QED
      BY <1>4, <2>4, <3>1, ReleaseReuse
  <2>6. <<s, n>> \notin p1.tokens
    <3>1. \A t \in p1.tokens : t[1] \notin S \cup X
      BY <1>4 DEF Ready, Sane
    <3>2. QED
      BY <3>1, <1>2
  <2> HIDE DEF e, r, z
  <2>7. Served(z, After[<<z, e>>], after, z.tokens \ {<<s, n>>})
    <3>1. D \subseteq T /\ T \ D = F \cup after
      BY <1>6, <1>8
    <3> HIDE DEF T
    <3>2. QED
      BY <1>8, <2>5, <3>1, ArmBodyServes DEF e
  <2>8. z.tokens \ {<<s, n>>} = p1.tokens
    BY <2>5, <2>6
  <2>9. Served(p1, After[<<z, e>>], after, p1.tokens)
    BY <2>5, <2>7, <2>8, ServedFrom
  <2>10. After[<<p1, Before(r, e)>>] = After[<<z, e>>]
    BY <1>4, <2>2, <2>3, AfterBefore DEF z
  <2>11. Serves(p1, Before(r, e), after)
    BY <2>9, <2>10 DEF Serves
  <2> HIDE DEF released
  <2>12. Serves(p, Before(is, Before(r, e)), after)
    BY <1>2, <1>3, <1>4, <2>3, <2>11, ServesBefore DEF p1
  <2>13. QED
    BY <1>1, <2>1, <2>12 DEF released
<1>9. CASE ~Borrowed(s, arm, after) /\ Reusable(m, n) = {}
  <2> DEFINE r == <<DropOf(s)>>
             z == Run(p1, r)
             T == (S \cup X) \ {s}
  <2>1. released = Before(r, m)
    BY <1>9
  <2>2. Plain(r)
    BY <1>2, PlainOnes
  <2>3. Before(r, m) \in Code
    BY <1>2, <2>2, CodeClosed
  <2>4. z \in Knowledge /\ Quiet(p1, z) /\ Ready(z, T, fx, flags)
    <3>1. s \in S \cup X
      BY <1>6
    <3> HIDE DEF X, fx
    <3>2. QED
      BY <1>2, <1>4, <3>1, ReleaseRun
  <2> HIDE DEF r, z
  <2>5. Serves(z, m, after)
    <3>1. D \subseteq T /\ T \ D = F \cup after
      BY <1>6, <1>9
    <3> HIDE DEF T
    <3>2. QED
      BY <2>4, <3>1, ArmBodyServes
  <2> HIDE DEF m
  <2>6. Serves(p1, Before(r, m), after)
    BY <1>2, <1>4, <2>2, <2>4, <2>5, ServesBefore DEF z
  <2> HIDE DEF released
  <2>7. Serves(p, Before(is, Before(r, m)), after)
    BY <1>2, <1>3, <1>4, <2>3, <2>6, ServesBefore DEF p1
  <2>8. QED
    BY <1>1, <2>1, <2>7 DEF released, m
<1>10. QED
  BY <1>7, <1>8, <1>9

LEMMA CatchAllArmServes ==
  ASSUME NEW q, NEW arm, NEW s, NEW D, NEW S, NEW fixed, NEW flags, NEW after, NEW p,
         InArm(q, arm, s, D, S, fixed, flags, after, p), arm.c = CatchAll, Len(arm.bs) = 1
  PROVE  Serves(p, CatchAllArm(s, arm, after, Body(D, arm.e, after)), after)
<1> DEFINE F == Fv[arm.e]
           b == arm.bs[1]
           m == Body(D, arm.e, after)
           fx == fixed \cup {s}
           S1 == S \cup {b}
<1>1. Elems(arm.bs) = {b} /\ b \in Names
  BY OneFacts DEF InArm
<1>2. /\ s \in Names /\ S \subseteq Names /\ m \in Code /\ s \in S /\ p \in Knowledge /\ Ready(p, S, fx, flags)
      /\ Entered(q, S, fixed, flags, s, arm, p)
  BY DEF InArm, Entered, Ready, Sane
<1>3. p.root[b] = p.root[s]
  BY <1>1, <1>2 DEF Entered
<1>4. /\ D \subseteq S /\ s \notin D /\ D \cap F = {} /\ D \cap after = {} /\ b \notin fixed \cup S \cup flags
      /\ S \ D = {s} \cup (F \ {b}) \cup after
  BY <1>1 DEF InArm
<1>5. Borrowed(s, arm, after) <=> s \in after \cup F
  BY DEF Borrowed
<1> HIDE DEF b, F, m, fx
<1>6. CASE Borrowed(s, arm, after) /\ b \in F
  <2> DEFINE is == <<DupOf(b)>>
             z == Run(p, is)
             f == [i \in 1..1 |-> b]
  <2>1. CatchAllArm(s, arm, after, m) = Before(is, m)
    BY <1>6 DEF CatchAllArm, b, F
  <2>2. Plain(is)
    BY <1>1, PlainOnes
  <2>3. is \in Seq(Items)
    BY <2>2 DEF Plain, Items
  <2>4. z \in Knowledge /\ Quiet(p, z) /\ Ready(z, S \cup {b}, fx, flags)
    <3>1. Len(is) = 1 /\ 1 \in Nat /\ \A i \in 1..1 : is[i] = DupOf(f[i])
      OBVIOUS
    <3>2. f \in [1..1 -> {b}] /\ (\A i, j \in 1..1 : f[i] = f[j] => i = j) /\ {f[i] : i \in 1..1} = {b}
      OBVIOUS
    <3>3. {b} \subseteq Elems(arm.bs) /\ {b} \subseteq Names /\ {b} \cap (fixed \cup S \cup flags) = {}
      BY <1>1, <1>4
    <3> HIDE DEF is, f
    <3>4. DupsOf(is, 1, f, {b})
      BY <2>3, <3>1, <3>2 DEF DupsOf
    <3> DEFINE X == {b}
               one == 1
    <3>5. DupsOf(is, one, f, X) /\ X \subseteq Elems(arm.bs) /\ X \subseteq Names /\ X \cap (fixed \cup S \cup flags) = {}
      BY <3>3, <3>4
    <3> HIDE DEF X, one
    <3>6. z \in Knowledge /\ Quiet(p, z) /\ Ready(z, S \cup X, fixed \cup {s}, flags)
      BY <1>2, <3>5, BindersRun DEF z
    <3>7. QED
      BY <3>6 DEF fx, X
  <2> HIDE DEF is, z
  <2>5. D \subseteq S1 /\ S1 \ D = F \cup after
    BY <1>4, <1>5, <1>6
  <2> HIDE DEF S1
  <2>6. Serves(z, m, after)
    BY <2>4, <2>5, ArmBodyServes DEF S1, fx, m, F
  <2>7. Serves(p, Before(is, m), after)
    BY <1>2, <2>2, <2>4, <2>6, ServesBefore DEF z
  <2>8. QED
    BY <2>1, <2>7 DEF m
<1>7. CASE ~Borrowed(s, arm, after) /\ b \notin F
  <2> DEFINE is == <<DropOf(b)>>
             z == Run(p, is)
             T == S \ {s}
  <2>1. CatchAllArm(s, arm, after, m) = Before(is, m)
    BY <1>7 DEF CatchAllArm, b, F
  <2>2. Plain(is)
    BY <1>1, PlainOnes
  <2>3. z \in Knowledge /\ Quiet(p, z) /\ Ready(z, T, fx, flags)
    BY <1>1, <1>2, <1>3, ReleaseRun
  <2> HIDE DEF is, z
  <2>4. D \subseteq T /\ T \ D = F \cup after
    BY <1>4, <1>5, <1>7
  <2> HIDE DEF T
  <2>5. Serves(z, m, after)
    BY <2>3, <2>4, ArmBodyServes DEF fx, m, F
  <2>6. Serves(p, Before(is, m), after)
    BY <1>2, <2>2, <2>3, <2>5, ServesBefore DEF z
  <2>7. QED
    BY <2>1, <2>6 DEF m
<1>8. CASE Borrowed(s, arm, after) /\ b \notin F
  <2>1. CatchAllArm(s, arm, after, m) = m
    BY <1>8 DEF CatchAllArm, b, F
  <2>2. S \ D = F \cup after
    BY <1>4, <1>5, <1>8
  <2>3. Serves(p, m, after)
    BY <1>2, <1>4, <2>2, ArmBodyServes DEF fx, m, F
  <2>4. QED
    BY <2>1, <2>3 DEF m
<1>9. CASE ~Borrowed(s, arm, after) /\ b \in F
  <2> DEFINE T == (S \ {s}) \cup {b}
  <2>1. CatchAllArm(s, arm, after, m) = m
    BY <1>9 DEF CatchAllArm, b, F
  <2>2. D \subseteq T /\ T \ D = F \cup after
    BY <1>4, <1>5, <1>9
  <2>3. Ready(p, T, fx, flags)
    <3>1. Sane(p, S1, fx, flags)
      <4>1. Sane(p, S, fx, flags) /\ {b} \subseteq Names /\ {b} \cap (fx \cup flags) = {}
        BY <1>1, <1>2, <1>4 DEF Ready, fx
      <4>2. p.root[b] \in {b} \cup fx /\ p.root[b] \in p.scope /\ p.root[b] \notin p.unboxed
        BY <1>2, <1>3 DEF Entered, fx
      <4>3. QED
        BY <4>1, <4>2, SaneAdd
    <3>2. Sane(p, T, fx, flags)
      BY <3>1, SaneLess
    <3>3. Owed(p, Tag(T)) = Owed(p, Tag(S))
      <4> DEFINE h == <<s, 0>>
                 k == <<b, 0>>
      <4>1. Holders(Tag(S)) /\ h \in Tag(S) /\ k \notin Tag(S) /\ p.root[k[1]] = p.root[h[1]]
        <5>1. Holders(Tag(S))
          BY <1>2, TagHolders
        <5>2. QED
          BY <5>1, <1>2, <1>3, <1>4 DEF Tag
      <4>2. Tag(T) = (Tag(S) \ {h}) \cup {k}
        BY DEF Tag
      <4> HIDE DEF h, k, T
      <4>3. Owed(p, (Tag(S) \ {h}) \cup {k}) = Owed(p, Tag(S))
        BY <1>2, <4>1, OwedRenamed
      <4>4. QED
        BY <4>2, <4>3
    <3>4. Holders(Tag(T))
      BY <1>1, <1>2, TagHolders
    <3> HIDE DEF T
    <3>5. QED
      BY <1>2, <3>2, <3>3, <3>4 DEF Ready, Counts
  <2> HIDE DEF T
  <2>4. Serves(p, m, after)
    BY <2>2, <2>3, ArmBodyServes DEF fx, m, F
  <2>5. QED
    BY <2>1, <2>4 DEF m
<1>10. QED
  BY <1>6, <1>7, <1>8, <1>9 DEF m

\* An arm, from the knowledge before the match.
LEMMA ArmServes ==
  ASSUME NEW parts, Tree(parts), parts \subseteq Code, Within(Rc, parts), \A e \in parts : Right(e),
         NEW i \in InstrForms(parts), i.k = "let", i.b.op = "match",
         NEW fixed \in SUBSET Names, NEW flags \in SUBSET Names, NEW after \in SUBSET Names, after \subseteq fixed,
         LetFits(i, fixed, flags, Fits),
         NEW q, Ready(q, FvBind(i.b, Fv) \cup after, fixed, flags), NEW j \in DOMAIN i.b.arms
  PROVE  LET arm == ArmOf(i.b, j, after, Rc)
         IN  Served(q, After[<<EnterArm(q, i.b.v, arm), arm.e>>], after, q.tokens)
<1> DEFINE b == i.b
           s == b.v
           fvs == ArmFvs(b)
           S == FvBind(b, Fv) \cup after
           old == b.arms[j]
           arm == ArmOf(b, j, after, Rc)
           D == ArmDrops(s, fvs, j, after)
           m == Body(D, old.e, after)
           p == EnterArm(q, s, old)
<1>1. b \in BindForms(parts)
  BY InstrParts
<1>2. s \in Names /\ b.arms \in Seq(ArmForms(parts))
  BY <1>1, BindParts DEF SimpleOps
<1>3. old.bs \in Seq(Names) /\ old.e \in parts /\ (old.c = CatchAll => Len(old.bs) = 1)
  <2>1. old \in ArmForms(parts)
    BY <1>2, SeqAt
  <2>2. QED
    BY <2>1, ArmParts
<1>4. s \notin flags /\ Elems(old.bs) \cap (fixed \cup FvBind(b, Fv) \cup flags) = {} /\ Fits[<<old.e, fixed \cup {s}, flags>>]
  BY DEF LetFits, SimpleOps
<1>5. m = ArmBody(b, j, after, Rc) /\ m \in Code
  <2>1. m = ArmBody(b, j, after, Rc)
    BY DEF Body, ArmBody, WithDrops
  <2>2. ArmBody(b, j, after, Rc) \in parts
    <3>1. j \in DOMAIN b.arms
      OBVIOUS
    <3> HIDE DEF b
    <3>2. QED
      BY <1>2, <3>1, ArmBodyType
  <2>3. QED
    BY <2>1, <2>2
<1>6. arm = Arm(old.c, old.bs, IF old.c = CatchAll THEN CatchAllArm(s, old, after, m) ELSE CtorArm(s, old, after, m))
  BY <1>5 DEF ArmOf, ArmBody, ArmFvs
<1>7. EnterArm(q, s, arm) = p /\ arm.e = IF old.c = CatchAll THEN CatchAllArm(s, old, after, m) ELSE CtorArm(s, old, after, m)
  BY <1>6 DEF Arm, EnterArm
<1>8. FvBind(b, Fv) = {s} \cup UNION {fvs[k] : k \in DOMAIN b.arms}
  BY DEF FvBind, ArmFvs
<1>9. DOMAIN fvs = DOMAIN b.arms /\ fvs[j] = Fv[old.e] \ Elems(old.bs)
  BY DEF ArmFvs
<1>10. D = (UNION {fvs[k] : k \in DOMAIN b.arms \ {j}}) \ (fvs[j] \cup after \cup {s})
  <2>1. DOMAIN fvs \ {j} = DOMAIN b.arms \ {j}
    BY <1>9
  <2> HIDE DEF fvs
  <2>2. QED
    BY <2>1 DEF ArmDrops, Union
<1>11. S \subseteq Names /\ Ready(q, S, fixed, flags)
  BY DEF Ready, Sane
<1> HIDE DEF arm, m, p, D, fvs
<1>12. D \subseteq S /\ s \in S /\ s \notin D /\ D \cap after = {} /\ S \ D = {s} \cup fvs[j] \cup after /\ D \cap fvs[j] = {}
  <2>1. D \subseteq S
    BY <1>8, <1>10
  <2>2. s \in S /\ s \notin D /\ D \cap after = {} /\ D \cap fvs[j] = {}
    BY <1>8, <1>10
  <2>3. S \ D \subseteq {s} \cup fvs[j] \cup after
    <3> SUFFICES ASSUME NEW x \in S, x \notin D, x # s, x \notin after PROVE x \in fvs[j]
      OBVIOUS
    <3>1. PICK k \in DOMAIN b.arms : x \in fvs[k]
      BY <1>8
    <3>2. CASE k # j
      BY <3>1, <3>2, <1>10
    <3>3. QED
      BY <3>1, <3>2
  <2>4. {s} \cup fvs[j] \cup after \subseteq S
    BY <1>8
  <2>5. QED
    BY <2>1, <2>2, <2>3, <2>4
<1>13. Elems(old.bs) \cap (fixed \cup S \cup flags) = {}
  BY <1>4
<1>14. D \cap Fv[old.e] = {}
  BY <1>9, <1>12, <1>13
<1> HIDE DEF S
<1>15. Entered(q, S, fixed, flags, s, old, p)
  <2> HIDE DEF s, old
  <2>1. QED
    BY <1>3, <1>4, <1>11, <1>12, <1>13, EnterReady DEF p
<1>16. InArm(q, old, s, D, S, fixed, flags, after, p)
  <2>1. old.e \in Code /\ Right(old.e)
    BY <1>3
  <2>2. Body(D, old.e, after) \in Code
    BY <1>5 DEF m
  <2> HIDE DEF s, old
  <2>3. S \ D = {s} \cup (Fv[old.e] \ Elems(old.bs)) \cup after
    BY <1>9, <1>12
  <2>4. QED
    BY <2>1, <2>2, <2>3, <1>3, <1>4, <1>11, <1>12, <1>13, <1>14, <1>15 DEF InArm
<1>17. Serves(p, arm.e, after)
  <2>1. CASE old.c = CatchAll
    <3>1. Serves(p, CatchAllArm(s, old, after, m), after)
      BY <1>3, <1>16, <2>1, CatchAllArmServes DEF m
    <3>2. QED
      BY <1>7, <2>1, <3>1
  <2>2. CASE old.c # CatchAll
    <3>1. Serves(p, CtorArm(s, old, after, m), after)
      BY <1>16, <2>2, CtorArmServes DEF m
    <3>2. QED
      BY <1>7, <2>2, <3>1
  <2>3. QED
    BY <2>1, <2>2
<1>18. p.faults = q.faults /\ p.tokens = q.tokens /\ Owed(p, Tag(after)) = Owed(q, Tag(after))
  BY <1>15 DEF Entered, S
<1>19. Served(q, After[<<p, arm.e>>], after, q.tokens)
  BY <1>17, <1>18 DEF Serves, Served
<1>20. QED
  BY <1>7, <1>19 DEF arm

LEMMA MatchLet ==
  ASSUME NEW parts, Tree(parts), parts \subseteq Code, Within(Rc, parts), \A e \in parts : Right(e),
         NEW i \in InstrForms(parts), i.k = "let", i.b.op = "match",
         NEW fixed \in SUBSET Names, NEW flags \in SUBSET Names, NEW after \in SUBSET Names, after \subseteq fixed,
         LetFits(i, fixed, flags, Fits),
         NEW q, Ready(q, FvBind(i.b, Fv) \cup after, fixed, flags)
  PROVE  Lets(q, LetPart(i, after, Rc), i.x, TRUE, after, q.tokens)
<1> DEFINE b == i.b
           arms == [j \in DOMAIN b.arms |-> ArmOf(b, j, after, Rc)]
           c == BMatch(b.v, arms)
           S == FvBind(b, Fv) \cup after
           results == {After[<<EnterArm(q, b.v, arms[j]), arms[j].e>>] : j \in DOMAIN arms}
<1>1. i.x \in Names /\ b \in BindForms(parts)
  BY InstrParts
<1>2. b.v \in Names /\ b.arms \in Seq(ArmForms(parts))
  BY <1>1, BindParts DEF SimpleOps
<1>3. b.v \notin flags /\ b.arms # <<>> /\ b.v \in S
  BY DEF LetFits, SimpleOps, FvBind
<1>4. q \in Knowledge /\ Sane(q, after, fixed, flags) /\ Sane(q, S, fixed, flags) /\ Counts(q, Tag(S))
  BY SaneLess DEF Ready, Sane
<1>5. \A j \in DOMAIN b.arms :
         Served(q, After[<<EnterArm(q, b.v, ArmOf(b, j, after, Rc)), ArmOf(b, j, after, Rc).e>>], after, q.tokens)
  BY ArmServes
<1> HIDE DEF S
<1>6. DOMAIN arms = DOMAIN b.arms /\ \A j \in DOMAIN b.arms : arms[j] = ArmOf(b, j, after, Rc)
  OBVIOUS
<1> HIDE DEF b
<1>7. DOMAIN b.arms = 1..Len(b.arms) /\ Len(b.arms) \in Nat /\ 1 \in DOMAIN b.arms
  <2>1. DOMAIN b.arms = 1..Len(b.arms) /\ Len(b.arms) \in Nat
    BY <1>2, SeqAt
  <2>2. Len(b.arms) # 0
    BY <1>2, <1>3
  <2> DEFINE N == Len(b.arms)
  <2>3. N \in Nat /\ N # 0
    BY <2>1, <2>2
  <2> HIDE DEF N
  <2>4. 1 \in 1..N
    BY <2>3
  <2>5. QED
    BY <2>1, <2>4 DEF N
<1>8. ASSUME NEW j \in DOMAIN b.arms PROVE ArmOf(b, j, after, Rc) \in ArmForms(parts)
  BY <1>2, ArmOfType
<1>9. arms \in Seq(ArmForms(Code)) /\ arms # <<>>
  <2>1. arms \in Seq(ArmForms(parts)) /\ 1 \in DOMAIN arms
    <3>1. arms \in [1..Len(b.arms) -> ArmForms(parts)]
      BY <1>6, <1>7, <1>8
    <3> HIDE DEF arms
    <3>2. QED
      BY <3>1, <1>7
  <2>2. ArmForms(parts) \subseteq ArmForms(Code)
    BY DEF ArmForms
  <2> HIDE DEF arms
  <2>3. QED
    BY <2>1, <2>2, SeqMono
<1> HIDE DEF arms
<1>10. \A r \in results : Served(q, r, after, q.tokens)
  BY <1>5, <1>6
<1>11. results # {}
  BY <1>6, <1>7
<1>12. AfterBind(q, c, After) = Fault(Join(q, b.v, results), b.v, q.own[q.root[b.v]] <= 0)
  BY <1>9 DEF AfterBind, BMatch
<1> HIDE DEF results
<1>13. Done(q, Join(q, b.v, results), after, q.tokens)
  BY <1>2, <1>4, <1>10, <1>11, JoinDone
<1>14. ~(q.own[q.root[b.v]] <= 0)
  <2> DEFINE h == <<b.v, 0>>
  <2>1. h \in Tag(S) /\ h[1] = b.v
    BY <1>3 DEF Tag
  <2>2. q.root[b.v] \notin q.unboxed
    BY <1>3, <1>4 DEF Sane
  <2> HIDE DEF h
  <2>3. q.own[q.root[h[1]]] > 0
    BY <1>4, <2>1, <2>2, HeldOwned
  <2>4. q.own[q.root[b.v]] \in Int
    BY <1>2, <1>4 DEF Knowledge
  <2>5. QED
    BY <2>1, <2>3, <2>4
<1>15. Done(q, AfterBind(q, c, After), after, q.tokens)
  <2>1. Join(q, b.v, results) \in Knowledge
    BY <1>13 DEF Done
  <2> DEFINE wrong == q.own[q.root[b.v]] <= 0
  <2>2. ~wrong /\ wrong \in BOOLEAN
    BY <1>14
  <2>3. AfterBind(q, c, After) = Fault(Join(q, b.v, results), b.v, wrong)
    BY <1>12
  <2> HIDE DEF wrong
  <2>4. Fault(Join(q, b.v, results), b.v, wrong) = Join(q, b.v, results)
    BY <1>2, <2>1, <2>2, FaultFacts, Zenon
  <2>5. QED
    BY <1>13, <2>3, <2>4
<1>16. LetIn(i.x, c) \in Items /\ c.op # "equal"
  <2>1. c \in BindForms(Code)
    BY <1>2, <1>9, BindMade
  <2>2. QED
    BY <2>1, <1>1, InstrMade DEF Items, BMatch
<1> HIDE DEF c
<1>17. Lets(q, <<LetIn(i.x, c)>>, i.x, TRUE, after, q.tokens)
  BY <1>1, <1>4, <1>15, <1>16, OneLet
<1>18. LetPart(i, after, Rc) = <<LetIn(i.x, c)>>
  BY DEF LetPart, c, b, arms
<1>19. QED
  BY <1>17, <1>18

-----------------------------------------------------------------------------
(* A whole expression                                                      *)

\* In e after its n-th instruction.
At(e, fixed, flags, live, o, n, toks, q) ==
    /\ q \in Knowledge /\ Ready(q, FvFrom(e, n + 1, Fv) \cup live, fixed, FlagsAt(e, flags, n + 1))
    /\ Same(o, q, fixed) /\ q.tokens = toks
Given(e, fixed, flags, live, o) ==
    e \in Code /\ (\A c \in Inner(e) : Right(c)) /\ Asked(o, e, fixed, flags, live)

LEMMA SameOn ==
  ASSUME NEW o, NEW q, NEW p, NEW fixed, Same(o, q, fixed), Same(q, p, fixed)
  PROVE  Same(o, p, fixed)
BY DEF Same

LEMMA FlagsStep ==
  ASSUME NEW e, NEW flags, NEW n \in Nat \ {0}
  PROVE  FlagsAt(e, flags, n + 1) = IF e.is[n].b.op # "equal" THEN FlagsAt(e, flags, n)
                                    ELSE FlagsAt(e, flags, n) \cup {e.is[n].x}
<1>1. \A m : m \in 1..(n + 1 - 1) <=> m \in 1..(n - 1) \/ m = n
  OBVIOUS
<1>2. QED
  BY <1>1 DEF FlagsAt

\* What the n-th let of e is.
LetAt(e, fixed, flags, live, n) ==
    LET i == e.is[n]
        rest == FvFrom(e, n + 1, Fv)
        fs == FlagsAt(e, flags, n)
    IN  /\ i \in InstrForms(Inner(e)) /\ i \in Items /\ i.k = "let" /\ i.x \in Names
        /\ i.x \notin fixed \cup fs /\ LetFits(i, FixedAt(e, fixed, n), fs, Fits)
        /\ rest \in SUBSET Names /\ AfterLet(i, rest, live) \in SUBSET Names
        /\ AfterLet(i, rest, live) \subseteq FixedAt(e, fixed, n) /\ FixedAt(e, fixed, n) \in SUBSET Names
        /\ FvFrom(e, n, Fv) \cup live = FvBind(i.b, Fv) \cup AfterLet(i, rest, live)
        /\ Spine(e, live, Rc)[n] = LetPart(i, AfterLet(i, rest, live), Rc) \o MaybeDrop(i.x, i.x \notin rest \cup live)

LEMMA SpineAt ==
  ASSUME NEW parts, Tree(parts), parts \subseteq Code, NEW e \in ExprForms(parts), NEW live \in SUBSET Names,
         Within(Rc, parts), NEW n \in 1..Len(e.is), e.is[n].k = "let"
  PROVE  /\ FvFrom(e, n + 1, Fv) \in SUBSET Names
         /\ Spine(e, live, Rc)[n] = Converted(e.is[n], FvFrom(e, n + 1, Fv), live, Rc)
BY SpineType

LEMMA LetAtFacts ==
  ASSUME NEW e, NEW fixed, NEW flags, NEW live, NEW o, Given(e, fixed, flags, live, o), NEW n \in 1..Len(e.is)
  PROVE  LetAt(e, fixed, flags, live, n)
<1> DEFINE parts == Inner(e)
           i == e.is[n]
           rest == FvFrom(e, n + 1, Fv)
           after == AfterLet(i, rest, live)
           fs == FlagsAt(e, flags, n)
           fx == FixedAt(e, fixed, n)
<1>1. e \in Code /\ e \in ExprForms(parts) /\ parts \subseteq Code /\ e \in Exprs /\ Tree(parts)
  BY InnerCode, InnerTree, CodeExprs DEF Given
<1>2. i \in InstrForms(parts) /\ i \in Items /\ DOMAIN e.is = 1..Len(e.is) /\ Len(e.is) \in Nat
  <2>1. e.is \in Seq(InstrForms(parts)) /\ e.is \in Seq(Items)
    BY <1>1, ExprParts DEF Exprs, Items
  <2>2. QED
    BY <2>1, SeqAt
<1>3. fixed \in SUBSET Names /\ flags \in SUBSET Names /\ live \in SUBSET Names /\ live \subseteq fixed /\ Fits[<<e, fixed, flags>>]
  BY DEF Given, Asked
<1>4. FitsAt(e, fixed, flags, Fits)
  BY <1>1, <1>3, FitsType
<1>5. i.k = "let" /\ i.x \notin fixed \cup fs /\ LetFits(i, fx, fs, Fits)
  BY <1>2, <1>4 DEF FitsAt, FitsIn
<1>6. i.x \in Names
  BY <1>2, <1>5, InstrParts
<1>7. Within(Rc, parts)
  BY <1>1, RcType
<1>8. rest \in SUBSET Names /\ Spine(e, live, Rc)[n] = Converted(i, rest, live, Rc)
  BY <1>1, <1>3, <1>5, <1>7, SpineAt
<1>9. Spine(e, live, Rc)[n] = LetPart(i, after, Rc) \o MaybeDrop(i.x, i.x \notin rest \cup live)
  BY <1>8, ConvertedIs
<1>10. FvFrom(e, n, Fv) = FvBind(i.b, Fv) \cup (rest \ {i.x})
  BY <1>1, <1>5, FvFromStep
<1>11. after = (rest \ {i.x}) \cup live /\ fx = fixed \cup (rest \ {i.x})
  BY DEF AfterLet, FixedAt
<1> HIDE DEF rest, after, fx, fs
<1>12. after \in SUBSET Names /\ after \subseteq fx /\ fx \in SUBSET Names /\ FvFrom(e, n, Fv) \cup live = FvBind(i.b, Fv) \cup after
  BY <1>3, <1>8, <1>10, <1>11
<1>13. QED
  BY <1>2, <1>5, <1>6, <1>8, <1>9, <1>12 DEF LetAt, rest, after, fx, fs

\* A let of a fitting bind.
LEMMA FitLet ==
  ASSUME NEW parts, Tree(parts), parts \subseteq Code, Within(Rc, parts), \A e \in parts : Right(e),
         NEW i \in InstrForms(parts), i \in Items, i.k = "let",
         NEW fixed \in SUBSET Names, NEW flags \in SUBSET Names, NEW after \in SUBSET Names, after \subseteq fixed,
         LetFits(i, fixed, flags, Fits),
         NEW q, Ready(q, FvBind(i.b, Fv) \cup after, fixed, flags)
  PROVE  Lets(q, LetPart(i, after, Rc), i.x, i.b.op # "equal", after, q.tokens)
<1>1. CASE i.b.op \in SimpleOps
  <2>1. FvBind(i.b, Fv) = Elems(i.b.as)
    BY <1>1 DEF FvBind, SimpleOps
  <2>2. q \in Knowledge /\ Counts(q, Tag(Elems(i.b.as) \cup after))
    BY <2>1 DEF Ready, Sane
  <2>3. QED
    BY <1>1, <2>2, SimpleLet
<1>2. CASE i.b.op = "if"
  <2>1. Lets(q, LetPart(i, after, Rc), i.x, TRUE, after, q.tokens)
    BY <1>2, IfLet
  <2>2. (i.b.op # "equal") = TRUE
    BY <1>2
  <2>3. QED
    BY <2>1, <2>2, Zenon
<1>3. CASE i.b.op = "match"
  <2>1. Lets(q, LetPart(i, after, Rc), i.x, TRUE, after, q.tokens)
    BY <1>3, MatchLet
  <2>2. (i.b.op # "equal") = TRUE
    BY <1>3
  <2>3. QED
    BY <2>1, <2>2, Zenon
<1>4. CASE i.b.op \notin SimpleOps \cup {"if", "match"}
  BY <1>4 DEF LetFits
<1>5. QED
  BY <1>1, <1>2, <1>3, <1>4

\* From one piece of the spine to the next.
LEMMA PieceDone ==
  ASSUME NEW e, NEW fixed, NEW flags, NEW live, NEW o, Given(e, fixed, flags, live, o), NEW n \in 1..Len(e.is),
         NEW toks, NEW q, At(e, fixed, flags, live, o, n - 1, toks, q), NEW less, less \subseteq toks,
         NEW is, Lets(q, is, e.is[n].x, e.is[n].b.op # "equal", AfterLet(e.is[n], FvFrom(e, n + 1, Fv), live), less)
  PROVE  LET piece == is \o MaybeDrop(e.is[n].x, e.is[n].x \notin FvFrom(e, n + 1, Fv) \cup live)
         IN  piece \in Seq(Items) /\ At(e, fixed, flags, live, o, n, less, Run(q, piece))
<1> DEFINE i == e.is[n]
           rest == FvFrom(e, n + 1, Fv)
           after == AfterLet(i, rest, live)
           fs == FlagsAt(e, flags, n)
           gs == FlagsAt(e, flags, n + 1)
           boxed == i.b.op # "equal"
           piece == is \o MaybeDrop(i.x, i.x \notin rest \cup live)
           S == FvFrom(e, n, Fv) \cup live
<1>1. /\ i.x \in Names /\ i.x \notin fixed \cup fs /\ rest \in SUBSET Names
      /\ S = FvBind(i.b, Fv) \cup after
  BY LetAtFacts DEF LetAt
<1>2. live \in SUBSET Names /\ live \subseteq fixed /\ n \in Nat \ {0}
  <2>1. Len(e.is) \in Nat
    <3>1. e \in Exprs
      BY CodeExprs DEF Given
    <3>2. QED
      BY <3>1, ExprParts, SeqAt DEF Exprs
  <2> DEFINE N == Len(e.is)
  <2>2. n \in 1..N /\ N \in Nat
    BY <2>1
  <2> HIDE DEF N
  <2>3. n \in Nat \ {0}
    BY <2>2
  <2>4. QED
    BY <2>3 DEF Given, Asked
<1>3. n - 1 + 1 = n
  BY <1>2
<1>4. q \in Knowledge /\ Ready(q, S, fixed, fs) /\ Same(o, q, fixed) /\ q.tokens = toks
  BY <1>3 DEF At
<1>5. gs = IF boxed THEN fs ELSE fs \cup {i.x}
  BY <1>2, FlagsStep
<1>6. Sane(q, S, fixed, fs) /\ after \subseteq S /\ boxed \in BOOLEAN
  BY <1>1, <1>4 DEF Ready
<1>7. Lets(q, is, i.x, boxed, after, less)
  OBVIOUS
<1>8. less \subseteq q.tokens
  BY <1>4
<1> HIDE DEF S, fs, gs, boxed, rest
<1>9. /\ piece \in Seq(Items)
      /\ Ready(Run(q, piece), rest \cup live, fixed, IF boxed THEN fs ELSE fs \cup {i.x})
      /\ Same(q, Run(q, piece), fixed) /\ Run(q, piece).tokens = less
  <2> HIDE DEF i
  <2>1. LetCan(q, S, fixed, fs, i, rest, live, boxed, less, is)
    BY <1>1, <1>2, <1>6, <1>7, <1>8 DEF LetCan
  <2>2. LetRan(q, fixed, fs, i, rest, live, boxed, less, piece, Run(q, piece))
    BY <2>1, LetRun, Zenon
  <2> HIDE DEF piece
  <2>3. QED
    BY <2>2 DEF LetRan
<1> HIDE DEF piece
<1>10. Same(o, Run(q, piece), fixed)
  BY <1>4, <1>9, SameOn
<1>11. Run(q, piece) \in Knowledge /\ Ready(Run(q, piece), rest \cup live, fixed, gs)
  BY <1>5, <1>9 DEF Ready, Sane
<1>12. piece \in Seq(Items) /\ At(e, fixed, flags, live, o, n, less, Run(q, piece))
  BY <1>9, <1>10, <1>11 DEF At, gs, rest
<1>13. QED
  BY <1>12 DEF rest, piece

LEMMA AtLets ==
  ASSUME NEW e, NEW fixed, NEW flags, NEW live, NEW o, Given(e, fixed, flags, live, o), NEW n \in 1..Len(e.is),
         NEW toks, NEW q, At(e, fixed, flags, live, o, n - 1, toks, q)
  PROVE  /\ Ready(q, FvBind(e.is[n].b, Fv) \cup AfterLet(e.is[n], FvFrom(e, n + 1, Fv), live),
                  FixedAt(e, fixed, n), FlagsAt(e, flags, n))
         /\ q \in Knowledge /\ q.tokens = toks
<1> DEFINE fs == FlagsAt(e, flags, n)
           S == FvFrom(e, n, Fv) \cup live
<1>1. Len(e.is) \in Nat
  <2>1. e \in Exprs
    BY CodeExprs DEF Given
  <2>2. QED
    BY <2>1, ExprParts, SeqAt DEF Exprs
<1>2. n - 1 + 1 = n
  <2> DEFINE N == Len(e.is)
  <2>1. n \in 1..N /\ N \in Nat
    BY <1>1
  <2> HIDE DEF N
  <2>2. QED
    BY <2>1
<1>3. q \in Knowledge /\ Ready(q, S, fixed, fs) /\ q.tokens = toks
  BY <1>2 DEF At
<1>4. S = FvBind(e.is[n].b, Fv) \cup AfterLet(e.is[n], FvFrom(e, n + 1, Fv), live)
  BY LetAtFacts DEF LetAt
<1> HIDE DEF S, fs
<1>5. fixed \subseteq FixedAt(e, fixed, n)
  BY DEF FixedAt
<1>6. Sane(q, S, FixedAt(e, fixed, n), fs)
  BY <1>3, <1>5, SaneMore DEF Ready
<1>7. QED
  BY <1>3, <1>4, <1>6 DEF Ready, fs

LEMMA PieceRun ==
  ASSUME NEW e, NEW fixed, NEW flags, NEW live, NEW o, Given(e, fixed, flags, live, o), NEW n \in 1..Len(e.is),
         NEW toks, NEW q, At(e, fixed, flags, live, o, n - 1, toks, q)
  PROVE  At(e, fixed, flags, live, o, n, toks, Run(q, Spine(e, live, Rc)[n]))
<1> DEFINE i == e.is[n]
           rest == FvFrom(e, n + 1, Fv)
           after == AfterLet(i, rest, live)
           fs == FlagsAt(e, flags, n)
           fx == FixedAt(e, fixed, n)
           parts == Inner(e)
<1>1. LetAt(e, fixed, flags, live, n)
  BY LetAtFacts
<1>2. Tree(parts) /\ parts \subseteq Code /\ Within(Rc, parts) /\ \A c \in parts : Right(c)
  BY InnerTree, InnerCode, RcType DEF Given
<1>3. Ready(q, FvBind(i.b, Fv) \cup after, fx, fs) /\ q.tokens = toks
  BY AtLets
<1>4. /\ i \in InstrForms(parts) /\ i \in Items /\ i.k = "let" /\ LetFits(i, fx, fs, Fits)
      /\ after \in SUBSET Names /\ after \subseteq fx /\ fx \in SUBSET Names
      /\ Spine(e, live, Rc)[n] = LetPart(i, after, Rc) \o MaybeDrop(i.x, i.x \notin rest \cup live)
  BY <1>1 DEF LetAt
<1>5. fs \in SUBSET Names
  <2>1. flags \in SUBSET Names /\ e \in Exprs
    BY CodeExprs DEF Given, Asked
  <2>2. ASSUME NEW j \in 1..(n - 1) PROVE e.is[j].x \in Names
    <3>1. e.is \in Seq(Items) /\ Len(e.is) \in Nat
      BY <2>1, ExprParts, SeqAt DEF Exprs, Items
    <3>2. j \in 1..Len(e.is)
      <4> DEFINE N == Len(e.is)
      <4>1. n \in 1..N /\ N \in Nat
        BY <3>1
      <4> HIDE DEF N
      <4>2. j \in 1..N
        BY <4>1
      <4>3. QED
        BY <4>2 DEF N
    <3>3. LetAt(e, fixed, flags, live, j)
      BY <3>2, LetAtFacts
    <3>4. QED
      BY <3>3 DEF LetAt
  <2>3. QED
    BY <2>1, <2>2 DEF FlagsAt
<1> HIDE DEF fs, fx, parts
<1>6. Lets(q, LetPart(i, after, Rc), i.x, i.b.op # "equal", after, toks)
  <2> HIDE DEF i, after
  <2>1. Lets(q, LetPart(i, after, Rc), i.x, i.b.op # "equal", after, q.tokens)
    BY <1>2, <1>3, <1>4, <1>5, FitLet
  <2>2. QED
    BY <1>3, <2>1, Zenon
<1>7. At(e, fixed, flags, live, o, n, toks, Run(q, LetPart(i, after, Rc) \o MaybeDrop(i.x, i.x \notin rest \cup live)))
  BY <1>6, PieceDone
<1>8. QED
  BY <1>4, <1>7

\* One constructor of the piece takes the token t.
LEMMA PieceReuse ==
  ASSUME NEW e, NEW fixed, NEW flags, NEW live, NEW o, Given(e, fixed, flags, live, o), NEW n \in 1..Len(e.is),
         NEW toks, NEW q, At(e, fixed, flags, live, o, n - 1, toks, q),
         NEW l \in 1..Len(Spine(e, live, Rc)[n]), CtorAt(Spine(e, live, Rc)[n], l),
         NEW t \in Names, <<t, Len(Spine(e, live, Rc)[n][l].b.as)>> \in toks
  PROVE  /\ Reused(Spine(e, live, Rc)[n], l, t) \in Seq(Items)
         /\ At(e, fixed, flags, live, o, n, toks \ {<<t, Len(Spine(e, live, Rc)[n][l].b.as)>>},
               Run(q, Reused(Spine(e, live, Rc)[n], l, t)))
<1> DEFINE i == e.is[n]
           rest == FvFrom(e, n + 1, Fv)
           after == AfterLet(i, rest, live)
           s == LetPart(i, after, Rc)
           dead == i.x \notin rest \cup live
           d == MaybeDrop(i.x, dead)
           piece == Spine(e, live, Rc)[n]
           y == LetIn(i.x, BReuse(t, i.b.n, i.b.as))
           z == OperandDups(i.b.as, after) \o <<y>>
           less == toks \ {<<t, Len(i.b.as)>>}
<1>1. /\ i \in Items /\ i.k = "let" /\ after \in SUBSET Names /\ piece = s \o d
      /\ i.b.op \notin {"ctorreuse"}
  <2>1. LetAt(e, fixed, flags, live, n)
    BY LetAtFacts
  <2>2. i.b.op # "ctorreuse"
    BY <2>1 DEF LetAt, LetFits, SimpleOps
  <2>3. QED
    BY <2>1, <2>2 DEF LetAt
<1>2. s \in Seq(Items)
  <2>1. Tree(Code) /\ Within(Rc, Code)
    <3>1. MaxNesting \in Nat /\ Code = Nested[MaxNesting]
      BY CodeTop
    <3>2. QED
      BY <3>1, LevelsRise, RcType DEF Tree
  <2> HIDE DEF i, after
  <2>2. QED
    BY <1>1, <2>1, LetPartType DEF Items
<1>3. OnlyCtor(Code, i, after, piece, l, d)
  <2>1. i \in InstrForms(Code) /\ s \in Seq(InstrForms(Code)) /\ i.b.op # "ctorreuse"
    BY <1>1, <1>2 DEF Items
  <2>2. l \in 1..Len(s \o d) /\ CtorAt(s \o d, l)
    BY <1>1
  <2> HIDE DEF i, after, dead
  <2>3. OnlyCtor(Code, i, after, s \o d, l, d)
    BY <1>1, <2>1, <2>2, CtorPiece
  <2>4. QED
    BY <1>1, <2>3
<1>4. i.b.op = "ctor" /\ piece[l] = i /\ \A w \in Items : Patched(piece, l, w) = (OperandDups(i.b.as, after) \o <<w>>) \o d
  BY <1>3 DEF OnlyCtor, Items
<1>5. q \in Knowledge /\ Counts(q, Tag(Elems(i.b.as) \cup after)) /\ q.tokens = toks
  <2>1. FvBind(i.b, Fv) = Elems(i.b.as)
    BY <1>4 DEF FvBind
  <2>2. /\ Ready(q, FvBind(i.b, Fv) \cup after, FixedAt(e, fixed, n), FlagsAt(e, flags, n))
        /\ q \in Knowledge /\ q.tokens = toks
    BY AtLets, SMTT(40)
  <2> HIDE DEF i, after
  <2>3. Counts(q, Tag(FvBind(i.b, Fv) \cup after))
    BY <2>2 DEF Ready
  <2>4. QED
    BY <2>1, <2>2, <2>3
<1>6. <<t, Len(i.b.as)>> \in q.tokens
  BY <1>4, <1>5
<1>7. Lets(q, z, i.x, TRUE, after, less)
  <2> HIDE DEF i, after
  <2>1. Lets(q, z, i.x, TRUE, after, q.tokens \ {<<t, Len(i.b.as)>>})
    BY <1>1, <1>4, <1>5, <1>6, ReuseLet
  <2>2. QED
    BY <1>5, <2>1
<1>8. Lets(q, z, i.x, i.b.op # "equal", after, less)
  <2>1. (i.b.op # "equal") = TRUE
    BY <1>4
  <2>2. QED
    BY <1>7, <2>1, Zenon
<1>9. less \subseteq toks
  OBVIOUS
<1>10. y \in Items
  <2>1. i.x \in Names /\ i.b \in BindForms(Code)
    BY <1>1, InstrParts DEF Items
  <2>2. i.b.n \in STRING /\ i.b.as \in Seq(Names)
    BY <2>1, <1>4, BindParts DEF SimpleOps
  <2>3. BReuse(t, i.b.n, i.b.as) \in BindForms(Code)
    BY <2>2, BindMade
  <2>4. QED
    BY <2>1, <2>3, InstrMade DEF Items
<1>11. Reused(piece, l, t) = z \o d
  <2>1. Reused(piece, l, t) = Patched(piece, l, y)
    BY <1>4 DEF Reused
  <2> HIDE DEF y
  <2>2. QED
    BY <2>1, <1>4, <1>10
<1> HIDE DEF z, less
<1>12. z \o d \in Seq(Items) /\ At(e, fixed, flags, live, o, n, less, Run(q, z \o d))
  BY <1>8, <1>9, PieceDone
<1>13. QED
  BY <1>4, <1>11, <1>12 DEF less

\* Through the instructions of the converted e; at the piece j the instructions
\* are those of alt, which leave the tokens less.
LEMMA SpineRun ==
  ASSUME NEW e, NEW fixed, NEW flags, NEW live, NEW o, Given(e, fixed, flags, live, o),
         NEW j \in 1..Len(e.is), NEW alt \in Seq(Items), NEW less,
         \A q : At(e, fixed, flags, live, o, j - 1, o.tokens, q)
                   => At(e, fixed, flags, live, o, j, less, Run(q, alt))
  PROVE  At(e, fixed, flags, live, o, Len(e.is), less, Run(o, Concat(Patched(Spine(e, live, Rc), j, alt))))
<1> DEFINE ss == Spine(e, live, Rc)
           tt == Patched(ss, j, alt)
           N == Len(e.is)
           toks(n) == IF n < j THEN o.tokens ELSE less
           J == [n \in 0..N |-> {q \in Knowledge : At(e, fixed, flags, live, o, n, toks(n), q)}]
<1>1. e \in Code /\ e \in Exprs /\ live \in SUBSET Names /\ o \in Knowledge /\ Ready(o, Fv[e] \cup live, fixed, flags)
  BY CodeExprs DEF Given, Asked, Ready, Sane
<1>2. ss \in Pieces(Items) /\ Len(ss) = N /\ N \in Nat
  <2>1. Tree(Code) /\ Within(Rc, Code)
    <3>1. MaxNesting \in Nat /\ Code = Nested[MaxNesting]
      BY CodeTop
    <3>2. QED
      BY <3>1, LevelsRise, RcType DEF Tree
  <2>2. ss \in Pieces(Items) /\ Len(ss) = N
    BY <1>1, <2>1, SpineType DEF Exprs, Items
  <2>3. N \in Nat
    BY <1>1, ExprParts, SeqAt DEF Exprs
  <2>4. QED
    BY <2>2, <2>3
<1> HIDE DEF ss, N
<1>3. j \in 1..N /\ j \in 1..Len(ss)
  BY <1>2 DEF N
<1>4. tt \in Pieces(Items) /\ Len(tt) = N /\ tt[j] = alt /\ \A m \in 1..N : m # j => tt[m] = ss[m]
  <2> HIDE DEF J, N
  <2>1. /\ tt \in Pieces(Items) /\ Len(tt) = Len(ss) /\ tt[j] = alt
        /\ \A m \in 1..Len(ss) : m # j => tt[m] = ss[m]
    <3>1. ss \in Pieces(Items) /\ j \in 1..Len(ss) /\ alt \in Seq(Items)
      BY <1>2, <1>3
    <3>2. QED
      BY <3>1, PiecesPatched
  <2>2. QED
    BY <1>2, <2>1
<1> HIDE DEF tt
<1>5. o \in J[0]
  <2>1. FvFrom(e, 0 + 1, Fv) = Fv[e]
    BY <1>1, FvType
  <2>2. FlagsAt(e, flags, 0 + 1) = flags
    <3>1. 1..(0 + 1 - 1) = {}
      OBVIOUS
    <3>2. QED
      BY <3>1 DEF FlagsAt
  <2>3. Same(o, o, fixed)
    BY DEF Same
  <2>4. At(e, fixed, flags, live, o, 0, o.tokens, o)
    BY <1>1, <2>1, <2>2, <2>3 DEF At
  <2>5. toks(0) = o.tokens /\ 0 \in 0..N
    BY <1>2, <1>3
  <2> HIDE DEF toks
  <2>6. QED
    BY <1>1, <2>4, <2>5
<1>6. ASSUME NEW n \in 1..N, NEW q \in J[n - 1] PROVE Run(q, tt[n]) \in J[n]
  <2>1. n - 1 \in 0..N /\ n \in 0..N /\ n \in 1..Len(e.is)
    BY <1>2 DEF N
  <2>2. At(e, fixed, flags, live, o, n - 1, toks(n - 1), q)
    BY <1>6, <2>1
  <2>3. At(e, fixed, flags, live, o, n, toks(n), Run(q, tt[n]))
    <3>1. CASE n = j
      <4>1. toks(n - 1) = o.tokens /\ toks(n) = less
        BY <3>1, <1>2
      <4> HIDE DEF toks
      <4>2. QED
        BY <1>4, <2>2, <3>1, <4>1
    <3>2. CASE n # j
      <4>1. toks(n - 1) = toks(n)
        BY <3>2, <1>2, <1>3
      <4> HIDE DEF toks
      <4>2. At(e, fixed, flags, live, o, n, toks(n), Run(q, ss[n]))
        BY <2>1, <2>2, <4>1, PieceRun DEF ss
      <4>3. tt[n] = ss[n]
        BY <1>4, <3>2
      <4>4. QED
        BY <4>2, <4>3
    <3>3. QED
      BY <3>1, <3>2
  <2>4. Run(q, tt[n]) \in Knowledge
    BY <2>3 DEF At
  <2> HIDE DEF toks
  <2>5. QED
    BY <2>1, <2>3, <2>4
<1>7. \A n \in 0..N : J[n] \subseteq Knowledge
  OBVIOUS
<1>8. N \in 0..N /\ toks(N) = less
  BY <1>2, <1>3
<1> HIDE DEF J, toks
<1>9. Run(o, Concat(tt)) \in J[N]
  <2>1. Answers(After, Code) /\ tt \in Pieces(InstrForms(Code)) /\ Len(tt) = N
    BY <1>4, AfterType DEF Items
  <2>2. \A n \in 1..Len(tt) : \A q \in J[n - 1] : Through(q, tt[n], After) \in J[n]
    BY <1>6, <2>1 DEF Run
  <2>3. \A n \in 0..Len(tt) : J[n] \subseteq Knowledge
    BY <1>7, <2>1
  <2>4. Through(o, Concat(tt), After) \in J[Len(tt)]
    BY <1>5, <2>1, <2>2, <2>3, ThroughConcat
  <2>5. QED
    BY <2>1, <2>4 DEF Run
<1>10. At(e, fixed, flags, live, o, N, less, Run(o, Concat(tt)))
  BY <1>8, <1>9 DEF J
<1>11. QED
  BY <1>10 DEF tt, ss, N

LEMMA SpineRuns ==
  ASSUME NEW e, NEW fixed, NEW flags, NEW live, NEW o, Given(e, fixed, flags, live, o)
  PROVE  At(e, fixed, flags, live, o, Len(e.is), o.tokens, Run(o, Concat(Spine(e, live, Rc))))
<1> DEFINE ss == Spine(e, live, Rc)
           N == Len(e.is)
<1>1. e \in Code /\ e \in Exprs /\ live \in SUBSET Names /\ o \in Knowledge /\ Ready(o, Fv[e] \cup live, fixed, flags)
  BY CodeExprs DEF Given, Asked, Ready, Sane
<1>2. ss \in Pieces(Items) /\ Len(ss) = N /\ N \in Nat
  <2>1. Tree(Code) /\ Within(Rc, Code)
    <3>1. MaxNesting \in Nat /\ Code = Nested[MaxNesting]
      BY CodeTop
    <3>2. QED
      BY <3>1, LevelsRise, RcType DEF Tree
  <2>2. ss \in Pieces(Items) /\ Len(ss) = N
    BY <1>1, <2>1, SpineType DEF Exprs, Items
  <2>3. N \in Nat
    BY <1>1, ExprParts, SeqAt DEF Exprs
  <2>4. QED
    BY <2>2, <2>3
<1> HIDE DEF ss
<1>3. CASE N = 0
  <2>1. ss = <<>>
    BY <1>2, <1>3 DEF Pieces
  <2>2. Concat(ss) = <<>>
    BY <2>1, ConcatNone
  <2>3. Run(o, <<>>) = o
    BY <1>1, RunFacts
  <2>4. FvFrom(e, 0 + 1, Fv) = Fv[e]
    BY <1>1, FvType
  <2>5. FlagsAt(e, flags, 0 + 1) = flags
    <3>1. 1..(0 + 1 - 1) = {}
      OBVIOUS
    <3>2. QED
      BY <3>1 DEF FlagsAt
  <2>6. At(e, fixed, flags, live, o, 0, o.tokens, o)
    BY <1>1, <2>4, <2>5 DEF At, Same
  <2>7. QED
    BY <1>3, <2>2, <2>3, <2>6 DEF ss
<1>4. CASE N # 0
  <2>1. 1 \in 1..N /\ 1 \in 1..Len(ss)
    BY <1>2, <1>4
  <2>2. ss[1] \in Seq(Items)
    BY <1>2, <2>1 DEF Pieces
  <2>3. Patched(ss, 1, ss[1]) = ss
    BY <1>2, <2>1 DEF Patched, Pieces
  <2>4. ASSUME NEW q, At(e, fixed, flags, live, o, 1 - 1, o.tokens, q)
        PROVE  At(e, fixed, flags, live, o, 1, o.tokens, Run(q, ss[1]))
    BY <2>1, <2>4, PieceRun DEF ss
  <2>5. At(e, fixed, flags, live, o, N, o.tokens, Run(o, Concat(Patched(ss, 1, ss[1]))))
    BY <2>1, <2>2, <2>4, SpineRun DEF ss
  <2>6. QED
    BY <2>3, <2>5 DEF ss
<1>5. QED
  BY <1>3, <1>4

\* What is returned is duplicated if it must survive, and then consumed.
LEMMA LastRun ==
  ASSUME NEW e, NEW fixed, NEW flags, NEW live, NEW o, Given(e, fixed, flags, live, o),
         NEW toks, NEW q, At(e, fixed, flags, live, o, Len(e.is), toks, q)
  PROVE  LastDups(e, live) \in Seq(Items) /\ Served(o, Consume(Run(q, LastDups(e, live)), e.as), live, toks)
<1> DEFINE as == e.as
           v == as[1]
           r == Consume(Run(q, LastDups(e, live)), as)
<1>1. e \in Code /\ e \in Exprs /\ live \in SUBSET Names /\ live \subseteq fixed /\ o \in Knowledge /\ Ready(o, Fv[e] \cup live, fixed, flags)
  BY CodeExprs DEF Given, Asked, Ready, Sane
<1>2. e.k = "ret" /\ Len(as) = 1
  BY <1>1, FitsType DEF Given, Asked, FitsAt
<1>3. as \in Seq(Names) /\ DOMAIN as = {1} /\ as = <<v>> /\ v \in Names /\ Elems(as) = {v}
  BY <1>1, <1>2, ExprParts, OneFacts DEF Exprs
<1>4. FvFrom(e, Len(e.is) + 1, Fv) = {v}
  BY <1>1, <1>3, FvFromEnd
<1>5. q \in Knowledge /\ Counts(q, Tag(Elems(as) \cup live)) /\ Same(o, q, fixed) /\ q.tokens = toks
  BY <1>3, <1>4 DEF At, Ready
<1> HIDE DEF v, as
<1>6. LastDups(e, live) = OperandDups(as, live)
  <2>1. CASE v \in live
    <3>1. Elems(as) \cap live = {v} /\ Extra(as, live) = {1}
      BY <1>3, <2>1 DEF Extra, v
    <3>2. Cardinality({v}) = 1 /\ Cardinality({1}) = 1 /\ IsFiniteSet({v}) /\ IsFiniteSet({1})
      BY FS_Singleton
    <3>3. Listed({v})[1] = v /\ Listed({1})[1] = 1
      <4>1. Listed({v}) \in [1..1 -> {v}] /\ Listed({1}) \in [1..1 -> {1}]
        BY <3>2, ListedFacts
      <4>2. QED
        BY <4>1
    <3>4. Dups({v}) = [i \in 1..1 |-> DupOf(v)]
      <4>1. Dups({v}) = [i \in 1..1 |-> DupOf(Listed({v})[i])]
        BY <3>2 DEF Dups
      <4>2. \A i \in 1..1 : Listed({v})[i] = v
        BY <3>3
      <4>3. QED
        BY <4>1, <4>2
    <3>5. OperandDups(as, live) = [i \in 1..1 |-> DupOf(v)]
      <4>1. OperandDups(as, live) = [i \in 1..1 |-> DupOf(as[Listed({1})[i]])]
        BY <3>1, <3>2 DEF OperandDups
      <4>2. \A i \in 1..1 : as[Listed({1})[i]] = v
        <5>1. \A i \in 1..1 : Listed({1})[i] = 1
          BY <3>3
        <5>2. as[1] = v
          BY DEF v
        <5> HIDE DEF as
        <5>3. QED
          BY <5>1, <5>2
      <4>3. QED
        BY <4>1, <4>2
    <3>6. QED
      BY <1>2, <3>1, <3>4, <3>5 DEF LastDups, as
  <2>2. CASE v \notin live
    <3>1. Elems(as) \cap live = {} /\ Extra(as, live) = {}
      <4>1. as[1] \notin live
        BY <2>2 DEF v
      <4>2. ~\E i \in {1} : \E j \in {1} : j > i
        OBVIOUS
      <4>3. Extra(as, live) = {}
        BY <1>3, <4>1, <4>2 DEF Extra
      <4>4. QED
        BY <1>3, <2>2, <4>3
    <3>2. Cardinality({}) = 0
      BY FS_EmptySet
    <3>3. Dups({}) = OperandDups(as, live)
      <4>1. Dups({}) = <<>>
        BY <3>2 DEF Dups
      <4>2. OperandDups(as, live) = <<>>
        <5>1. OperandDups(as, live) = [i \in 1..0 |-> DupOf(as[Listed({})[i]])]
          BY <3>1, <3>2 DEF OperandDups
        <5>2. 1..0 = {}
          OBVIOUS
        <5>3. QED
          BY <5>1, <5>2
      <4>3. QED
        BY <4>1, <4>2
    <3>4. QED
      BY <1>2, <3>1, <3>3 DEF LastDups, as
  <2>3. QED
    BY <2>1, <2>2
<1>7. OperandDups(as, live) \in Seq(Items)
  BY <1>3, OperandDupsType DEF Items
<1>8. Done(q, Consume(Run(q, OperandDups(as, live)), as), live, q.tokens)
  BY <1>1, <1>3, <1>5, OperandsRun
<1> HIDE DEF r
<1>9. Done(q, r, live, toks)
  BY <1>5, <1>6, <1>8 DEF r
<1>10. Owed(r, Tag(live)) = Owed(o, Tag(live))
  <2>1. \A h \in Tag(live) : /\ r.root[h[1]] = o.root[h[1]]
                             /\ r.root[h[1]] \in r.unboxed <=> o.root[h[1]] \in o.unboxed
    <3> SUFFICES ASSUME NEW w \in live
                 PROVE  /\ r.root[w] = o.root[w]
                        /\ r.root[w] \in r.unboxed <=> o.root[w] \in o.unboxed
      BY DEF Tag
    <3>1. r.root = q.root /\ r.unboxed = q.unboxed
      BY <1>9 DEF Done
    <3>2. w \in fixed /\ o.root[w] \in {w} \cup fixed
      BY <1>1 DEF Ready, Sane
    <3>3. QED
      BY <1>5, <3>1, <3>2 DEF Same
  <2>2. Holders(Tag(live)) /\ r \in Knowledge
    BY <1>1, <1>9, TagHolders DEF Done
  <2>3. QED
    BY <1>1, <2>1, <2>2, OwedSame
<1>11. r.own = Owed(r, Tag(live)) /\ r \in Knowledge /\ r.tokens = toks /\ r.faults = o.faults
  BY <1>5, <1>9 DEF Done, Counts, Same
<1>12. Served(o, r, live, toks)
  BY <1>10, <1>11 DEF Served
<1>13. QED
  BY <1>6, <1>7, <1>12 DEF r, as

LEMMA ReusedCode ==
  ASSUME NEW e \in Code, NEW k \in 1..Len(e.is), CtorAt(e.is, k), NEW t \in Names
  PROVE  With(e, Reused(e.is, k, t)) \in Code
<1>1. PICK parts : Code = ExprForms(parts)
  <2>1. MaxNesting \in Nat /\ Code = Nested[MaxNesting]
    BY CodeTop
  <2>2. QED
    BY <2>1, LevelsRise
<1>2. e \in ExprForms(parts)
  BY <1>1
<1>3. Reused(e.is, k, t) \in Seq(InstrForms(parts))
  BY <1>2, ExprParts, ReusedType
<1>4. With(e, Reused(e.is, k, t)) \in ExprForms(parts)
  BY <1>2, <1>3, WithType
<1>5. QED
  BY <1>1, <1>4

LEMMA RightServes ==
  ASSUME NEW e, NEW fixed, NEW flags, NEW live, NEW o, Given(e, fixed, flags, live, o),
         NEW s \in Seq(Items), NEW toks, At(e, fixed, flags, live, o, Len(e.is), toks, Run(o, s)),
         NEW c \in Code, c = With(e, s \o LastDups(e, live))
  PROVE  Served(o, After[<<o, c>>], live, toks)
<1> DEFINE d == LastDups(e, live)
<1>1. o \in Knowledge
  BY DEF Given, Asked, Ready, Sane
<1>2. d \in Seq(Items) /\ Served(o, Consume(Run(Run(o, s), d), e.as), live, toks)
  BY LastRun
<1>3. c.is = s \o d /\ c.as = e.as
  BY DEF With
<1> HIDE DEF d
<1>4. Run(o, s \o d) = Run(Run(o, s), d)
  BY <1>1, <1>2, RunFacts
<1>5. After[<<o, c>>] = Consume(Run(o, c.is), c.as)
  BY <1>1, AfterRun
<1>6. QED
  BY <1>2, <1>3, <1>4, <1>5

LEMMA RightTakes ==
  ASSUME NEW e, NEW fixed, NEW flags, NEW live, NEW o, Given(e, fixed, flags, live, o),
         NEW k \in 1..Len(Rc[<<e, live>>].is), NEW t \in Names
  PROVE  TakesAt(o, Rc[<<e, live>>], live, k, t)
<1> DEFINE r == Rc[<<e, live>>]
           ss == Spine(e, live, Rc)
           d == LastDups(e, live)
           token == <<t, Len(r.is[k].b.as)>>
           less == o.tokens \ {token}
           y == LetIn(r.is[k].x, BReuse(t, r.is[k].b.n, r.is[k].b.as))
<1> SUFFICES ASSUME CtorAt(r.is, k), token \in o.tokens
             PROVE  Served(o, After[<<o, With(r, Reused(r.is, k, t))>>], live, less)
  BY DEF TakesAt
<1>0. k \in 1..Len(r.is) /\ CtorAt(r.is, k)
  OBVIOUS
<1>1. e \in Code /\ e \in Exprs /\ live \in SUBSET Names /\ e.k = "ret"
  BY CodeExprs, FitsType DEF Given, Asked, FitsAt
<1>2. r \in Code /\ r = With(e, Concat(ss) \o d) /\ ss \in Pieces(Items) /\ Concat(ss) \in Seq(Items) /\ d \in Seq(Items)
      /\ Len(ss) = Len(e.is)
  <2>1. Tree(Code) /\ Within(Rc, Code)
    <3>1. MaxNesting \in Nat /\ Code = Nested[MaxNesting]
      BY CodeTop
    <3>2. QED
      BY <3>1, LevelsRise, RcType DEF Tree
  <2>2. r = RcAt(e, live, Rc)
    BY <1>1, RcType
  <2>3. r \in Code
    BY <1>1, <2>1 DEF Within
  <2> HIDE DEF r, ss
  <2>4. RcAt(e, live, Rc) = With(e, Concat(ss) \o d) /\ Concat(ss) \in Seq(Items) /\ d \in Seq(Items)
    BY <1>1, <2>1, RcAtType DEF Exprs, Items, ss
  <2>5. ss \in Pieces(Items) /\ Len(ss) = Len(e.is)
    BY <1>1, <2>1, SpineType DEF Exprs, Items, ss
  <2>6. QED
    BY <2>2, <2>3, <2>4, <2>5
<1> HIDE DEF r, ss
<1>3. r.is = Concat(ss) \o d /\ r.k = e.k /\ r.as = e.as
  BY <1>2 DEF With
<1>4. d = Dups(Elems(e.as) \cap live)
  BY <1>1 DEF LastDups
<1> HIDE DEF d
<1>5. ASSUME NEW n \in 1..Len(d), AtRight(Items, Concat(ss), d, k, n) PROVE FALSE
  <2>1. d[n].k = "let"
    BY <1>3, <1>5 DEF AtRight, CtorAt
  <2>2. n \in DOMAIN d
    BY <1>2, SeqAt
  <2>3. \E w : d[n] = DupOf(w)
    BY <1>4, <2>2 DEF Dups
  <2>4. QED
    BY <2>1, <2>3 DEF DupOf
<1>6. AtLeft(Items, Concat(ss), d, k)
  <2>1. k \in 1..Len(Concat(ss) \o d)
    BY <1>0, <1>3
  <2>2. QED
    BY <2>1, <1>2, <1>5, BothAt
<1>7. k \in 1..Len(Concat(ss)) /\ r.is[k] = Concat(ss)[k]
  BY <1>3, <1>6 DEF AtLeft
<1>8. PICK j \in 1..Len(ss) : \E l \in 1..Len(ss[j]) : FromPiece(Items, ss, k, j, l)
  <2>1. k \in 1..Len(Concat(ss)) /\ ss \in Pieces(Items)
    BY <1>2, <1>7
  <2> HIDE DEF token, less
  <2>2. QED
    BY <2>1, ConcatIndex
<1>9. PICK l \in 1..Len(ss[j]) : FromPiece(Items, ss, k, j, l)
  BY <1>8
<1>10. /\ Concat(ss)[k] = ss[j][l]
      /\ \A u \in Items : Patched(Concat(ss), k, u) = Concat(Patched(ss, j, Patched(ss[j], l, u)))
  BY <1>9 DEF FromPiece
<1>11. ss[j][l] = r.is[k] /\ CtorAt(ss[j], l) /\ j \in 1..Len(e.is)
  BY <1>2, <1>7, <1>10 DEF CtorAt
<1> DEFINE alt == Reused(ss[j], l, t)
<1>12. alt \in Seq(Items) /\ y \in Items /\ alt = Patched(ss[j], l, y)
  <2>1. ss[j] \in Seq(Items)
    BY <1>2, SeqAt DEF Pieces
  <2>2. alt \in Seq(Items) /\ LetIn(ss[j][l].x, BReuse(t, ss[j][l].b.n, ss[j][l].b.as)) \in Items
    BY <1>11, <2>1, ReusedType DEF Items
  <2>3. alt = Patched(ss[j], l, y)
    BY <1>11 DEF Reused
  <2>4. QED
    BY <1>11, <2>2, <2>3
<1>13. Reused(r.is, k, t) = Concat(Patched(ss, j, alt)) \o d
  <2>1. Reused(r.is, k, t) = Patched(Concat(ss) \o d, k, y)
    BY <1>3 DEF Reused
  <2> HIDE DEF y, alt
  <2>2. Patched(Concat(ss) \o d, k, y) = Patched(Concat(ss), k, y) \o d
    BY <1>6, <1>12 DEF AtLeft
  <2>3. Patched(Concat(ss), k, y) = Concat(Patched(ss, j, alt))
    BY <1>10, <1>12
  <2>4. QED
    BY <2>1, <2>2, <2>3
<1> HIDE DEF y
<1>14. \A q : At(e, fixed, flags, live, o, j - 1, o.tokens, q)
                 => At(e, fixed, flags, live, o, j, less, Run(q, alt))
  <2> SUFFICES ASSUME NEW q, At(e, fixed, flags, live, o, j - 1, o.tokens, q)
               PROVE  At(e, fixed, flags, live, o, j, less, Run(q, alt))
    OBVIOUS
  <2>1. token = <<t, Len(ss[j][l].b.as)>>
    BY <1>11
  <2>2. At(e, fixed, flags, live, o, j, o.tokens \ {<<t, Len(ss[j][l].b.as)>>}, Run(q, alt))
    BY <1>11, <2>1, PieceReuse DEF ss
  <2>3. QED
    BY <2>1, <2>2
<1> HIDE DEF alt, less
<1>15. At(e, fixed, flags, live, o, Len(e.is), less, Run(o, Concat(Patched(ss, j, alt))))
  BY <1>11, <1>12, <1>14, SpineRun DEF ss
<1> DEFINE s == Concat(Patched(ss, j, alt))
<1>16. s \in Seq(Items)
  <2>1. Patched(ss, j, alt) \in Pieces(Items)
    BY <1>2, <1>12, PiecesPatched
  <2>2. QED
    BY <2>1, ConcatType DEF Pieces
<1>17. With(r, Reused(r.is, k, t)) = With(e, s \o d)
  BY <1>3, <1>13 DEF With
<1>18. With(r, Reused(r.is, k, t)) \in Code
  BY <1>0, <1>2, ReusedCode
<1> HIDE DEF s
<1>19. Served(o, After[<<o, With(r, Reused(r.is, k, t))>>], live, less)
  BY <1>15, <1>16, <1>17, <1>18, RightServes DEF s, d
<1>20. QED
  BY <1>19

\* The pass keeps its promise of every expression.
LEMMA AllRight == \A e \in Code : Right(e)
<1> DEFINE S == {e \in Code : Right(e)}
<1>1. ASSUME NEW e \in Code, Inner(e) \subseteq S PROVE e \in S
  <2> SUFFICES ASSUME NEW o, NEW fixed, NEW flags, NEW live, Asked(o, e, fixed, flags, live)
               PROVE  Serves(o, Rc[<<e, live>>], live) /\ Takes(o, Rc[<<e, live>>], live)
    BY DEF Right
  <2>1. Given(e, fixed, flags, live, o)
    BY <1>1 DEF Given
  <2>2. Serves(o, Rc[<<e, live>>], live)
    <3> DEFINE ss == Spine(e, live, Rc)
               d == LastDups(e, live)
               r == Rc[<<e, live>>]
    <3>1. e \in Exprs /\ live \in SUBSET Names
      BY CodeExprs DEF Asked
    <3>2. Tree(Code) /\ Within(Rc, Code)
      <4>1. MaxNesting \in Nat /\ Code = Nested[MaxNesting]
        BY CodeTop
      <4>2. QED
        BY <4>1, LevelsRise, RcType DEF Tree
    <3>3. r = RcAt(e, live, Rc) /\ r \in Code
      BY <3>1, <3>2, RcType DEF Within
    <3>4. RcAt(e, live, Rc) = With(e, Concat(ss) \o d) /\ Concat(ss) \in Seq(Items)
      BY <3>1, <3>2, RcAtType DEF Exprs, Items
    <3>5. At(e, fixed, flags, live, o, Len(e.is), o.tokens, Run(o, Concat(ss)))
      BY <2>1, SpineRuns
    <3> HIDE DEF ss, r
    <3>6. Served(o, After[<<o, r>>], live, o.tokens)
      BY <2>1, <3>3, <3>4, <3>5, RightServes
    <3>7. QED
      BY <3>6 DEF Serves, r
  <2>3. Takes(o, Rc[<<e, live>>], live)
    BY <2>1, RightTakes DEF Takes
  <2>4. QED
    BY <2>2, <2>3
<1> HIDE DEF S
<1>2. Code \subseteq S
  BY <1>1, CodeInduction
<1>3. QED
  BY <1>2 DEF S

-----------------------------------------------------------------------------
(* The pass                                                                *)

LEMMA EntryReady ==
  ASSUME NEW P \in SUBSET Names
  PROVE  Entry(P) \in Knowledge /\ Ready(Entry(P), P, {}, {})
<1> DEFINE o == Entry(P)
<1>1. o \in Knowledge
  BY DEF Entry, Knowledge
<1>2. /\ o.own = [v \in Names |-> IF v \in P THEN 1 ELSE 0] /\ \A v \in Names : o.root[v] = v
      /\ o.tokens = {} /\ o.unboxed = {} /\ o.scope = P
  BY DEF Entry
<1> HIDE DEF o
<1>3. Sane(o, P, {}, {})
  BY <1>1, <1>2 DEF Sane
<1>4. Holders(Tag(P))
  BY TagHolders
<1>5. ASSUME NEW v \in Names PROVE o.own[v] = Cardinality(Of(o, Tag(P), v))
  <2>1. CASE v \in P
    <3>1. Of(o, Tag(P), v) = {<<v, 0>>}
      BY <1>2, <2>1 DEF Of, Tag
    <3>2. QED
      BY <1>2, <2>1, <3>1, FS_Singleton
  <2>2. CASE v \notin P
    <3>1. Of(o, Tag(P), v) = {}
      BY <1>2, <2>2 DEF Of, Tag
    <3>2. QED
      BY <1>2, <2>2, <3>1, FS_EmptySet
  <2>3. QED
    BY <2>1, <2>2
<1>6. o.own = Owed(o, Tag(P))
  <2>1. Owed(o, Tag(P)) = [v \in Names |-> Cardinality(Of(o, Tag(P), v))]
    BY <1>2 DEF Owed
  <2>2. o.own \in [Names -> Int]
    BY <1>1 DEF Knowledge
  <2>3. \A v \in Names : o.own[v] = Owed(o, Tag(P))[v]
    BY <1>5, <2>1
  <2>4. DOMAIN Owed(o, Tag(P)) = Names /\ Owed(o, Tag(P)) = [v \in Names |-> Owed(o, Tag(P))[v]]
    BY <2>1
  <2>5. QED
    BY <2>2, <2>3, <2>4
<1>7. QED
  BY <1>1, <1>3, <1>4, <1>6 DEF Ready, Counts, o

\* A function whose code is from Code.
Fns == [ps : Seq(Names), caps : Seq(Names), e : Code]
EntryOf(fn) == Entry(Elems(fn.ps) \cup Elems(fn.caps))
\* No reference is left, no token, and nothing was wrong.
Empty(r) == r.faults = {} /\ r.tokens = {} /\ \A v \in Names : r.own[v] = 0

\* The pass makes every well-formed function balanced.
LEMMA InsertRcBalanced ==
  ASSUME NEW fn, WellFormed(fn)
  PROVE  LET D == (Elems(fn.ps) \cup Elems(fn.caps)) \ Fv[fn.e]
             c == WithDrops(D, Rc[<<fn.e, {}>>])
         IN  c \in Code /\ Empty(After[<<EntryOf(fn), c>>])
<1> DEFINE P == Elems(fn.ps) \cup Elems(fn.caps)
           e == fn.e
           D == P \ Fv[e]
           c == Rc[<<e, {}>>]
           o == Entry(P)
           p == Run(o, Drops(D))
<1>1. e \in Code /\ Fv[e] \subseteq P /\ Fits[<<e, {}, {}>>] /\ fn.ps \in Seq(Names) /\ fn.caps \in Seq(Names)
  BY DEF WellFormed
<1>2. P \in SUBSET Names
  BY <1>1, ElemsType
<1> HIDE DEF P, e
<1>3. o \in Knowledge /\ Ready(o, P, {}, {})
  BY <1>2, EntryReady
<1>4. o.tokens = {} /\ o.faults = {} /\ o.unboxed = {}
  BY DEF Entry
<1> HIDE DEF o
<1>5. p \in Knowledge /\ Quiet(o, p) /\ Ready(p, P \ D, {}, {})
  <2>1. D \subseteq P
    OBVIOUS
  <2> HIDE DEF D
  <2>2. QED
    BY <2>1, <1>3, DropsThen
<1>6. P \ D = Fv[e] \cup {}
  BY <1>1
<1>7. D \in SUBSET Names
  BY <1>2
<1> HIDE DEF D, p
<1>8. Serves(p, c, {})
  <2>1. Asked(p, e, {}, {}, {})
    BY <1>1, <1>5, <1>6 DEF Asked
  <2>2. QED
    BY <1>1, <2>1, AllRight DEF Right
<1>9. c \in Code
  BY <1>1, RcType DEF Within
<1> HIDE DEF c
<1>10. Plain(Drops(D)) /\ Before(Drops(D), c) \in Code
  BY <1>7, <1>9, PlainOnes, CodeClosed
<1>11. Serves(o, Before(Drops(D), c), {})
  BY <1>3, <1>5, <1>8, <1>9, <1>10, ServesBefore DEF p
<1> DEFINE r == After[<<o, Before(Drops(D), c)>>]
<1>12. r.own = Owed(o, Tag({})) /\ r.tokens = {} /\ r.faults = {}
  BY <1>4, <1>11 DEF Serves, Served
<1> HIDE DEF r
<1>13. ASSUME NEW v \in Names PROVE r.own[v] = 0
  <2>1. Of(o, Tag({}), v) = {}
    BY DEF Of, Tag
  <2>2. Cardinality(Of(o, Tag({}), v)) = 0
    BY <2>1, FS_EmptySet
  <2>3. QED
    BY <1>12, <2>2 DEF Owed
<1>14. Empty(r) /\ Before(Drops(D), c) \in Code
  BY <1>10, <1>12, <1>13 DEF Empty
<1>15. QED
  BY <1>14 DEF r, o, EntryOf, c, D, P, e, WithDrops

-----------------------------------------------------------------------------
(* Without a fault nothing is owed                                         *)

Paid(o) == \A v \in Names : o.own[v] >= 0
\* r comes after o: if nothing is wrong then, nothing was.
Kept(o, r) == r.faults = {} => o.faults = {} /\ (Paid(o) => Paid(r))

LEMMA KeptOn ==
  /\ \A o : Kept(o, o)
  /\ \A o, p, q : Kept(o, p) /\ Kept(p, q) => Kept(o, q)
BY DEF Kept

LEMMA KeptOwn ==
  ASSUME NEW o \in Knowledge
  PROVE  /\ \A as \in Seq(Names) : Kept(o, Consume(o, as))
         /\ \A v \in Names : Kept(o, Gain(o, v))
         /\ \A x \in Names : \A boxed \in BOOLEAN : Kept(o, Bound(o, x, boxed))
         /\ \A v \in Names : \A arm : arm.bs \in Seq(Names) => Kept(o, EnterArm(o, v, arm))
<1>0. \A v \in Names : o.own[v] \in Int /\ o.root[v] \in Names
  BY DEF Knowledge
<1>1. ASSUME NEW as \in Seq(Names) PROVE Kept(o, Consume(o, as))
  <2> DEFINE p == Consume(o, as)
             C(r) == Cardinality(Uses(o, as, r))
  <2>1. ASSUME NEW r \in Names PROVE C(r) \in Nat
    BY UsesType
  <2>2. /\ \A r \in Names : p.own[r] = o.own[r] - C(r)
        /\ p.faults = o.faults \cup {r \in Names : o.own[r] < C(r)}
    BY ConsumeFacts
  <2> HIDE DEF p, C
  <2>3. ASSUME p.faults = {} PROVE o.faults = {} /\ \A r \in Names : p.own[r] >= 0
    <3>1. o.faults = {} /\ {r \in Names : o.own[r] < C(r)} = {}
      BY <2>2, <2>3
    <3>2. \A r \in Names : ~(o.own[r] < C(r))
      BY <3>1
    <3>3. QED
      BY <1>0, <2>1, <2>2, <3>1, <3>2
  <2>4. QED
    BY <2>3 DEF Kept, Paid, p
<1>2. ASSUME NEW v \in Names PROVE Kept(o, Gain(o, v))
  <2> DEFINE p == Gain(o, v)
  <2>1. CASE o.root[v] \in o.unboxed
    BY <2>1, GainFacts, KeptOn
  <2>2. CASE o.root[v] \notin o.unboxed
    <3>1. p.own = [o.own EXCEPT ![o.root[v]] = @ + 1] /\ o.faults \subseteq p.faults
      BY <2>2, GainFacts
    <3> HIDE DEF p
    <3>2. \A r \in Names : p.own[r] = IF r = o.root[v] THEN o.own[r] + 1 ELSE o.own[r]
      BY <3>1 DEF Knowledge
    <3>3. QED
      BY <1>0, <3>1, <3>2 DEF Kept, Paid, p
  <2>3. QED
    BY <2>1, <2>2
<1>3. ASSUME NEW x \in Names, NEW boxed \in BOOLEAN PROVE Kept(o, Bound(o, x, boxed))
  <2> DEFINE p == Bound(o, x, boxed)
  <2>1. BoundTo(o, x, boxed, p)
    BY BoundFacts, Zenon
  <2> HIDE DEF p
  <2>2. \A r \in Names : p.own[r] >= 0 \/ p.own[r] = o.own[r]
    BY <2>1 DEF BoundTo, Knowledge
  <2>3. o.faults \subseteq p.faults
    BY <2>1 DEF BoundTo
  <2>4. QED
    BY <2>2, <2>3 DEF Kept, Paid, p
<1>4. ASSUME NEW v \in Names, NEW arm, arm.bs \in Seq(Names) PROVE Kept(o, EnterArm(o, v, arm))
  <2> DEFINE p == EnterArm(o, v, arm)
  <2>1. /\ \A x \in Names : p.own[x] = IF x \in Elems(arm.bs) THEN 0 ELSE o.own[x]
        /\ o.faults \subseteq p.faults
    BY <1>4, EnterArmFacts
  <2> HIDE DEF p
  <2>2. QED
    BY <2>1 DEF Kept, Paid, p
<1>5. QED
  BY <1>1, <1>2, <1>3, <1>4

\* What differs in its tokens, and in more faults.
LEMMA KeptMarked ==
  ASSUME NEW o, NEW q \in Knowledge, Kept(o, q), NEW toks, NEW v \in Names, NEW wrong
  PROVE  Kept(o, Fault([q EXCEPT !.tokens = toks], v, wrong)) /\ Kept(o, Fault(q, v, wrong))
<1>1. ASSUME NEW p \in {q, [q EXCEPT !.tokens = toks]}
      PROVE  Kept(o, Fault(p, v, wrong))
  <2>1. p.own = q.own /\ p.faults = q.faults
    BY DEF Knowledge
  <2>2. Fault(p, v, wrong).own = p.own /\ p.faults \subseteq Fault(p, v, wrong).faults
    BY DEF Fault, Knowledge
  <2>3. QED
    BY <2>1, <2>2 DEF Kept, Paid
<1>2. QED
  BY <1>1

LEMMA KeptJoin ==
  ASSUME NEW o \in Knowledge, NEW v \in Names, NEW results \in SUBSET Knowledge, results # {},
         \A p \in results : Kept(o, p)
  PROVE  Kept(o, Join(o, v, results))
<1> DEFINE j == Join(o, v, results)
<1>0. /\ \E q \in results : j.own = q.own /\ j.tokens = q.tokens
      /\ j.faults = IF Alike(results) /\ Settled(o, results)
                    THEN FaultsOf(o, results) ELSE FaultsOf(o, results) \cup {v}
  BY JoinFacts, ZenonT(40)
<1>1. PICK q \in results : j.own = q.own /\ FaultsOf(o, results) \subseteq j.faults
  <2> HIDE DEF j
  <2>1. QED
    BY <1>0
<1> HIDE DEF j
<1>2. q.faults \subseteq j.faults /\ o.faults \subseteq j.faults
  BY <1>1 DEF FaultsOf
<1>3. Kept(o, j)
  BY <1>1, <1>2 DEF Kept, Paid
<1>4. QED
  BY <1>3 DEF j

Keeps(parts) == \A o \in Knowledge, c \in parts : Kept(o, After[<<o, c>>])

LEMMA KeptBind ==
  ASSUME NEW parts, parts \subseteq Code, Keeps(parts), NEW o \in Knowledge, NEW b \in BindForms(parts)
  PROVE  Kept(o, AfterBind(o, b, After))
<1>0. Answers(After, parts)
  BY AfterType DEF Answers
<1>1. CASE b.op = "if"
  <2> DEFINE rs == IfResults(o, b, After)
  <2>1. b.v \in Names /\ AfterBind(o, b, After) = Join(o, b.v, rs) /\ b.th \in parts /\ b.el \in parts
    BY <1>1, BindParts DEF AfterBind, IfResults, SimpleOps
  <2>2. rs \in SUBSET Knowledge /\ rs # {}
    BY <1>0, <1>1, ResultsType
  <2>3. \A p \in rs : Kept(o, p)
    BY <2>1 DEF Keeps, IfResults
  <2> HIDE DEF rs
  <2>4. Kept(o, Join(o, b.v, rs))
    BY <2>1, <2>2, <2>3, KeptJoin
  <2>5. QED
    BY <2>1, <2>4
<1>2. CASE b.op = "match"
  <2> DEFINE rs == MatchResults(o, b, After)
             q == IF b.arms = <<>> THEN o ELSE Join(o, b.v, rs)
             w == o.own[o.root[b.v]] <= 0
  <2>1. b.v \in Names /\ b.arms \in Seq(ArmForms(parts))
    BY <1>2, BindParts DEF SimpleOps
  <2>2. AfterBind(o, b, After) = Fault(q, b.v, w)
    BY <1>2 DEF AfterBind, MatchResults
  <2>3. /\ rs \in SUBSET Knowledge /\ (b.arms # <<>> => rs # {})
        /\ \A i \in DOMAIN b.arms : EnterArm(o, b.v, b.arms[i]) \in Knowledge /\ b.arms[i].e \in parts
    BY <1>0, <1>2, ResultsType
  <2>4. ASSUME NEW i \in DOMAIN b.arms
        PROVE  Kept(o, After[<<EnterArm(o, b.v, b.arms[i]), b.arms[i].e>>])
    <3> DEFINE p == EnterArm(o, b.v, b.arms[i])
    <3>1. b.arms[i].bs \in Seq(Names)
      BY <2>1, SeqAt, ArmParts
    <3>2. Kept(o, p) /\ p \in Knowledge
      BY <2>1, <2>3, <3>1, KeptOwn
    <3> HIDE DEF p
    <3>3. Kept(p, After[<<p, b.arms[i].e>>])
      BY <2>3, <3>2 DEF Keeps
    <3>4. QED
      BY <3>2, <3>3, KeptOn DEF p
  <2>5. \A p \in rs : Kept(o, p)
    BY <2>4 DEF MatchResults
  <2> HIDE DEF rs, w
  <2>6. b.arms # <<>> => Kept(o, Join(o, b.v, rs)) /\ Join(o, b.v, rs) \in Knowledge
    BY <2>1, <2>3, <2>5, KeptJoin, JoinFacts
  <2>7. Kept(o, q) /\ q \in Knowledge
    BY <2>6, KeptOn
  <2> HIDE DEF q
  <2>8. Kept(o, Fault(q, b.v, w))
    BY <2>1, <2>7, KeptMarked
  <2>9. QED
    BY <2>2, <2>8
<1>3. CASE b.op = "ctorreuse"
  <2> DEFINE q == Consume(o, b.as)
             toks == q.tokens \ {<<b.t, Len(b.as)>>}
             w == <<b.t, Len(b.as)>> \notin o.tokens
  <2>1. b.t \in Names /\ b.as \in Seq(Names)
    BY <1>3, BindParts DEF SimpleOps
  <2>2. AfterBind(o, b, After) = Fault([q EXCEPT !.tokens = toks], b.t, w)
    BY <1>3 DEF AfterBind
  <2>3. q \in Knowledge /\ Kept(o, q)
    BY <2>1, ConsumeFacts, KeptOwn
  <2> HIDE DEF q, toks, w
  <2>4. Kept(o, Fault([q EXCEPT !.tokens = toks], b.t, w))
    BY <2>1, <2>3, KeptMarked
  <2>5. QED
    BY <2>2, <2>4
<1>4. CASE b.op \in SimpleOps
  <2>1. b.as \in Seq(Names) /\ AfterBind(o, b, After) = Consume(o, b.as)
    BY <1>4, BindParts DEF AfterBind, SimpleOps
  <2>2. QED
    BY <2>1, KeptOwn
<1>5. QED
  BY <1>1, <1>2, <1>3, <1>4, BindParts

LEMMA KeptStep ==
  ASSUME NEW parts, parts \subseteq Code, Keeps(parts), NEW o \in Knowledge, NEW i \in InstrForms(parts)
  PROVE  Kept(o, Step(o, i, After))
<1>1. CASE i.k = "let"
  <2> DEFINE p == AfterBind(o, i.b, After)
             boxed == i.b.op # "equal"
  <2>1. i.x \in Names /\ i.b \in BindForms(parts)
    BY <1>1, InstrParts
  <2>2. Step(o, i, After) = Bound(p, i.x, boxed)
    BY <1>1 DEF Step
  <2>3. p \in Knowledge /\ Kept(o, p)
    <3>1. Answers(After, parts)
      BY AfterType DEF Answers
    <3>2. QED
      BY <2>1, <3>1, AfterBindType, KeptBind
  <2>4. boxed \in BOOLEAN
    OBVIOUS
  <2> HIDE DEF p, boxed
  <2>5. Kept(p, Bound(p, i.x, boxed))
    BY <2>1, <2>3, <2>4, KeptOwn
  <2>6. QED
    BY <2>2, <2>3, <2>5, KeptOn
<1>2. CASE i.k = "dup"
  BY <1>2, InstrParts, KeptOwn DEF Step
<1>3. CASE i.k = "drop"
  <2>1. <<i.v>> \in Seq(Names)
    BY <1>3, InstrParts
  <2>2. QED
    BY <1>3, <2>1, KeptOwn DEF Step
<1>4. CASE i.k = "dropreuse"
  <2> DEFINE q == Consume(o, <<i.v>>)
             toks == q.tokens \cup {<<i.v, o.size[o.root[i.v]]>>}
             w == \E t \in o.tokens : t[1] = i.v
  <2>1. i.v \in Names /\ <<i.v>> \in Seq(Names)
    BY <1>4, InstrParts
  <2>2. Step(o, i, After) = Fault([q EXCEPT !.tokens = toks], i.v, w)
    BY <1>4 DEF Step
  <2>3. q \in Knowledge /\ Kept(o, q)
    BY <2>1, ConsumeFacts, KeptOwn
  <2> HIDE DEF q, toks, w
  <2>4. Kept(o, Fault([q EXCEPT !.tokens = toks], i.v, w))
    BY <2>1, <2>3, KeptMarked
  <2>5. QED
    BY <2>2, <2>4
<1>5. QED
  BY <1>1, <1>2, <1>3, <1>4, InstrParts

LEMMA KeptRun ==
  ASSUME NEW parts, parts \subseteq Code, Keeps(parts), NEW o \in Knowledge, NEW is \in Seq(InstrForms(parts))
  PROVE  is \in Seq(Items) /\ Run(o, is) \in Knowledge /\ Kept(o, Run(o, is))
<1>1. InstrForms(parts) \subseteq Items
  BY FormsMono DEF Items
<1>2. is \in Seq(Items) /\ Len(is) \in Nat
  BY <1>1, SeqMono
<1> DEFINE J == [n \in 0..Len(is) |-> {q \in Knowledge : Kept(o, q)}]
<1>3. \A n \in 0..Len(is) : J[n] = {q \in Knowledge : Kept(o, q)}
  OBVIOUS
<1> HIDE DEF J
<1>4. ASSUME NEW n \in 1..Len(is), NEW q \in J[n - 1] PROVE Step(q, is[n], After) \in J[n]
  <2>1. n - 1 \in 0..Len(is) /\ n \in 0..Len(is)
    BY <1>2
  <2>2. q \in Knowledge /\ Kept(o, q)
    BY <1>3, <2>1
  <2>3. is[n] \in InstrForms(parts)
    BY SeqAt
  <2>4. Kept(q, Step(q, is[n], After))
    BY <2>2, <2>3, KeptStep
  <2>5. Step(q, is[n], After) \in Knowledge
    BY <1>1, <2>2, <2>3, RunFacts
  <2>6. Kept(o, Step(q, is[n], After))
    BY <2>2, <2>4, KeptOn
  <2>7. QED
    BY <1>3, <2>1, <2>5, <2>6
<1>5. 0 \in 0..Len(is) /\ Len(is) \in 0..Len(is)
  BY <1>2
<1>6. o \in J[0]
  BY <1>3, <1>5, KeptOn
<1>7. \A n \in 0..Len(is) : J[n] \subseteq Knowledge
  BY <1>3
<1>8. Run(o, is) \in J[Len(is)]
  BY <1>2, <1>4, <1>6, <1>7, RunSteps
<1>9. QED
  BY <1>2, <1>3, <1>5, <1>8

LEMMA AfterKept == Keeps(Code)
<1> DEFINE S == {e \in Code : \A o \in Knowledge : Kept(o, After[<<o, e>>])}
<1>1. ASSUME NEW e \in Code, Inner(e) \subseteq S PROVE e \in S
  <2>1. ASSUME NEW o \in Knowledge PROVE Kept(o, After[<<o, e>>])
    <3> DEFINE p == Run(o, e.is)
    <3>1. Inner(e) \subseteq Code /\ Keeps(Inner(e)) /\ e.is \in Seq(InstrForms(Inner(e)))
      BY <1>1, InnerCode, ExprParts DEF Keeps
    <3>2. p \in Knowledge /\ Kept(o, p)
      BY <3>1, KeptRun
    <3>3. After[<<o, e>>] = Consume(p, e.as) /\ e.as \in Seq(Names)
      BY AfterRun
    <3> HIDE DEF p
    <3>4. Kept(p, Consume(p, e.as))
      BY <3>2, <3>3, KeptOwn
    <3>5. QED
      BY <3>2, <3>3, <3>4, KeptOn
  <2>2. QED
    BY <2>1
<1> HIDE DEF S
<1>2. Code \subseteq S
  BY <1>1, CodeInduction
<1>3. QED
  BY <1>2 DEF S, Keeps

-----------------------------------------------------------------------------
(* Tail calls                                                              *)

\* e with b for what its last let binds.
LetLast(e, b) == [is |-> Front(e.is) \o <<LetIn(LastOf(e.is).x, b)>>, k |-> "ret", as |-> e.as]

LEMMA EndFacts ==
  ASSUME NEW parts, NEW e \in ExprForms(parts), EndsInLet(e)
  PROVE  LET i == LastOf(e.is)
         IN  /\ Front(e.is) \in Seq(InstrForms(parts)) /\ i \in InstrForms(parts)
             /\ i.x \in Names /\ i.b \in BindForms(parts) /\ i = LetIn(i.x, i.b)
             /\ e.is = Front(e.is) \o <<i>> /\ e.as = <<i.x>> /\ e.k = "ret"
             /\ SubSeq(e.is, 1, Len(e.is) - 1) = Front(e.is)
             /\ \A b : [e EXCEPT !.is[Len(e.is)].b = b] = LetLast(e, b)
<1> DEFINE s == e.is
           l == Len(s)
           i == LastOf(s)
           A == InstrForms(parts)
           fr == Front(s)
<1>1. s \in Seq(A) /\ e.k = "ret" /\ s # <<>> /\ i.k = "let" /\ e.as = <<i.x>> /\ e = [is |-> s, k |-> "ret", as |-> e.as]
  BY ExprParts DEF EndsInLet
<1> HIDE DEF s, A
<1>2. l \in Nat /\ l # 0
  BY <1>1
<1>3. /\ fr \in Seq(A) /\ Len(fr) = l - 1 /\ l - 1 \in Nat /\ \A n \in 1..(l - 1) : fr[n] = s[n]
      /\ l \in 1..l /\ s[l] \in A
  BY <1>1, <1>2, FrontFacts
<1>4. i = s[l] /\ i \in A
  BY <1>3 DEF LastOf
<1> HIDE DEF i, fr
<1>5. i.x \in Names /\ i.b \in BindForms(parts) /\ i = LetIn(i.x, i.b)
  BY <1>1, <1>4, InstrParts DEF A
\* A sequence that differs from s at most in the last place.
<1>6. ASSUME NEW B, A \subseteq B, NEW t \in Seq(B), Len(t) = l, NEW y \in B, t[l] = y,
             \A n \in 1..(l - 1) : t[n] = s[n]
      PROVE  t = fr \o <<y>>
  <2> DEFINE u == fr \o <<y>>
  <2>1. fr \in Seq(B) /\ <<y>> \in Seq(B) /\ Len(<<y>>) = 1 /\ <<y>>[1] = y /\ 1 \in 1..1
    BY <1>3, <1>6, SeqMono
  <2>2. /\ u \in Seq(B) /\ Len(u) = Len(fr) + 1 /\ u[Len(fr) + 1] = y
        /\ \A n \in 1..Len(fr) : u[n] = fr[n]
    <3>1. /\ u \in Seq(B) /\ Len(u) = Len(fr) + Len(<<y>>)
          /\ \A n \in 1..Len(fr) : u[n] = fr[n]
          /\ \A n \in 1..Len(<<y>>) : u[Len(fr) + n] = <<y>>[n]
      BY <2>1, BothFacts
    <3> HIDE DEF u
    <3>2. QED
      BY <2>1, <3>1
  <2> HIDE DEF u
  <2>3. Len(u) = l /\ u[l] = y /\ \A n \in 1..(l - 1) : u[n] = s[n]
    BY <1>2, <1>3, <2>2
  <2>4. \A n \in 1..l : u[n] = t[n]
    <3>1. \A n \in 1..l : n = l \/ n \in 1..(l - 1)
      BY <1>2
    <3>2. QED
      BY <2>3, <3>1, <1>6
  <2>5. u = t
    BY <2>2, <2>3, <2>4, <1>6, SeqExt
  <2>6. QED
    BY <2>5 DEF u
<1>7. s = fr \o <<i>>
  BY <1>1, <1>4, <1>6
<1>8. SubSeq(s, 1, l - 1) = fr
  <2>1. SubSeq(s, 1, l - 1) \in Seq(A) /\ Len(SubSeq(s, 1, l - 1)) = l - 1
        /\ \A n \in 1..(l - 1) : SubSeq(s, 1, l - 1)[n] = s[n]
    BY <1>1, <1>2
  <2>2. QED
    BY <2>1, <1>3, SeqExt
<1>9. ASSUME NEW b PROVE [e EXCEPT !.is[l].b = b] = LetLast(e, b)
  <2> DEFINE y == LetIn(i.x, b)
             t == [s EXCEPT ![l] = y]
             B == A \cup {y}
  <2>1. [i EXCEPT !.b = b] = y
    BY <1>5 DEF LetIn
  <2>2. [s EXCEPT ![l].b = b] = t
    BY <1>4, <2>1
  <2>3. [e EXCEPT !.is[l].b = b] = [is |-> [s EXCEPT ![l].b = b], k |-> "ret", as |-> e.as]
    <3>1. \A z : [e EXCEPT !.is = z] = [is |-> z, k |-> "ret", as |-> e.as]
      BY <1>1
    <3>2. [e EXCEPT !.is[l].b = b] = [e EXCEPT !.is = [e.is EXCEPT ![l].b = b]]
      <4> HIDE DEF l
      <4>1. e = [is |-> s, k |-> "ret", as |-> e.as]
        BY <1>1
      <4>2. QED
        BY <4>1
    <3>3. e.is = s
      BY DEF s
    <3>4. QED
      BY <3>1, <3>2, <3>3
  <2>4. y \in B /\ A \subseteq B /\ s \in Seq(B)
    BY <1>1, SeqMono
  <2> HIDE DEF y, B
  <2>5. t \in Seq(B) /\ Len(t) = l /\ t[l] = y /\ \A n \in 1..(l - 1) : t[n] = s[n]
    BY <2>4, <1>2
  <2> HIDE DEF t
  <2>6. t = fr \o <<y>>
    BY <2>4, <2>5, <1>6
  <2>7. QED
    BY <2>2, <2>3, <2>6 DEF LetLast, y, i, fr, s
<1>10. QED
  BY <1>1, <1>3, <1>4, <1>5, <1>7, <1>8, <1>9 DEF s, A, i, fr

\* The arms of b with their expressions turned by r.
ArmsBy(b, r) == [i \in DOMAIN b.arms |-> Arm(b.arms[i].c, b.arms[i].bs, r[b.arms[i].e])]
Jumps(b, f, n) == b.op = "call" /\ b.n = f /\ Len(b.as) = n

LEMMA RewrittenIs ==
  ASSUME NEW parts, NEW e \in ExprForms(parts), NEW f, NEW n, NEW r
  PROVE  LET b == LastOf(e.is).b
         IN  /\ ~EndsInLet(e) => Rewritten(e, f, n, r) = e
             /\ EndsInLet(e) =>
                  /\ Jumps(b, f, n) => Rewritten(e, f, n, r) = TailCall(Front(e.is), b.as)
                  /\ b.op = "if" => Rewritten(e, f, n, r) = LetLast(e, BIf(b.v, r[b.th], r[b.el]))
                  /\ b.op = "match" => Rewritten(e, f, n, r) = LetLast(e, BMatch(b.v, ArmsBy(b, r)))
                  /\ ~Jumps(b, f, n) /\ b.op \notin {"if", "match"} => Rewritten(e, f, n, r) = e
<1> DEFINE b == LastOf(e.is).b
           if == BIf(b.v, r[b.th], r[b.el])
           match == BMatch(b.v, ArmsBy(b, r))
<1>1. Rewritten(e, f, n, r) =
        IF ~EndsInLet(e) THEN e
        ELSE CASE Jumps(b, f, n) -> TailCall(SubSeq(e.is, 1, Len(e.is) - 1), b.as)
               [] b.op = "if" -> [e EXCEPT !.is[Len(e.is)].b = if]
               [] b.op = "match" -> [e EXCEPT !.is[Len(e.is)].b = match]
               [] OTHER -> e
  BY DEF Rewritten, Jumps, ArmsBy
<1>2. ASSUME EndsInLet(e)
      PROVE  /\ SubSeq(e.is, 1, Len(e.is) - 1) = Front(e.is)
             /\ [e EXCEPT !.is[Len(e.is)].b = if] = LetLast(e, if)
             /\ [e EXCEPT !.is[Len(e.is)].b = match] = LetLast(e, match)
  <2> HIDE DEF b, if, match
  <2>1. QED
    BY <1>2, EndFacts
<1>3. Jumps(b, f, n) => b.op = "call"
  BY DEF Jumps
<1> HIDE DEF b, if, match
<1>4. QED
  BY <1>1, <1>2, <1>3, Zenon DEF b, if, match

Turns(r, parts) == \A c \in parts : r[c] \in parts

LEMMA LetLastType ==
  ASSUME NEW parts, NEW e \in ExprForms(parts), EndsInLet(e), NEW b \in BindForms(parts)
  PROVE  LetLast(e, b) \in ExprForms(parts)
<1> DEFINE i == LetIn(LastOf(e.is).x, b)
           A == InstrForms(parts)
           fr == Front(e.is)
<1>1. fr \in Seq(A) /\ LastOf(e.is).x \in Names
  BY EndFacts
<1>2. i \in A
  BY <1>1, InstrMade
<1>3. e.as \in Seq(Names)
  BY ExprParts
<1> HIDE DEF i, A, fr
<1>4. fr \o <<i>> \in Seq(A)
  <2>1. <<i>> \in Seq(A)
    BY <1>2
  <2>2. QED
    BY <1>1, <2>1, BothFacts
<1>5. [is |-> fr \o <<i>>, k |-> "ret", as |-> e.as] \in ExprForms(parts)
  <2> DEFINE u == fr \o <<i>>
  <2>1. u \in Seq(InstrForms(parts))
    BY <1>4 DEF A
  <2> HIDE DEF u
  <2>2. [is |-> u, k |-> "ret", as |-> e.as] \in ExprForms(parts)
    BY <1>3, <2>1, ExprMade
  <2>3. QED
    BY <2>2 DEF u
<1>6. QED
  BY <1>5 DEF LetLast, i, fr

LEMMA ArmsByFacts ==
  ASSUME NEW parts, NEW b, b.arms \in Seq(ArmForms(parts)), NEW r, Turns(r, parts)
  PROVE  /\ ArmsBy(b, r) \in Seq(ArmForms(parts)) /\ DOMAIN ArmsBy(b, r) = DOMAIN b.arms
         /\ \A i \in DOMAIN b.arms : /\ ArmsBy(b, r)[i] = Arm(b.arms[i].c, b.arms[i].bs, r[b.arms[i].e])
                                     /\ b.arms[i].e \in parts /\ b.arms[i].bs \in Seq(Names)
<1>1. DOMAIN b.arms = 1..Len(b.arms) /\ Len(b.arms) \in Nat
  BY SeqAt
<1>2. ASSUME NEW i \in DOMAIN b.arms
      PROVE  /\ Arm(b.arms[i].c, b.arms[i].bs, r[b.arms[i].e]) \in ArmForms(parts)
             /\ b.arms[i].e \in parts /\ b.arms[i].bs \in Seq(Names)
  <2> DEFINE a == b.arms[i]
  <2>1. a \in ArmForms(parts)
    BY SeqAt
  <2> HIDE DEF a
  <2>2. a.c \in STRING /\ a.bs \in Seq(Names) /\ a.e \in parts /\ (a.c = CatchAll => Len(a.bs) = 1)
    BY <2>1, ArmParts
  <2>3. r[a.e] \in parts
    BY <2>2 DEF Turns
  <2>4. Arm(a.c, a.bs, r[a.e]) \in ArmForms(parts)
    BY <2>2, <2>3, ArmMade
  <2>5. QED
    BY <2>2, <2>4 DEF a
<1>3. ArmsBy(b, r) = [i \in 1..Len(b.arms) |-> Arm(b.arms[i].c, b.arms[i].bs, r[b.arms[i].e])]
  BY <1>1 DEF ArmsBy
<1> DEFINE F(i) == Arm(b.arms[i].c, b.arms[i].bs, r[b.arms[i].e])
           A == ArmForms(parts)
           l == Len(b.arms)
<1>4. \A i \in 1..l : F(i) \in A
  BY <1>1, <1>2
<1>5. ArmsBy(b, r) = [i \in 1..l |-> F(i)] /\ l \in Nat
  BY <1>1, <1>3
<1>6. \A i \in DOMAIN b.arms : b.arms[i].e \in parts /\ b.arms[i].bs \in Seq(Names)
  BY <1>2
<1>7. DOMAIN b.arms = 1..l
  BY <1>1
<1> HIDE DEF F, A, l
<1>8. ArmsBy(b, r) \in Seq(A) /\ DOMAIN ArmsBy(b, r) = 1..l /\ \A i \in 1..l : ArmsBy(b, r)[i] = F(i)
  BY <1>4, <1>5
<1>9. QED
  BY <1>6, <1>7, <1>8 DEF F, A

LEMMA RewrittenType ==
  ASSUME NEW parts, NEW e \in ExprForms(parts), NEW f, NEW n, NEW r, Turns(r, parts)
  PROVE  Rewritten(e, f, n, r) \in ExprForms(parts)
<1> DEFINE b == LastOf(e.is).b
           w == Rewritten(e, f, n, r)
<1>1. CASE ~EndsInLet(e)
  BY <1>1, RewrittenIs
<1>2. CASE EndsInLet(e)
  <2>1. b \in BindForms(parts) /\ Front(e.is) \in Seq(InstrForms(parts))
    BY <1>2, EndFacts
  <2>2. /\ Jumps(b, f, n) => w = TailCall(Front(e.is), b.as)
        /\ b.op = "if" => w = LetLast(e, BIf(b.v, r[b.th], r[b.el]))
        /\ b.op = "match" => w = LetLast(e, BMatch(b.v, ArmsBy(b, r)))
        /\ ~Jumps(b, f, n) /\ b.op \notin {"if", "match"} => w = e
    BY <1>2, RewrittenIs
  <2> HIDE DEF b, w
  <2>3. CASE Jumps(b, f, n)
    <3>1. b.as \in Seq(Names)
      BY <2>1, <2>3, BindParts DEF Jumps
    <3> DEFINE fr == Front(e.is)
    <3>2. fr \in Seq(InstrForms(parts)) /\ w = TailCall(fr, b.as)
      BY <2>1, <2>2, <2>3
    <3> HIDE DEF fr
    <3>3. TailCall(fr, b.as) \in ExprForms(parts)
      BY <3>1, <3>2, ExprMade DEF TailCall
    <3>4. QED
      BY <3>2, <3>3 DEF w
  <2>4. CASE b.op = "if"
    <3>1. b.v \in Names /\ r[b.th] \in parts /\ r[b.el] \in parts
      BY <2>1, <2>4, BindParts DEF Turns, SimpleOps
    <3>2. BIf(b.v, r[b.th], r[b.el]) \in BindForms(parts)
      BY <3>1, BindMade
    <3>3. QED
      BY <3>2, <1>2, <2>2, <2>4, LetLastType DEF w
  <2>5. CASE b.op = "match"
    <3>1. b.v \in Names /\ b.arms \in Seq(ArmForms(parts))
      BY <2>1, <2>5, BindParts DEF SimpleOps
    <3>2. ArmsBy(b, r) \in Seq(ArmForms(parts))
      BY <3>1, ArmsByFacts
    <3>3. BMatch(b.v, ArmsBy(b, r)) \in BindForms(parts)
      BY <3>1, <3>2, BindMade
    <3>4. QED
      BY <3>3, <1>2, <2>2, <2>5, LetLastType DEF w
  <2>6. QED
    BY <2>2, <2>3, <2>4, <2>5 DEF w
<1>3. QED
  BY <1>1, <1>2

LEMMA RewrittenLocal ==
  ASSUME NEW parts, NEW e \in ExprForms(parts), NEW f, NEW n, NEW r, NEW s, \A c \in parts : r[c] = s[c]
  PROVE  Rewritten(e, f, n, r) = Rewritten(e, f, n, s)
<1> DEFINE b == LastOf(e.is).b
<1>1. CASE ~EndsInLet(e)
  BY <1>1, RewrittenIs
<1>2. CASE EndsInLet(e)
  <2>1. b \in BindForms(parts)
    BY <1>2, EndFacts
  <2>2. CASE b.op = "if"
    <3>1. r[b.th] = s[b.th] /\ r[b.el] = s[b.el]
      <4> HIDE DEF b
      <4>1. QED
        BY <2>1, <2>2, BindParts DEF SimpleOps
    <3>2. /\ Rewritten(e, f, n, r) = LetLast(e, BIf(b.v, r[b.th], r[b.el]))
          /\ Rewritten(e, f, n, s) = LetLast(e, BIf(b.v, s[b.th], s[b.el]))
      BY <1>2, <2>2, RewrittenIs
    <3> HIDE DEF b
    <3>3. QED
      BY <3>1, <3>2
  <2>3. CASE b.op = "match"
    <3>1. ArmsBy(b, r) = ArmsBy(b, s)
      <4> HIDE DEF b
      <4>1. b.arms \in Seq(ArmForms(parts))
        BY <2>1, <2>3, BindParts DEF SimpleOps
      <4>2. \A i \in DOMAIN b.arms : b.arms[i].e \in parts
        BY <4>1, SeqAt, ArmParts
      <4>3. QED
        BY <4>2 DEF ArmsBy
    <3>2. /\ Rewritten(e, f, n, r) = LetLast(e, BMatch(b.v, ArmsBy(b, r)))
          /\ Rewritten(e, f, n, s) = LetLast(e, BMatch(b.v, ArmsBy(b, s)))
      BY <1>2, <2>3, RewrittenIs
    <3> HIDE DEF b
    <3>3. QED
      BY <3>1, <3>2
  <2>4. CASE b.op \notin {"if", "match"}
    <3>1. CASE Jumps(b, f, n)
      BY <1>2, <3>1, RewrittenIs
    <3>2. CASE ~Jumps(b, f, n)
      BY <1>2, <2>4, <3>2, RewrittenIs
    <3>3. QED
      BY <3>1, <3>2
  <2>5. QED
    BY <2>2, <2>3, <2>4
<1>3. QED
  BY <1>1, <1>2

\* r makes of each expression what the pass does, if that is code.
DoesTail(r, f, n) == \A e \in Code : Rewritten(e, f, n, r) \in Code => r[e] = Rewritten(e, f, n, r)
LevelTurns(r, d) == \A e \in Nested[d] : r[e] \in Nested[d]

LEMMA DoesTailTurns ==
  ASSUME NEW f, NEW n, NEW r, DoesTail(r, f, n), NEW d \in Nat, d <= MaxNesting
  PROVE  /\ LevelTurns(r, d) /\ Turns(r, Parts(d))
         /\ \A e \in Nested[d] : Rewritten(e, f, n, r) \in Nested[d]
<1> DEFINE S == {m \in Nat : m <= MaxNesting => LevelTurns(r, m)}
<1>1. ASSUME NEW m \in Nat, m <= MaxNesting, Turns(r, Parts(m)), NEW e \in Nested[m]
      PROVE  Rewritten(e, f, n, r) \in Nested[m] /\ r[e] \in Nested[m]
  <2>1. Nested[m] = ExprForms(Parts(m))
    BY LevelsRise
  <2>2. Nested[m] \subseteq Code
    BY <1>1, LevelsWithin
  <2>3. Rewritten(e, f, n, r) \in ExprForms(Parts(m))
    BY <1>1, <2>1, RewrittenType
  <2>4. QED
    BY <2>1, <2>2, <2>3 DEF DoesTail
<1>2. ASSUME NEW m \in Nat, m # 0 => LevelTurns(r, m - 1) PROVE Turns(r, Parts(m))
  BY <1>2 DEF Turns, Parts, LevelTurns
<1>3. 0 \in S
  BY <1>1, <1>2 DEF LevelTurns
<1>4. ASSUME NEW m \in Nat, m \in S PROVE m + 1 \in S
  <2>1. ASSUME m + 1 <= MaxNesting PROVE LevelTurns(r, m + 1)
    <3>1. (m + 1) - 1 = m /\ m + 1 \in Nat /\ m <= MaxNesting
      BY <2>1, CodeAssumption
    <3>2. Turns(r, Parts(m + 1))
      BY <3>1, <1>2, <1>4
    <3>3. QED
      BY <2>1, <3>1, <3>2, <1>1 DEF LevelTurns
  <2>2. QED
    BY <2>1
<1>5. \A m \in Nat : m \in S
  <2> HIDE DEF S
  <2>1. QED
    BY <1>3, <1>4, Induction
<1>6. LevelTurns(r, d) /\ (d # 0 => LevelTurns(r, d - 1))
  <2>1. d # 0 => d - 1 \in Nat /\ d - 1 <= MaxNesting
    BY CodeAssumption
  <2>2. QED
    BY <1>5, <2>1
<1>7. Turns(r, Parts(d))
  BY <1>2, <1>6
<1>8. QED
  BY <1>1, <1>6, <1>7

\* The pass is defined, and makes code of code.
LEMMA RewriteTailIs ==
  ASSUME NEW f, NEW n
  PROVE  LET r == RewriteTail(f, n)
         IN  \A e \in Code : r[e] = Rewritten(e, f, n, r) /\ r[e] \in Code /\ Turns(r, Inner(e))
<1> DEFINE D == Code
           V == Code
           G(e, g) == IF Rewritten(e, f, n, g) \in Code THEN Rewritten(e, f, n, g) ELSE e
           step == [q \in D \X [D -> V] |-> G(q[1], q[2])]
           rank == Rank
<1>1. step \in [D \X [D -> V] -> V]
  OBVIOUS
<1>2. rank \in [D -> Nat]
  BY RankType
<1>3. \A e \in D, g \in [D -> V] : step[<<e, g>>] = G(e, g)
  OBVIOUS
<1>4. ASSUME NEW e \in D, NEW g \in [D -> V], NEW h \in [D -> V],
             \A c \in D : rank[c] < rank[e] => g[c] = h[c]
      PROVE  step[<<e, g>>] = step[<<e, h>>]
  <2>1. e \in ExprForms(Inner(e)) /\ \A c \in Inner(e) : c \in Code /\ Rank[c] < Rank[e]
    BY InnerCode
  <2>2. \A c \in Inner(e) : g[c] = h[c]
    <3> HIDE DEF step
    <3>1. QED
      BY <1>4, <2>1
  <2>3. Rewritten(e, f, n, g) = Rewritten(e, f, n, h)
    <3> HIDE DEF step, D, V
    <3>1. QED
      BY <2>1, <2>2, RewrittenLocal
  <2>4. G(e, g) = G(e, h)
    BY <2>3
  <2>5. QED
    BY <1>3, <2>4
<1>5. V # {}
  BY CodeTop
<1> HIDE DEF step, rank, V
<1>6. Ranked(rank, step, D, V)
  <2> HIDE DEF D
  <2>1. QED
    BY <1>1, <1>2, <1>4, <1>5 DEF Ranked
<1>7. PICK g : Solves(g, step, D, V)
  <2> HIDE DEF D
  <2>1. QED
    BY <1>6, RankedRecursion
<1>8. g \in [D -> V] /\ \A e \in D : g[e] = G(e, g)
  BY <1>3, <1>7 DEF Solves
<1>9. DoesTail(g, f, n)
  BY <1>8 DEF DoesTail
<1>10. \A e \in Code : Rewritten(e, f, n, g) \in Code
  <2>1. MaxNesting <= MaxNesting
    BY CodeTop
  <2>2. QED
    BY <1>9, <2>1, CodeTop, DoesTailTurns
<1>11. g = [e \in Code |-> Rewritten(e, f, n, g)]
  <2>1. \A e \in Code : g[e] = Rewritten(e, f, n, g)
    BY <1>8, <1>10
  <2>2. QED
    BY <2>1, <1>8
<1> DEFINE r == RewriteTail(f, n)
<1>12. r = [e \in Code |-> Rewritten(e, f, n, r)]
  BY <1>11, Zenon DEF RewriteTail
<1> HIDE DEF r
<1>13. \A e \in Code : r[e] = Rewritten(e, f, n, r)
  <2> DEFINE R(e) == Rewritten(e, f, n, r)
  <2>1. r = [e \in Code |-> R(e)]
    BY <1>12
  <2> HIDE DEF R
  <2>2. \A e \in Code : r[e] = R(e)
    BY <2>1
  <2>3. QED
    BY <2>2 DEF R
<1>14. DoesTail(r, f, n)
  BY <1>13 DEF DoesTail
<1>15. ASSUME NEW e \in Code PROVE Turns(r, Inner(e)) /\ r[e] \in Code
  <2>1. Rank[e] \in Nat /\ Rank[e] <= MaxNesting /\ e \in Nested[Rank[e]]
    BY RankType
  <2>2. Turns(r, Inner(e)) /\ LevelTurns(r, Rank[e])
    BY <1>14, <2>1, DoesTailTurns DEF Inner
  <2>3. QED
    BY <2>1, <2>2, LevelsWithin DEF LevelTurns
<1>16. QED
  BY <1>13, <1>15 DEF r

\* What a caller can tell of the two.
Agrees(p, q) == p.own = q.own /\ p.tokens = q.tokens /\ p.faults = q.faults

JoinOf(o, v, results, j) ==
    /\ j \in Knowledge /\ j.root = o.root /\ j.lender = o.lender /\ j.size = o.size
    /\ j.unboxed = o.unboxed /\ j.scope = o.scope
    /\ \E q \in results : j.own = q.own /\ j.tokens = q.tokens
    /\ j.faults = IF Alike(results) /\ Settled(o, results)
                  THEN FaultsOf(o, results) ELSE FaultsOf(o, results) \cup {v}

LEMMA JoinIsOf ==
  ASSUME NEW o \in Knowledge, NEW v \in Names, NEW results \in SUBSET Knowledge, results # {}
  PROVE  JoinOf(o, v, results, Join(o, v, results))
BY JoinFacts, ZenonT(40) DEF JoinOf

LEMMA JoinAgrees ==
  ASSUME NEW o \in Knowledge, NEW v \in Names, NEW A \in SUBSET Knowledge, NEW B \in SUBSET Knowledge,
         A # {}, B # {}, \A p \in A : \E q \in B : Agrees(p, q), \A q \in B : \E p \in A : Agrees(p, q),
         Join(o, v, B).faults = {}
  PROVE  Join(o, v, A) = Join(o, v, B)
<1> DEFINE j == Join(o, v, A)
           k == Join(o, v, B)
<1>1. JoinOf(o, v, A, j)
  BY JoinIsOf, Zenon
<1>2. JoinOf(o, v, B, k)
  BY JoinIsOf, Zenon
<1>3. k.faults = {}
  OBVIOUS
<1> HIDE DEF j, k
<1>4. Alike(B) /\ Settled(o, B) /\ FaultsOf(o, B) = {}
  BY <1>2, <1>3 DEF JoinOf
<1>5. Alike(A) /\ Settled(o, A)
  BY <1>4 DEF Alike, Settled, Agrees
<1>6. FaultsOf(o, A) = {}
  <2>1. o.faults = {} /\ \A q \in B : q.faults = {}
    BY <1>4 DEF FaultsOf
  <2>2. \A p \in A : p.faults = {}
    BY <2>1 DEF Agrees
  <2>3. QED
    BY <2>1, <2>2 DEF FaultsOf
<1>7. j.faults = {}
  BY <1>1, <1>5, <1>6 DEF JoinOf
<1>8. j.own = k.own /\ j.tokens = k.tokens
  <2>1. PICK p \in A : j.own = p.own /\ j.tokens = p.tokens
    BY <1>1 DEF JoinOf
  <2>2. PICK q \in B : k.own = q.own /\ k.tokens = q.tokens
    BY <1>2 DEF JoinOf
  <2>3. PICK w \in B : Agrees(p, w)
    OBVIOUS
  <2>4. QED
    BY <1>4, <2>1, <2>2, <2>3 DEF Alike, Agrees
<1>9. j = k
  <2>1. OnlyOwn(k, j)
    BY <1>1, <1>2, <1>8 DEF OnlyOwn, JoinOf
  <2>2. QED
    BY <1>1, <1>2, <1>3, <1>7, <1>8, <2>1, SameKnowledge DEF JoinOf
<1>10. QED
  BY <1>9 DEF j, k

\* To bind a result and return it is to return it.
LEMMA ReturnedAgrees ==
  ASSUME NEW q \in Knowledge, NEW o, Paid(o), Kept(o, q), NEW x \in Names,
         Consume(Bound(q, x, TRUE), <<x>>).faults = {}
  PROVE  Agrees(q, Consume(Bound(q, x, TRUE), <<x>>))
<1> DEFINE p == Bound(q, x, TRUE)
           as == <<x>>
           r == Consume(p, as)
           U(v) == Uses(p, as, v)
<1>1. BoundTo(q, x, TRUE, p)
  BY BoundFacts
<1>2. as \in Seq(Names) /\ DOMAIN as = {1} /\ as[1] = x
  OBVIOUS
<1> HIDE DEF p, as
<1>3. /\ r \in Knowledge /\ OnlyOwn(p, r)
      /\ \A v \in Names : r.own[v] = p.own[v] - Cardinality(U(v))
      /\ p.faults \subseteq r.faults
  <2>1. p \in Knowledge
    BY <1>1 DEF BoundTo
  <2>2. /\ r \in Knowledge /\ OnlyOwn(p, r)
        /\ \A v \in Names : r.own[v] = p.own[v] - Cardinality(U(v))
        /\ r.faults = p.faults \cup {v \in Names : p.own[v] < Cardinality(U(v))}
    <3> HIDE DEF p
    <3>1. QED
      BY <1>2, <2>1, ConsumeFacts
  <2>3. QED
    BY <2>2
<1>4. r.faults = {}
  BY DEF p, as
<1>5. p.faults = {} /\ q.faults = {} /\ ~(q.own[x] > 0)
  <2>1. p.faults = {}
    BY <1>3, <1>4
  <2>2. QED
    BY <1>1, <2>1 DEF BoundTo
<1>6. q.own[x] = 0
  <2>1. Paid(q) /\ q.own[x] \in Int
    BY <1>5 DEF Kept, Knowledge
  <2>2. QED
    BY <1>5, <2>1 DEF Paid
<1>7. p.own[x] = 1 /\ p.root[x] = x /\ x \notin p.unboxed /\ \A v \in Names : v # x => p.own[v] = q.own[v]
  BY <1>1 DEF BoundTo, Knowledge
<1>8. ASSUME NEW v \in Names PROVE Cardinality(U(v)) = IF v = x THEN 1 ELSE 0
  <2>1. CASE v = x
    <3>1. U(v) = {1}
      BY <1>2, <1>7, <2>1 DEF Uses
    <3>2. QED
      BY <2>1, <3>1, FS_Singleton
  <2>2. CASE v # x
    <3>1. U(v) = {}
      BY <1>2, <1>7, <2>2 DEF Uses
    <3>2. QED
      BY <2>2, <3>1, FS_EmptySet
  <2>3. QED
    BY <2>1, <2>2
<1> HIDE DEF U, r
<1>9. \A v \in Names : r.own[v] = q.own[v]
  <2>1. \A v \in Names : q.own[v] \in Int
    BY DEF Knowledge
  <2>2. QED
    BY <1>3, <1>6, <1>7, <1>8, <2>1
<1>10. r.own = q.own
  BY <1>3, <1>9 DEF Knowledge
<1>11. r.tokens = q.tokens
  BY <1>1, <1>3 DEF BoundTo, OnlyOwn
<1>12. QED
  BY <1>4, <1>5, <1>10, <1>11 DEF Agrees, r, p, as

\* How an expression ends whose last let is returned.
LEMMA AfterLast ==
  ASSUME NEW e \in Code, EndsInLet(e), NEW o \in Knowledge
  PROVE  LET q == Run(o, Front(e.is))
             i == LastOf(e.is)
         IN  /\ q \in Knowledge /\ Front(e.is) \in Seq(Items) /\ i.b \in BindForms(Code) /\ i.x \in Names
             /\ e = LetLast(e, i.b)
             /\ \A b \in BindForms(Code) :
                  LetLast(e, b) \in Code =>
                    After[<<o, LetLast(e, b)>>] = Consume(Bound(AfterBind(q, b, After), i.x, b.op # "equal"), <<i.x>>)
<1> DEFINE fr == Front(e.is)
           i == LastOf(e.is)
           q == Run(o, fr)
           x == i.x
<1>1. e \in ExprForms(Code)
  BY CodeExprs DEF Exprs
<1>2. /\ fr \in Seq(Items) /\ x \in Names /\ i.b \in BindForms(Code) /\ i = LetIn(x, i.b)
      /\ e.is = fr \o <<i>> /\ e.as = <<x>> /\ e.k = "ret"
  BY <1>1, EndFacts DEF Items
<1>3. e = LetLast(e, i.b)
  <2>1. e = [is |-> e.is, k |-> "ret", as |-> e.as]
    BY <1>1, <1>2, ExprParts
  <2>2. LetLast(e, i.b) = [is |-> fr \o <<LetIn(x, i.b)>>, k |-> "ret", as |-> e.as]
    BY DEF LetLast
  <2> HIDE DEF i, fr, x
  <2>3. QED
    BY <1>2, <2>1, <2>2
<1> HIDE DEF fr
<1>4. q \in Knowledge
  BY <1>2, RunFacts
<1>5. ASSUME NEW b \in BindForms(Code), LetLast(e, b) \in Code
      PROVE  After[<<o, LetLast(e, b)>>] = Consume(Bound(AfterBind(q, b, After), x, b.op # "equal"), <<x>>)
  <2> DEFINE c == LetLast(e, b)
             l == LetIn(x, b)
  <2>1. c.is = fr \o <<l>> /\ c.as = <<x>>
    <3>1. c = [is |-> fr \o <<l>>, k |-> "ret", as |-> e.as]
      BY DEF LetLast, fr
    <3>2. QED
      BY <1>2, <3>1
  <2>2. l \in Items
    BY <1>2, <1>5, InstrMade DEF Items
  <2>3. Step(q, l, After) = Bound(AfterBind(q, b, After), x, b.op # "equal")
    BY DEF Step, LetIn
  <2>4. c \in Code
    BY <1>5
  <2> HIDE DEF c, l, q
  <2>5. <<l>> \in Seq(Items)
    BY <2>2
  <2>6. Run(o, fr \o <<l>>) = Run(q, <<l>>)
    BY <1>2, <2>5, RunFacts DEF q
  <2>7. Run(q, <<l>>) = Step(q, l, After)
    BY <1>4, <2>2, RunFacts
  <2>8. After[<<o, c>>] = Consume(Run(o, c.is), c.as)
    BY <2>4, AfterRun
  <2>9. QED
    BY <2>1, <2>3, <2>6, <2>7, <2>8 DEF c
<1>6. QED
  BY <1>2, <1>3, <1>4, <1>5 DEF fr

\* Where e is right so is what r makes of it.
Keeping(r, e) ==
    \A o \in Knowledge : Paid(o) /\ After[<<o, e>>].faults = {} => Agrees(After[<<o, r[e]>>], After[<<o, e>>])

\* If nothing was wrong after the last let, nothing was before.
LEMMA BeforeLast ==
  ASSUME NEW q \in Knowledge, NEW b \in BindForms(Code), NEW x \in Names,
         Consume(Bound(AfterBind(q, b, After), x, b.op # "equal"), <<x>>).faults = {}
  PROVE  AfterBind(q, b, After).faults = {} /\ AfterBind(q, b, After) \in Knowledge /\ q.faults = {}
<1> DEFINE p == AfterBind(q, b, After)
           boxed == b.op # "equal"
           m == Bound(p, x, boxed)
           as == <<x>>
<1>1. p \in Knowledge /\ Kept(q, p)
  BY AfterType, AfterBindType, AfterKept, KeptBind
<1>2. boxed \in BOOLEAN /\ as \in Seq(Names)
  OBVIOUS
<1>3. Consume(m, as).faults = {}
  OBVIOUS
<1> HIDE DEF p, boxed, as
<1>4. m \in Knowledge /\ Kept(p, m)
  <2>1. BoundTo(p, x, boxed, m)
    BY <1>1, <1>2, BoundFacts, Zenon
  <2>2. QED
    BY <2>1, <1>1, <1>2, KeptOwn DEF BoundTo
<1> HIDE DEF m
<1>5. Kept(m, Consume(m, as))
  BY <1>2, <1>4, KeptOwn
<1>6. p.faults = {} /\ q.faults = {}
  BY <1>1, <1>3, <1>4, <1>5 DEF Kept
<1>7. QED
  BY <1>1, <1>6 DEF p

LEMMA IfAgrees ==
  ASSUME NEW parts, parts \subseteq Code, NEW r, Turns(r, parts), \A c \in parts : Keeping(r, c),
         NEW q \in Knowledge, Paid(q), NEW b \in BindForms(parts), b.op = "if",
         AfterBind(q, b, After).faults = {}
  PROVE  AfterBind(q, BIf(b.v, r[b.th], r[b.el]), After) = AfterBind(q, b, After)
<1> DEFINE d == BIf(b.v, r[b.th], r[b.el])
           A == {After[<<q, r[b.th]>>], After[<<q, r[b.el]>>]}
           B == {After[<<q, b.th>>], After[<<q, b.el>>]}
<1>1. b.v \in Names /\ b.th \in parts /\ b.el \in parts
  BY BindParts DEF SimpleOps
<1>2. AfterBind(q, b, After) = Join(q, b.v, B)
  BY DEF AfterBind
<1>3. AfterBind(q, d, After) = Join(q, b.v, A)
  BY DEF AfterBind, BIf
<1>4. A \in SUBSET Knowledge /\ B \in SUBSET Knowledge
  <2>1. b.th \in Code /\ b.el \in Code /\ r[b.th] \in Code /\ r[b.el] \in Code
    BY <1>1 DEF Turns
  <2>2. QED
    BY <2>1, AfterRun
<1>5. \A p \in B : p.faults = {}
  <2>1. Join(q, b.v, B).faults = {}
    BY <1>2
  <2> HIDE DEF B
  <2>2. JoinOf(q, b.v, B, Join(q, b.v, B))
    <3>1. B # {}
      BY DEF B
    <3>2. QED
      BY <1>1, <1>4, <3>1, JoinIsOf
  <2>3. QED
    BY <2>1, <2>2 DEF JoinOf, FaultsOf
<1>6. /\ Agrees(After[<<q, r[b.th]>>], After[<<q, b.th>>])
      /\ Agrees(After[<<q, r[b.el]>>], After[<<q, b.el>>])
  BY <1>1, <1>5 DEF Keeping
<1>7. /\ \A p \in A : \E w \in B : Agrees(p, w)
      /\ \A w \in B : \E p \in A : Agrees(p, w)
      /\ A # {} /\ B # {}
  BY <1>6
<1>8. Join(q, b.v, B).faults = {}
  BY <1>2
<1> HIDE DEF A, B, d
<1>9. Join(q, b.v, A) = Join(q, b.v, B)
  BY <1>1, <1>4, <1>7, <1>8, JoinAgrees
<1>10. QED
  BY <1>2, <1>3, <1>9 DEF d

LEMMA SomeAt ==
  ASSUME NEW A, NEW s \in Seq(A), s # <<>>
  PROVE  DOMAIN s # {}
<1>1. 1 \in DOMAIN s
  OBVIOUS
<1>2. QED
  BY <1>1

LEMMA MatchAgrees ==
  ASSUME NEW parts, parts \subseteq Code, NEW r, Turns(r, parts), \A c \in parts : Keeping(r, c),
         NEW q \in Knowledge, Paid(q), NEW b \in BindForms(parts), b.op = "match",
         AfterBind(q, b, After).faults = {}
  PROVE  AfterBind(q, BMatch(b.v, ArmsBy(b, r)), After) = AfterBind(q, b, After)
<1> DEFINE d == BMatch(b.v, ArmsBy(b, r))
           N == DOMAIN b.arms
           In(i) == EnterArm(q, b.v, b.arms[i])
           New(i) == After[<<In(i), r[b.arms[i].e]>>]
           Old(i) == After[<<In(i), b.arms[i].e>>]
           A == {New(i) : i \in N}
           B == {Old(i) : i \in N}
           w == q.own[q.root[b.v]] <= 0
           Ends(rs) == Fault(IF b.arms = <<>> THEN q ELSE Join(q, b.v, rs), b.v, w)
<1>1. b.v \in Names /\ b.arms \in Seq(ArmForms(parts))
  BY BindParts DEF SimpleOps
<1>2. /\ DOMAIN ArmsBy(b, r) = N
      /\ \A i \in N : /\ ArmsBy(b, r)[i] = Arm(b.arms[i].c, b.arms[i].bs, r[b.arms[i].e])
                      /\ b.arms[i].e \in parts /\ b.arms[i].bs \in Seq(Names)
  BY <1>1, ArmsByFacts
<1>3. AfterBind(q, b, After) = Ends(B)
  BY DEF AfterBind
<1>4. AfterBind(q, d, After) = Ends(A)
  <2>1. d.op = "match" /\ d.v = b.v /\ d.arms = ArmsBy(b, r)
    BY DEF BMatch
  <2> DEFINE Mid(i) == After[<<EnterArm(q, b.v, d.arms[i]), d.arms[i].e>>]
             C == {Mid(i) : i \in DOMAIN d.arms}
  <2>2. ASSUME NEW i \in N
        PROVE  EnterArm(q, b.v, d.arms[i]) = In(i) /\ d.arms[i].e = r[b.arms[i].e]
    <3>0. d.arms[i] = Arm(b.arms[i].c, b.arms[i].bs, r[b.arms[i].e])
      BY <1>2, <2>1
    <3>1. d.arms[i].c = b.arms[i].c /\ d.arms[i].bs = b.arms[i].bs /\ d.arms[i].e = r[b.arms[i].e]
      <4> HIDE DEF d
      <4>1. QED
        BY <3>0 DEF Arm
    <3> HIDE DEF d
    <3>2. QED
      BY <3>1, Zenon DEF EnterArm
  <2>3. C = A
    <3>1. DOMAIN d.arms = N
      BY <1>2, <2>1
    <3>2. ASSUME NEW i \in N PROVE Mid(i) = New(i)
      <4> HIDE DEF d, In
      <4>1. QED
        BY <2>2
    <3> HIDE DEF d, In, N, Mid, New
    <3>3. QED
      BY <3>1, <3>2
  <2>4. d.arms = <<>> <=> b.arms = <<>>
    <3>1. DOMAIN d.arms = DOMAIN b.arms
      BY <1>2, <2>1
    <3>2. d.arms \in Seq(ArmForms(parts))
      BY <1>1, <2>1, ArmsByFacts
    <3> HIDE DEF d
    <3>3. QED
      BY <1>1, <3>1, <3>2
  <2>5. AfterBind(q, d, After) = Fault(IF d.arms = <<>> THEN q ELSE Join(q, b.v, C), b.v, w)
    <3> HIDE DEF d
    <3>1. QED
      BY <2>1 DEF AfterBind
  <2> HIDE DEF d, C, A
  <2>6. QED
    BY <2>3, <2>4, <2>5
<1>5. CASE b.arms = <<>>
  BY <1>3, <1>4, <1>5 DEF d
<1>6. CASE b.arms # <<>>
  <2>1. N # {}
    BY <1>1, <1>6, SomeAt
  <2>2. ASSUME NEW i \in N
        PROVE  /\ In(i) \in Knowledge /\ Kept(q, In(i)) /\ New(i) \in Knowledge /\ Old(i) \in Knowledge
               /\ b.arms[i].e \in parts /\ Keeping(r, b.arms[i].e)
    <3>1. b.arms[i].e \in parts /\ b.arms[i].bs \in Seq(Names)
      BY <1>2
    <3>2. b.arms[i].e \in Code /\ r[b.arms[i].e] \in Code
      BY <3>1 DEF Turns
    <3>3. In(i) \in Knowledge /\ Kept(q, In(i))
      BY <1>1, <3>1, EnterArmFacts, KeptOwn
    <3> HIDE DEF In
    <3>4. New(i) \in Knowledge /\ Old(i) \in Knowledge
      BY <3>2, <3>3, AfterRun
    <3>5. QED
      BY <3>1, <3>3, <3>4
  <2>3. A \in SUBSET Knowledge /\ B \in SUBSET Knowledge /\ A # {} /\ B # {}
    <3> HIDE DEF New, Old, N
    <3>1. QED
      BY <2>1, <2>2
  <2>4. Join(q, b.v, B).faults = {}
    <3>1. Ends(B).faults = {} /\ Ends(B) = Fault(Join(q, b.v, B), b.v, w)
      BY <1>3, <1>6
    <3>2. Join(q, b.v, B) \in Knowledge
      <4> HIDE DEF B
      <4>1. QED
        BY <1>1, <2>3, JoinIsOf DEF JoinOf
    <3> DEFINE j == Join(q, b.v, B)
    <3>3. j \in Knowledge /\ Fault(j, b.v, w).faults = {}
      BY <3>1, <3>2
    <3> HIDE DEF j, w
    <3>4. j.faults \subseteq Fault(j, b.v, w).faults
      BY <3>3 DEF Fault, Knowledge
    <3>5. QED
      BY <3>3, <3>4 DEF j
  <2>5. \A p \in B : p.faults = {}
    <3> HIDE DEF B
    <3>1. JoinOf(q, b.v, B, Join(q, b.v, B))
      BY <1>1, <2>3, JoinIsOf
    <3>2. QED
      BY <2>4, <3>1 DEF JoinOf, FaultsOf
  <2>6. ASSUME NEW i \in N PROVE Agrees(New(i), Old(i))
    <3>1. Old(i).faults = {}
      BY <2>5
    <3> HIDE DEF In
    <3>2. Kept(In(i), Old(i))
      BY <2>2, AfterKept DEF Keeps
    <3>3. In(i).faults = {}
      BY <3>1, <3>2 DEF Kept
    <3>4. Paid(In(i))
      BY <2>2, <3>3 DEF Kept
    <3>5. QED
      BY <2>2, <3>1, <3>4 DEF Keeping
  <2>7. (\A p \in A : \E y \in B : Agrees(p, y)) /\ (\A y \in B : \E p \in A : Agrees(p, y))
    <3> HIDE DEF New, Old, N
    <3>1. QED
      BY <2>6
  <2> HIDE DEF A, B
  <2>8. Join(q, b.v, A) = Join(q, b.v, B)
    BY <1>1, <2>3, <2>4, <2>7, JoinAgrees
  <2> HIDE DEF d
  <2>9. QED
    BY <1>3, <1>4, <2>8 DEF d
<1>7. QED
  BY <1>5, <1>6

LEMMA BindsMono ==
  ASSUME NEW parts, NEW more, parts \subseteq more
  PROVE  BindForms(parts) \subseteq BindForms(more)
<1>1. ArmForms(parts) \subseteq ArmForms(more)
  BY DEF ArmForms
<1>2. Seq(ArmForms(parts)) \subseteq Seq(ArmForms(more))
  BY <1>1, SeqMono
<1>3. QED
  BY <1>2 DEF BindForms

\* The pass that turns self tail calls into jumps keeps what every path consumes.
LEMMA TailAgrees ==
  ASSUME NEW f, NEW n
  PROVE  \A e \in Code : Keeping(RewriteTail(f, n), e)
<1> DEFINE r == RewriteTail(f, n)
           S == {e \in Code : Keeping(r, e)}
<1>1. \A e \in Code : r[e] = Rewritten(e, f, n, r) /\ r[e] \in Code /\ Turns(r, Inner(e))
  BY RewriteTailIs
<1> HIDE DEF r
<1>2. ASSUME NEW e \in Code, Inner(e) \subseteq S, NEW o \in Knowledge, Paid(o), After[<<o, e>>].faults = {}
      PROVE  Agrees(After[<<o, r[e]>>], After[<<o, e>>])
  <2> DEFINE parts == Inner(e)
             i == LastOf(e.is)
             b == i.b
             fr == Front(e.is)
             q == Run(o, fr)
             w == r[e]
  <2>1. /\ parts \subseteq Code /\ e \in ExprForms(parts) /\ Turns(r, parts) /\ w \in Code
        /\ \A c \in parts : Keeping(r, c)
    BY <1>1, <1>2, InnerCode
  <2>2. w = Rewritten(e, f, n, r)
    BY <1>1
  <2> HIDE DEF parts
  <2>3. CASE w = e
    BY <2>3 DEF Agrees
  <2>4. CASE w # e
    <3>1. /\ EndsInLet(e) /\ (Jumps(b, f, n) \/ b.op \in {"if", "match"})
          /\ Jumps(b, f, n) => w = TailCall(fr, b.as)
          /\ b.op = "if" => w = LetLast(e, BIf(b.v, r[b.th], r[b.el]))
          /\ b.op = "match" => w = LetLast(e, BMatch(b.v, ArmsBy(b, r)))
      <4> HIDE DEF w
      <4>1. QED
        BY <2>1, <2>2, <2>4, RewrittenIs
    <3>2. /\ q \in Knowledge /\ fr \in Seq(Items) /\ b \in BindForms(Code) /\ i.x \in Names
          /\ e = LetLast(e, b)
          /\ \A d \in BindForms(Code) :
               LetLast(e, d) \in Code =>
                 After[<<o, LetLast(e, d)>>] = Consume(Bound(AfterBind(q, d, After), i.x, d.op # "equal"), <<i.x>>)
      BY <1>2, <3>1, AfterLast
    <3>3. b \in BindForms(parts)
      BY <2>1, <3>1, EndFacts
    <3> DEFINE x == i.x
    <3> HIDE DEF b, q, fr, w, x
    <3>4. After[<<o, e>>] = Consume(Bound(AfterBind(q, b, After), x, b.op # "equal"), <<x>>)
      BY <3>2 DEF x
    <3>5. AfterBind(q, b, After).faults = {} /\ AfterBind(q, b, After) \in Knowledge /\ q.faults = {}
      <4>1. Consume(Bound(AfterBind(q, b, After), x, b.op # "equal"), <<x>>).faults = {}
        BY <1>2, <3>4
      <4>2. x \in Names
        BY <3>2 DEF x
      <4>3. QED
        BY <3>2, <4>1, <4>2, BeforeLast
    <3>6. Kept(o, q) /\ Paid(q)
      <4>1. Kept(o, q)
        <5>1. fr \in Seq(InstrForms(Code))
          BY <3>2 DEF Items
        <5>2. QED
          BY <5>1, AfterKept, KeptRun DEF q
      <4>2. QED
        BY <1>2, <3>5, <4>1 DEF Kept
    <3>7. CASE Jumps(b, f, n)
      <4> DEFINE p == AfterBind(q, b, After)
      <4>1. b.op = "call" /\ b.as \in Seq(Names)
        BY <3>3, <3>7, BindParts DEF Jumps
      <4>2. p = Consume(q, b.as)
        BY <4>1 DEF AfterBind
      <4>3. After[<<o, w>>] = p
        <5>1. w.is = fr /\ w.as = b.as
          BY <3>1, <3>7 DEF TailCall
        <5>2. After[<<o, w>>] = Consume(Run(o, w.is), w.as)
          BY <2>1, AfterRun DEF w
        <5>3. QED
          BY <4>2, <5>1, <5>2 DEF q
      <4>4. Kept(q, p) /\ p \in Knowledge
        BY <3>2, <3>5, <4>1, <4>2, KeptOwn
      <4> HIDE DEF p
      <4>5. (b.op # "equal") = TRUE
        BY <4>1
      <4>6. After[<<o, e>>] = Consume(Bound(p, x, TRUE), <<x>>)
        BY <3>4, <4>5 DEF p
      <4>7. x \in Names
        BY <3>2 DEF x
      <4>8. Agrees(p, Consume(Bound(p, x, TRUE), <<x>>))
        <5>1. Consume(Bound(p, x, TRUE), <<x>>).faults = {}
          BY <1>2, <4>6
        <5>2. QED
          BY <3>6, <4>4, <4>7, <5>1, ReturnedAgrees
      <4>9. QED
        BY <4>3, <4>6, <4>8 DEF w
    <3>8. CASE b.op = "if"
      <4> DEFINE d == BIf(b.v, r[b.th], r[b.el])
      <4>1. AfterBind(q, d, After) = AfterBind(q, b, After)
        BY <2>1, <3>2, <3>3, <3>5, <3>6, <3>8, IfAgrees
      <4>2. d \in BindForms(Code) /\ (d.op # "equal") = TRUE /\ (b.op # "equal") = TRUE
        <5>1. b.v \in Names /\ r[b.th] \in Code /\ r[b.el] \in Code
          BY <2>1, <3>3, <3>8, BindParts DEF Turns, SimpleOps
        <5>2. d \in BindForms(Code)
          BY <5>1, BindMade
        <5>3. d.op = "if"
          BY DEF BIf
        <5>4. QED
          BY <3>8, <5>2, <5>3
      <4>3. w = LetLast(e, d) /\ LetLast(e, d) \in Code
        BY <2>1, <3>1, <3>8 DEF w
      <4> HIDE DEF d
      <4>4. After[<<o, w>>] = Consume(Bound(AfterBind(q, d, After), x, d.op # "equal"), <<x>>)
        BY <3>2, <4>2, <4>3 DEF x
      <4>5. After[<<o, w>>] = After[<<o, e>>]
        BY <3>4, <4>1, <4>2, <4>4
      <4>6. QED
        BY <4>5 DEF Agrees, w
    <3>9. CASE b.op = "match"
      <4> DEFINE d == BMatch(b.v, ArmsBy(b, r))
      <4>1. AfterBind(q, d, After) = AfterBind(q, b, After)
        BY <2>1, <3>2, <3>3, <3>5, <3>6, <3>9, MatchAgrees
      <4>2. d \in BindForms(Code) /\ (d.op # "equal") = TRUE /\ (b.op # "equal") = TRUE
        <5>1. b.v \in Names /\ b.arms \in Seq(ArmForms(parts))
          BY <3>3, <3>9, BindParts DEF SimpleOps
        <5>2. ArmsBy(b, r) \in Seq(ArmForms(parts))
          BY <2>1, <5>1, ArmsByFacts
        <5>3. d \in BindForms(parts)
          BY <5>1, <5>2, BindMade
        <5>4. BindForms(parts) \subseteq BindForms(Code)
          BY <2>1, BindsMono
        <5>5. d.op = "match"
          BY DEF BMatch
        <5>6. QED
          BY <3>9, <5>3, <5>4, <5>5
      <4>3. w = LetLast(e, d) /\ LetLast(e, d) \in Code
        BY <2>1, <3>1, <3>9 DEF w
      <4> HIDE DEF d
      <4>4. After[<<o, w>>] = Consume(Bound(AfterBind(q, d, After), x, d.op # "equal"), <<x>>)
        BY <3>2, <4>2, <4>3 DEF x
      <4>5. After[<<o, w>>] = After[<<o, e>>]
        BY <3>4, <4>1, <4>2, <4>4
      <4>6. QED
        BY <4>5 DEF Agrees, w
    <3>10. QED
      BY <3>1, <3>7, <3>8, <3>9 DEF b, fr
  <2>5. QED
    BY <2>3, <2>4
<1>3. \A e \in Code : Inner(e) \subseteq S => e \in S
  <2> HIDE DEF S
  <2>1. ASSUME NEW e \in Code, Inner(e) \subseteq S PROVE Keeping(r, e)
    BY <1>2, <2>1 DEF Keeping
  <2>2. QED
    BY <2>1 DEF S
<1> HIDE DEF S
<1>4. Code \subseteq S
  BY <1>3, CodeInduction
<1>5. QED
  BY <1>4 DEF S, r

-----------------------------------------------------------------------------
(* Every path of every function                                            *)

PassInv ==
    /\ stage \in {"lowered", "counted", "optimised"}
    /\ stage = "lowered" => \A f \in DOMAIN code : WellFormed(code[f])
    /\ stage # "lowered" => \A f \in DOMAIN code : code[f] \in Fns /\ Balanced(code[f])

LEMMA BalancedIs == \A fn : Balanced(fn) <=> Empty(After[<<EntryOf(fn), fn.e>>])
BY DEF Balanced, Empty, EntryOf

\* A function with other code.
LEMMA FnFacts ==
  ASSUME NEW fn \in Fns, NEW e \in Code
  PROVE  LET g == [fn EXCEPT !.e = e]
         IN  g \in Fns /\ g.e = e /\ EntryOf(g) = EntryOf(fn)
<1> DEFINE g == [fn EXCEPT !.e = e]
<1>1. g \in Fns /\ g.e = e /\ g.ps = fn.ps /\ g.caps = fn.caps
  BY DEF Fns
<1> HIDE DEF g
<1>2. EntryOf(g) = EntryOf(fn)
  BY <1>1 DEF EntryOf
<1>3. QED
  BY <1>1, <1>2 DEF g

LEMMA InsertRcKeeps ==
  ASSUME PassInv, InsertRcStep
  PROVE  PassInv'
<1>1. stage = "lowered" /\ stage' = "counted" /\ code' = InsertRc(code)
  BY DEF InsertRcStep
<1>2. ASSUME NEW f \in DOMAIN code' PROVE code'[f] \in Fns /\ Balanced(code'[f])
  <2> DEFINE fn == code[f]
             D == (Elems(fn.ps) \cup Elems(fn.caps)) \ Fv[fn.e]
             c == WithDrops(D, Rc[<<fn.e, {}>>])
             g == [fn EXCEPT !.e = c]
  <2>1. f \in DOMAIN code /\ code'[f] = g
    BY <1>1, <1>2 DEF InsertRc
  <2>2. WellFormed(fn)
    BY <1>1, <2>1 DEF PassInv
  <2>3. fn \in Fns
    BY <2>2 DEF WellFormed, Fns
  <2> HIDE DEF fn
  <2>4. c \in Code /\ Empty(After[<<EntryOf(fn), c>>])
    BY <2>2, InsertRcBalanced
  <2> HIDE DEF c
  <2>5. g \in Fns /\ g.e = c /\ EntryOf(g) = EntryOf(fn)
    BY <2>3, <2>4, FnFacts
  <2> HIDE DEF g
  <2>6. Empty(After[<<EntryOf(g), g.e>>])
    BY <2>4, <2>5
  <2>7. QED
    BY <2>1, <2>5, <2>6, BalancedIs
<1>3. QED
  BY <1>1, <1>2 DEF PassInv

LEMMA TailCallKeeps ==
  ASSUME PassInv, TailCallStep
  PROVE  PassInv'
<1>1. stage = "counted" /\ stage' = "optimised" /\ code' = TailCallOptimize(code)
  BY DEF TailCallStep
<1>2. ASSUME NEW f \in DOMAIN code' PROVE code'[f] \in Fns /\ Balanced(code'[f])
  <2> DEFINE fn == code[f]
             r == RewriteTail(f, Len(fn.ps))
             c == r[fn.e]
             g == [fn EXCEPT !.e = c]
             o == EntryOf(fn)
  <2>1. f \in DOMAIN code /\ code'[f] = g
    BY <1>1, <1>2 DEF TailCallOptimize
  <2>2. fn \in Fns /\ Balanced(fn)
    BY <1>1, <2>1 DEF PassInv
  <2> HIDE DEF fn
  <2>3. fn.e \in Code /\ fn.ps \in Seq(Names) /\ fn.caps \in Seq(Names)
    BY <2>2 DEF Fns
  <2>4. c \in Code
    BY <2>3, RewriteTailIs
  <2>5. Keeping(r, fn.e)
    BY <2>3, TailAgrees
  <2>6. o \in Knowledge /\ Paid(o)
    <3> DEFINE P == Elems(fn.ps) \cup Elems(fn.caps)
    <3>1. P \in SUBSET Names
      BY <2>3, ElemsType
    <3>2. o = Entry(P)
      BY DEF EntryOf
    <3> HIDE DEF P
    <3>3. Paid(Entry(P))
      BY DEF Entry, Paid
    <3>4. QED
      BY <3>1, <3>2, <3>3, EntryReady
  <2>7. Empty(After[<<o, fn.e>>])
    BY <2>2, BalancedIs
  <2> HIDE DEF r, o
  <2>8. Agrees(After[<<o, c>>], After[<<o, fn.e>>])
    BY <2>5, <2>6, <2>7 DEF Keeping, Empty
  <2>9. Empty(After[<<o, c>>])
    BY <2>7, <2>8 DEF Agrees, Empty
  <2> HIDE DEF c
  <2>10. g \in Fns /\ g.e = c /\ EntryOf(g) = EntryOf(fn)
    BY <2>2, <2>4, FnFacts
  <2> HIDE DEF g
  <2>11. QED
    BY <2>1, <2>9, <2>10, BalancedIs DEF o
<1>3. QED
  BY <1>1, <1>2 DEF PassInv

\* Whatever the program, once the passes have run every reference is consumed
\* exactly once and every reuse token is consumed, on every path of every
\* function: the contract of src/src/rc.rs, which tail_call_optimize keeps.
THEOREM PassesBalanced == Passes => []EveryPathBalanced
<1>1. Lowered => PassInv
  BY DEF Lowered, PassInv
<1>2. PassInv /\ [InsertRcStep \/ TailCallStep]_<<stage, code>> => PassInv'
  <2> SUFFICES ASSUME PassInv, [InsertRcStep \/ TailCallStep]_<<stage, code>> PROVE PassInv'
    OBVIOUS
  <2>1. CASE InsertRcStep
    BY <2>1, InsertRcKeeps
  <2>2. CASE TailCallStep
    BY <2>2, TailCallKeeps
  <2>3. CASE UNCHANGED <<stage, code>>
    BY <2>3 DEF PassInv
  <2>4. QED
    BY <2>1, <2>2, <2>3
<1>3. PassInv => EveryPathBalanced
  BY DEF PassInv, EveryPathBalanced
<1>4. QED
  BY <1>1, <1>2, <1>3, PTL DEF Passes
=============================================================================
