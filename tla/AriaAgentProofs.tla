--------------------------- MODULE AriaAgentProofs ---------------------------
(* Theorems about AriaAgent, for every limit of the depth, every budget, every *)
(* set of programs whose calls name functions, every set of answers of a      *)
(* model, and every non-empty list of tasks.                                  *)
EXTENDS AriaAgentMeaning, AriaInduction, SequenceTheorems, TLAPS

-----------------------------------------------------------------------------
(* The inductive invariant                                                 *)

\* The code that may be entered: bodies of functions, operands of gradients.
Codes(p) ==
    {<<f>> : f \in DOMAIN p.fns}
        \cup UNION {{<<f, i>> : i \in {j \in DOMAIN p.fns[f] : p.fns[f][j].op \in Gradients}} :
                    f \in DOMAIN p.fns}

Activation(p) ==
    [kind : {"main", "call", "apply", "grad"}, code : Codes(p), n : Nat,
     tracing : BOOLEAN, pc : Nat \ {0}, d : Nat]

Sites(p) ==
    {NoSite} \cup UNION {{Append(code, i) : i \in 1..Len(Body(p, code))} : code \in Codes(p)}
Frames(p) == [function : DOMAIN p.fns \cup {"value", "grad function"}, site : Sites(p)]

RunTypeOK ==
    /\ WellFormed(prog)
    /\ active \in BOOLEAN
    /\ ctl \in Seq(Activation(prog))
    /\ depth \in Nat

\* A run has a call stack; between runs there is nothing.
StackOK ==
    /\ active => callStack = Some(callStack[1]) /\ callStack[1] \in Seq(Frames(prog))
    /\ active => entry.stack = None /\ entry.capture = None
    /\ active /\ ~entry.capturing => capture = None
    /\ ~active => ctl = <<>>

\* main is entered once, at the bottom, and an activation knows its depth; the
\* tape belongs to the one gradient, and what is traced is inside it.
Shape(c, t) ==
    /\ \A i \in DOMAIN c : c[i].d = i - 1 /\ (c[i].kind = "main" <=> i = 1)
    /\ t # None <=> \E i \in DOMAIN c : c[i].kind = "grad"
    /\ \A i, j \in DOMAIN c : c[i].kind = "grad" /\ c[j].kind = "grad" => i = j
    /\ \A j \in DOMAIN c : c[j].tracing => \E k \in 1..j : c[k].kind = "grad"

\* The call stack s belongs to the activations c.
FrameFor(a, site) ==
    CASE a.kind = "grad" -> GradFrame
      [] a.kind = "apply" -> Frame("value", site)
      [] OTHER -> Frame(a.code[1], site)
SiteIn(c, i) == IF i = 1 THEN NoSite ELSE Append(c[i - 1].code, c[i - 1].pc)
Chain(c, s, e) ==
    /\ Len(s) >= Len(c)
    /\ e = NoError => Len(s) = Len(c)
    /\ \A i \in DOMAIN c : s[i] = FrameFor(c[i], SiteIn(c, i))

RunInv ==
    /\ RunTypeOK /\ StackOK
    /\ Shape(ctl, tape) /\ err # "panic"
    /\ active => Chain(ctl, callStack[1], err)
    /\ DepthExact /\ RunsAreIsolated

-----------------------------------------------------------------------------
(* Programs and their code                                                 *)

LEMMA AppendOne ==
  ASSUME NEW a, NEW b
  PROVE  Append(<<a>>, b) = <<a, b>>
<1> DEFINE S == {a, b}
<1>1. <<a>> \in Seq(S) /\ <<a, b>> \in Seq(S) /\ Len(<<a>>) = 1 /\ Len(<<a, b>>) = 2
  OBVIOUS
<1>2. /\ Append(<<a>>, b) \in Seq(S) /\ Len(Append(<<a>>, b)) = 2
      /\ Append(<<a>>, b)[1] = a /\ Append(<<a>>, b)[2] = b
  BY <1>1, AppendProperties
<1>3. \A i \in 1..Len(Append(<<a>>, b)) : Append(<<a>>, b)[i] = <<a, b>>[i]
  BY <1>2
<1>4. QED
  BY <1>1, <1>2, <1>3, SeqEqual, Zenon

LEMMA CodeCases ==
  ASSUME NEW p, NEW code \in Codes(p)
  PROVE  \/ \E f \in DOMAIN p.fns : code = <<f>>
         \/ \E f \in DOMAIN p.fns : \E i \in DOMAIN p.fns[f] :
               code = <<f, i>> /\ p.fns[f][i].op \in Gradients
BY Zenon DEF Codes

LEMMA OperandIsCode ==
  ASSUME NEW p, NEW f \in DOMAIN p.fns, NEW i \in DOMAIN p.fns[f],
         p.fns[f][i].op \in Gradients
  PROVE  <<f, i>> \in Codes(p)
<1> DEFINE Operands(g) == {<<g, k>> : k \in {j \in DOMAIN p.fns[g] : p.fns[g][j].op \in Gradients}}
<1>1. <<f, i>> \in Operands(f)
  OBVIOUS
<1> HIDE DEF Operands
<1>2. <<f, i>> \in UNION {Operands(g) : g \in DOMAIN p.fns}
  BY <1>1, Zenon
<1>3. QED
  BY <1>2, Zenon DEF Codes, Operands

\* What stands in code that may be entered: operations whose functions exist;
\* a gradient only in a body, so its operand is code of the program.
LEMMA BodyOK ==
  ASSUME NEW p, WellFormed(p), NEW code \in Codes(p)
  PROVE  /\ Body(p, code) \in Seq(Operation(p))
         /\ code[1] \in DOMAIN p.fns
         /\ \A i \in 1..Len(Body(p, code)) :
              /\ Body(p, code)[i].op \in Entries =>
                    Body(p, code)[i].f \in DOMAIN p.fns /\ <<Body(p, code)[i].f>> \in Codes(p)
              /\ Body(p, code)[i].op \in Gradients => Append(code, i) \in Codes(p)
<1>1. CASE \E f \in DOMAIN p.fns : code = <<f>>
  <2>1. PICK f \in DOMAIN p.fns : code = <<f>>
    BY <1>1
  <2>2. Body(p, code) = p.fns[f] /\ code[1] = f
    BY <2>1 DEF Body
  <2>3. p.fns[f] \in Seq(Operation(p))
    BY DEF WellFormed
  <2>4. ASSUME NEW i \in 1..Len(p.fns[f])
        PROVE  /\ p.fns[f][i].op \in Entries =>
                     p.fns[f][i].f \in DOMAIN p.fns /\ <<p.fns[f][i].f>> \in Codes(p)
               /\ p.fns[f][i].op \in Gradients => Append(code, i) \in Codes(p)
    <3>1. i \in DOMAIN p.fns[f]
      BY <2>3
    <3>2. p.fns[f][i].op \in Entries => p.fns[f][i].f \in DOMAIN p.fns
      BY <3>1 DEF WellFormed
    <3>3. Append(code, i) = <<f, i>>
      BY <2>1, AppendOne, Zenon
    <3>4. ASSUME p.fns[f][i].op \in Gradients PROVE <<f, i>> \in Codes(p)
      BY <3>1, <3>4, OperandIsCode
    <3>5. QED
      BY <3>2, <3>3, <3>4, Zenon DEF Codes
  <2>5. QED
    BY <2>1, <2>2, <2>3, <2>4
<1>2. CASE \E f \in DOMAIN p.fns : \E i \in DOMAIN p.fns[f] :
              code = <<f, i>> /\ p.fns[f][i].op \in Gradients
  <2>0. PICK f \in DOMAIN p.fns : \E i \in DOMAIN p.fns[f] :
              code = <<f, i>> /\ p.fns[f][i].op \in Gradients
    BY <1>2
  <2>1. PICK i \in DOMAIN p.fns[f] : code = <<f, i>> /\ p.fns[f][i].op \in Gradients
    BY <2>0
  <2> DEFINE g == p.fns[f][i].f
  <2>2. g \in DOMAIN p.fns
    BY <2>1 DEF WellFormed, Entries
  <2>3. <<g>> \in Codes(p)
    BY <2>2, Zenon DEF Codes
  <2>4. Body(p, code) = <<Op("call", g)>> /\ code[1] = f
    BY <2>1 DEF Body
  <2> HIDE DEF g
  <2>5. Op("call", g) \in Operation(p)
    BY <2>2 DEF Op, Operation, Entries
  <2> DEFINE b == <<Op("call", g)>>
  <2>6. b \in Seq(Operation(p)) /\ Len(b) = 1
    BY <2>5
  <2>7. b[1].op = "call" /\ b[1].f = g
    BY DEF Op
  <2> HIDE DEF b
  <2>8. \A j \in 1..Len(b) : b[j].op = "call" /\ b[j].f = g
    BY <2>6, <2>7
  <2>9. "call" \notin Gradients
    BY DEF Gradients
  <2>10. Body(p, code) = b
    BY <2>4 DEF b
  <2>11. QED
    BY <2>1, <2>2, <2>3, <2>4, <2>6, <2>8, <2>9, <2>10, Zenon
<1>3. QED
  BY <1>1, <1>2, CodeCases

-----------------------------------------------------------------------------
(* Activations                                                             *)

LEMMA ModifyTop ==
  ASSUME NEW S, NEW c \in Seq(S), c # <<>>, NEW a \in S,
         NEW d, d = [c EXCEPT ![Len(c)] = a]
  PROVE  /\ d \in Seq(S) /\ Len(d) = Len(c) /\ Len(c) \in 1..Len(c)
         /\ d[Len(c)] = a /\ \A i \in 1..Len(c) : i # Len(c) => d[i] = c[i]
<1>1. Len(c) \in 1..Len(c)
  OBVIOUS
<1>2. QED
  BY <1>1, ExceptSeq

LEMMA PopTop ==
  ASSUME NEW S, NEW c \in Seq(S), c # <<>>
  PROVE  /\ Popped(c) \in Seq(S) /\ Len(Popped(c)) = Len(c) - 1
         /\ \A i \in 1..(Len(c) - 1) : Popped(c)[i] = c[i]
<1>1. PICK m \in Nat : Len(c) = m + 1 /\ \A i \in 1..m : c[i] \in S
  <2>1. Len(c) - 1 \in Nat /\ Len(c) = (Len(c) - 1) + 1
        /\ \A i \in 1..(Len(c) - 1) : c[i] \in S
    OBVIOUS
  <2>2. QED
    BY <2>1
<1>2. Len(c) - 1 = m
  BY <1>1
<1> DEFINE d == SubSeq(c, 1, m)
<1>3. /\ d \in Seq(S)
      /\ Len(d) = IF 1 <= m THEN m - 1 + 1 ELSE 0
      /\ \A i \in 1..(m - 1 + 1) : d[i] = c[1 + i - 1]
  BY <1>1, SubSeqProperties
<1> HIDE DEF d
<1>4. Len(d) = m
  BY <1>3
<1>5. \A i \in 1..m : d[i] = c[i]
  <2>1. \A i \in 1..m : i \in 1..(m - 1 + 1) /\ 1 + i - 1 = i
    OBVIOUS
  <2>2. QED
    BY <1>3, <2>1
<1>6. QED
  BY <1>2, <1>3, <1>4, <1>5 DEF Popped, d

LEMMA PushTop ==
  ASSUME NEW S, NEW c \in Seq(S), NEW a \in S
  PROVE  /\ Append(c, a) \in Seq(S) /\ Len(Append(c, a)) = Len(c) + 1
         /\ Append(c, a)[Len(c) + 1] = a
         /\ \A i \in 1..Len(c) : Append(c, a)[i] = c[i]
BY AppendProperties

\* The top may move on within its code.
LEMMA ShapeModify ==
  ASSUME NEW S, NEW c \in Seq(S), c # <<>>, NEW a \in S, NEW t, Shape(c, t),
         a.kind = c[Len(c)].kind, a.d = c[Len(c)].d, a.tracing = c[Len(c)].tracing
  PROVE  Shape([c EXCEPT ![Len(c)] = a], t)
<1> DEFINE d == [c EXCEPT ![Len(c)] = a]
           n == Len(c)
<1>1. d \in Seq(S) /\ Len(d) = n /\ n \in Nat
  BY ModifyTop
<1>2. DOMAIN c = 1..n /\ DOMAIN d = 1..n
  BY <1>1
<1>3. \A i \in 1..n : d[i].kind = c[i].kind /\ d[i].d = c[i].d /\ d[i].tracing = c[i].tracing
  BY ModifyTop
<1> HIDE DEF d, n
<1>4. \A i \in 1..n : d[i].d = i - 1 /\ (d[i].kind = "main" <=> i = 1)
  BY <1>2, <1>3 DEF Shape
<1>5. t # None <=> \E i \in 1..n : d[i].kind = "grad"
  BY <1>2, <1>3 DEF Shape
<1>6. \A i, j \in 1..n : d[i].kind = "grad" /\ d[j].kind = "grad" => i = j
  BY <1>2, <1>3 DEF Shape
<1>7. ASSUME NEW j \in 1..n, d[j].tracing PROVE \E k \in 1..j : d[k].kind = "grad"
  <2>1. PICK k \in 1..j : c[k].kind = "grad"
    BY <1>2, <1>3, <1>7 DEF Shape
  <2>2. k \in 1..n
    BY <1>1
  <2>3. QED
    BY <2>1, <2>2, <1>3
<1>8. Shape(d, t)
  BY <1>2, <1>4, <1>5, <1>6, <1>7 DEF Shape
<1>9. QED
  BY <1>8 DEF d, n

LEMMA ChainModify ==
  ASSUME NEW S, NEW c \in Seq(S), c # <<>>, NEW a \in S, NEW s, NEW e, Chain(c, s, e),
         a.kind = c[Len(c)].kind, a.code = c[Len(c)].code
  PROVE  Chain([c EXCEPT ![Len(c)] = a], s, e)
<1> DEFINE d == [c EXCEPT ![Len(c)] = a]
           n == Len(c)
<1>1. d \in Seq(S) /\ Len(d) = n /\ n \in Nat
  BY ModifyTop
<1>2. DOMAIN c = 1..n /\ DOMAIN d = 1..n
  BY <1>1
<1>3. \A i \in 1..n : i # n => d[i] = c[i]
  BY ModifyTop
<1>4. \A i \in 1..n : d[i].kind = c[i].kind /\ d[i].code = c[i].code
  BY ModifyTop
<1> HIDE DEF d
<1>5. ASSUME NEW i \in 1..n PROVE FrameFor(d[i], SiteIn(d, i)) = FrameFor(c[i], SiteIn(c, i))
  <2>1. SiteIn(d, i) = SiteIn(c, i)
    <3>1. CASE i = 1
      BY <3>1 DEF SiteIn
    <3>2. CASE i # 1
      <4>1. i - 1 \in 1..n /\ i - 1 # n
        BY <3>2, <1>1
      <4>2. QED
        BY <4>1, <3>2, <1>3 DEF SiteIn
    <3>3. QED
      BY <3>1, <3>2
  <2>2. QED
    BY <2>1, <1>4 DEF FrameFor
<1>6. Chain(d, s, e)
  BY <1>1, <1>2, <1>5 DEF Chain
<1>7. QED
  BY <1>6 DEF d

\* An activation is opened.
LEMMA ShapePush ==
  ASSUME NEW S, NEW c \in Seq(S), c # <<>>, NEW a \in S, NEW t, NEW u, Shape(c, t),
         a.kind # "main", a.d = Len(c),
         IF a.kind = "grad" THEN t = None /\ u # None ELSE u = t,
         a.tracing => a.kind = "grad" \/ \E i \in DOMAIN c : c[i].kind = "grad"
  PROVE  Shape(Append(c, a), u)
<1> DEFINE d == Append(c, a)
           n == Len(c)
<1>1. d \in Seq(S) /\ Len(d) = n + 1 /\ n \in Nat /\ n # 0
  BY PushTop
<1>2. DOMAIN c = 1..n /\ DOMAIN d = 1..(n + 1)
  BY <1>1
<1>3. d[n + 1] = a /\ \A i \in 1..n : d[i] = c[i]
  BY PushTop
<1>4. a.d = n
  OBVIOUS
<1> HIDE DEF d, n
<1>5. \A i \in 1..(n + 1) : i = n + 1 \/ i \in 1..n
  BY <1>1
<1>6. \A i \in 1..(n + 1) : d[i].d = i - 1 /\ (d[i].kind = "main" <=> i = 1)
  <2>1. \A i \in 1..n : d[i].d = i - 1 /\ (d[i].kind = "main" <=> i = 1)
    BY <1>2, <1>3 DEF Shape
  <2>2. d[n + 1].d = (n + 1) - 1 /\ d[n + 1].kind # "main" /\ n + 1 # 1
    BY <1>1, <1>3, <1>4
  <2>3. QED
    BY <2>1, <2>2, <1>5
<1>7. u # None <=> \E i \in 1..(n + 1) : d[i].kind = "grad"
  <2>1. t # None <=> \E i \in 1..n : c[i].kind = "grad"
    BY <1>2 DEF Shape
  <2>2. n + 1 \in 1..(n + 1) /\ \A i \in 1..n : i \in 1..(n + 1)
    BY <1>1
  <2>3. CASE a.kind = "grad"
    BY <2>2, <2>3, <1>3
  <2>4. CASE a.kind # "grad"
    BY <2>1, <2>2, <2>4, <1>3, <1>5
  <2>5. QED
    BY <2>3, <2>4
<1>8. \A i, j \in 1..(n + 1) : d[i].kind = "grad" /\ d[j].kind = "grad" => i = j
  BY <1>1, <1>2, <1>3, <1>5, SMTT(40) DEF Shape
<1>9. ASSUME NEW j \in 1..(n + 1), d[j].tracing PROVE \E k \in 1..j : d[k].kind = "grad"
  BY <1>1, <1>2, <1>3, <1>5, <1>9 DEF Shape
<1>10. Shape(d, u)
  BY <1>2, <1>6, <1>7, <1>8, <1>9 DEF Shape
<1>11. QED
  BY <1>10 DEF d

LEMMA ChainPush ==
  ASSUME NEW S, NEW c \in Seq(S), c # <<>>, NEW a \in S,
         NEW T, NEW s \in Seq(T), NEW f \in T, Chain(c, s, NoError),
         f = FrameFor(a, Append(c[Len(c)].code, c[Len(c)].pc))
  PROVE  /\ Chain(Append(c, a), Append(s, f), NoError)
         /\ \A e : e # NoError => Chain(c, Append(s, f), e)
<1> DEFINE d == Append(c, a)
           n == Len(c)
           r == Append(s, f)
<1>1. d \in Seq(S) /\ Len(d) = n + 1 /\ n \in Nat /\ n # 0
  BY PushTop
<1>2. DOMAIN c = 1..n /\ DOMAIN d = 1..(n + 1)
  BY <1>1
<1>3. d[n + 1] = a /\ \A i \in 1..n : d[i] = c[i]
  BY PushTop
<1>4. Len(s) = n
  BY DEF Chain
<1>5. Len(r) = n + 1 /\ r[n + 1] = f /\ \A i \in 1..n : r[i] = s[i]
  BY <1>4, PushTop
<1> DEFINE site == Append(c[n].code, c[n].pc)
<1>6. f = FrameFor(a, site)
  OBVIOUS
<1>7. SiteIn(d, n + 1) = site
  BY <1>1, <1>3 DEF SiteIn
<1> HIDE DEF d, r, site
<1>8. ASSUME NEW i \in 1..n PROVE SiteIn(d, i) = SiteIn(c, i)
  <2>1. i = 1 \/ i - 1 \in 1..n
    BY <1>1
  <2>2. QED
    BY <2>1, <1>3 DEF SiteIn
<1>9. \A i \in 1..n : s[i] = FrameFor(c[i], SiteIn(c, i))
  BY <1>2 DEF Chain
<1> HIDE DEF n
<1>10. \A i \in 1..n : r[i] = FrameFor(d[i], SiteIn(d, i)) /\ r[i] = FrameFor(c[i], SiteIn(c, i))
  BY <1>3, <1>5, <1>8, <1>9
<1>11. r[n + 1] = FrameFor(d[n + 1], SiteIn(d, n + 1))
  BY <1>3, <1>5, <1>6, <1>7
<1>12. \A i \in 1..(n + 1) : r[i] = FrameFor(d[i], SiteIn(d, i))
  BY <1>1, <1>10, <1>11
<1>13. Chain(d, r, NoError)
  BY <1>1, <1>2, <1>5, <1>12 DEF Chain
<1>14. \A e : e # NoError => Chain(c, r, e)
  BY <1>1, <1>2, <1>5, <1>10 DEF Chain, n
<1>15. QED
  BY <1>13, <1>14 DEF d, r

\* An activation is closed.
LEMMA ShapePop ==
  ASSUME NEW S, NEW c \in Seq(S), c # <<>>, NEW t, Shape(c, t)
  PROVE  Shape(Popped(c), IF c[Len(c)].kind = "grad" THEN None ELSE t)
<1> DEFINE d == Popped(c)
           n == Len(c)
           u == IF c[n].kind = "grad" THEN None ELSE t
<1>1. d \in Seq(S) /\ Len(d) = n - 1 /\ n \in Nat /\ n # 0
  BY PopTop
<1>2. DOMAIN c = 1..n /\ DOMAIN d = 1..(n - 1)
  BY <1>1
<1>3. \A i \in 1..(n - 1) : d[i] = c[i]
  BY PopTop
<1> HIDE DEF d, n
<1>4. \A i \in 1..(n - 1) : i \in 1..n /\ i # n
  BY <1>1
<1>5. n \in 1..n /\ \A i \in 1..n : i = n \/ i \in 1..(n - 1)
  BY <1>1
<1>6. \A i \in 1..(n - 1) : d[i].d = i - 1 /\ (d[i].kind = "main" <=> i = 1)
  BY <1>2, <1>3, <1>4 DEF Shape
<1>7. u # None <=> \E i \in 1..(n - 1) : d[i].kind = "grad"
  BY <1>2, <1>3, <1>4, <1>5 DEF Shape
<1>8. \A i, j \in 1..(n - 1) : d[i].kind = "grad" /\ d[j].kind = "grad" => i = j
  BY <1>2, <1>3, <1>4 DEF Shape
<1>9. ASSUME NEW j \in 1..(n - 1), d[j].tracing PROVE \E k \in 1..j : d[k].kind = "grad"
  <2>1. PICK k \in 1..j : c[k].kind = "grad"
    BY <1>2, <1>3, <1>4, <1>9 DEF Shape
  <2>2. k \in 1..(n - 1)
    BY <1>1
  <2>3. QED
    BY <2>1, <2>2, <1>3
<1>10. Shape(d, u)
  BY <1>2, <1>6, <1>7, <1>8, <1>9 DEF Shape
<1>11. QED
  BY <1>10 DEF d, n

LEMMA ChainPop ==
  ASSUME NEW S, NEW c \in Seq(S), c # <<>>, NEW T, NEW s \in Seq(T), NEW e, Chain(c, s, e)
  PROVE  /\ e = NoError => Chain(Popped(c), Popped(s), NoError)
         /\ e # NoError => Chain(Popped(c), s, e)
<1> DEFINE d == Popped(c)
           n == Len(c)
<1>1. d \in Seq(S) /\ Len(d) = n - 1 /\ n \in Nat /\ n # 0
  BY PopTop
<1>2. DOMAIN c = 1..n /\ DOMAIN d = 1..(n - 1)
  BY <1>1
<1>3. \A i \in 1..(n - 1) : d[i] = c[i]
  BY PopTop
<1>4. Len(s) \in Nat /\ Len(s) >= n /\ (e = NoError => Len(s) = n)
  BY DEF Chain
<1>5. ASSUME e = NoError
      PROVE  Len(Popped(s)) = n - 1 /\ \A i \in 1..(n - 1) : Popped(s)[i] = s[i]
  <2>1. s # <<>>
    BY <1>1, <1>4, <1>5
  <2>2. QED
    BY <2>1, <1>4, <1>5, PopTop
<1> HIDE DEF d
<1>6. ASSUME NEW i \in 1..(n - 1) PROVE SiteIn(d, i) = SiteIn(c, i)
  <2>1. i = 1 \/ i - 1 \in 1..(n - 1)
    BY <1>1
  <2>2. QED
    BY <2>1, <1>3 DEF SiteIn
<1>7. \A i \in 1..n : s[i] = FrameFor(c[i], SiteIn(c, i))
  BY <1>2 DEF Chain
<1> HIDE DEF n
<1>8. \A i \in 1..(n - 1) : s[i] = FrameFor(d[i], SiteIn(d, i))
  BY <1>1, <1>3, <1>6, <1>7
<1>9. e = NoError => Chain(d, Popped(s), NoError)
  BY <1>1, <1>2, <1>5, <1>8 DEF Chain
<1>10. e # NoError => Chain(d, s, e)
  BY <1>1, <1>2, <1>4, <1>8 DEF Chain
<1>11. QED
  BY <1>9, <1>10 DEF d

-----------------------------------------------------------------------------
(* The steps of a run                                                      *)

LEMMA SomeOK ==
  ASSUME NEW s, NEW t, t = Some(s)
  PROVE  t = Some(t[1]) /\ t[1] = s /\ t # None
<1>1. t[1] = s
  BY DEF Some
<1>2. Some(s) # None
  BY DEF Some, None
<1>3. QED
  BY <1>1, <1>2

\* The parts of the invariant, unfolded for the provers.
LEMMA Parts ==
  ASSUME RunInv
  PROVE  /\ WellFormed(prog) /\ active \in BOOLEAN /\ depth \in Nat
         /\ ctl \in Seq(Activation(prog)) /\ Len(ctl) \in Nat /\ DOMAIN ctl = 1..Len(ctl)
         /\ Shape(ctl, tape) /\ err # "panic"
         /\ active => /\ callStack[1] \in Seq(Frames(prog))
                      /\ callStack = Some(callStack[1]) /\ callStack # None
                      /\ Chain(ctl, callStack[1], err)
                      /\ entry.stack = None /\ entry.capture = None
                      /\ depth = (IF ctl = <<>> THEN 0 ELSE Len(ctl) - 1)
                      /\ depth <= MAX_CALL_DEPTH
                      /\ ~entry.capturing => capture = None
         /\ ~active => /\ ctl = <<>> /\ callStack = None /\ capture = None /\ tape = None
<1>1. active => callStack = Some(callStack[1]) /\ callStack[1] \in Seq(Frames(prog))
  BY DEF RunInv, StackOK
<1>2. active => callStack # None
  BY <1>1, SomeOK, Zenon
<1>3. ctl \in Seq(Activation(prog)) /\ Len(ctl) \in Nat /\ DOMAIN ctl = 1..Len(ctl)
  BY DEF RunInv, RunTypeOK
<1>4. QED
  BY <1>1, <1>2, <1>3 DEF RunInv, RunTypeOK, StackOK, DepthExact, RunsAreIsolated

LEMMA TopOK ==
  ASSUME RunInv, ctl # <<>>
  PROVE  /\ Top \in Activation(prog) /\ Len(ctl) \in 1..Len(ctl)
         /\ Top.d = Len(ctl) - 1 /\ (Top.kind = "main" <=> Len(ctl) = 1)
<1>1. Len(ctl) \in 1..Len(ctl) /\ ctl[Len(ctl)] \in Activation(prog)
  BY Parts
<1>2. QED
  BY <1>1, Parts DEF Shape, Top

\* An operation that is about to be performed.
LEMMA HereOK ==
  ASSUME RunInv, ctl # <<>>, ~Finished
  PROVE  /\ Top.n \in Nat /\ Top.n - 1 \in Nat /\ Top.pc \in 1..Len(Body(prog, Top.code))
         /\ Here \in Operation(prog) /\ Site = Append(Top.code, Top.pc)
         /\ Here.op \in Entries => Here.f \in DOMAIN prog.fns /\ <<Here.f>> \in Codes(prog)
         /\ Here.op \in Gradients => Site \in Codes(prog)
<1>1. Top \in Activation(prog)
  BY TopOK
<1>2. /\ Top.code \in Codes(prog) /\ Top.n \in Nat /\ Top.pc \in Nat \ {0}
  BY <1>1 DEF Activation
<1> DEFINE b == Body(prog, Top.code)
<1>3. Top.n # 0 /\ ~(Top.pc > Len(b))
  BY DEF Finished
<1>4. /\ b \in Seq(Operation(prog))
      /\ \A i \in 1..Len(b) :
              /\ b[i].op \in Entries => b[i].f \in DOMAIN prog.fns /\ <<b[i].f>> \in Codes(prog)
              /\ b[i].op \in Gradients => Append(Top.code, i) \in Codes(prog)
  BY <1>2, Parts, BodyOK
<1> HIDE DEF b
<1>5. Top.pc \in 1..Len(b)
  BY <1>2, <1>3, <1>4
<1>6. Here = b[Top.pc]
  BY DEF Here, b
<1>7. b[Top.pc] \in Operation(prog)
  BY <1>4, <1>5
<1>8. Top.pc \in 1..Len(Body(prog, Top.code))
  BY <1>5 DEF b
<1>9. QED
  BY <1>2, <1>3, <1>4, <1>5, <1>6, <1>7, <1>8 DEF Site

\* A step that moves the top on within its code, and touches nothing else of
\* what the invariant is about but the tape's nodes.
LEMMA MoveOn ==
  ASSUME RunInv, active, ctl # <<>>, NEW a \in Activation(prog),
         a.kind = Top.kind, a.code = Top.code, a.d = Top.d, a.tracing = Top.tracing,
         ctl' = [ctl EXCEPT ![Len(ctl)] = a],
         UNCHANGED <<prog, active, entry, err, depth, callStack>>,
         tape' # None <=> tape # None,
         capture = None => capture' = None
  PROVE  RunInv'
<1> DEFINE S == Activation(prog)
<1>1. a \in S
  OBVIOUS
<1> HIDE DEF S
<1>2. ctl \in Seq(S)
  BY Parts DEF S
<1>3. ctl' \in Seq(S) /\ Len(ctl') = Len(ctl)
  BY <1>1, <1>2, ModifyTop
<1>4. /\ a.kind = ctl[Len(ctl)].kind /\ a.code = ctl[Len(ctl)].code
       /\ a.d = ctl[Len(ctl)].d /\ a.tracing = ctl[Len(ctl)].tracing
  BY DEF Top
<1>5. Shape(ctl, tape) /\ Chain(ctl, callStack[1], err)
  BY Parts
<1>6. Shape(ctl', tape)
  <2>1. Shape([ctl EXCEPT ![Len(ctl)] = a], tape)
    BY <1>1, <1>2, <1>4, <1>5, ShapeModify
  <2>2. QED
    BY <2>1, Zenon
<1>7. Shape(ctl', tape')
  BY <1>6 DEF Shape
<1>8. Chain(ctl', callStack[1], err)
  <2>1. Chain([ctl EXCEPT ![Len(ctl)] = a], callStack[1], err)
    BY <1>1, <1>2, <1>4, <1>5, ChainModify
  <2>2. QED
    BY <2>1, Zenon
<1>9. ctl' # <<>>
  BY <1>2, <1>3
<1>10. RunTypeOK' /\ StackOK'
  BY <1>3, Parts DEF RunInv, RunTypeOK, StackOK, S
<1>11. DepthExact' /\ RunsAreIsolated'
  BY <1>3, <1>9, Parts DEF DepthExact, RunsAreIsolated
<1>12. QED
  BY <1>7, <1>8, <1>10, <1>11, Parts DEF RunInv

\* An error is raised: nothing moves but err, and perhaps the stack gets the
\* frame of the call that was refused.
LEMMA RaiseError ==
  ASSUME RunInv, active, err = NoError, err' \notin {NoError, "panic"},
         UNCHANGED <<prog, active, entry, ctl, depth, capture, tape>>,
         \/ callStack' = callStack
         \/ \E f \in Frames(prog) : callStack' = Some(Append(callStack[1], f))
  PROVE  RunInv'
<1> DEFINE s == callStack[1]
           T == Frames(prog)
<1>1. s \in Seq(T) /\ callStack = Some(s) /\ Chain(ctl, s, NoError)
  BY Parts
<1>2. PICK r \in Seq(T) : callStack' = Some(r) /\ Chain(ctl, r, err')
  <2>1. CASE callStack' = callStack
    <3>1. Chain(ctl, s, err')
      BY <1>1 DEF Chain
    <3>2. QED
      BY <3>1, <2>1, <1>1
  <2>2. CASE \E f \in T : callStack' = Some(Append(s, f))
    <3>1. PICK f \in T : callStack' = Some(Append(s, f))
      BY <2>2
    <3>2. /\ Append(s, f) \in Seq(T) /\ Len(Append(s, f)) = Len(s) + 1
          /\ \A i \in 1..Len(s) : Append(s, f)[i] = s[i]
      BY <1>1, PushTop
    <3> DEFINE r == Append(s, f)
    <3> HIDE DEF r, s, T
    <3>3. r \in Seq(T) /\ Len(r) = Len(s) + 1 /\ \A i \in 1..Len(s) : r[i] = s[i]
      BY <3>2 DEF r
    <3>4. Len(ctl) = Len(s) /\ DOMAIN ctl = 1..Len(ctl) /\ Len(ctl) \in Nat
      BY <1>1, Parts DEF Chain
    <3>5. \A i \in DOMAIN ctl : r[i] = FrameFor(ctl[i], SiteIn(ctl, i))
      BY <1>1, <3>3, <3>4 DEF Chain
    <3>6. Len(r) >= Len(ctl)
      BY <3>3, <3>4
    <3>7. Chain(ctl, r, err')
      BY <3>5, <3>6 DEF Chain
    <3>8. QED
      BY <3>1, <3>3, <3>7 DEF r
  <2>3. QED
    BY <2>1, <2>2
<1>3. callStack'[1] = r
  BY <1>2 DEF Some
<1> HIDE DEF s, T
<1>4. RunTypeOK'
  BY Parts DEF RunInv, RunTypeOK
<1>5. StackOK'
  <2>1. callStack' = Some(callStack'[1]) /\ callStack'[1] = r
    BY <1>2, SomeOK, Zenon
  <2>2. QED
    BY <1>2, <2>1, Parts DEF StackOK, T
<1>6. DepthExact' /\ RunsAreIsolated'
  BY Parts DEF RunInv, DepthExact, RunsAreIsolated
<1>7. Shape(ctl', tape') /\ err' # "panic" /\ (active' => Chain(ctl', callStack'[1], err'))
  BY <1>2, <1>3, Parts
<1>8. QED
  BY <1>4, <1>5, <1>6, <1>7 DEF RunInv

LEMMA EmitLineStep ==
  ASSUME RunInv, EmitLine
  PROVE  RunInv'
<1> DEFINE a == [Top EXCEPT !.pc = @ + 1]
<1>1. active /\ ctl # <<>> /\ Top \in Activation(prog)
  BY TopOK DEF EmitLine, At
<1>2. /\ a \in Activation(prog) /\ a.kind = Top.kind /\ a.code = Top.code
      /\ a.d = Top.d /\ a.tracing = Top.tracing
  BY <1>1 DEF Activation
<1>3. ctl' = [ctl EXCEPT ![Len(ctl)] = a]
  BY <1>1 DEF EmitLine, Advanced, Top
<1>4. capture = None => capture' = None
  BY DEF EmitLine
<1> HIDE DEF a
<1>5. UNCHANGED <<prog, active, entry, err, depth, callStack, tape>>
  BY DEF EmitLine
<1>6. QED
  BY <1>1, <1>2, <1>3, <1>4, <1>5, MoveOn

LEMMA TrapStep ==
  ASSUME RunInv, Trap
  PROVE  RunInv'
BY RaiseError DEF Trap, At, NoError

\* A tracing value is inside a gradient, so there is a tape.
LEMMA ArithmeticStep ==
  ASSUME RunInv, Arithmetic
  PROVE  RunInv'
<1> DEFINE a == [Top EXCEPT !.pc = @ + 1]
<1>1. active /\ ctl # <<>> /\ Top \in Activation(prog) /\ Len(ctl) \in 1..Len(ctl)
  BY TopOK DEF Arithmetic, At
<1>2. /\ a \in Activation(prog) /\ a.kind = Top.kind /\ a.code = Top.code
      /\ a.d = Top.d /\ a.tracing = Top.tracing
  BY <1>1 DEF Activation
<1>3. Top.tracing => tape # None
  <2> SUFFICES ASSUME Top.tracing PROVE tape # None
    OBVIOUS
  <2>1. PICK k \in 1..Len(ctl) : ctl[k].kind = "grad"
    BY <1>1, Parts DEF Shape, Top
  <2>2. QED
    BY <2>1, Parts DEF Shape
<1>4. ctl' = Advanced(ctl) /\ UNCHANGED err /\ (tape' = tape \/ tape' = Some(tape[1] + 1))
  BY <1>3 DEF Arithmetic
<1>5. ctl' = [ctl EXCEPT ![Len(ctl)] = a]
  BY <1>1, <1>4 DEF Advanced, Top
<1>6. tape' # None <=> tape # None
  <2>1. Some(tape[1] + 1) # None
    BY DEF Some, None
  <2>2. QED
    BY <2>1, <1>3 DEF Arithmetic
<1>7. UNCHANGED <<prog, active, entry, err, depth, callStack, capture>>
  BY <1>4 DEF Arithmetic
<1> HIDE DEF a
<1>8. QED
  BY <1>1, <1>2, <1>5, <1>6, <1>7, MoveOn

LEMMA TailSelfCallStep ==
  ASSUME RunInv, TailSelfCall
  PROVE  RunInv'
<1>1. active /\ ctl # <<>> /\ ~Finished
  BY DEF TailSelfCall, At
<1>2. Top \in Activation(prog) /\ Top.n - 1 \in Nat
  BY <1>1, TopOK, HereOK
<1> DEFINE m == Top.n - 1
           a == [Top EXCEPT !.n = m, !.pc = 1]
<1> HIDE DEF m
<1>3. /\ a \in Activation(prog) /\ a.kind = Top.kind /\ a.code = Top.code
      /\ a.d = Top.d /\ a.tracing = Top.tracing
  <2>1. m \in Nat
    BY <1>2 DEF m
  <2> DEFINE b == [Top EXCEPT !.n = m]
  <2>2. /\ b \in Activation(prog) /\ b.kind = Top.kind /\ b.code = Top.code
        /\ b.d = Top.d /\ b.tracing = Top.tracing
    BY <1>2, <2>1 DEF Activation
  <2>3. a = [b EXCEPT !.pc = 1]
    OBVIOUS
  <2> HIDE DEF a, b
  <2>4. QED
    BY <2>2, <2>3 DEF Activation
<1>4. ctl' = [ctl EXCEPT ![Len(ctl)] = a]
  BY <1>1, Parts, TopOK DEF TailSelfCall, Top, m
<1>5. UNCHANGED <<prog, active, entry, err, depth, callStack, capture, tape>>
  BY DEF TailSelfCall
<1> HIDE DEF a
<1>6. QED
  BY <1>1, <1>3, <1>4, <1>5, MoveOn

\* A call, in whichever way: the frame is pushed, and then the activation is
\* opened or the limit of the depth reached.
LEMMA OpenStep ==
  ASSUME RunInv, active, err = NoError, ctl # <<>>,
         NEW frame \in Frames(prog), NEW kind \in {"call", "apply", "grad"},
         NEW code \in Codes(prog), NEW n \in Nat, NEW tracing \in BOOLEAN,
         Open(frame, kind, code, n, tracing),
         frame = FrameFor([kind |-> kind, code |-> code, n |-> n, tracing |-> tracing,
                           pc |-> 1, d |-> depth + 1],
                          Append(Top.code, Top.pc)),
         tracing => kind = "grad" \/ Top.tracing,
         IF kind = "grad"
         THEN tape = None /\ tape' = IF TooDeep(depth + 1) THEN None ELSE Some(1)
         ELSE tape' = tape,
         UNCHANGED <<prog, active, entry, capture>>
  PROVE  RunInv'
<1> DEFINE s == callStack[1]
           T == Frames(prog)
           S == Activation(prog)
           a == [kind |-> kind, code |-> code, n |-> n, tracing |-> tracing,
                 pc |-> 1, d |-> depth + 1]
<1>1. s \in Seq(T) /\ Chain(ctl, s, NoError) /\ callStack # None
  BY Parts
<1>2. callStack' = Some(Append(s, frame))
  BY <1>1 DEF Open, PushFrame
<1>3. CASE TooDeep(depth + 1)
  <2>1. err' = "limit" /\ UNCHANGED <<ctl, depth>>
    BY <1>3 DEF Open
  <2>2. tape' = tape
    BY <1>3
  <2>3. err' \notin {NoError, "panic"}
    BY <2>1 DEF NoError
  <2>4. QED
    BY <1>2, <2>1, <2>2, <2>3, RaiseError
<1>4. CASE ~TooDeep(depth + 1)
  <2>1. depth' = depth + 1 /\ ctl' = Append(ctl, a) /\ err' = err
    BY <1>4 DEF Open
  <2>2. depth = Len(ctl) - 1 /\ Len(ctl) \in Nat /\ ctl \in Seq(S) /\ depth \in Nat
    BY Parts
  <2>3. a \in S
    BY <2>2 DEF Activation
  <2>4. a.kind = kind /\ a.tracing = tracing /\ a.d = Len(ctl)
    BY <2>2
  <2>5. a.tracing => a.kind = "grad" \/ \E i \in DOMAIN ctl : ctl[i].kind = "grad"
    <3> SUFFICES ASSUME Top.tracing PROVE \E i \in DOMAIN ctl : ctl[i].kind = "grad"
      BY <2>4
    <3>1. PICK k \in 1..Len(ctl) : ctl[k].kind = "grad"
      BY TopOK, Parts DEF Shape, Top
    <3>2. QED
      BY <3>1, Parts
  <2>6. IF kind = "grad" THEN tape = None /\ tape' # None ELSE tape' = tape
    BY <1>4 DEF Some, None
  <2> HIDE DEF a, S, T, s
  <2>7. Shape(Append(ctl, a), tape')
    <3>1. Shape(ctl, tape)
      BY Parts
    <3>2. kind # "main"
      OBVIOUS
    <3>3. QED
      BY <2>2, <2>3, <2>4, <2>5, <2>6, <3>1, <3>2, ShapePush
  <2>8. /\ Append(s, frame) \in Seq(T)
        /\ Chain(Append(ctl, a), Append(s, frame), NoError)
    <3>1. frame \in T /\ frame = FrameFor(a, Append(ctl[Len(ctl)].code, ctl[Len(ctl)].pc))
      BY DEF T, a, Top
    <3>2. Append(s, frame) \in Seq(T)
      BY <1>1, <3>1, PushTop
    <3>3. QED
      BY <1>1, <2>2, <2>3, <3>1, <3>2, ChainPush
  <2>9. ctl' \in Seq(S) /\ Len(ctl') = Len(ctl) + 1 /\ ctl' # <<>>
    BY <2>1, <2>2, <2>3, AppendProperties
  <2>10. RunTypeOK'
    BY <2>1, <2>2, <2>9, Parts DEF RunTypeOK, S
  <2>11. StackOK'
    <3>1. callStack' = Some(callStack'[1]) /\ callStack'[1] = Append(s, frame)
      BY <1>2, SomeOK, Zenon
    <3>2. QED
      BY <2>1, <2>8, <3>1, Parts DEF StackOK, T
  <2>12. DepthExact'
    <3>1. depth' = Len(ctl') - 1 /\ depth' <= MAX_CALL_DEPTH
      BY <1>4, <2>1, <2>2, <2>9, DepthAssumption DEF TooDeep
    <3>2. QED
      BY <2>9, <3>1 DEF DepthExact
  <2>13. RunsAreIsolated'
    BY DEF RunsAreIsolated
  <2>14. callStack'[1] = Append(s, frame)
    BY <1>2 DEF Some
  <2>15. Shape(ctl', tape') /\ err' # "panic" /\ Chain(ctl', callStack'[1], err')
    BY <2>1, <2>7, <2>8, <2>14, Parts DEF NoError
  <2>16. QED
    BY <2>10, <2>11, <2>12, <2>13, <2>15 DEF RunInv
<1>5. QED
  BY <1>3, <1>4

LEMMA FrameOK ==
  ASSUME NEW p, NEW function, function \in DOMAIN p.fns \cup {"value", "grad function"}, NEW site,
         site = NoSite \/ \E code \in Codes(p) : \E i \in 1..Len(Body(p, code)) : site = Append(code, i)
  PROVE  Frame(function, site) \in Frames(p)
<1>1. site \in Sites(p)
  <2>1. CASE site = NoSite
    BY <2>1, Zenon DEF Sites
  <2>2. CASE \E code \in Codes(p) : \E i \in 1..Len(Body(p, code)) : site = Append(code, i)
    <3>1. PICK code \in Codes(p) : \E i \in 1..Len(Body(p, code)) : site = Append(code, i)
      BY <2>2
    <3>2. site \in {Append(code, i) : i \in 1..Len(Body(p, code))}
      BY <3>1, Zenon
    <3>3. QED
      BY <3>2, Zenon DEF Sites
  <2>3. QED
    BY <2>1, <2>2
<1>2. QED
  BY <1>1 DEF Frame, Frames

LEMMA CallStep ==
  ASSUME RunInv, Call
  PROVE  RunInv'
<1>1. active /\ err = NoError /\ ctl # <<>> /\ ~Finished /\ Here.op = "call"
  BY DEF Call, At
<1>2. /\ Here.f \in DOMAIN prog.fns /\ <<Here.f>> \in Codes(prog) /\ Top.n - 1 \in Nat
      /\ Top.pc \in 1..Len(Body(prog, Top.code))
      /\ Site = Append(Top.code, Top.pc)
  BY <1>1, HereOK DEF Entries
<1>3. Top.tracing \in BOOLEAN /\ Top.code \in Codes(prog)
  BY <1>1, TopOK DEF Activation
<1>4. Frame(Here.f, Site) \in Frames(prog)
  BY <1>2, <1>3, FrameOK
<1>5. Frame(Here.f, Site) =
        FrameFor([kind |-> "call", code |-> <<Here.f>>, n |-> Top.n - 1,
                  tracing |-> Top.tracing, pc |-> 1, d |-> depth + 1], Append(Top.code, Top.pc))
  BY <1>2 DEF FrameFor
<1>6. /\ Open(Frame(Here.f, Site), "call", <<Here.f>>, Top.n - 1, Top.tracing)
      /\ tape' = tape /\ UNCHANGED <<prog, active, entry, capture>>
  BY DEF Call
<1>7. QED
  BY <1>1, <1>2, <1>3, <1>4, <1>5, <1>6, OpenStep

LEMMA ApplyStep ==
  ASSUME RunInv, Apply
  PROVE  RunInv'
<1>1. active /\ err = NoError /\ ctl # <<>> /\ ~Finished /\ Here.op = "apply"
  BY DEF Apply, At
<1>2. /\ Here.f \in DOMAIN prog.fns /\ <<Here.f>> \in Codes(prog) /\ Top.n - 1 \in Nat
      /\ Top.pc \in 1..Len(Body(prog, Top.code))
      /\ Site = Append(Top.code, Top.pc)
  BY <1>1, HereOK DEF Entries
<1>3. Top.tracing \in BOOLEAN /\ Top.code \in Codes(prog)
  BY <1>1, TopOK DEF Activation
<1>4. Frame("value", Site) \in Frames(prog)
  BY <1>2, <1>3, FrameOK
<1>5. Frame("value", Site) =
        FrameFor([kind |-> "apply", code |-> <<Here.f>>, n |-> Top.n - 1,
                  tracing |-> Top.tracing, pc |-> 1, d |-> depth + 1], Append(Top.code, Top.pc))
  BY <1>2 DEF FrameFor
<1>6. /\ Open(Frame("value", Site), "apply", <<Here.f>>, Top.n - 1, Top.tracing)
      /\ tape' = tape /\ UNCHANGED <<prog, active, entry, capture>>
  BY DEF Apply
<1>7. QED
  BY <1>1, <1>2, <1>3, <1>4, <1>5, <1>6, OpenStep

LEMMA GradRefusedStep ==
  ASSUME RunInv, GradRefused
  PROVE  RunInv'
BY RaiseError DEF GradRefused, At, NoError

LEMMA GradStep ==
  ASSUME RunInv, Grad
  PROVE  RunInv'
<1>1. /\ active /\ err = NoError /\ ctl # <<>> /\ ~Finished /\ Here.op \in Gradients
      /\ tape = None
  BY DEF Grad, At, Gradients
<1>2. /\ Top.n \in Nat
      /\ Site \in Codes(prog) /\ Site = Append(Top.code, Top.pc)
  BY <1>1, HereOK
<1>3. GradFrame \in Frames(prog)
  BY FrameOK DEF GradFrame
<1>4. GradFrame = FrameFor([kind |-> "grad", code |-> Site, n |-> Top.n, tracing |-> TRUE,
                            pc |-> 1, d |-> depth + 1], Append(Top.code, Top.pc))
  BY DEF FrameFor
<1>5. /\ Open(GradFrame, "grad", Site, Top.n, TRUE)
      /\ tape' = IF TooDeep(depth + 1) THEN None ELSE Some(1)
      /\ UNCHANGED <<prog, active, entry, capture>>
  BY DEF Grad
<1>6. QED
  BY <1>1, <1>2, <1>3, <1>4, <1>5, OpenStep

\* An activation is closed: the caller moves on, or the error goes on.
LEMMA ReturnStep ==
  ASSUME RunInv, Return
  PROVE  RunInv'
<1> DEFINE S == Activation(prog)
           T == Frames(prog)
           s == callStack[1]
           c == Popped(ctl)
           n == Len(ctl)
<1>1. active /\ err = NoError /\ ctl # <<>>
  BY DEF Return
<1>2. s \in Seq(T) /\ Chain(ctl, s, NoError) /\ callStack # None /\ ctl \in Seq(S) /\ n \in Nat \ {0}
  BY <1>1, Parts
<1>3. c \in Seq(S) /\ Len(c) = n - 1
  BY <1>1, <1>2, PopTop
<1>4. Len(s) = n /\ s # <<>>
  BY <1>2 DEF Chain
<1>5. Popped(s) \in Seq(T)
  BY <1>2, <1>4, PopTop
<1>6. Chain(c, Popped(s), NoError) /\ Shape(c, tape')
  <2>1. tape' = IF ctl[Len(ctl)].kind = "grad" THEN None ELSE tape
    BY DEF Return, TapeAfter, Top
  <2>2. Shape(ctl, tape)
    BY Parts
  <2>3. QED
    BY <1>1, <1>2, <2>1, <2>2, ChainPop, ShapePop
<1>7. callStack' = Some(Popped(s))
  BY <1>2 DEF Return, PopFrame
<1>8. callStack'[1] = Popped(s)
  BY <1>7 DEF Some
<1>9. depth' = IF Top.kind = "main" THEN depth ELSE Top.d - 1
  BY DEF Return, DepthAfter
<1>10. ctl' = Advanced(c) /\ UNCHANGED <<prog, active, entry, err, capture>>
  BY DEF Return
<1>11. Top.d = n - 1 /\ (Top.kind = "main" <=> n = 1)
  BY <1>1, TopOK
<1>12. depth = n - 1 /\ depth <= MAX_CALL_DEPTH
  BY <1>1, Parts
<1> HIDE DEF S, T, s, c, n
<1>13. /\ ctl' \in Seq(S) /\ Len(ctl') = n - 1
       /\ Chain(ctl', Popped(s), NoError) /\ Shape(ctl', tape')
  <2>1. CASE c = <<>>
    BY <2>1, <1>3, <1>6, <1>10 DEF Advanced
  <2>2. CASE c # <<>>
    <3> DEFINE b == c[Len(c)]
               a == [b EXCEPT !.pc = @ + 1]
    <3>1. b \in S
      BY <2>2, <1>3
    <3>2. /\ a \in S /\ a.kind = b.kind /\ a.code = b.code
          /\ a.d = b.d /\ a.tracing = b.tracing
      BY <3>1 DEF Activation, S
    <3>3. ctl' = [c EXCEPT ![Len(c)] = a]
      BY <2>2, <1>10 DEF Advanced
    <3> HIDE DEF a
    <3>4. [c EXCEPT ![Len(c)] = a] \in Seq(S) /\ Len([c EXCEPT ![Len(c)] = a]) = Len(c)
      BY <2>2, <1>3, <3>2, ModifyTop
    <3>5. Chain([c EXCEPT ![Len(c)] = a], Popped(s), NoError)
      BY <2>2, <1>3, <1>6, <3>2, ChainModify
    <3>6. Shape([c EXCEPT ![Len(c)] = a], tape')
      BY <2>2, <1>3, <1>6, <3>2, ShapeModify
    <3>7. QED
      BY <1>3, <3>3, <3>4, <3>5, <3>6, Zenon
  <2>3. QED
    BY <2>1, <2>2
<1>14. depth' = (IF ctl' = <<>> THEN 0 ELSE Len(ctl') - 1) /\ depth' \in Nat /\ depth' <= MAX_CALL_DEPTH
  <2>1. ctl' = <<>> <=> n = 1
    BY <1>2, <1>13
  <2>2. CASE n = 1
    BY <2>1, <2>2, <1>9, <1>11, <1>12
  <2>3. CASE n # 1
    BY <2>1, <2>3, <1>2, <1>9, <1>11, <1>12, <1>13, DepthAssumption
  <2>4. QED
    BY <2>2, <2>3
<1>15. RunTypeOK'
  BY <1>10, <1>13, <1>14, Parts DEF RunTypeOK, S
<1>16. StackOK'
  <2>1. callStack' = Some(callStack'[1]) /\ callStack'[1] = Popped(s)
    BY <1>7, SomeOK, Zenon
  <2>2. QED
    BY <1>1, <1>5, <1>10, <2>1, Parts DEF StackOK, T
<1>17. DepthExact' /\ RunsAreIsolated'
  BY <1>1, <1>10, <1>14 DEF DepthExact, RunsAreIsolated
<1>18. QED
  BY <1>1, <1>8, <1>10, <1>13, <1>15, <1>16, <1>17, Parts DEF RunInv

LEMMA UnwindStep ==
  ASSUME RunInv, Unwind
  PROVE  RunInv'
<1> DEFINE S == Activation(prog)
           T == Frames(prog)
           s == callStack[1]
           n == Len(ctl)
<1>1. active /\ err # NoError /\ ctl # <<>>
  BY DEF Unwind
<1>2. s \in Seq(T) /\ Chain(ctl, s, err) /\ ctl \in Seq(S) /\ n \in Nat \ {0}
  BY <1>1, Parts
<1>3. ctl' = Popped(ctl) /\ UNCHANGED <<prog, active, entry, err, callStack, capture>>
  BY DEF Unwind
<1>4. ctl' \in Seq(S) /\ Len(ctl') = n - 1
  BY <1>1, <1>2, <1>3, PopTop
<1>5. Chain(ctl', s, err) /\ Shape(ctl', tape')
  <2>1. tape' = IF ctl[Len(ctl)].kind = "grad" THEN None ELSE tape
    BY DEF Unwind, TapeAfter, Top
  <2>2. Shape(ctl, tape)
    BY Parts
  <2> HIDE DEF S, T
  <2>3. Chain(Popped(ctl), s, err)
    BY <1>1, <1>2, ChainPop
  <2>4. Shape(Popped(ctl), tape')
    BY <1>1, <1>2, <2>1, <2>2, ShapePop
  <2>5. QED
    BY <1>3, <2>3, <2>4, Zenon
<1>6. depth' = IF Top.kind = "main" THEN depth ELSE Top.d - 1
  BY DEF Unwind, DepthAfter
<1>7. Top.d = n - 1 /\ (Top.kind = "main" <=> n = 1)
  BY <1>1, TopOK
<1>8. depth = n - 1 /\ depth <= MAX_CALL_DEPTH
  BY <1>1, Parts
<1> HIDE DEF n
<1>9. depth' = (IF ctl' = <<>> THEN 0 ELSE Len(ctl') - 1) /\ depth' \in Nat /\ depth' <= MAX_CALL_DEPTH
  <2>1. ctl' = <<>> <=> n = 1
    BY <1>2, <1>4
  <2>2. CASE n = 1
    BY <2>1, <2>2, <1>6, <1>7, <1>8
  <2>3. CASE n # 1
    BY <2>1, <2>3, <1>2, <1>4, <1>6, <1>7, <1>8, DepthAssumption
  <2>4. QED
    BY <2>2, <2>3
<1>10. RunTypeOK'
  BY <1>3, <1>4, <1>9, Parts DEF RunTypeOK
<1>11. StackOK'
  BY <1>1, <1>3, Parts DEF RunInv, StackOK
<1>12. DepthExact' /\ RunsAreIsolated'
  BY <1>1, <1>3, <1>9 DEF DepthExact, RunsAreIsolated
<1>13. QED
  BY <1>3, <1>5, <1>10, <1>11, <1>12, Parts DEF RunInv

\* What the entry point replaced is put back.
LEMMA LeaveStep ==
  ASSUME RunInv, Leave
  PROVE  RunInv'
<1>1. active /\ ctl = <<>> /\ ~active' /\ UNCHANGED <<prog, ctl, err, depth, tape>>
  BY DEF Leave
<1>2. callStack' = None
  BY <1>1, Parts DEF Leave
<1>3. capture' = None
  BY <1>1, Parts DEF Leave
<1>4. tape = None
  BY <1>1, Parts DEF Shape
<1>5. RunTypeOK' /\ StackOK'
  BY <1>1, Parts DEF Leave, RunTypeOK, StackOK
<1>6. DepthExact' /\ RunsAreIsolated'
  BY <1>1, <1>2, <1>3, <1>4 DEF DepthExact, RunsAreIsolated
<1>7. QED
  BY <1>1, <1>5, <1>6, Parts DEF RunInv

\* A run starts where nothing is left of another one.
LEMMA EnterStep ==
  ASSUME RunInv, NEW p, WellFormed(p), NEW capturing \in BOOLEAN, Enter(p, capturing)
  PROVE  RunInv'
<1>1. /\ ~active /\ active' /\ prog' = p /\ depth' = 0 /\ tape' = tape
      /\ callStack = None /\ capture = None /\ tape = None
      /\ entry' = [stack |-> callStack, capture |-> capture, capturing |-> capturing]
      /\ capture' = IF capturing THEN Some(<<>>) ELSE capture
  BY Parts DEF Enter
<1>2. MAX_CALL_DEPTH \in Nat
  BY DepthAssumption
<1>3. CASE "main" \in DOMAIN p.fns
  <2> DEFINE a == [kind |-> "main", code |-> <<"main">>, n |-> p.fuel,
                   tracing |-> FALSE, pc |-> 1, d |-> 0]
             f == Frame("main", NoSite)
  <2>1. ctl' = <<a>> /\ callStack' = Some(<<f>>) /\ err' = NoError
    BY <1>3 DEF Enter
  <2>2. <<"main">> \in Codes(p)
    BY <1>3, Zenon DEF Codes
  <2>3. a \in Activation(p)
    BY <2>2 DEF Activation, WellFormed
  <2>4. f \in Frames(p)
    BY <1>3, FrameOK DEF WellFormed
  <2>5. a.kind = "main" /\ a.d = 0 /\ a.tracing = FALSE /\ a.code = <<"main">>
    OBVIOUS
  <2>6. FrameFor(a, NoSite) = f
    BY <2>5 DEF FrameFor
  <2> HIDE DEF a, f
  <2>7. /\ <<a>> \in Seq(Activation(p)) /\ Len(<<a>>) = 1 /\ DOMAIN <<a>> = {1} /\ <<a>>[1] = a
        /\ <<a>> # <<>>
    BY <2>3
  <2>8. <<f>> \in Seq(Frames(p)) /\ Len(<<f>>) = 1 /\ <<f>>[1] = f
    BY <2>4
  <2>9. Shape(<<a>>, None)
    BY <2>5, <2>7 DEF Shape
  <2>10. Chain(<<a>>, <<f>>, NoError)
    BY <2>6, <2>7, <2>8 DEF Chain, SiteIn
  <2>11. RunTypeOK'
    BY <1>1, <2>1, <2>7 DEF RunTypeOK
  <2>12. StackOK'
    <3>1. callStack' = Some(callStack'[1]) /\ callStack'[1] = <<f>>
      BY <2>1, SomeOK, Zenon
    <3>2. QED
      BY <1>1, <2>1, <2>8, <3>1 DEF StackOK
  <2>13. DepthExact' /\ RunsAreIsolated'
    BY <1>1, <1>2, <2>1, <2>7 DEF DepthExact, RunsAreIsolated
  <2>14. callStack'[1] = <<f>>
    BY <2>1 DEF Some
  <2>15. Shape(ctl', tape') /\ err' # "panic" /\ Chain(ctl', callStack'[1], err')
    BY <1>1, <2>1, <2>9, <2>10, <2>14 DEF NoError
  <2>16. QED
    BY <2>11, <2>12, <2>13, <2>15 DEF RunInv
<1>4. CASE "main" \notin DOMAIN p.fns
  <2>1. ctl' = <<>> /\ callStack' = Some(<<>>) /\ err' = "no main"
    BY <1>4 DEF Enter
  <2>2. <<>> \in Seq(Frames(p)) /\ <<>> \in Seq(Activation(p)) /\ Len(<<>>) = 0
    OBVIOUS
  <2>3. Shape(<<>>, None)
    BY DEF Shape
  <2>4. Chain(<<>>, <<>>, "no main")
    BY <2>2 DEF Chain, NoError
  <2>5. RunTypeOK'
    BY <1>1, <2>1, <2>2 DEF RunTypeOK
  <2>6. StackOK'
    <3>1. callStack' = Some(callStack'[1]) /\ callStack'[1] = <<>>
      BY <2>1, SomeOK, Zenon
    <3>2. QED
      BY <1>1, <2>1, <2>2, <3>1 DEF StackOK
  <2>7. DepthExact' /\ RunsAreIsolated'
    <3>1. depth' = 0 /\ active'
      BY <1>1, Zenon
    <3>2. 0 <= MAX_CALL_DEPTH
      BY <1>2
    <3>3. QED
      BY <2>1, <3>1, <3>2, Zenon DEF DepthExact, RunsAreIsolated
  <2>8. callStack'[1] = <<>>
    BY <2>1 DEF Some
  <2>9. Shape(ctl', tape') /\ err' # "panic" /\ Chain(ctl', callStack'[1], err')
    BY <1>1, <2>1, <2>3, <2>4, <2>8
  <2>10. QED
    BY <2>5, <2>6, <2>7, <2>9 DEF RunInv
<1>5. QED
  BY <1>3, <1>4

-----------------------------------------------------------------------------
(* Together                                                                *)

LEMMA InitRunInv ==
  ASSUME Init
  PROVE  RunInv
<1>1. WellFormed(prog)
  <2>1. /\ prog.fuel = 1 /\ DOMAIN prog.fns = {"main"} /\ prog.fns["main"] = <<>>
    BY DEF Init
  <2>2. <<>> \in Seq(Operation(prog)) /\ DOMAIN <<>> = {}
    OBVIOUS
  <2>3. \A f \in DOMAIN prog.fns : prog.fns[f] = <<>>
    BY <2>1
  <2>4. prog.fuel \in Nat
    BY <2>1
  <2>5. QED
    BY <2>2, <2>3, <2>4, Zenon DEF WellFormed
<1>2. ctl \in Seq(Activation(prog)) /\ DOMAIN ctl = {}
  BY DEF Init
<1>3. Shape(ctl, tape)
  BY <1>2 DEF Init, Shape
<1>4. QED
  BY <1>1, <1>2, <1>3 DEF Init, RunInv, RunTypeOK, StackOK, DepthExact, RunsAreIsolated, NoError

LEMMA RunStepInv ==
  ASSUME RunInv, RunStep
  PROVE  RunInv'
BY EmitLineStep, TrapStep, ArithmeticStep, TailSelfCallStep, CallStep, ApplyStep,
   GradRefusedStep, GradStep, ReturnStep, UnwindStep, LeaveStep, Zenon DEF RunStep

\* The invariant is about the variables of a run only.
LEMMA RunStutter ==
  ASSUME RunInv, UNCHANGED runVars
  PROVE  RunInv'
BY DEF runVars, RunInv, RunTypeOK, StackOK, Shape, Chain, SiteIn, FrameFor,
       DepthExact, RunsAreIsolated

\* What the invariant says of a run.
LEMMA RunInvImplies ==
  ASSUME RunInv
  PROVE  StackIsChain /\ DepthExact /\ TapeScoped /\ RunsAreIsolated
<1>1. \A i \in DOMAIN ctl : FrameOf(i) = FrameFor(ctl[i], SiteIn(ctl, i))
  BY DEF FrameOf, FrameFor, SiteIn
<1>2. StackIsChain
  BY <1>1, Parts DEF StackIsChain, Chain
<1>3. TapeScoped
  BY Parts DEF TapeScoped, Shape
<1>4. QED
  BY <1>2, <1>3 DEF RunInv

-----------------------------------------------------------------------------
(* The loops                                                               *)

TaskResults == [converged : BOOLEAN, iterations : Nat, grade : {None, Some(TRUE), Some(FALSE)}]

IsSequence(s) == Len(s) \in Nat /\ s = [i \in 1..Len(s) |-> s[i]]

\* Where a command stands, and what it holds there.
CommandOK ==
    /\ step \in {"start", "running"} => cmd = "run"
    /\ step \in {"task", "grade"} => cmd = "bench"
    /\ step \in {"ask", "run", "outcome"} => cmd \in {"agent", "bench"}
    /\ cmd = "bench" /\ step # "done" => Len(results) < Len(Tasks)
    /\ active => step \in {"running", "run", "grade"}
    /\ budget \in Nat
    /\ results \in Seq(TaskResults)

\* The variables that run_loop keeps from one iteration to the next.
LoopOK ==
    /\ DOMAIN last = {"program", "diags", "err", "out"}
    /\ last.diags = Diags(last.program)
    /\ step = "run" => last.program.clean
    /\ IsSequence(transcript)
    /\ step = "run" => Len(transcript) = iter - 1

\* What it reports may be run again.
OutcomeOK ==
    /\ outcome.success => WellFormed(outcome.program)
    /\ outcome.iterations \in Nat

AgentInv ==
    /\ TypeOK /\ CommandOK /\ LoopOK /\ OutcomeOK
    /\ OutcomeChecked /\ EveryIterationTold

IInv == RunInv /\ AgentInv

-----------------------------------------------------------------------------

LEMMA IsSequenceAppend ==
  ASSUME NEW s, IsSequence(s), NEW e
  PROVE  /\ IsSequence(Append(s, e)) /\ Len(Append(s, e)) = Len(s) + 1
         /\ Append(s, e)[Len(s) + 1] = e
<1> DEFINE n == Len(s)
           S == {s[i] : i \in 1..n} \cup {e}
<1>1. n \in Nat /\ s = [i \in 1..n |-> s[i]]
  BY DEF IsSequence
<1> HIDE DEF n
<1>2. s \in Seq(S)
  <2>1. \A i \in 1..n : s[i] \in S
    BY Zenon
  <2> HIDE DEF S
  <2>2. [i \in 1..n |-> s[i]] \in Seq(S)
    BY <1>1, <2>1
  <2>3. QED
    BY <1>1, <2>2, Zenon
<1>3. e \in S
  BY Zenon
<1> HIDE DEF S
<1> DEFINE r == Append(s, e)
<1>4. r \in Seq(S) /\ Len(r) = Len(s) + 1 /\ r[Len(s) + 1] = e
  BY <1>2, <1>3, AppendProperties
<1> HIDE DEF r
<1>5. IsSequence(r)
  BY <1>4 DEF IsSequence
<1>6. QED
  BY <1>4, <1>5 DEF r

LEMMA ItersPositive ==
  ASSUME budget \in Nat
  PROVE  Iters \in Nat /\ 1 \in 1..Iters
BY DEF Iters

LEMMA RunStepActive ==
  ASSUME RunStep
  PROVE  active
BY Zenon DEF RunStep, EmitLine, Trap, Arithmetic, TailSelfCall, Call, Apply, GradRefused, Grad,
       Return, Unwind, Leave, At

\* What may run is well-formed.
LEMMA CleanRuns ==
  ASSUME AgentInv, last.program.clean
  PROVE  last.program \in Answers /\ WellFormed(last.program)
<1>1. last.program \in Answers \cup {NoProgram} /\ ~NoProgram.clean
  BY DEF AgentInv, TypeOK, NoProgram
<1>2. QED
  BY <1>1, ProgramsAssumption

LEMMA AgentInitInv ==
  ASSUME AgentInit
  PROVE  IInv
<1>1. RunInv /\ active = FALSE
  BY InitRunInv DEF AgentInit, Init
<1>2. budget \in Nat
  BY BudgetsAssumption DEF AgentInit
<1>3. TypeOK
  BY <1>2, ItersPositive, TasksAssumption DEF AgentInit, TypeOK, Nothing, NoOutcome
<1>4. CommandOK
  <2>1. Len(Tasks) # 0 => Len(results) < Len(Tasks)
    BY TasksAssumption DEF AgentInit
  <2>2. Len(Tasks) # 0
    BY TasksAssumption
  <2>3. results \in Seq(TaskResults)
    BY DEF AgentInit
  <2>4. QED
    BY <1>1, <1>2, <2>1, <2>2, <2>3 DEF AgentInit, CommandOK
<1>5. LoopOK
  <2>1. IsSequence(transcript)
    BY DEF AgentInit, IsSequence
  <2>2. QED
    BY <2>1 DEF AgentInit, LoopOK, Nothing, Diags, NoProgram
<1>6. OutcomeOK /\ OutcomeChecked /\ EveryIterationTold
  <2>1. /\ outcome.success = FALSE /\ outcome.diags = {} /\ outcome.iterations = 0
        /\ outcome.program = NoProgram
    BY DEF AgentInit, NoOutcome
  <2>2. iter = 1 /\ Len(transcript) = 0
    BY DEF AgentInit
  <2>3. QED
    BY <2>1, <2>2 DEF OutcomeOK, OutcomeChecked, EveryIterationTold, Diags
<1>7. QED
  BY <1>1, <1>3, <1>4, <1>5, <1>6 DEF IInv, AgentInv

-----------------------------------------------------------------------------
(* The steps of a command: what they do to AgentInv                        *)

\* A step of the interpreter, or of a command that only moves on.
LEMMA KeepsLoop ==
  ASSUME AgentInv, UNCHANGED <<cmd, budget, iter, last, transcript, outcome, results>>,
         step' \in {"running", "run", "grade", "done"}, step' = "run" => step = "run",
         step' = "grade" => step \in {"outcome", "grade"} /\ cmd = "bench",
         step' = "running" => cmd = "run",
         active' => step' # "done"
  PROVE  AgentInv'
<1>1. TypeOK'
  BY DEF AgentInv, TypeOK, Iters
<1>2. CommandOK'
  BY DEF AgentInv, CommandOK
<1>3. LoopOK'
  BY DEF AgentInv, LoopOK, Diags, IsSequence
<1>4. OutcomeOK' /\ OutcomeChecked' /\ EveryIterationTold'
  BY DEF AgentInv, OutcomeOK, OutcomeChecked, EveryIterationTold, Diags, WellFormed, Operation
<1>5. QED
  BY <1>1, <1>2, <1>3, <1>4 DEF AgentInv

\* A run that is accepted: the loop holds a program that checks.
LEMMA AcceptKeeps ==
  ASSUME AgentInv, AnswerAccepted
  PROVE  AgentInv'
<1>1. PICK p \in Answers : p.clean /\ last' = [last EXCEPT !.program = p, !.diags = {}]
  BY DEF AnswerAccepted
<1>2. /\ step = "ask" /\ step' = "run"
      /\ UNCHANGED <<cmd, budget, iter, transcript, outcome, results>>
  BY DEF AnswerAccepted
<1>3. DOMAIN last = {"program", "diags", "err", "out"}
  BY DEF AgentInv, LoopOK
<1>4. last'.program = p /\ last'.diags = {} /\ DOMAIN last' = {"program", "diags", "err", "out"}
  BY <1>1, <1>3
<1>5. TypeOK'
  BY <1>2, <1>4 DEF AgentInv, TypeOK, Iters
<1>6. CommandOK'
  BY <1>2 DEF AgentInv, CommandOK
<1>7. LoopOK'
  BY <1>1, <1>2, <1>4 DEF AgentInv, LoopOK, Diags, IsSequence, EveryIterationTold
<1>8. OutcomeOK' /\ OutcomeChecked' /\ EveryIterationTold'
  BY <1>2 DEF AgentInv, OutcomeOK, OutcomeChecked, EveryIterationTold, Diags, WellFormed, Operation
<1>9. QED
  BY <1>5, <1>6, <1>7, <1>8 DEF AgentInv

\* An outcome about the program that the loop holds.
LEMMA FinishKeeps ==
  ASSUME AgentInv, NEW o, Finish(o),
         DOMAIN o = DOMAIN NoOutcome,
         o.program = last'.program, o.diags = last'.diags,
         o.success => last'.program.clean /\ WellFormed(last'.program),
         step \in {"ask", "run"}, ~active',
         last'.program \in Answers \cup {NoProgram},
         DOMAIN last' = {"program", "diags", "err", "out"},
         last'.diags = Diags(last'.program),
         IsSequence(transcript'),
         UNCHANGED <<cmd, budget, results>>
  PROVE  AgentInv'
<1>1. outcome' = [o EXCEPT !.iterations = iter] /\ step' = "outcome" /\ iter' = iter
  BY DEF Finish
<1>2. iter \in 1..Iters /\ budget \in Nat
  BY DEF AgentInv, TypeOK, CommandOK
<1>3. iter \in Nat
  BY <1>2, ItersPositive
<1>4. DOMAIN o = {"success", "program", "diags", "err", "out", "iterations"}
  BY DEF NoOutcome
<1>5. /\ outcome'.program = o.program /\ outcome'.diags = o.diags
      /\ outcome'.success = o.success /\ outcome'.iterations = iter
  BY <1>1, <1>4
<1>6. TypeOK'
  BY <1>1, <1>5 DEF AgentInv, TypeOK, Iters
<1>7. CommandOK'
  BY <1>1 DEF AgentInv, CommandOK
<1>8. LoopOK'
  BY <1>1 DEF LoopOK, Diags
<1>9. OutcomeOK' /\ OutcomeChecked' /\ EveryIterationTold'
  BY <1>1, <1>3, <1>5 DEF OutcomeOK, OutcomeChecked, EveryIterationTold, Diags
<1>10. QED
  BY <1>6, <1>7, <1>8, <1>9 DEF AgentInv

\* The model is asked again, and has been told why.
LEMMA AgainKeeps ==
  ASSUME AgentInv, iter < Iters, iter' = iter + 1, step' = "ask",
         step \in {"ask", "run"}, ~active',
         last'.program \in Answers \cup {NoProgram},
         DOMAIN last' = {"program", "diags", "err", "out"},
         last'.diags = Diags(last'.program),
         NEW e, transcript' = Append(transcript, e), e.program = last'.program.name,
         UNCHANGED <<cmd, budget, outcome, results>>
  PROVE  AgentInv'
<1>1. iter \in 1..Iters /\ Iters \in Nat
  BY ItersPositive DEF AgentInv, TypeOK, CommandOK
<1>2. iter \in Nat /\ iter' \in 1..Iters
  BY <1>1
<1>3. IsSequence(transcript) /\ Len(transcript) = iter - 1
  BY DEF AgentInv, LoopOK, EveryIterationTold
<1>4. /\ IsSequence(transcript') /\ Len(transcript') = iter' - 1
      /\ transcript'[iter' - 1] = e
  <2>1. /\ IsSequence(transcript') /\ Len(transcript') = (iter - 1) + 1
        /\ transcript'[(iter - 1) + 1] = e
    BY <1>3, IsSequenceAppend
  <2>2. (iter - 1) + 1 = iter' - 1
    BY <1>2
  <2>3. QED
    BY <2>1, <2>2
<1>5. TypeOK'
  BY <1>2 DEF AgentInv, TypeOK, Iters
<1>6. CommandOK'
  BY DEF AgentInv, CommandOK
<1>7. LoopOK'
  BY <1>4 DEF LoopOK, Diags
<1>8. OutcomeOK' /\ OutcomeChecked' /\ EveryIterationTold'
  BY <1>4 DEF AgentInv, OutcomeOK, OutcomeChecked, EveryIterationTold, Diags, WellFormed, Operation
<1>9. QED
  BY <1>5, <1>6, <1>7, <1>8 DEF AgentInv

\* The next task of the benchmark, or the report.
LEMMA NextTaskKeeps ==
  ASSUME AgentInv, NEW r \in TaskResults, NextTask(r), cmd = "bench", step # "done", ~active',
         UNCHANGED <<cmd, budget, iter, last, transcript, outcome>>
  PROVE  AgentInv'
<1>1. results \in Seq(TaskResults) /\ Len(results) < Len(Tasks)
  BY DEF AgentInv, CommandOK
<1>2. results' = Append(results, r) /\ step' = IF Len(results') = Len(Tasks) THEN "done" ELSE "task"
  BY DEF NextTask
<1>3. results' \in Seq(TaskResults) /\ Len(results') = Len(results) + 1 /\ Len(results) \in Nat
  BY <1>1, <1>2, AppendProperties
<1>4. /\ Len(results') <= Len(Tasks)
      /\ step' # "done" => Len(results') < Len(Tasks)
  BY <1>1, <1>2, <1>3, TasksAssumption
<1>5. step' \in {"done", "task"}
  BY <1>2
<1> HIDE DEF TaskResults
<1>6. TypeOK'
  BY <1>4, <1>5 DEF AgentInv, TypeOK, Iters
<1>7. CommandOK'
  BY <1>3, <1>4, <1>5 DEF AgentInv, CommandOK
<1>8. LoopOK'
  BY <1>5 DEF AgentInv, LoopOK, Diags, IsSequence
<1>9. OutcomeOK' /\ OutcomeChecked' /\ EveryIterationTold'
  BY <1>5 DEF AgentInv, OutcomeOK, OutcomeChecked, EveryIterationTold, Diags, WellFormed, Operation
<1>10. QED
  BY <1>6, <1>7, <1>8, <1>9 DEF AgentInv

LEMMA StartTaskKeeps ==
  ASSUME AgentInv, StartTask, ~active'
  PROVE  AgentInv'
<1>1. /\ step = "task" /\ step' = "ask" /\ cmd = "bench" /\ iter' = 1
      /\ last' = Nothing /\ transcript' = <<>> /\ outcome' = NoOutcome
      /\ UNCHANGED <<cmd, budget, results>>
  BY DEF StartTask, AgentInv, CommandOK
<1>2. Iters' \in Nat /\ 1 \in 1..Iters'
  BY <1>1, ItersPositive DEF AgentInv, CommandOK, Iters
<1>3. /\ outcome'.success = FALSE /\ outcome'.diags = {} /\ outcome'.iterations = 0
      /\ outcome'.program = NoProgram
  BY <1>1 DEF NoOutcome
<1>4. TypeOK'
  BY <1>1, <1>2, <1>3 DEF AgentInv, TypeOK, Nothing
<1>5. CommandOK'
  BY <1>1 DEF AgentInv, CommandOK
<1>6. LoopOK'
  BY <1>1 DEF LoopOK, Nothing, Diags, IsSequence
<1>7. OutcomeOK' /\ OutcomeChecked' /\ EveryIterationTold'
  BY <1>1, <1>3 DEF OutcomeOK, OutcomeChecked, EveryIterationTold, Diags
<1>8. QED
  BY <1>4, <1>5, <1>6, <1>7 DEF AgentInv

-----------------------------------------------------------------------------
(* The steps of a command: what they do to IInv                            *)

\* The loop's steps that touch no run.
LEMMA BetweenRuns ==
  ASSUME IInv, UNCHANGED runVars, step \notin {"running", "run", "grade"} \/ ~active
  PROVE  RunInv' /\ ~active' /\ ~active
<1>1. ~active
  BY DEF IInv, AgentInv, CommandOK
<1>2. QED
  BY <1>1, RunStutter DEF IInv, runVars

LEMMA ProviderFailsStep ==
  ASSUME IInv, ProviderFails
  PROVE  IInv'
<1> DEFINE o == [NoOutcome EXCEPT !.program = last.program, !.diags = last.diags,
                                  !.err = Some("provider")]
<1>1. /\ step = "ask" /\ Finish(o)
      /\ UNCHANGED <<runVars, cmd, budget, last, transcript, results>>
  BY DEF ProviderFails
<1>2. RunInv' /\ ~active'
  BY <1>1, BetweenRuns
<1>3. /\ DOMAIN o = DOMAIN NoOutcome /\ o.program = last.program /\ o.diags = last.diags
      /\ ~o.success
  BY DEF NoOutcome
<1> HIDE DEF o
<1>4. AgentInv /\ last.program \in Answers \cup {NoProgram} /\ LoopOK
  BY DEF IInv, AgentInv, TypeOK
<1>5. IsSequence(transcript')
  BY <1>1, <1>4 DEF LoopOK
<1>6. AgentInv'
  BY <1>1, <1>2, <1>3, <1>4, <1>5, FinishKeeps DEF LoopOK
<1>7. QED
  BY <1>2, <1>6 DEF IInv

LEMMA AnswerRejectedStep ==
  ASSUME IInv, AnswerRejected
  PROVE  IInv'
<1>1. PICK p \in Answers :
        /\ ~p.clean /\ last' = [last EXCEPT !.program = p, !.diags = Diags(p)]
        /\ transcript' = Append(transcript, [program |-> p.name, err |-> None, out |-> None])
  BY DEF AnswerRejected, Rejected
<1>2. step = "ask" /\ UNCHANGED <<runVars, cmd, budget, results>>
  BY DEF AnswerRejected
<1>3. RunInv' /\ ~active'
  BY <1>2, BetweenRuns
<1>4. AgentInv /\ DOMAIN last = {"program", "diags", "err", "out"} /\ IsSequence(transcript)
  BY DEF IInv, AgentInv, LoopOK
<1>5. /\ last'.program = p /\ last'.diags = Diags(p)
      /\ DOMAIN last' = {"program", "diags", "err", "out"}
  BY <1>1, <1>4
<1>6. IsSequence(transcript')
  BY <1>1, <1>4, IsSequenceAppend
<1>7. CASE iter < Iters
  <2> DEFINE e == [program |-> p.name, err |-> None, out |-> None]
  <2>1. e.program = last'.program.name /\ transcript' = Append(transcript, e)
    BY <1>1, <1>5
  <2>2. iter' = iter + 1 /\ step' = "ask" /\ outcome' = outcome
    BY <1>2, <1>7 DEF AnswerRejected
  <2> HIDE DEF e
  <2>3. AgentInv'
    BY <1>2, <1>3, <1>4, <1>5, <1>7, <2>1, <2>2, AgainKeeps
  <2>4. QED
    BY <1>3, <2>3 DEF IInv
<1>8. CASE ~(iter < Iters)
  <2> DEFINE o == [NoOutcome EXCEPT !.program = last'.program, !.diags = last'.diags,
                                    !.err = last'.err, !.out = last'.out]
  <2>1. Finish(o)
    BY <1>8 DEF AnswerRejected
  <2>2. /\ DOMAIN o = DOMAIN NoOutcome /\ o.program = last'.program /\ o.diags = last'.diags
        /\ ~o.success
    BY DEF NoOutcome
  <2> HIDE DEF o
  <2>3. AgentInv'
    BY <1>2, <1>3, <1>4, <1>5, <1>6, <2>1, <2>2, FinishKeeps
  <2>4. QED
    BY <1>3, <2>3 DEF IInv
<1>9. QED
  BY <1>7, <1>8

LEMMA AnswerAcceptedStep ==
  ASSUME IInv, AnswerAccepted
  PROVE  IInv'
<1>1. PICK p \in Answers : p.clean /\ Enter(p, TRUE)
  BY DEF AnswerAccepted
<1>2. WellFormed(p)
  BY <1>1, ProgramsAssumption
<1>3. RunInv'
  BY <1>1, <1>2, EnterStep DEF IInv
<1>4. QED
  BY <1>3, AcceptKeeps DEF IInv

LEMMA RunSucceedsStep ==
  ASSUME IInv, RunSucceeds
  PROVE  IInv'
<1> DEFINE o == [NoOutcome EXCEPT !.success = TRUE, !.program = last.program,
                                  !.out = Some(report.out)]
<1>1. /\ step = "run" /\ ~active /\ Finish(o)
      /\ UNCHANGED <<runVars, cmd, budget, last, transcript, results>>
  BY DEF RunSucceeds
<1>2. RunInv' /\ ~active'
  BY <1>1, BetweenRuns
<1>3. AgentInv /\ LoopOK /\ last.program.clean
  BY <1>1 DEF IInv, AgentInv, LoopOK
<1>4. last.program \in Answers /\ WellFormed(last.program)
  BY <1>3, CleanRuns
<1>5. /\ DOMAIN o = DOMAIN NoOutcome /\ o.program = last.program /\ o.diags = {}
  BY DEF NoOutcome
<1>6. last.diags = {} /\ last.diags = Diags(last.program)
  BY <1>3 DEF LoopOK, Diags
<1> HIDE DEF o
<1>7. IsSequence(transcript')
  BY <1>1, <1>3 DEF LoopOK
<1>8. AgentInv'
  BY <1>1, <1>2, <1>3, <1>4, <1>5, <1>6, <1>7, FinishKeeps DEF LoopOK
<1>9. QED
  BY <1>2, <1>8 DEF IInv

LEMMA RunFailsStep ==
  ASSUME IInv, RunFails
  PROVE  IInv'
<1>1. /\ step = "run" /\ ~active /\ UNCHANGED <<runVars, cmd, budget, results>>
      /\ last' = [last EXCEPT !.err = Some(report.err), !.out = Some(report.out)]
  BY DEF RunFails
<1>2. RunInv' /\ ~active'
  BY <1>1, BetweenRuns
<1>3. AgentInv /\ LoopOK /\ last.program.clean
  BY <1>1 DEF IInv, AgentInv, LoopOK
<1>4. last.program \in Answers /\ DOMAIN last = {"program", "diags", "err", "out"}
      /\ last.diags = Diags(last.program) /\ last.diags = {} /\ IsSequence(transcript)
  BY <1>3, CleanRuns DEF LoopOK, Diags
<1>5. /\ last'.program = last.program /\ last'.diags = last.diags
      /\ DOMAIN last' = {"program", "diags", "err", "out"}
  BY <1>1, <1>4
<1>6. CASE iter < Iters
  <2> DEFINE e == [program |-> last.program.name, err |-> last'.err, out |-> last'.out]
  <2>1. /\ iter' = iter + 1 /\ step' = "ask" /\ outcome' = outcome
        /\ transcript' = Append(transcript, e)
    BY <1>6 DEF RunFails
  <2>2. e.program = last'.program.name
    BY <1>5
  <2> HIDE DEF e
  <2>3. AgentInv'
    BY <1>1, <1>2, <1>3, <1>4, <1>5, <1>6, <2>1, <2>2, AgainKeeps
  <2>4. QED
    BY <1>2, <2>3 DEF IInv
<1>7. CASE ~(iter < Iters)
  <2> DEFINE o == [NoOutcome EXCEPT !.program = last.program, !.err = last'.err,
                                    !.out = last'.out]
  <2>1. Finish(o) /\ transcript' = transcript
    BY <1>7 DEF RunFails
  <2>2. /\ DOMAIN o = DOMAIN NoOutcome /\ o.program = last.program /\ o.diags = {}
        /\ ~o.success
    BY DEF NoOutcome
  <2> HIDE DEF o
  <2>3. IsSequence(transcript')
    BY <1>4, <2>1
  <2>4. AgentInv'
    BY <1>1, <1>2, <1>3, <1>4, <1>5, <2>1, <2>2, <2>3, FinishKeeps
  <2>5. QED
    BY <1>2, <2>4 DEF IInv
<1>8. QED
  BY <1>6, <1>7

LEMMA MoveOnSteps ==
  ASSUME IInv, RunCommand \/ RunDone \/ Report \/ StartGrade \/ (RunStep /\ UNCHANGED agentVars)
  PROVE  IInv'
<1>1. AgentInv /\ RunInv /\ CommandOK /\ OutcomeOK
  BY DEF IInv, AgentInv
<1>2. CASE RunCommand
  <2>1. PICK p \in RunPrograms : Enter(p, FALSE)
    BY <1>2 DEF RunCommand
  <2>2. RunInv'
    BY <1>1, <2>1, ProgramsAssumption, EnterStep
  <2>3. AgentInv'
    BY <1>1, <1>2, KeepsLoop DEF RunCommand
  <2>4. QED
    BY <2>2, <2>3 DEF IInv
<1>3. CASE RunDone
  <2>1. RunInv' /\ ~active'
    BY <1>3, BetweenRuns DEF RunDone
  <2>2. AgentInv'
    BY <1>1, <1>3, <2>1, KeepsLoop DEF RunDone
  <2>3. QED
    BY <2>1, <2>2 DEF IInv
<1>4. CASE Report
  <2>1. RunInv' /\ ~active'
    BY <1>4, BetweenRuns DEF Report
  <2>2. AgentInv'
    BY <1>1, <1>4, <2>1, KeepsLoop DEF Report
  <2>3. QED
    BY <2>1, <2>2 DEF IInv
<1>5. CASE StartGrade
  <2>1. Enter(outcome.program, TRUE) /\ WellFormed(outcome.program)
    BY <1>1, <1>5 DEF StartGrade, OutcomeOK
  <2>2. RunInv'
    BY <1>1, <2>1, EnterStep
  <2>3. AgentInv'
    BY <1>1, <1>5, KeepsLoop DEF StartGrade
  <2>4. QED
    BY <2>2, <2>3 DEF IInv
<1>6. CASE RunStep /\ UNCHANGED agentVars
  <2>1. RunInv' /\ active
    BY <1>1, <1>6, RunStepInv, RunStepActive
  <2>2. step \in {"running", "run", "grade"} /\ (step = "running" => cmd = "run")
        /\ (step = "grade" => cmd = "bench")
    BY <1>1, <2>1 DEF CommandOK
  <2>3. AgentInv'
    BY <1>1, <1>6, <2>2, KeepsLoop DEF agentVars
  <2>4. QED
    BY <2>1, <2>3 DEF IInv
<1>7. QED
  BY <1>2, <1>3, <1>4, <1>5, <1>6

LEMMA TaskSteps ==
  ASSUME IInv, StartTask \/ NoProvider \/ NotConverged \/ Graded
  PROVE  IInv'
<1>1. AgentInv /\ CommandOK /\ outcome.iterations \in Nat
  BY DEF IInv, AgentInv, OutcomeOK
<1>2. UNCHANGED runVars /\ (step \in {"task", "outcome"} \/ ~active) /\ cmd = "bench" /\ step # "done"
  BY <1>1 DEF StartTask, NoProvider, NotConverged, Graded, CommandOK
<1>3. RunInv' /\ ~active'
  BY <1>2, BetweenRuns
<1>4. CASE StartTask
  BY <1>1, <1>3, <1>4, StartTaskKeeps DEF IInv
<1>5. CASE NoProvider
  <2>1. TaskResult(FALSE, 0, None) \in TaskResults
    BY DEF TaskResult, TaskResults
  <2>2. AgentInv'
    BY <1>1, <1>2, <1>3, <1>5, <2>1, NextTaskKeeps DEF NoProvider
  <2>3. QED
    BY <1>3, <2>2 DEF IInv
<1>6. CASE NotConverged
  <2>1. TaskResult(FALSE, outcome.iterations, None) \in TaskResults
    BY <1>1 DEF TaskResult, TaskResults
  <2>2. AgentInv'
    BY <1>1, <1>2, <1>3, <1>6, <2>1, NextTaskKeeps DEF NotConverged
  <2>3. QED
    BY <1>3, <2>2 DEF IInv
<1>7. CASE Graded
  <2> DEFINE r == TaskResult(TRUE, outcome.iterations, Some(Correct(report, Len(results) + 1)))
  <2>1. r \in TaskResults
    BY <1>1 DEF TaskResult, TaskResults, Correct
  <2> HIDE DEF r
  <2>2. NextTask(r) /\ UNCHANGED <<cmd, budget, iter, last, transcript, outcome>>
    BY <1>7 DEF Graded, r
  <2>3. AgentInv'
    BY <1>1, <1>2, <1>3, <2>1, <2>2, NextTaskKeeps
  <2>4. QED
    BY <1>3, <2>3 DEF IInv
<1>8. QED
  BY <1>4, <1>5, <1>6, <1>7

LEMMA Stutter ==
  ASSUME IInv, UNCHANGED vars
  PROVE  IInv'
<1>1. RunInv'
  BY RunStutter DEF IInv, vars
<1>2. AgentInv'
  BY DEF IInv, AgentInv, vars, runVars, agentVars, TypeOK, CommandOK, LoopOK, OutcomeOK,
         OutcomeChecked, EveryIterationTold, Iters, Diags, WellFormed, Operation, IsSequence
<1>3. QED
  BY <1>1, <1>2 DEF IInv

LEMMA Step ==
  ASSUME IInv, [Next]_vars
  PROVE  IInv'
BY ProviderFailsStep, AnswerRejectedStep, AnswerAcceptedStep, RunSucceedsStep, RunFailsStep,
   MoveOnSteps, TaskSteps, Stutter, Zenon DEF Next

-----------------------------------------------------------------------------
(* Theorems                                                                *)

\* Whatever runs, in whichever order, and however each run ends, the state of
\* the interpreter and of the loop is as its next step relies on.
THEOREM Invariance == Spec => []IInv
<1>1. AgentInit => IInv
  BY AgentInitInv
<1>2. IInv /\ [Next]_vars => IInv'
  BY Step
<1>3. QED
  BY <1>1, <1>2, PTL DEF Spec

\* No iteration exceeds the budget and no task is graded twice (agent.rs
\* run_loop, agent_bench.rs run_bench).
THEOREM TypeCorrect == Spec => []TypeOK
<1>1. IInv => TypeOK
  BY DEF IInv, AgentInv
<1>2. QED
  BY <1>1, Invariance, PTL

\* The call stack is the chain of the open calls, each with the place of its
\* call, and an error leaves it as it was where the error arose (interp.rs
\* push_frame, pop_frame, eval_tail).
THEOREM StackCorrect == Spec => []StackIsChain
<1>1. IInv => StackIsChain
  BY RunInvImplies DEF IInv
<1>2. QED
  BY <1>1, Invariance, PTL

\* The depth is the number of open calls, on every path, so the limit bounds
\* the native stack (interp.rs MAX_CALL_DEPTH).
THEOREM DepthCorrect == Spec => []DepthExact
<1>1. IInv => DepthExact
  BY RunInvImplies DEF IInv
<1>2. QED
  BY <1>1, Invariance, PTL

\* A tape is there exactly while one gradient is taken, and an operation on a
\* traced value finds it (interp.rs grad, GRAD_TAPE).
THEOREM TapeCorrect == Spec => []TapeScoped
<1>1. IInv => TapeScoped
  BY RunInvImplies DEF IInv
<1>2. QED
  BY <1>1, Invariance, PTL

\* Nothing of a run is left when it ended (interp.rs with_call_stack,
\* run_main_capturing_traced_partial).
THEOREM RunsIsolated == Spec => []RunsAreIsolated
<1>1. IInv => RunsAreIsolated
  BY RunInvImplies DEF IInv
<1>2. QED
  BY <1>1, Invariance, PTL

\* The diagnostics of an outcome are those of its program, and a success is a
\* program that checks (agent.rs run_loop).
THEOREM OutcomesChecked == Spec => []OutcomeChecked
<1>1. IInv => OutcomeChecked
  BY DEF IInv, AgentInv
<1>2. QED
  BY <1>1, Invariance, PTL

\* No iteration goes by without the model being told of it (agent.rs run_loop).
THEOREM IterationsTold == Spec => []EveryIterationTold
<1>1. IInv => EveryIterationTold
  BY DEF IInv, AgentInv
<1>2. QED
  BY <1>1, Invariance, PTL

-----------------------------------------------------------------------------
(* What a run means                                                        *)

\* Results whose calls are frames of F: what ends well is under no call.
Errors == {NoError, "trap", "limit", "not a vector", "nested"}
Results(F) ==
    {r \in [err : Errors, calls : Seq(F), out : Seq(Nat)] : r.err = NoError => r.calls = <<>>}

Prints(out) == Result(NoError, <<>>, out)

LEMMA ResultOK ==
  ASSUME NEW F, NEW e \in Errors, NEW calls \in Seq(F), NEW out \in Seq(Nat),
         e = NoError => calls = <<>>
  PROVE  Result(e, calls, out) \in Results(F)
BY DEF Result, Results

LEMMA ResultParts ==
  ASSUME NEW F, NEW r \in Results(F)
  PROVE  /\ r.err \in Errors /\ r.calls \in Seq(F) /\ r.out \in Seq(Nat)
         /\ r.err = NoError => r.calls = <<>>
         /\ r = Result(r.err, r.calls, r.out)
         /\ r.err = NoError => r = Prints(r.out)
<1>1. /\ r.err \in Errors /\ r.calls \in Seq(F) /\ r.out \in Seq(Nat)
      /\ r.err = NoError => r.calls = <<>>
      /\ r = [err |-> r.err, calls |-> r.calls, out |-> r.out]
  BY DEF Results
<1>2. QED
  BY <1>1 DEF Result, Prints

LEMMA ResultFields ==
  ASSUME NEW e, NEW calls, NEW out
  PROVE  /\ Result(e, calls, out).err = e /\ Result(e, calls, out).calls = calls
         /\ Result(e, calls, out).out = out
BY DEF Result

LEMMA PrintsOK ==
  ASSUME NEW F, NEW out \in Seq(Nat)
  PROVE  Prints(out) \in Results(F) /\ Done \in Results(F) /\ Done = Prints(<<>>)
<1>1. <<>> \in Seq(F) /\ <<>> \in Seq(Nat)
  BY EmptySeq
<1>2. NoError \in Errors
  BY DEF Errors
<1>3. QED
  BY <1>1, <1>2, ResultOK DEF Prints, Done

LEMMA FailsOK ==
  ASSUME NEW F, NEW e \in Errors, e # NoError
  PROVE  Fails(e) \in Results(F)
<1>1. <<>> \in Seq(F) /\ <<>> \in Seq(Nat)
  BY EmptySeq
<1>2. QED
  BY <1>1, ResultOK DEF Fails

LEMMA ThenOK ==
  ASSUME NEW F, NEW a \in Results(F), NEW b \in Results(F)
  PROVE  Then(a, b) \in Results(F)
<1>1. a.out \o b.out \in Seq(Nat)
  BY ResultParts, ConcatProperties
<1>2. Result(b.err, b.calls, a.out \o b.out) \in Results(F)
  BY <1>1, ResultParts, ResultOK
<1>3. QED
  BY <1>2 DEF Then

LEMMA OneSeq ==
  ASSUME NEW S, NEW x \in S
  PROVE  <<x>> \in Seq(S) /\ Len(<<x>>) = 1 /\ <<x>>[1] = x
OBVIOUS

LEMMA UnderOK ==
  ASSUME NEW F, NEW frame \in F, NEW r \in Results(F)
  PROVE  Under(frame, r) \in Results(F)
<1>1. <<frame>> \o r.calls \in Seq(F)
  BY OneSeq, ResultParts, ConcatProperties
<1>2. CASE r.err = NoError
  BY <1>2 DEF Under
<1>3. CASE r.err # NoError
  <2>1. Result(r.err, <<frame>> \o r.calls, r.out) \in Results(F)
    BY <1>1, <1>3, ResultParts, ResultOK
  <2>2. QED
    BY <2>1, <1>3 DEF Under
<1>4. QED
  BY <1>2, <1>3

LEMMA EnteredOK ==
  ASSUME NEW F, NEW frame \in F, NEW d, NEW r \in Results(F)
  PROVE  Entered(frame, d, r) \in Results(F)
<1>1. <<>> \in Seq(Nat) /\ <<frame>> \in Seq(F)
  BY EmptySeq, OneSeq
<1>0. "limit" \in Errors /\ "limit" # NoError
  BY DEF Errors, NoError
<1>2. Result("limit", <<frame>>, <<>>) \in Results(F)
  BY <1>0, <1>1, ResultOK
<1>3. QED
  BY <1>2, UnderOK DEF Entered

\* Nothing more to do.
LEMMA ThenDone ==
  ASSUME NEW F, NEW a \in Results(F)
  PROVE  Then(a, Done) = a /\ Then(Done, a) = a
<1>1. a.out \o <<>> = a.out /\ <<>> \o a.out = a.out
  BY ResultParts, ConcatEmptySeq
<1>2. Done.err = NoError /\ Done.calls = <<>> /\ Done.out = <<>>
  BY ResultFields DEF Done
<1>3. a = Result(a.err, a.calls, a.out) /\ (a.err = NoError => a.calls = <<>>)
  BY ResultParts
<1>4. QED
  BY <1>1, <1>2, <1>3 DEF Then

LEMMA ThenThen ==
  ASSUME NEW F, NEW a \in Results(F), NEW b \in Results(F), NEW c \in Results(F)
  PROVE  Then(a, Then(b, c)) = Then(Then(a, b), c)
<1>1. (a.out \o b.out) \o c.out = a.out \o (b.out \o c.out)
  <2>1. a.out \in Seq(Nat) /\ b.out \in Seq(Nat) /\ c.out \in Seq(Nat)
    BY ResultParts
  <2> DEFINE x == a.out
             y == b.out
             z == c.out
  <2>2. x \in Seq(Nat) /\ y \in Seq(Nat) /\ z \in Seq(Nat)
    BY <2>1
  <2> HIDE DEF x, y, z
  <2>3. (x \o y) \o z = x \o (y \o z)
    BY <2>2, ConcatAssociative, SMTT(40)
  <2>4. QED
    BY <2>3 DEF x, y, z
<1>2. CASE a.err # NoError
  BY <1>2 DEF Then
<1>3. CASE a.err = NoError /\ b.err # NoError
  <2>1. Then(b, c) = b /\ Then(a, b) = Result(b.err, b.calls, a.out \o b.out)
    BY <1>3 DEF Then
  <2>2. Then(a, b).err # NoError
    BY <2>1, <1>3, ResultFields
  <2>3. QED
    BY <2>1, <2>2 DEF Then
<1>4. CASE a.err = NoError /\ b.err = NoError
  <2> DEFINE l == Then(a, b)
             r == Then(b, c)
             x == a.out \o b.out
             y == b.out \o c.out
  <2>1. l = Result(NoError, b.calls, x) /\ r = Result(c.err, c.calls, y)
    BY <1>4, SMT DEF Then
  <2> HIDE DEF l, r, x, y
  <2>2. l.err = NoError /\ l.out = x
    BY <2>1, ResultFields
  <2>3. r.err = c.err /\ r.calls = c.calls /\ r.out = y
    BY <2>1, ResultFields
  <2>4. Then(a, r) = Result(c.err, c.calls, a.out \o y)
    BY <2>3, <1>4, SMT DEF Then
  <2>5. Then(l, c) = Result(c.err, c.calls, x \o c.out)
    BY <2>2, SMT DEF Then
  <2>6. a.out \o y = x \o c.out
    BY <1>1 DEF x, y
  <2>7. QED
    BY <2>4, <2>5, <2>6 DEF l, r
<1>5. QED
  BY <1>2, <1>3, <1>4

\* What is printed before a call is printed in any case.
LEMMA ThenUnder ==
  ASSUME NEW F, NEW frame \in F, NEW r \in Results(F), NEW out \in Seq(Nat)
  PROVE  Then(Prints(out), Under(frame, r)) = Under(frame, Then(Prints(out), r))
<1>1. Prints(out).err = NoError /\ Prints(out).out = out
  BY ResultFields DEF Prints
<1>2. Then(Prints(out), r) = Result(r.err, r.calls, out \o r.out)
  BY <1>1 DEF Then
<1>3. /\ Then(Prints(out), r).err = r.err /\ Then(Prints(out), r).calls = r.calls
      /\ Then(Prints(out), r).out = out \o r.out
  BY <1>2, SMT DEF Result
<1>4. CASE r.err = NoError
  BY <1>3, <1>4 DEF Under
<1>5. CASE r.err # NoError
  <2>1. Under(frame, r) = Result(r.err, <<frame>> \o r.calls, r.out)
    BY <1>5 DEF Under
  <2>2. Then(Prints(out), Under(frame, r)) = Result(r.err, <<frame>> \o r.calls, out \o r.out)
    BY <2>1, <1>1, ResultFields DEF Then
  <2>3. Under(frame, Then(Prints(out), r)) = Result(r.err, <<frame>> \o r.calls, out \o r.out)
    BY <1>3, <1>5 DEF Under
  <2>4. QED
    BY <2>2, <2>3
<1>6. QED
  BY <1>4, <1>5

LEMMA ThenPrints ==
  ASSUME NEW out \in Seq(Nat), NEW more \in Seq(Nat)
  PROVE  Then(Prints(out), Prints(more)) = Prints(out \o more)
BY ResultFields DEF Then, Prints

LEMMA UnderPrints ==
  ASSUME NEW frame, NEW out
  PROVE  Under(frame, Prints(out)) = Prints(out)
BY ResultFields DEF Under, Prints

-----------------------------------------------------------------------------
(* The evaluation of a body                                                *)

ResultsOf(p) == Results(Frames(p))
Bodies(p) == [Contexts(p) -> ResultsOf(p)]

LEMMA ContextOK ==
  ASSUME NEW p, NEW f \in DOMAIN p.fns, NEW byName \in BOOLEAN, NEW tracing \in BOOLEAN,
         NEW d \in Nat, NEW taped \in BOOLEAN
  PROVE  Context(f, byName, tracing, d, taped) \in Contexts(p)
BY DEF Context, Contexts

\* An operation of a body.
LEMMA OperationOK ==
  ASSUME NEW p, WellFormed(p), NEW f \in DOMAIN p.fns, NEW i \in 1..Len(p.fns[f])
  PROVE  /\ p.fns[f] \in Seq(Operation(p)) /\ Len(p.fns[f]) \in Nat
         /\ p.fns[f][i].op \in {"print", "trap", "arith", "call", "apply", "grad", "gradlit"}
         /\ p.fns[f][i].op \in Entries => p.fns[f][i].f \in DOMAIN p.fns
         /\ Body(p, <<f>>) = p.fns[f] /\ <<f>> \in Codes(p)
         /\ Append(<<f>>, i) = <<f, i>>
         /\ p.fns[f][i].op \in Gradients => <<f, i>> \in Codes(p)
<1>1. p.fns[f] \in Seq(Operation(p)) /\ Len(p.fns[f]) \in Nat /\ i \in DOMAIN p.fns[f]
  BY DEF WellFormed
<1>2. p.fns[f][i] \in Operation(p)
  BY <1>1
<1>3. p.fns[f][i].op \in {"print", "trap", "arith", "call", "apply", "grad", "gradlit"}
  BY <1>2, Zenon DEF Operation, Entries, Gradients
<1>4. p.fns[f][i].op \in Entries => p.fns[f][i].f \in DOMAIN p.fns
  BY <1>1 DEF WellFormed
<1>5. Body(p, <<f>>) = p.fns[f]
  BY DEF Body
<1>6. <<f>> \in Codes(p)
  BY Zenon DEF Codes
<1>7. Append(<<f>>, i) = <<f, i>>
  BY AppendOne, Zenon
<1>8. p.fns[f][i].op \in Gradients => <<f, i>> \in Codes(p)
  BY <1>1, OperandIsCode
<1>9. QED
  BY <1>1, <1>3, <1>4, <1>5, <1>6, <1>7, <1>8

LEMMA FramesOK ==
  ASSUME NEW p, WellFormed(p), NEW f \in DOMAIN p.fns, NEW i \in 1..Len(p.fns[f])
  PROVE  /\ GradFrame \in Frames(p) /\ Frame("value", <<f, i>>) \in Frames(p)
         /\ \A g \in DOMAIN p.fns : Frame(g, <<f, i>>) \in Frames(p)
<1>1. \E code \in Codes(p) : \E j \in 1..Len(Body(p, code)) : <<f, i>> = Append(code, j)
  <2>1. <<f>> \in Codes(p) /\ i \in 1..Len(Body(p, <<f>>)) /\ <<f, i>> = Append(<<f>>, i)
    BY OperationOK
  <2>2. QED
    BY <2>1, Zenon
<1>2. GradFrame \in Frames(p)
  <2>1. "grad function" \in DOMAIN p.fns \cup {"value", "grad function"}
    OBVIOUS
  <2>2. QED
    BY <2>1, FrameOK, Zenon DEF GradFrame
<1>3. Frame("value", <<f, i>>) \in Frames(p)
  <2>1. "value" \in DOMAIN p.fns \cup {"value", "grad function"}
    OBVIOUS
  <2>2. QED
    BY <1>1, <2>1, FrameOK, Zenon
<1>4. ASSUME NEW g \in DOMAIN p.fns PROVE Frame(g, <<f, i>>) \in Frames(p)
  <2>1. g \in DOMAIN p.fns \cup {"value", "grad function"}
    OBVIOUS
  <2>2. QED
    BY <1>1, <2>1, FrameOK, Zenon
<1>5. QED
  BY <1>2, <1>3, <1>4

LEMMA OperandOK ==
  ASSUME NEW p, WellFormed(p), NEW less \in Bodies(p), NEW f \in DOMAIN p.fns,
         NEW i \in 1..Len(p.fns[f]), p.fns[f][i].op \in Gradients, NEW d \in Nat
  PROVE  /\ Frame(p.fns[f][i].f, Append(<<f, i>>, 1)) \in Frames(p)
         /\ Operand(less, p.fns[f][i].f, <<f, i>>, d) \in ResultsOf(p)
<1> DEFINE g == p.fns[f][i].f
           site == Append(<<f, i>>, 1)
           c == Context(g, TRUE, TRUE, d + 1, TRUE)
<1>1. <<f, i>> \in Codes(p) /\ g \in DOMAIN p.fns
  BY OperationOK DEF Entries
<1>2. Body(p, <<f, i>>) = <<Op("call", g)>>
  BY DEF Body
<1>3. 1 \in 1..Len(Body(p, <<f, i>>))
  BY <1>2
<1>4. Frame(g, site) \in Frames(p)
  <2>1. g \in DOMAIN p.fns \cup {"value", "grad function"}
    BY <1>1
  <2>2. \E code \in Codes(p) : \E j \in 1..Len(Body(p, code)) : site = Append(code, j)
    BY <1>1, <1>3, Zenon
  <2> HIDE DEF site
  <2>3. QED
    BY <2>1, <2>2, FrameOK, Zenon
<1>5. less[c] \in ResultsOf(p)
  <2>1. c \in Contexts(p)
    <3>1. d + 1 \in Nat
      OBVIOUS
    <3>2. QED
      BY <1>1, <3>1, ContextOK, Zenon
  <2> HIDE DEF c
  <2>2. QED
    BY <2>1 DEF Bodies
<1> HIDE DEF g, site, c
<1>6. Entered(Frame(g, site), d + 1, less[c]) \in ResultsOf(p)
  BY <1>4, <1>5, EnteredOK, Zenon DEF ResultsOf
<1>7. QED
  BY <1>4, <1>6 DEF Operand, g, site, c

\* What each operation does.
OpAt(p, c, i) == p.fns[c.f][i]

LEMMA EffectCases ==
  ASSUME NEW p, WellFormed(p), NEW less, NEW n, NEW c \in Contexts(p),
         NEW i \in 1..Len(p.fns[c.f])
  PROVE  /\ OpAt(p, c, i).op = "print" => Effect(p, less, n, c, i) = Prints(<<n>>)
         /\ OpAt(p, c, i).op = "trap" => Effect(p, less, n, c, i) = Fails("trap")
         /\ OpAt(p, c, i).op = "arith" => Effect(p, less, n, c, i) = Done
         /\ OpAt(p, c, i).op = "call" =>
               Effect(p, less, n, c, i) =
                  IF InTail(p, c, i) THEN less[c]
                  ELSE Entered(Frame(OpAt(p, c, i).f, <<c.f, i>>), c.d + 1,
                               less[Context(OpAt(p, c, i).f, TRUE, c.tracing, c.d + 1, c.taped)])
         /\ OpAt(p, c, i).op = "apply" =>
               Effect(p, less, n, c, i) =
                  Entered(Frame("value", <<c.f, i>>), c.d + 1,
                          less[Context(OpAt(p, c, i).f, FALSE, c.tracing, c.d + 1, c.taped)])
         /\ OpAt(p, c, i).op \in Gradients =>
               Effect(p, less, n, c, i) =
                  IF OpAt(p, c, i).op = "grad" /\ c.tracing THEN Fails("not a vector")
                  ELSE IF c.taped THEN Fails("nested")
                  ELSE Entered(GradFrame, c.d + 1, Operand(less, OpAt(p, c, i).f, <<c.f, i>>, c.d + 1))
<1> DEFINE o == OpAt(p, c, i)
<1>1. o.op = "print" => Effect(p, less, n, c, i) = Prints(<<n>>)
  BY SMT DEF OpAt, Effect, Prints, Gradients
<1>2. o.op = "trap" => Effect(p, less, n, c, i) = Fails("trap")
  BY SMT DEF OpAt, Effect, Gradients
<1>3. o.op = "arith" => Effect(p, less, n, c, i) = Done
  BY SMT DEF OpAt, Effect, Gradients
<1>4. ASSUME o.op = "call"
      PROVE  Effect(p, less, n, c, i) =
                IF InTail(p, c, i) THEN less[c]
                ELSE Entered(Frame(o.f, <<c.f, i>>), c.d + 1,
                             less[Context(o.f, TRUE, c.tracing, c.d + 1, c.taped)])
  BY <1>4, SMT DEF OpAt, Effect, Gradients
<1>5. ASSUME o.op = "apply"
      PROVE  Effect(p, less, n, c, i) =
                Entered(Frame("value", <<c.f, i>>), c.d + 1,
                        less[Context(o.f, FALSE, c.tracing, c.d + 1, c.taped)])
  BY <1>5, SMT DEF OpAt, Effect, Gradients
<1>6. ASSUME o.op \in Gradients
      PROVE  Effect(p, less, n, c, i) =
                IF o.op = "grad" /\ c.tracing THEN Fails("not a vector")
                ELSE IF c.taped THEN Fails("nested")
                ELSE Entered(GradFrame, c.d + 1, Operand(less, o.f, <<c.f, i>>, c.d + 1))
  <2>1. c.tracing \in BOOLEAN /\ c.taped \in BOOLEAN
    BY DEF Contexts
  <2>2. CASE o.op = "grad"
    BY <2>1, <2>2, SMT DEF OpAt, Effect, Gradients
  <2>3. CASE o.op = "gradlit"
    BY <2>1, <2>3, SMT DEF OpAt, Effect, Gradients
  <2>4. QED
    BY <1>6, <2>2, <2>3, Zenon DEF Gradients
<1>7. QED
  BY <1>1, <1>2, <1>3, <1>4, <1>5, <1>6, Zenon DEF o

LEMMA EffectOK ==
  ASSUME NEW p, WellFormed(p), NEW less \in Bodies(p), NEW n \in Nat, NEW c \in Contexts(p),
         NEW i \in 1..Len(p.fns[c.f])
  PROVE  Effect(p, less, n, c, i) \in ResultsOf(p)
<1> DEFINE o == OpAt(p, c, i)
           e == Effect(p, less, n, c, i)
<1>0. c.f \in DOMAIN p.fns /\ c.byName \in BOOLEAN /\ c.tracing \in BOOLEAN /\ c.d \in Nat
      /\ c.taped \in BOOLEAN /\ c.d + 1 \in Nat
  BY DEF Contexts
<1>1. /\ o.op \in {"print", "trap", "arith", "call", "apply", "grad", "gradlit"}
      /\ o.op \in Entries => o.f \in DOMAIN p.fns
  BY <1>0, OperationOK DEF OpAt
<1>2. /\ GradFrame \in Frames(p) /\ Frame("value", <<c.f, i>>) \in Frames(p)
      /\ \A g \in DOMAIN p.fns : Frame(g, <<c.f, i>>) \in Frames(p)
  BY <1>0, FramesOK
<1>3. less[c] \in ResultsOf(p)
  BY DEF Bodies
<1>4. ASSUME NEW byName \in BOOLEAN, o.op \in Entries
      PROVE  less[Context(o.f, byName, c.tracing, c.d + 1, c.taped)] \in ResultsOf(p)
  <2> DEFINE x == Context(o.f, byName, c.tracing, c.d + 1, c.taped)
  <2>1. x \in Contexts(p)
    BY <1>0, <1>1, <1>4, ContextOK, Zenon
  <2> HIDE DEF x
  <2>2. less[x] \in ResultsOf(p)
    BY <2>1 DEF Bodies
  <2>3. QED
    BY <2>2 DEF x
<1>5. ASSUME o.op \in Gradients
      PROVE  Operand(less, o.f, <<c.f, i>>, c.d + 1) \in ResultsOf(p)
  BY <1>0, <1>5, OperandOK, Zenon DEF OpAt
<1>6. Fails("trap") \in ResultsOf(p) /\ Fails("nested") \in ResultsOf(p)
      /\ Fails("not a vector") \in ResultsOf(p)
  <2>1. "trap" \in Errors /\ "nested" \in Errors /\ "not a vector" \in Errors
        /\ "trap" # NoError /\ "nested" # NoError /\ "not a vector" # NoError
    BY DEF Errors, NoError
  <2>2. QED
    BY <2>1, FailsOK DEF ResultsOf
<1>7. Done \in ResultsOf(p) /\ Prints(<<n>>) \in ResultsOf(p)
  <2>1. <<n>> \in Seq(Nat)
    BY OneSeq
  <2>2. QED
    BY <2>1, PrintsOK DEF ResultsOf
<1>8. /\ o.op = "print" => e = Prints(<<n>>)
      /\ o.op = "trap" => e = Fails("trap")
      /\ o.op = "arith" => e = Done
  <2>1. ASSUME o.op = "print" PROVE e = Prints(<<n>>)
    BY <2>1, SMT DEF Effect, Prints, Gradients, OpAt
  <2>2. o.op = "trap" => e = Fails("trap")
    BY EffectCases, Zenon
  <2>3. o.op = "arith" => e = Done
    BY EffectCases, Zenon
  <2>4. QED
    BY <2>1, <2>2, <2>3
<1>9. o.op = "call" => e = IF InTail(p, c, i) THEN less[c]
                  ELSE Entered(Frame(o.f, <<c.f, i>>), c.d + 1,
                               less[Context(o.f, TRUE, c.tracing, c.d + 1, c.taped)])
  BY EffectCases, Zenon
<1>10. o.op = "apply" => e = Entered(Frame("value", <<c.f, i>>), c.d + 1,
                          less[Context(o.f, FALSE, c.tracing, c.d + 1, c.taped)])
  BY EffectCases, Zenon
<1>11. o.op \in Gradients => e = IF o.op = "grad" /\ c.tracing THEN Fails("not a vector")
                  ELSE IF c.taped THEN Fails("nested")
                  ELSE Entered(GradFrame, c.d + 1, Operand(less, o.f, <<c.f, i>>, c.d + 1))
  BY EffectCases, Zenon
<1> HIDE DEF o, e
<1>12. ASSUME NEW frame \in Frames(p), NEW r \in ResultsOf(p)
       PROVE  Entered(frame, c.d + 1, r) \in ResultsOf(p)
  BY EnteredOK, Zenon DEF ResultsOf
<1>13. CASE o.op = "call"
  <2>1. o.op \in Entries
    BY <1>13 DEF Entries
  <2>2. Entered(Frame(o.f, <<c.f, i>>), c.d + 1,
                less[Context(o.f, TRUE, c.tracing, c.d + 1, c.taped)]) \in ResultsOf(p)
    BY <2>1, <1>1, <1>2, <1>4, <1>12, Zenon
  <2>3. e \in ResultsOf(p)
    BY <1>3, <1>9, <1>13, <2>2, Zenon
  <2>4. QED
    BY <2>3 DEF e
<1>14. CASE o.op = "apply"
  <2>1. o.op \in Entries
    BY <1>14 DEF Entries
  <2>2. e \in ResultsOf(p)
    BY <2>1, <1>2, <1>4, <1>10, <1>12, <1>14, Zenon
  <2>3. QED
    BY <2>2 DEF e
<1>15. CASE o.op \in Gradients
  <2>1. Entered(GradFrame, c.d + 1, Operand(less, o.f, <<c.f, i>>, c.d + 1)) \in ResultsOf(p)
    BY <1>15, <1>2, <1>5, <1>12, Zenon
  <2>2. e \in ResultsOf(p)
    BY <2>1, <1>6, <1>11, <1>15, Zenon
  <2>3. QED
    BY <2>2 DEF e
<1>16. CASE o.op \in {"print", "trap", "arith"}
  <2>1. e \in ResultsOf(p)
    BY <1>6, <1>7, <1>8, <1>16, Zenon
  <2>2. QED
    BY <2>1 DEF e
<1>17. QED
  BY <1>1, <1>13, <1>14, <1>15, <1>16, Zenon DEF Gradients

\* What the last operations of a body do, by the number of them.
LEMMA RestIs ==
  ASSUME NEW p, WellFormed(p), NEW less \in Bodies(p), NEW n \in Nat, NEW c \in Contexts(p)
  PROVE  /\ Rest(p, less, n, c)[0] = Done
         /\ \A k \in 1..Len(p.fns[c.f]) :
               Rest(p, less, n, c)[k] =
                  Then(Effect(p, less, n, c, Len(p.fns[c.f]) + 1 - k), Rest(p, less, n, c)[k - 1])
         /\ \A k \in 0..Len(p.fns[c.f]) : Rest(p, less, n, c)[k] \in ResultsOf(p)
<1> DEFINE len == Len(p.fns[c.f])
           V == ResultsOf(p)
           Does(k) == Effect(p, less, n, c, len + 1 - k)
           Runs(g) == [k \in Nat |-> IF k \notin 1..len THEN Done ELSE Then(Does(k), g[k - 1])]
           next == [k \in Nat |-> [r \in V |-> IF k + 1 \notin 1..len THEN Done ELSE Then(Does(k + 1), r)]]
<1>1. len \in Nat
  <2>1. c.f \in DOMAIN p.fns
    BY DEF Contexts
  <2>2. QED
    BY <2>1 DEF WellFormed
<1>2. Done \in V
  BY EmptySeq, PrintsOK DEF ResultsOf
<1>3. ASSUME NEW k \in 1..len PROVE Does(k) \in V
  <2>1. len + 1 - k \in 1..len
    BY <1>1
  <2>2. QED
    BY <2>1, EffectOK
<1> HIDE DEF At, V
<1>4. ASSUME NEW k \in 1..len, NEW r \in V PROVE Then(Does(k), r) \in V
  BY <1>3, ThenOK, Zenon DEF V, ResultsOf
<1>5. next \in [Nat -> [V -> V]]
  <2>1. ASSUME NEW k \in Nat, NEW r \in V
        PROVE  (IF k + 1 \notin 1..len THEN Done ELSE Then(Does(k + 1), r)) \in V
    BY <1>2, <1>4
  <2>2. QED
    BY <2>1
<1>6. PICK f : Course(f, V, Done, next)
  <2> HIDE DEF next
  <2>1. QED
    BY <1>2, <1>5, RecursiveFunction
<1>7. f \in [Nat -> V] /\ f[0] = Done
  BY <1>6 DEF Course
<1>8. ASSUME NEW k \in Nat, k # 0
      PROVE  f[k] = IF k \notin 1..len THEN Done ELSE Then(Does(k), f[k - 1])
  <2>1. k - 1 \in Nat /\ (k - 1) + 1 = k
    BY <1>8
  <2>2. f[k] = next[k - 1][f[k - 1]]
    <3> HIDE DEF next
    <3>1. f[(k - 1) + 1] = next[k - 1][f[k - 1]]
      BY <2>1, <1>6 DEF Course
    <3>2. QED
      BY <2>1, <3>1
  <2>3. f[k - 1] \in V
    BY <2>1, <1>7
  <2>4. QED
    BY <2>1, <2>2, <2>3
<1>9. f = Runs(f)
  <2>1. f = [k \in Nat |-> f[k]]
    BY <1>7
  <2>2. ASSUME NEW k \in Nat
        PROVE  f[k] = IF k \notin 1..len THEN Done ELSE Then(Does(k), f[k - 1])
    <3>1. CASE k = 0
      BY <3>1, <1>7
    <3>2. CASE k # 0
      BY <3>2, <1>8
    <3>3. QED
      BY <3>1, <3>2
  <2>3. [k \in Nat |-> f[k]] = Runs(f)
    BY <2>2, Zenon
  <2>4. QED
    BY <2>1, <2>3, Zenon
<1> DEFINE R == Rest(p, less, n, c)
<1>10. R = CHOOSE g : g = Runs(g)
  BY Zenon DEF Rest, At
<1> HIDE DEF R, next
<1>11. R = Runs(R)
  <2> HIDE DEF Runs
  <2>1. QED
    BY <1>9, <1>10, Zenon
<1>12. /\ R[0] = Done
       /\ \A k \in 1..len : R[k] = Then(Does(k), R[k - 1])
  <2>1. \A k \in Nat : R[k] = IF k \notin 1..len THEN Done ELSE Then(Does(k), R[k - 1])
    BY <1>11, Zenon
  <2>2. 0 \in Nat /\ 0 \notin 1..len /\ \A k \in 1..len : k \in Nat
    BY <1>1
  <2> HIDE DEF len
  <2>3. QED
    BY <2>1, <2>2, Zenon
<1>13. \A k \in 0..len : R[k] \in V
  <2> DEFINE S == {k \in Nat : k \in 0..len => R[k] \in V}
  <2>1. 0 \in S
    BY <1>2, <1>12
  <2>2. ASSUME NEW k \in Nat, k \in S PROVE k + 1 \in S
    <3> SUFFICES ASSUME k + 1 \in 0..len PROVE R[k + 1] \in V
      OBVIOUS
    <3>1. k \in 0..len /\ k + 1 \in 1..len /\ (k + 1) - 1 = k
      BY <1>1
    <3>2. R[k] \in V
      BY <2>2, <3>1
    <3>3. R[k + 1] = Then(Does(k + 1), R[k])
      BY <1>12, <3>1
    <3>4. QED
      BY <1>4, <3>1, <3>2, <3>3
  <2> HIDE DEF S
  <2>3. \A k \in Nat : k \in S
    BY <2>1, <2>2, Induction
  <2>4. \A k \in 0..len : k \in Nat
    BY <1>1
  <2>5. QED
    BY <2>3, <2>4 DEF S
<1>14. QED
  BY <1>12, <1>13 DEF R, At, V

\* What bodies do, by the number they are entered with.
LEMMA EvalIs ==
  ASSUME NEW p, WellFormed(p)
  PROVE  /\ \A n \in Nat : Eval(p)[n] \in Bodies(p)
         /\ \A c \in Contexts(p) : Eval(p)[0][c] = Done
         /\ \A n \in Nat \ {0} : \A c \in Contexts(p) :
               Eval(p)[n][c] = Rest(p, Eval(p)[n - 1], n, c)[Len(p.fns[c.f])]
<1> DEFINE V == Bodies(p)
           C == Contexts(p)
           Bodily(less, n) == [c \in C |-> Rest(p, less, n, c)[Len(p.fns[c.f])]]
           start == [c \in C |-> Done]
           E(g) == [n \in Nat |-> [c \in C |->
                      IF n = 0 THEN Done ELSE Rest(p, g[n - 1], n, c)[Len(p.fns[c.f])]]]
           next == [n \in Nat |-> [g \in V |-> Bodily(g, n + 1)]]
<1>1. start \in V
  <2>1. Done \in ResultsOf(p)
    BY EmptySeq, PrintsOK DEF ResultsOf
  <2>2. QED
    BY <2>1 DEF Bodies
<1>2. ASSUME NEW less \in V, NEW n \in Nat PROVE Bodily(less, n) \in V
  <2>1. ASSUME NEW c \in C PROVE Rest(p, less, n, c)[Len(p.fns[c.f])] \in ResultsOf(p)
    <3>1. Len(p.fns[c.f]) \in 0..Len(p.fns[c.f])
      <4>1. c.f \in DOMAIN p.fns
        BY DEF Contexts
      <4>2. Len(p.fns[c.f]) \in Nat
        BY <4>1 DEF WellFormed
      <4>3. QED
        BY <4>2
    <3>2. QED
      BY <3>1, RestIs
  <2>2. QED
    BY <2>1 DEF Bodies
<1> HIDE DEF Bodily, start
<1>3. next \in [Nat -> [V -> V]]
  <2>1. \A n \in Nat : \A g \in V : Bodily(g, n + 1) \in V
    BY <1>2
  <2> HIDE DEF V
  <2>2. QED
    BY <2>1
<1>4. PICK f : Course(f, V, start, next)
  <2> HIDE DEF next, V
  <2>1. QED
    BY <1>1, <1>3, RecursiveFunction
<1>5. f \in [Nat -> V] /\ f[0] = start
  BY <1>4 DEF Course
<1>6. ASSUME NEW n \in Nat, n # 0 PROVE f[n] = Bodily(f[n - 1], n)
  <2>1. n - 1 \in Nat /\ (n - 1) + 1 = n
    BY <1>6
  <2>2. f[n] = next[n - 1][f[n - 1]]
    <3> HIDE DEF next, V
    <3>1. f[(n - 1) + 1] = next[n - 1][f[n - 1]]
      BY <2>1, <1>4 DEF Course
    <3>2. QED
      BY <2>1, <3>1
  <2>3. f[n - 1] \in V
    BY <2>1, <1>5
  <2> HIDE DEF V
  <2>4. next[n - 1][f[n - 1]] = Bodily(f[n - 1], (n - 1) + 1)
    BY <2>1, <2>3
  <2>5. QED
    BY <2>1, <2>2, <2>4
<1>7. f = E(f)
  <2>1. ASSUME NEW n \in Nat
        PROVE  f[n] = [c \in C |-> IF n = 0 THEN Done
                                   ELSE Rest(p, f[n - 1], n, c)[Len(p.fns[c.f])]]
    <3>1. CASE n = 0
      BY <3>1, <1>5, Zenon DEF start
    <3>2. CASE n # 0
      BY <3>2, <1>6, Zenon DEF Bodily
    <3>3. QED
      BY <3>1, <3>2
  <2>2. f = [n \in Nat |-> f[n]]
    BY <1>5
  <2>3. [n \in Nat |-> f[n]] = E(f)
    BY <2>1, Zenon
  <2>4. QED
    BY <2>2, <2>3, Zenon
<1> DEFINE R == Eval(p)
<1>8. R = CHOOSE g : g = E(g)
  BY Zenon DEF Eval
<1> HIDE DEF R, next
<1>9. R = E(R)
  <2> HIDE DEF E
  <2>1. QED
    BY <1>7, <1>8, Zenon
<1>10. ASSUME NEW n \in Nat
       PROVE  R[n] = [c \in C |-> IF n = 0 THEN Done
                                   ELSE Rest(p, R[n - 1], n, c)[Len(p.fns[c.f])]]
  BY <1>9, Zenon
<1>11. R[0] = start
  <2>1. 0 \in Nat
    OBVIOUS
  <2>2. QED
    BY <2>1, <1>10, Zenon DEF start
<1>12. ASSUME NEW n \in Nat, n # 0 PROVE R[n] = Bodily(R[n - 1], n)
  BY <1>10, <1>12, Zenon DEF Bodily
<1>13. \A n \in Nat : R[n] \in V
  <2> DEFINE S == {n \in Nat : R[n] \in V}
  <2>1. 0 \in S
    BY <1>1, <1>11
  <2>2. ASSUME NEW n \in Nat, n \in S PROVE n + 1 \in S
    <3>1. n + 1 \in Nat /\ n + 1 # 0 /\ (n + 1) - 1 = n /\ R[n] \in V
      BY <2>2
    <3> HIDE DEF V
    <3>2. R[n + 1] = Bodily(R[n], n + 1)
      BY <1>12, <3>1
    <3>3. QED
      BY <1>2, <3>1, <3>2
  <2> HIDE DEF S
  <2>3. \A n \in Nat : n \in S
    BY <2>1, <2>2, Induction
  <2>4. QED
    BY <2>3 DEF S
<1>14. \A c \in C : R[0][c] = Done
  BY <1>11, Zenon DEF start
<1>15. \A n \in Nat \ {0} : \A c \in C : R[n][c] = Rest(p, R[n - 1], n, c)[Len(p.fns[c.f])]
  <2>1. \A n \in Nat \ {0} : n \in Nat /\ n # 0
    OBVIOUS
  <2>2. QED
    BY <2>1, <1>12, ZenonT(40) DEF Bodily
<1>16. QED
  BY <1>13, <1>14, <1>15 DEF R

-----------------------------------------------------------------------------
(* What is left to do for an activation                                    *)

Moved(a) == [a EXCEPT !.pc = @ + 1]
IsDone(p, a) == a.n = 0 \/ a.pc > Len(Body(p, a.code))
ContextOf(a, taped) == Context(a.code[1], a.kind \in {"main", "call"}, a.tracing, a.d, taped)

\* The operation it stands at, and everything from there on.
Doing(p, a, taped) ==
    IF Len(a.code) = 1 THEN Effect(p, Eval(p)[a.n - 1], a.n, ContextOf(a, taped), a.pc)
    ELSE Operand(Eval(p)[a.n - 1], p.fns[a.code[1]][a.code[2]].f, a.code, a.d)
Remaining(p, a, taped) ==
    IF IsDone(p, a) THEN Done
    ELSE IF Len(a.code) = 1
         THEN Rest(p, Eval(p)[a.n - 1], a.n, ContextOf(a, taped))[Len(Body(p, a.code)) + 1 - a.pc]
         ELSE Doing(p, a, taped)

LEMMA ActivationCases ==
  ASSUME NEW p, WellFormed(p), NEW a \in Activation(p)
  PROVE  /\ a.n \in Nat /\ a.pc \in Nat \ {0} /\ a.d \in Nat /\ a.tracing \in BOOLEAN
         /\ \/ /\ Len(a.code) = 1 /\ a.code[1] \in DOMAIN p.fns /\ a.code = <<a.code[1]>>
               /\ Body(p, a.code) = p.fns[a.code[1]]
            \/ /\ Len(a.code) = 2 /\ a.code[1] \in DOMAIN p.fns
               /\ a.code[2] \in 1..Len(p.fns[a.code[1]])
               /\ p.fns[a.code[1]][a.code[2]].op \in Gradients
               /\ a.code = <<a.code[1], a.code[2]>>
               /\ Body(p, a.code) = <<Op("call", p.fns[a.code[1]][a.code[2]].f)>>
<1>1. a.n \in Nat /\ a.pc \in Nat \ {0} /\ a.d \in Nat /\ a.tracing \in BOOLEAN
      /\ a.code \in Codes(p)
  BY DEF Activation
<1>2. CASE \E f \in DOMAIN p.fns : a.code = <<f>>
  <2>1. PICK f \in DOMAIN p.fns : a.code = <<f>>
    BY <1>2
  <2>2. Len(a.code) = 1 /\ a.code[1] = f
    BY <2>1
  <2>3. Body(p, a.code) = p.fns[f]
    BY <2>2 DEF Body
  <2>4. QED
    BY <1>1, <2>1, <2>2, <2>3
<1>3. CASE \E f \in DOMAIN p.fns : \E i \in DOMAIN p.fns[f] :
              a.code = <<f, i>> /\ p.fns[f][i].op \in Gradients
  <2>1. PICK f \in DOMAIN p.fns : \E i \in DOMAIN p.fns[f] :
              a.code = <<f, i>> /\ p.fns[f][i].op \in Gradients
    BY <1>3
  <2>2. PICK i \in DOMAIN p.fns[f] : a.code = <<f, i>> /\ p.fns[f][i].op \in Gradients
    BY <2>1
  <2>3. Len(a.code) = 2 /\ a.code[1] = f /\ a.code[2] = i
    BY <2>2
  <2>4. Body(p, a.code) = <<Op("call", p.fns[f][i].f)>>
    BY <2>3 DEF Body
  <2>5. DOMAIN p.fns[f] = 1..Len(p.fns[f])
    BY DEF WellFormed
  <2>6. QED
    BY <1>1, <2>2, <2>3, <2>4, <2>5
<1>4. QED
  BY <1>1, <1>2, <1>3, CodeCases

LEMMA ContextOfOK ==
  ASSUME NEW p, WellFormed(p), NEW a \in Activation(p), NEW taped \in BOOLEAN
  PROVE  /\ ContextOf(a, taped) \in Contexts(p)
         /\ ContextOf(a, taped).f = a.code[1] /\ ContextOf(a, taped).tracing = a.tracing
         /\ ContextOf(a, taped).d = a.d /\ ContextOf(a, taped).taped = taped
         /\ ContextOf(a, taped).byName = (a.kind \in {"main", "call"})
<1>1. a.code[1] \in DOMAIN p.fns /\ a.d \in Nat /\ a.tracing \in BOOLEAN
  BY ActivationCases
<1>2. (a.kind \in {"main", "call"}) \in BOOLEAN
  OBVIOUS
<1>3. ContextOf(a, taped) \in Contexts(p)
  BY <1>1, <1>2, ContextOK, Zenon DEF ContextOf
<1>4. QED
  BY <1>3 DEF ContextOf, Context

LEMMA MovedOK ==
  ASSUME NEW p, NEW a \in Activation(p)
  PROVE  /\ Moved(a) \in Activation(p)
         /\ Moved(a).kind = a.kind /\ Moved(a).code = a.code /\ Moved(a).n = a.n
         /\ Moved(a).tracing = a.tracing /\ Moved(a).d = a.d /\ Moved(a).pc = a.pc + 1
<1>1. a.pc + 1 \in Nat \ {0}
  BY DEF Activation
<1>2. QED
  BY <1>1 DEF Moved, Activation

LEMMA EvalOK ==
  ASSUME NEW p, WellFormed(p), NEW n \in Nat, NEW c \in Contexts(p)
  PROVE  Eval(p)[n] \in Bodies(p) /\ Eval(p)[n][c] \in ResultsOf(p)
<1>1. Eval(p)[n] \in Bodies(p)
  BY EvalIs
<1>2. QED
  BY <1>1 DEF Bodies

LEMMA RemainingIs ==
  ASSUME NEW p, WellFormed(p), NEW a \in Activation(p), NEW taped \in BOOLEAN
  PROVE  /\ Remaining(p, a, taped) \in ResultsOf(p)
         /\ IsDone(p, a) => Remaining(p, a, taped) = Done
         /\ ~IsDone(p, a) =>
               /\ Doing(p, a, taped) \in ResultsOf(p)
               /\ Remaining(p, a, taped) =
                     Then(Doing(p, a, taped), Remaining(p, Moved(a), taped))
<1> DEFINE c == ContextOf(a, taped)
           body == Body(p, a.code)
           len == Len(body)
<1>1. /\ Moved(a).code = a.code /\ Moved(a).n = a.n /\ Moved(a).pc = a.pc + 1
      /\ Moved(a).kind = a.kind /\ Moved(a).tracing = a.tracing /\ Moved(a).d = a.d
  BY MovedOK
<1>2. c \in Contexts(p) /\ c.f = a.code[1] /\ ContextOf(Moved(a), taped) = c
  BY <1>1, ContextOfOK, Zenon DEF ContextOf
<1>3. a.n \in Nat /\ a.pc \in Nat \ {0} /\ a.d \in Nat
  BY ActivationCases
<1>4. Done \in ResultsOf(p)
  BY EmptySeq, PrintsOK DEF ResultsOf
<1>5. CASE IsDone(p, a)
  BY <1>4, <1>5 DEF Remaining
<1>6. CASE ~IsDone(p, a)
  <2>1. a.n # 0 /\ ~(a.pc > len) /\ a.n - 1 \in Nat
    BY <1>3, <1>6 DEF IsDone
  <2> DEFINE less == Eval(p)[a.n - 1]
  <2>2. less \in Bodies(p)
    BY <2>1, EvalIs
  <2> HIDE DEF less, c
  <2>3. CASE Len(a.code) = 1
    <3>1. c.f \in DOMAIN p.fns /\ body = p.fns[c.f]
      BY <1>2, <2>3, ActivationCases
    <3>2. len \in Nat /\ len = Len(p.fns[c.f])
      BY <3>1 DEF WellFormed
    <3> HIDE DEF len
    <3> DEFINE R == Rest(p, less, a.n, c)
    <3>3. /\ R[0] = Done
          /\ \A k \in 1..len : R[k] = Then(Effect(p, less, a.n, c, len + 1 - k), R[k - 1])
          /\ \A k \in 0..len : R[k] \in ResultsOf(p)
      <4>1. /\ R[0] = Done
            /\ \A k \in 1..Len(p.fns[c.f]) :
                  R[k] = Then(Effect(p, less, a.n, c, Len(p.fns[c.f]) + 1 - k), R[k - 1])
            /\ \A k \in 0..Len(p.fns[c.f]) : R[k] \in ResultsOf(p)
        <5>1. /\ Rest(p, less, a.n, c)[0] = Done
              /\ \A k \in 1..Len(p.fns[c.f]) :
                    Rest(p, less, a.n, c)[k] =
                       Then(Effect(p, less, a.n, c, Len(p.fns[c.f]) + 1 - k),
                            Rest(p, less, a.n, c)[k - 1])
              /\ \A k \in 0..Len(p.fns[c.f]) : Rest(p, less, a.n, c)[k] \in ResultsOf(p)
          <6>1. c \in Contexts(p) /\ less \in Bodies(p) /\ a.n \in Nat /\ WellFormed(p)
            BY <1>2, <1>3, <2>2
          <6>2. QED
            BY <6>1, RestIs, Zenon
        <5>2. QED
          BY <5>1, Zenon
      <4> HIDE DEF R
      <4>2. QED
        BY <3>2, <4>1, Zenon
    <3> HIDE DEF R
    <3>4. len + 1 - a.pc \in 1..len /\ len + 1 - (len + 1 - a.pc) = a.pc
          /\ (len + 1 - a.pc) - 1 = len + 1 - (a.pc + 1) /\ a.pc \in 1..len
          /\ len + 1 - a.pc \in 0..len
      <4>1. a.pc \in Nat /\ a.pc >= 1 /\ a.pc <= len /\ len \in Nat
        BY <1>3, <2>1, <3>2
      <4>2. QED
        BY <4>1
    <3>5. Remaining(p, a, taped) = R[len + 1 - a.pc]
      BY <1>6, <2>3 DEF Remaining, R, less, c, len
    <3>6. Doing(p, a, taped) = Effect(p, less, a.n, c, a.pc)
      BY <2>3 DEF Doing, less, c
    <3>7. Remaining(p, Moved(a), taped) = R[len + 1 - (a.pc + 1)]
      <4>1. CASE a.pc + 1 > len
        <5>1. IsDone(p, Moved(a))
          BY <1>1, <4>1 DEF IsDone, len
        <5>2. Remaining(p, Moved(a), taped) = Done
          BY <5>1 DEF Remaining
        <5>3. len + 1 - (a.pc + 1) = 0
          <6>1. a.pc \in Nat /\ a.pc <= len /\ a.pc + 1 > len /\ len \in Nat
            BY <3>2, <3>4, <4>1
          <6>2. QED
            BY <6>1
        <5>4. QED
          BY <3>3, <5>2, <5>3
      <4>2. CASE ~(a.pc + 1 > len)
        <5>1. ~IsDone(p, Moved(a))
          BY <1>1, <2>1, <4>2 DEF IsDone, len
        <5>2. QED
          BY <1>1, <1>2, <2>3, <5>1 DEF Remaining, R, less, len
      <4>3. QED
        BY <4>1, <4>2
    <3>8. Effect(p, less, a.n, c, a.pc) \in ResultsOf(p)
      BY <1>2, <1>3, <2>2, <3>2, <3>4, EffectOK
    <3>9. R[len + 1 - a.pc] = Then(Effect(p, less, a.n, c, a.pc), R[len + 1 - (a.pc + 1)])
      <4> DEFINE k == len + 1 - a.pc
      <4>1. k \in 1..len /\ len + 1 - k = a.pc /\ k - 1 = len + 1 - (a.pc + 1)
        BY <3>4
      <4> HIDE DEF k
      <4>2. R[k] = Then(Effect(p, less, a.n, c, len + 1 - k), R[k - 1])
        BY <3>3, <4>1
      <4>3. QED
        BY <4>1, <4>2 DEF k
    <3>10. Remaining(p, a, taped) \in ResultsOf(p)
      BY <3>3, <3>4, <3>5
    <3>11. QED
      BY <1>6, <3>5, <3>6, <3>7, <3>8, <3>9, <3>10
  <2>4. CASE Len(a.code) # 1
    <3> DEFINE f == a.code[1]
               i == a.code[2]
    <3>1. /\ f \in DOMAIN p.fns /\ i \in 1..Len(p.fns[f]) /\ p.fns[f][i].op \in Gradients
          /\ a.code = <<f, i>> /\ body = <<Op("call", p.fns[f][i].f)>>
      BY <2>4, ActivationCases
    <3>2. Doing(p, a, taped) = Operand(less, p.fns[f][i].f, a.code, a.d)
      BY <2>4 DEF Doing, less
    <3> HIDE DEF f, i
    <3>3. Operand(less, p.fns[f][i].f, <<f, i>>, a.d) \in ResultsOf(p)
      BY <1>3, <2>2, <3>1, OperandOK
    <3>4. Doing(p, a, taped) \in ResultsOf(p)
      BY <3>1, <3>2, <3>3
    <3>5. Remaining(p, a, taped) = Doing(p, a, taped)
      BY <1>6, <2>4 DEF Remaining
    <3>6. len = 1
      BY <3>1
    <3>7. IsDone(p, Moved(a))
      <4>1. a.pc + 1 > 1
        BY <1>3
      <4>2. QED
        BY <1>1, <3>6, <4>1 DEF IsDone, len
    <3>8. Remaining(p, Moved(a), taped) = Done
      BY <3>7 DEF Remaining
    <3>9. Then(Doing(p, a, taped), Done) = Doing(p, a, taped)
      BY <3>4, ThenDone DEF ResultsOf
    <3>10. QED
      BY <1>6, <3>4, <3>5, <3>8, <3>9
  <2>5. QED
    BY <2>3, <2>4
<1>7. QED
  BY <1>5, <1>6

\* A body from its beginning.
LEMMA Begins ==
  ASSUME NEW p, WellFormed(p), NEW a \in Activation(p), NEW taped \in BOOLEAN,
         Len(a.code) = 1, a.pc = 1
  PROVE  Eval(p)[a.n][ContextOf(a, taped)] = Remaining(p, a, taped)
<1> DEFINE c == ContextOf(a, taped)
           len == Len(p.fns[c.f])
<1>1. c \in Contexts(p) /\ c.f = a.code[1] /\ a.n \in Nat
  BY ContextOfOK, ActivationCases
<1>2. Body(p, a.code) = p.fns[c.f] /\ c.f \in DOMAIN p.fns
  BY <1>1, ActivationCases
<1>3. len \in Nat
  BY <1>2 DEF WellFormed
<1> HIDE DEF c
<1>4. CASE a.n = 0
  BY <1>1, <1>4, EvalIs DEF Remaining, IsDone, c
<1>5. CASE a.n # 0
  <2> DEFINE R == Rest(p, Eval(p)[a.n - 1], a.n, c)
  <2>1. a.n \in Nat \ {0} /\ a.n - 1 \in Nat
    BY <1>1, <1>5
  <2>2. Eval(p)[a.n][c] = R[len]
    BY <1>1, <2>1, EvalIs
  <2>3. R[0] = Done
    <3>1. Eval(p)[a.n - 1] \in Bodies(p)
      BY <2>1, EvalIs
    <3>2. QED
      BY <1>1, <3>1, RestIs
  <2>4. CASE len = 0
    <3>1. IsDone(p, a)
      BY <1>2, <2>4 DEF IsDone
    <3>2. Remaining(p, a, taped) = Done
      BY <3>1 DEF Remaining
    <3>3. QED
      BY <2>2, <2>3, <2>4, <3>2 DEF c
  <2>5. CASE len # 0
    <3>1. ~IsDone(p, a)
      BY <1>2, <1>3, <1>5, <2>5 DEF IsDone
    <3>2. len + 1 - a.pc = len
      BY <1>3
    <3>3. Remaining(p, a, taped) = R[Len(Body(p, a.code)) + 1 - a.pc]
      BY <3>1 DEF Remaining, c
    <3>4. QED
      BY <1>2, <2>2, <3>2, <3>3 DEF c
  <2>6. QED
    BY <2>4, <2>5
<1>6. QED
  BY <1>4, <1>5

LEMMA OperandBegins ==
  ASSUME NEW p, WellFormed(p), NEW a \in Activation(p), NEW taped \in BOOLEAN,
         Len(a.code) # 1, a.pc = 1, a.n # 0
  PROVE  Remaining(p, a, taped) =
            Operand(Eval(p)[a.n - 1], p.fns[a.code[1]][a.code[2]].f, a.code, a.d)
<1>1. Len(Body(p, a.code)) = 1
  BY ActivationCases
<1>2. ~IsDone(p, a)
  BY <1>1 DEF IsDone
<1>3. QED
  BY <1>2 DEF Remaining, Doing

-----------------------------------------------------------------------------
(* What the open activations still do is what the program means            *)

TapedAt(c, i) == \E k \in 1..i : c[k].kind = "grad"
LeftOf(p, c, i) == Remaining(p, c[i], TapedAt(c, i))
LeftAfter(p, c, i) == Remaining(p, Moved(c[i]), TapedAt(c, i))

\* b[i] is how activation i ends, with all that is printed until then: the
\* last one goes on from where it stands, the others when the next returns.
Ends(b, p, c, s, out) ==
    /\ b \in [1..Len(c) -> ResultsOf(p)]
    /\ b[Len(c)] = Then(Prints(out), LeftOf(p, c, Len(c)))
    /\ \A i \in 1..(Len(c) - 1) : b[i] = Then(Under(s[i + 1], b[i + 1]), LeftAfter(p, c, i))
    /\ Whole(p) = Under(s[1], b[1])

\* The open activations c, called through s, after out was printed.
Fits(p, c, s, out) ==
    /\ c \in Seq(Activation(p)) /\ c # <<>>
    /\ s \in Seq(Frames(p)) /\ Len(s) = Len(c)
    /\ out \in Seq(Nat)
    /\ \E b : Ends(b, p, c, s, out)

LEMMA FitsParts ==
  ASSUME NEW p, WellFormed(p), NEW c, NEW s, NEW out, Fits(p, c, s, out)
  PROVE  /\ Len(c) \in Nat /\ Len(c) \in 1..Len(c) /\ Len(c) > 0 /\ Len(s) = Len(c)
         /\ \A i \in 1..Len(c) : c[i] \in Activation(p) /\ s[i] \in Frames(p)
         /\ \A i \in 1..Len(c) :
               /\ TapedAt(c, i) \in BOOLEAN
               /\ LeftOf(p, c, i) \in ResultsOf(p) /\ LeftAfter(p, c, i) \in ResultsOf(p)
<1>1. Len(c) \in Nat /\ Len(c) > 0 /\ Len(s) = Len(c)
      /\ \A i \in 1..Len(c) : c[i] \in Activation(p) /\ s[i] \in Frames(p)
  BY DEF Fits
<1>2. ASSUME NEW i \in 1..Len(c)
      PROVE  /\ TapedAt(c, i) \in BOOLEAN
             /\ LeftOf(p, c, i) \in ResultsOf(p) /\ LeftAfter(p, c, i) \in ResultsOf(p)
  <2>1. TapedAt(c, i) \in BOOLEAN
    BY DEF TapedAt
  <2>2. c[i] \in Activation(p) /\ Moved(c[i]) \in Activation(p)
    BY <1>1, MovedOK
  <2>3. QED
    BY <2>1, <2>2, RemainingIs DEF LeftOf, LeftAfter
<1>3. QED
  BY <1>1, <1>2

\* The top moves on within its code, and prints.
LEMMA FitsMove ==
  ASSUME NEW p, WellFormed(p), NEW c, NEW s, NEW out, Fits(p, c, s, out),
         NEW a \in Activation(p), a.kind = c[Len(c)].kind,
         NEW more \in Seq(Nat),
         LeftOf(p, c, Len(c)) = Then(Prints(more), Remaining(p, a, TapedAt(c, Len(c))))
  PROVE  Fits(p, [c EXCEPT ![Len(c)] = a], s, out \o more)
<1> DEFINE k == Len(c)
           d == [c EXCEPT ![k] = a]
<1>1. c \in Seq(Activation(p)) /\ c # <<>> /\ s \in Seq(Frames(p)) /\ Len(s) = k
      /\ out \in Seq(Nat) /\ k \in Nat /\ k \in 1..k
  BY FitsParts DEF Fits
<1>2. /\ d \in Seq(Activation(p)) /\ Len(d) = k /\ d[k] = a
      /\ \A i \in 1..k : i # k => d[i] = c[i]
  <2> DEFINE S == Activation(p)
  <2> HIDE DEF S
  <2>1. c \in Seq(S) /\ a \in S
    BY <1>1 DEF S
  <2>2. QED
    BY <1>1, <2>1, ModifyTop DEF S
<1> HIDE DEF d
<1>3. out \o more \in Seq(Nat)
  BY <1>1, ConcatProperties
<1>4. PICK b : Ends(b, p, c, s, out)
  BY DEF Fits
<1>5. \A i \in 1..k : d[i].kind = c[i].kind
  BY <1>2
<1>6. \A i \in 1..k : TapedAt(d, i) = TapedAt(c, i)
  <2>1. \A i \in 1..k : \A j \in 1..i : j \in 1..k
    BY <1>1
  <2>2. QED
    BY <1>5, <2>1, Zenon DEF TapedAt
<1>7. \A i \in 1..(k - 1) : LeftAfter(p, d, i) = LeftAfter(p, c, i)
  <2>1. \A i \in 1..(k - 1) : i \in 1..k /\ i # k
    BY <1>1
  <2>2. QED
    BY <1>2, <1>6, <2>1, Zenon DEF LeftAfter
<1>8. b[k] = Then(Prints(out \o more), LeftOf(p, d, k))
  <2> DEFINE r == Remaining(p, a, TapedAt(c, k))
             F == Frames(p)
  <2>1. LeftOf(p, d, k) = r
    BY <1>1, <1>2, <1>6, Zenon DEF LeftOf
  <2>2. r \in Results(F)
    <3>1. TapedAt(c, k) \in BOOLEAN
      BY DEF TapedAt
    <3>2. QED
      BY <3>1, RemainingIs DEF ResultsOf
  <2>3. b[k] = Then(Prints(out), Then(Prints(more), r))
    BY <1>4 DEF Ends
  <2> HIDE DEF r, F
  <2>4. Prints(out) \in Results(F) /\ Prints(more) \in Results(F)
    BY <1>1, PrintsOK
  <2>5. b[k] = Then(Then(Prints(out), Prints(more)), r)
    BY <2>2, <2>3, <2>4, ThenThen
  <2>6. Then(Prints(out), Prints(more)) = Prints(out \o more)
    BY <1>1, ThenPrints
  <2>7. QED
    BY <2>1, <2>5, <2>6
<1> HIDE DEF k
<1>9. Ends(b, p, d, s, out \o more)
  BY <1>2, <1>4, <1>7, <1>8 DEF Ends, k
<1>10. d # <<>>
  BY <1>1, <1>2 DEF k
<1>11. QED
  BY <1>1, <1>2, <1>3, <1>9, <1>10 DEF Fits, d, k

\* A call is entered.
LEMMA FitsPush ==
  ASSUME NEW p, WellFormed(p), NEW c, NEW s, NEW out, Fits(p, c, s, out),
         NEW a \in Activation(p), NEW frame \in Frames(p),
         ~IsDone(p, c[Len(c)]),
         Doing(p, c[Len(c)], TapedAt(c, Len(c))) =
            Under(frame, Remaining(p, a, TapedAt(c, Len(c)) \/ a.kind = "grad"))
  PROVE  Fits(p, Append(c, a), Append(s, frame), out)
<1> DEFINE k == Len(c)
           d == Append(c, a)
           t == Append(s, frame)
           S == Activation(p)
           F == Frames(p)
<1>1. c \in Seq(S) /\ c # <<>> /\ s \in Seq(F) /\ Len(s) = k
      /\ out \in Seq(Nat) /\ k \in Nat /\ k \in 1..k
  BY FitsParts DEF Fits
<1>0. a \in S /\ frame \in F
  OBVIOUS
<1> HIDE DEF S, F
<1>2. d \in Seq(S) /\ Len(d) = k + 1 /\ d[k + 1] = a /\ \A i \in 1..k : d[i] = c[i]
  BY <1>0, <1>1, PushTop
<1>3. t \in Seq(F) /\ Len(t) = k + 1 /\ t[k + 1] = frame /\ \A i \in 1..k : t[i] = s[i]
  BY <1>0, <1>1, PushTop
<1> HIDE DEF d, t
<1>4. PICK b : Ends(b, p, c, s, out)
  BY DEF Fits
<1>5. \A i \in 1..k : TapedAt(d, i) = TapedAt(c, i)
  <2>1. \A i \in 1..k : \A j \in 1..i : j \in 1..k
    BY <1>1
  <2>2. QED
    BY <1>2, <2>1, Zenon DEF TapedAt
<1> DEFINE taped == TapedAt(c, k) \/ a.kind = "grad"
           r == Remaining(p, a, taped)
           rest == LeftAfter(p, c, k)
           e == Then(Prints(out), r)
<1>6. TapedAt(d, k + 1) = taped
  <2>1. (\E j \in 1..(k + 1) : d[j].kind = "grad")
           <=> (\E j \in 1..k : d[j].kind = "grad") \/ d[k + 1].kind = "grad"
    <3>1. \A j : j \in 1..(k + 1) <=> j \in 1..k \/ j = k + 1
      BY <1>1
    <3>2. QED
      BY <3>1, Zenon
  <2>2. TapedAt(d, k) = TapedAt(c, k)
    BY <1>1, <1>5
  <2>3. QED
    BY <1>2, <2>1, <2>2, Zenon DEF TapedAt
<1>7. r \in Results(F) /\ rest \in Results(F) /\ taped \in BOOLEAN
  <2>1. taped \in BOOLEAN
    BY DEF TapedAt
  <2> HIDE DEF taped
  <2>2. r \in Results(F)
    BY <2>1, RemainingIs DEF ResultsOf, F
  <2>3. rest \in Results(F)
    BY <1>1, FitsParts DEF ResultsOf, F
  <2>4. QED
    BY <2>1, <2>2, <2>3
<1>8. LeftOf(p, c, k) = Then(Under(frame, r), rest)
  <2>1. c[k] \in Activation(p) /\ TapedAt(c, k) \in BOOLEAN
    BY <1>1, FitsParts
  <2>2. LeftOf(p, c, k) = Then(Doing(p, c[k], TapedAt(c, k)), rest)
    BY <2>1, RemainingIs DEF LeftOf, LeftAfter
  <2>3. QED
    BY <2>2
<1> HIDE DEF r, rest, taped
<1>9. b[k] = Then(Prints(out), Then(Under(frame, r), rest))
  BY <1>4, <1>8 DEF Ends
<1>10. Prints(out) \in Results(F) /\ Under(frame, r) \in Results(F) /\ e \in Results(F)
  BY <1>0, <1>1, <1>7, PrintsOK, UnderOK, ThenOK
<1>11. b[k] = Then(Then(Prints(out), Under(frame, r)), rest)
  BY <1>7, <1>9, <1>10, ThenThen
<1>12. Then(Prints(out), Under(frame, r)) = Under(frame, e)
  BY <1>0, <1>1, <1>7, ThenUnder
<1>13. b[k] = Then(Under(frame, e), rest)
  BY <1>11, <1>12
<1> DEFINE b2 == [i \in 1..(k + 1) |-> IF i = k + 1 THEN e ELSE b[i]]
<1> HIDE DEF e, k
<1>14. b \in [1..k -> Results(F)]
  BY <1>4 DEF Ends, ResultsOf, F, k
<1>15. b2 \in [1..(k + 1) -> Results(F)] /\ b2[k + 1] = e /\ \A i \in 1..k : b2[i] = b[i]
  BY <1>1, <1>10, <1>14
<1> HIDE DEF b2
<1>16. e = Then(Prints(out), LeftOf(p, d, k + 1))
  BY <1>2, <1>6 DEF LeftOf, e, r
<1>17. ASSUME NEW i \in 1..k PROVE b2[i] = Then(Under(t[i + 1], b2[i + 1]), LeftAfter(p, d, i))
  <2>1. LeftAfter(p, d, i) = LeftAfter(p, c, i)
    BY <1>2, <1>5 DEF LeftAfter
  <2>2. CASE i = k
    BY <1>3, <1>13, <1>15, <2>1, <2>2 DEF rest
  <2>3. CASE i # k
    <3>1. i \in 1..(k - 1) /\ i + 1 \in 1..k /\ i \in 1..k
      BY <1>1, <2>3
    <3>2. b[i] = Then(Under(s[i + 1], b[i + 1]), LeftAfter(p, c, i))
      BY <1>4, <3>1 DEF Ends, k
    <3>3. t[i + 1] = s[i + 1] /\ b2[i + 1] = b[i + 1] /\ b2[i] = b[i]
      BY <1>3, <1>15, <3>1
    <3>4. QED
      BY <2>1, <3>2, <3>3
  <2>4. QED
    BY <2>2, <2>3
<1>18. Whole(p) = Under(t[1], b2[1])
  <2>1. 1 \in 1..k
    BY <1>1
  <2>2. QED
    BY <1>3, <1>4, <1>15, <2>1 DEF Ends
<1>19. Ends(b2, p, d, t, out)
  <2>1. (k + 1) - 1 = k
    BY <1>1
  <2>2. QED
    BY <2>1, <1>2, <1>15, <1>16, <1>17, <1>18 DEF Ends, ResultsOf, F
<1>20. d # <<>>
  BY <1>1, <1>2
<1>21. QED
  BY <1>1, <1>2, <1>3, <1>19, <1>20 DEF Fits, d, t, S, F

\* Concatenation is associative.
LEMMA Joined ==
  ASSUME NEW F, NEW x \in Seq(F), NEW u \in Seq(F), NEW w \in Seq(F)
  PROVE  (x \o u) \o w = x \o (u \o w)
BY ConcatAssociative

\* The top returns to its caller, which goes on after the call.
LEMMA FitsPop ==
  ASSUME NEW p, WellFormed(p), NEW c, NEW s, NEW out, Fits(p, c, s, out),
         IsDone(p, c[Len(c)])
  PROVE  IF Len(c) = 1 THEN Whole(p) = Prints(out)
         ELSE Fits(p, Advanced(Popped(c)), Popped(s), out)
<1> DEFINE k == Len(c)
           S == Activation(p)
           F == Frames(p)
           P == Prints(out)
<1>1. c \in Seq(S) /\ c # <<>> /\ s \in Seq(F) /\ Len(s) = k
      /\ out \in Seq(Nat) /\ k \in Nat /\ k \in 1..k
  BY FitsParts DEF Fits
<1>2. PICK b : Ends(b, p, c, s, out)
  BY DEF Fits
<1>3. P \in Results(F)
  BY <1>1, PrintsOK
<1>4. b[k] = P
  <2>1. LeftOf(p, c, k) = Done
    BY DEF LeftOf, Remaining
  <2>2. b[k] = Then(P, Done)
    BY <1>2, <2>1 DEF Ends
  <2> HIDE DEF P, F
  <2>3. QED
    BY <1>3, <2>2, ThenDone
<1>5. \A x : Under(x, P) = P
  BY UnderPrints
<1>6. CASE k = 1
  BY <1>2, <1>4, <1>5, <1>6 DEF Ends
<1>7. CASE k # 1
  <2> DEFINE m == k - 1
             q == Popped(c)
             a == Moved(q[m])
             d == [q EXCEPT ![m] = a]
             t == Popped(s)
             b2 == [i \in 1..m |-> b[i]]
  <2>1. m \in Nat /\ m \in 1..m /\ m \in 1..k /\ m + 1 = k /\ m # 0
    BY <1>1, <1>7
  <2> HIDE DEF S, F
  <2>2. q \in Seq(S) /\ Len(q) = m /\ \A i \in 1..m : q[i] = c[i]
    BY <1>1, PopTop
  <2>3. s # <<>>
    BY <1>1, <2>1
  <2>4. t \in Seq(F) /\ Len(t) = m /\ \A i \in 1..m : t[i] = s[i]
    BY <1>1, <2>3, PopTop
  <2> HIDE DEF k, m, q, t
  <2>5. a \in S /\ a.kind = q[m].kind /\ q[m] \in S /\ q # <<>>
    <3>1. q[m] \in S /\ q # <<>>
      BY <2>1, <2>2
    <3>2. QED
      BY <3>1, MovedOK DEF S
  <2>6. Advanced(q) = d
    BY <2>2, <2>5 DEF Advanced, Moved
  <2> HIDE DEF a
  <2>7. d \in Seq(S) /\ Len(d) = m /\ d[m] = a /\ \A i \in 1..m : i # m => d[i] = q[i]
    BY <2>2, <2>5, ModifyTop
  <2> HIDE DEF d
  <2>8. \A i \in 1..m : d[i].kind = c[i].kind
    BY <2>1, <2>2, <2>5, <2>7
  <2>9. \A i \in 1..m : TapedAt(d, i) = TapedAt(c, i)
    <3>1. \A i \in 1..m : \A j \in 1..i : j \in 1..m
      BY <2>1
    <3>2. QED
      BY <2>8, <3>1, Zenon DEF TapedAt
  <2>10. \A i \in 1..(m - 1) : LeftAfter(p, d, i) = LeftAfter(p, c, i)
    <3>1. \A i \in 1..(m - 1) : i \in 1..m /\ i # m
      BY <2>1
    <3>2. QED
      BY <2>2, <2>7, <2>9, <3>1, Zenon DEF LeftAfter
  <2>11. LeftOf(p, d, m) = LeftAfter(p, c, m)
    BY <2>1, <2>2, <2>7, <2>9, Zenon DEF LeftOf, LeftAfter, a
  <2>12. /\ b \in [1..k -> ResultsOf(p)]
         /\ \A i \in 1..m : b[i] = Then(Under(s[i + 1], b[i + 1]), LeftAfter(p, c, i))
         /\ Whole(p) = Under(s[1], b[1])
    BY <1>2 DEF Ends, k, m
  <2>13. b2 \in [1..m -> ResultsOf(p)] /\ \A i \in 1..m : b2[i] = b[i]
    <3>1. \A i \in 1..m : i \in 1..k
      BY <2>1, <1>1
    <3>2. QED
      BY <2>12, <3>1
  <2> HIDE DEF b2
  <2>14. b2[m] = Then(P, LeftOf(p, d, m))
    <3>1. b[m] = Then(Under(s[k], b[k]), LeftAfter(p, c, m))
      BY <2>1, <2>12
    <3>2. Under(s[k], b[k]) = P
      BY <1>4, <1>5, Zenon
    <3>3. QED
      BY <2>1, <2>11, <2>13, <3>1, <3>2
  <2>15. ASSUME NEW i \in 1..(m - 1)
         PROVE  b2[i] = Then(Under(t[i + 1], b2[i + 1]), LeftAfter(p, d, i))
    <3>1. i \in 1..m /\ i + 1 \in 1..m
      BY <2>1
    <3>2. b[i] = Then(Under(s[i + 1], b[i + 1]), LeftAfter(p, c, i))
      BY <2>12, <3>1
    <3>3. t[i + 1] = s[i + 1] /\ b2[i + 1] = b[i + 1] /\ b2[i] = b[i]
      BY <2>4, <2>13, <3>1
    <3>4. QED
      BY <2>10, <3>2, <3>3
  <2>16. Whole(p) = Under(t[1], b2[1])
    <3>1. 1 \in 1..m
      BY <2>1
    <3>2. QED
      BY <3>1, <2>4, <2>12, <2>13
  <2>17. Ends(b2, p, d, t, out)
    BY <2>7, <2>13, <2>14, <2>15, <2>16 DEF Ends, P
  <2>18. d # <<>>
    BY <2>1, <2>7
  <2>19. Fits(p, d, t, out)
    BY <1>1, <2>4, <2>7, <2>17, <2>18 DEF Fits, S, F
  <2>20. QED
    BY <1>7, <2>6, <2>19 DEF q, t, k
<1>8. QED
  BY <1>6, <1>7

\* The top fails, perhaps in a call w that is refused: the program fails so,
\* through all the calls that are open.
LEMMA FitsFail ==
  ASSUME NEW p, WellFormed(p), NEW c, NEW s, NEW out, Fits(p, c, s, out),
         NEW e, e # NoError, NEW w \in Seq(Frames(p)),
         ~IsDone(p, c[Len(c)]),
         Doing(p, c[Len(c)], TapedAt(c, Len(c))) = Result(e, w, <<>>)
  PROVE  Whole(p) = Result(e, s \o w, out)
<1> DEFINE k == Len(c)
           F == Frames(p)
<1>1. s \in Seq(F) /\ Len(s) = k /\ out \in Seq(Nat) /\ k \in Nat /\ k \in 1..k /\ w \in Seq(F)
      /\ c[k] \in Activation(p) /\ TapedAt(c, k) \in BOOLEAN
  BY FitsParts DEF Fits
<1>2. PICK b : Ends(b, p, c, s, out)
  BY DEF Fits
<1>3. b[k] = Result(e, w, out)
  <2> DEFINE x == Result(e, w, <<>>)
             r == LeftAfter(p, c, k)
  <2>1. LeftOf(p, c, k) = Then(x, r)
    BY <1>1, RemainingIs DEF LeftOf, LeftAfter
  <2>2. x.err = e /\ x.calls = w /\ x.out = <<>>
    BY DEF Result
  <2> HIDE DEF x, r
  <2>3. Then(x, r) = x
    BY <2>2 DEF Then
  <2>4. out \o <<>> = out
    BY <1>1, ConcatEmptySeq
  <2>5. Prints(out).err = NoError /\ Prints(out).out = out
    BY DEF Prints, Result
  <2>6. Then(Prints(out), x) = Result(e, w, out \o <<>>)
    BY <2>2, <2>5 DEF Then
  <2>7. QED
    BY <1>2, <2>1, <2>3, <2>4, <2>6 DEF Ends
<1> HIDE DEF k, F
<1>4. \A i \in 1..(k - 1) : b[i] = Then(Under(s[i + 1], b[i + 1]), LeftAfter(p, c, i))
  BY <1>2 DEF Ends, k
<1>5. ASSUME NEW i \in 1..k, NEW u \in Seq(F), b[i] = Result(e, u, out)
      PROVE  Under(s[i], b[i]) = Result(e, <<s[i]>> \o u, out)
  <2>1. b[i].err = e /\ b[i].calls = u /\ b[i].out = out
    BY <1>5 DEF Result
  <2>2. QED
    BY <2>1 DEF Under
<1>6. ASSUME NEW i \in 1..k PROVE SubSeq(s, i, k) = <<s[i]>> \o SubSeq(s, i + 1, k)
                                  /\ SubSeq(s, i, k) \in Seq(F) /\ <<s[i]>> \in Seq(F)
                                  /\ SubSeq(s, i + 1, k) \in Seq(F)
  <2>1. i \in 1..Len(s) /\ k \in i..Len(s) /\ i \in Int /\ k \in Int /\ i + 1 \in Int
    BY <1>1
  <2>2. SubSeq(s, i, k) = <<s[i]>> \o SubSeq(s, i + 1, k)
    BY <1>1, <2>1, SubSeqRecursiveFirst
  <2>3. \A j \in i..k : s[j] \in F
    BY <1>1, <2>1
  <2>4. SubSeq(s, i, k) \in Seq(F)
    BY <2>1, <2>3, SubSeqProperties
  <2>5. SubSeq(s, i + 1, k) \in Seq(F)
    <3>1. \A j \in (i + 1)..k : s[j] \in F
      BY <2>1, <2>3
    <3>2. QED
      BY <2>1, <3>1, SubSeqProperties
  <2>6. s[i] \in F
    BY <2>1, <2>3
  <2>7. QED
    BY <2>2, <2>4, <2>5, <2>6, OneSeq
<1> DEFINE Shown(i) == Under(s[i], b[i]) = Result(e, SubSeq(s, i, k) \o w, out)
           J == {j \in Nat : j < k => Shown(k - j)}
<1>7. 0 \in J
  <2>1. Under(s[k], b[k]) = Result(e, <<s[k]>> \o w, out)
    BY <1>1, <1>3, <1>5
  <2>2. SubSeq(s, k + 1, k) = <<>>
    BY <1>1, SubSeqEmpty
  <2>3. SubSeq(s, k, k) = <<s[k]>> \o <<>> /\ <<s[k]>> \in Seq(F)
    BY <1>1, <1>6, <2>2
  <2>4. <<s[k]>> \o <<>> = <<s[k]>>
    BY <2>3, ConcatEmptySeq
  <2>5. Shown(k)
    BY <2>1, <2>3, <2>4
  <2>6. k - 0 = k /\ 0 \in Nat
    BY <1>1
  <2> HIDE DEF Shown
  <2>7. QED
    BY <2>5, <2>6
<1>8. ASSUME NEW j \in Nat, j \in J PROVE j + 1 \in J
  <2> DEFINE i == k - (j + 1)
  <2> SUFFICES ASSUME j + 1 < k PROVE Shown(i)
    OBVIOUS
  <2>1. i \in 1..(k - 1) /\ i \in 1..k /\ i + 1 \in 1..k /\ i + 1 = k - j /\ j < k
    BY <1>1
  <2>2. Shown(k - j)
    <3> HIDE DEF Shown
    <3>1. QED
      BY <1>8, <2>1
  <2> DEFINE u == SubSeq(s, i + 1, k)
  <2>3. u \in Seq(F) /\ <<s[i]>> \in Seq(F) /\ SubSeq(s, i, k) = <<s[i]>> \o u
    BY <1>6, <2>1
  <2>4. Under(s[i + 1], b[i + 1]) = Result(e, u \o w, out)
    BY <2>1, <2>2
  <2> HIDE DEF i, u
  <2>5. b[i] = Result(e, u \o w, out)
    <3> DEFINE x == Under(s[i + 1], b[i + 1])
    <3>1. b[i] = Then(x, LeftAfter(p, c, i))
      BY <1>4, <2>1
    <3>2. x = Result(e, u \o w, out)
      BY <2>4
    <3> HIDE DEF x
    <3>3. x.err = e
      BY <3>2, ResultFields
    <3>4. QED
      BY <3>1, <3>2, <3>3 DEF Then
  <2>6. u \o w \in Seq(F)
    BY <1>1, <2>3, ConcatProperties
  <2>7. Under(s[i], b[i]) = Result(e, <<s[i]>> \o (u \o w), out)
    BY <1>5, <2>1, <2>5, <2>6
  <2>8. (<<s[i]>> \o u) \o w = <<s[i]>> \o (u \o w)
    <3> DEFINE x == <<s[i]>>
    <3>1. x \in Seq(F)
      BY <2>3
    <3> HIDE DEF x
    <3>2. x \in Seq(F) /\ u \in Seq(F) /\ w \in Seq(F)
      BY <1>1, <2>3, <3>1
    <3>4. (x \o u) \o w = x \o (u \o w)
      BY ONLY <3>2, Joined, SMTT(40)
    <3>3. QED
      BY <3>4 DEF x
  <2>9. QED
    BY <2>3, <2>7, <2>8
<1>9. k - 1 \in J /\ k - (k - 1) = 1 /\ k - 1 < k
  <2> HIDE DEF J
  <2>1. \A j \in Nat : j \in J
    BY <1>7, <1>8, Induction
  <2>2. k - 1 \in Nat /\ k - (k - 1) = 1 /\ k - 1 < k
    BY <1>1
  <2>3. QED
    BY <2>1, <2>2
<1>10. Shown(1)
  <2> HIDE DEF Shown
  <2>1. QED
    BY <1>9
<1>11. SubSeq(s, 1, k) = s
  BY <1>1, SubSeqFull
<1>12. QED
  BY <1>2, <1>10, <1>11 DEF Ends

-----------------------------------------------------------------------------
(* What the operation does at which an activation stands                   *)

OpOf(p, a) == Body(p, a.code)[a.pc]
SiteOf(a) == Append(a.code, a.pc)
Opened(a, kind, code, n, tracing) ==
    [kind |-> kind, code |-> code, n |-> n, tracing |-> tracing, pc |-> 1, d |-> a.d + 1]

Rewound(a) == [a EXCEPT !.n = @ - 1, !.pc = 1]

LEMMA RewoundOK ==
  ASSUME NEW p, NEW a \in Activation(p), a.n - 1 \in Nat
  PROVE  /\ Rewound(a) \in Activation(p)
         /\ Rewound(a).kind = a.kind /\ Rewound(a).code = a.code /\ Rewound(a).n = a.n - 1
         /\ Rewound(a).tracing = a.tracing /\ Rewound(a).d = a.d /\ Rewound(a).pc = 1
<1> DEFINE m == a.n - 1
           b == [a EXCEPT !.n = m]
<1>1. m \in Nat
  OBVIOUS
<1>2. Rewound(a) = [b EXCEPT !.pc = 1]
  BY DEF Rewound
<1> HIDE DEF m
<1>3. /\ b \in Activation(p) /\ b.kind = a.kind /\ b.code = a.code /\ b.n = m
      /\ b.d = a.d /\ b.tracing = a.tracing
  BY <1>1 DEF Activation
<1> HIDE DEF b
<1>4. [b EXCEPT !.pc = 1] \in Activation(p)
  BY <1>3 DEF Activation
<1>5. /\ [b EXCEPT !.pc = 1].kind = b.kind /\ [b EXCEPT !.pc = 1].code = b.code
      /\ [b EXCEPT !.pc = 1].n = b.n /\ [b EXCEPT !.pc = 1].tracing = b.tracing
      /\ [b EXCEPT !.pc = 1].d = b.d /\ [b EXCEPT !.pc = 1].pc = 1
  BY <1>3 DEF Activation
<1>6. QED
  BY <1>2, <1>3, <1>4, <1>5 DEF m

LEMMA OpenedOK ==
  ASSUME NEW p, NEW a \in Activation(p), NEW kind \in {"call", "apply", "grad"},
         NEW code \in Codes(p), NEW n \in Nat, NEW tracing \in BOOLEAN
  PROVE  /\ Opened(a, kind, code, n, tracing) \in Activation(p)
         /\ Opened(a, kind, code, n, tracing).kind = kind
         /\ Opened(a, kind, code, n, tracing).code = code
         /\ Opened(a, kind, code, n, tracing).n = n
         /\ Opened(a, kind, code, n, tracing).tracing = tracing
         /\ Opened(a, kind, code, n, tracing).pc = 1
         /\ Opened(a, kind, code, n, tracing).d = a.d + 1
BY DEF Opened, Activation

LEMMA DoingOK ==
  ASSUME NEW p, WellFormed(p), NEW a \in Activation(p), ~IsDone(p, a)
  PROVE  /\ a.n \in Nat /\ a.n # 0 /\ a.n - 1 \in Nat
         /\ a.pc \in 1..Len(Body(p, a.code)) /\ a.d \in Nat /\ a.tracing \in BOOLEAN
         /\ OpOf(p, a).op \in {"print", "trap", "arith", "call", "apply", "grad", "gradlit"}
         /\ OpOf(p, a).op \in Entries => OpOf(p, a).f \in DOMAIN p.fns /\ <<OpOf(p, a).f>> \in Codes(p)
         /\ OpOf(p, a).op \in Gradients => SiteOf(a) \in Codes(p)
         /\ \A f \in DOMAIN p.fns \cup {"value", "grad function"} : Frame(f, SiteOf(a)) \in Frames(p)
         /\ GradFrame \in Frames(p)
<1> DEFINE b == Body(p, a.code)
<1>1. a.n \in Nat /\ a.pc \in Nat \ {0} /\ a.d \in Nat /\ a.tracing \in BOOLEAN /\ a.code \in Codes(p)
  BY DEF Activation
<1>2. /\ b \in Seq(Operation(p))
      /\ \A i \in 1..Len(b) :
              /\ b[i].op \in Entries => b[i].f \in DOMAIN p.fns /\ <<b[i].f>> \in Codes(p)
              /\ b[i].op \in Gradients => Append(a.code, i) \in Codes(p)
  BY <1>1, BodyOK
<1>3. a.n # 0 /\ ~(a.pc > Len(b))
  BY DEF IsDone
<1> HIDE DEF b
<1>4. a.pc \in 1..Len(b) /\ a.n - 1 \in Nat
  BY <1>1, <1>2, <1>3
<1>5. b[a.pc] \in Operation(p)
  BY <1>2, <1>4
<1>6. b[a.pc].op \in {"print", "trap", "arith", "call", "apply", "grad", "gradlit"}
  BY <1>5 DEF Operation, Entries, Gradients
<1>7. OpOf(p, a) = b[a.pc]
  BY DEF OpOf, b
<1>8. \E code \in Codes(p) : \E i \in 1..Len(Body(p, code)) : SiteOf(a) = Append(code, i)
  BY <1>1, <1>4, Zenon DEF SiteOf, b
<1>9. \A f \in DOMAIN p.fns \cup {"value", "grad function"} : Frame(f, SiteOf(a)) \in Frames(p)
  BY <1>8, FrameOK
<1>10. GradFrame \in Frames(p)
  BY FrameOK DEF GradFrame
<1>11. a.pc \in 1..Len(Body(p, a.code))
  BY <1>4 DEF b
<1>12. SiteOf(a) = Append(a.code, a.pc)
  BY DEF SiteOf
<1>13. QED
  BY <1>1, <1>2, <1>3, <1>4, <1>6, <1>7, <1>9, <1>10, <1>11, <1>12

LEMMA DoingEffect ==
  ASSUME NEW p, WellFormed(p), NEW a \in Activation(p), NEW taped \in BOOLEAN,
         ~IsDone(p, a), Len(a.code) = 1
  PROVE  /\ ContextOf(a, taped) \in Contexts(p)
         /\ ContextOf(a, taped).f = a.code[1] /\ a.code[1] \in DOMAIN p.fns
         /\ a.pc \in 1..Len(p.fns[a.code[1]])
         /\ Body(p, a.code) = p.fns[a.code[1]]
         /\ OpAt(p, ContextOf(a, taped), a.pc) = OpOf(p, a)
         /\ <<a.code[1], a.pc>> = SiteOf(a)
         /\ Doing(p, a, taped) = Effect(p, Eval(p)[a.n - 1], a.n, ContextOf(a, taped), a.pc)
<1>1. ContextOf(a, taped) \in Contexts(p) /\ ContextOf(a, taped).f = a.code[1]
  BY ContextOfOK
<1>2. a.code[1] \in DOMAIN p.fns /\ Body(p, a.code) = p.fns[a.code[1]] /\ a.code = <<a.code[1]>>
  BY ActivationCases
<1>3. a.pc \in 1..Len(p.fns[a.code[1]])
  BY <1>2, DoingOK
<1>4. OpAt(p, ContextOf(a, taped), a.pc) = OpOf(p, a)
  BY <1>1, <1>2 DEF OpAt, OpOf
<1>5. Append(<<a.code[1]>>, a.pc) = <<a.code[1], a.pc>>
  BY AppendOne, Zenon
<1>6. SiteOf(a) = <<a.code[1], a.pc>>
  BY <1>2, <1>5, Zenon DEF SiteOf
<1>7. QED
  BY <1>1, <1>2, <1>3, <1>4, <1>6 DEF Doing

\* An operand of a gradient is one call.
LEMMA OperandCalls ==
  ASSUME NEW p, WellFormed(p), NEW a \in Activation(p), ~IsDone(p, a), Len(a.code) # 1
  PROVE  /\ OpOf(p, a).op = "call" /\ a.pc = 1
         /\ OpOf(p, a).f = p.fns[a.code[1]][a.code[2]].f
<1>1. Body(p, a.code) = <<Op("call", p.fns[a.code[1]][a.code[2]].f)>>
  BY ActivationCases
<1> DEFINE x == Op("call", p.fns[a.code[1]][a.code[2]].f)
<1>2. x.op = "call" /\ x.f = p.fns[a.code[1]][a.code[2]].f
  BY DEF Op
<1> HIDE DEF x
<1>3. Body(p, a.code) = <<x>>
  BY <1>1 DEF x
<1>4. a.pc \in 1..Len(<<x>>)
  BY <1>3, DoingOK
<1>5. a.pc = 1
  BY <1>4
<1>6. OpOf(p, a) = x
  BY <1>3, <1>5 DEF OpOf
<1>7. QED
  BY <1>2, <1>5, <1>6

LEMMA EffectSimple ==
  ASSUME NEW p, WellFormed(p), NEW less, NEW n, NEW c \in Contexts(p),
         NEW i \in 1..Len(p.fns[c.f])
  PROVE  /\ OpAt(p, c, i).op = "print" => Effect(p, less, n, c, i) = Prints(<<n>>)
         /\ OpAt(p, c, i).op = "trap" => Effect(p, less, n, c, i) = Fails("trap")
         /\ OpAt(p, c, i).op = "arith" => Effect(p, less, n, c, i) = Done
<1>1. ASSUME OpAt(p, c, i).op = "print" PROVE Effect(p, less, n, c, i) = Prints(<<n>>)
  BY <1>1, SMT DEF OpAt, Effect, Prints, Gradients
<1>2. ASSUME OpAt(p, c, i).op = "trap" PROVE Effect(p, less, n, c, i) = Fails("trap")
  BY <1>2, EffectCases
<1>3. ASSUME OpAt(p, c, i).op = "arith" PROVE Effect(p, less, n, c, i) = Done
  BY <1>3, EffectCases
<1>4. QED
  BY <1>1, <1>2, <1>3

LEMMA EffectCall ==
  ASSUME NEW p, WellFormed(p), NEW less, NEW n, NEW c \in Contexts(p),
         NEW i \in 1..Len(p.fns[c.f]), OpAt(p, c, i).op = "call"
  PROVE  Effect(p, less, n, c, i) =
            IF InTail(p, c, i) THEN less[c]
            ELSE Entered(Frame(OpAt(p, c, i).f, <<c.f, i>>), c.d + 1,
                         less[Context(OpAt(p, c, i).f, TRUE, c.tracing, c.d + 1, c.taped)])
BY EffectCases

LEMMA DoingSimple ==
  ASSUME NEW p, WellFormed(p), NEW a \in Activation(p), NEW taped \in BOOLEAN, ~IsDone(p, a)
  PROVE  /\ OpOf(p, a).op = "print" => Doing(p, a, taped) = Prints(<<a.n>>)
         /\ OpOf(p, a).op = "trap" => Doing(p, a, taped) = Fails("trap")
         /\ OpOf(p, a).op = "arith" => Doing(p, a, taped) = Done
<1>1. CASE Len(a.code) = 1
  <2> DEFINE c == ContextOf(a, taped)
             less == Eval(p)[a.n - 1]
  <2>1. /\ c \in Contexts(p) /\ a.pc \in 1..Len(p.fns[c.f])
        /\ OpAt(p, c, a.pc) = OpOf(p, a)
        /\ Doing(p, a, taped) = Effect(p, less, a.n, c, a.pc)
    BY <1>1, DoingEffect
  <2> HIDE DEF c, less
  <2>2. /\ OpAt(p, c, a.pc).op = "print" => Effect(p, less, a.n, c, a.pc) = Prints(<<a.n>>)
        /\ OpAt(p, c, a.pc).op = "trap" => Effect(p, less, a.n, c, a.pc) = Fails("trap")
        /\ OpAt(p, c, a.pc).op = "arith" => Effect(p, less, a.n, c, a.pc) = Done
    BY <2>1, EffectSimple
  <2>3. QED
    BY <2>1, <2>2, Zenon
<1>2. CASE Len(a.code) # 1
  BY <1>2, OperandCalls
<1>3. QED
  BY <1>1, <1>2

\* A tail call of a function to itself is a jump to its beginning.
LEMMA DoingJump ==
  ASSUME NEW p, WellFormed(p), NEW a \in Activation(p), NEW taped \in BOOLEAN, ~IsDone(p, a),
         OpOf(p, a).op = "call", Len(a.code) = 1,
         a.kind \in {"main", "call"}, OpOf(p, a).f = a.code[1], a.pc = Len(Body(p, a.code))
  PROVE  Remaining(p, a, taped) = Remaining(p, Rewound(a), taped)
<1> DEFINE c == ContextOf(a, taped)
           b == Rewound(a)
<1>1. a.n - 1 \in Nat /\ a.n \in Nat /\ a.pc \in Nat
  BY DoingOK DEF Activation
<1>2. b \in Activation(p) /\ b.kind = a.kind /\ b.code = a.code /\ b.n = a.n - 1
      /\ b.tracing = a.tracing /\ b.d = a.d /\ b.pc = 1
  BY <1>1, RewoundOK
<1> HIDE DEF b
<1>3. InTail(p, c, a.pc)
  <2>1. c.byName = TRUE /\ c.f = a.code[1]
    BY ContextOfOK
  <2>2. p.fns[c.f][a.pc] = OpOf(p, a) /\ Body(p, a.code) = p.fns[c.f]
    BY <2>1, DoingEffect DEF OpAt
  <2>3. QED
    BY <2>1, <2>2 DEF InTail
<1>4. Doing(p, a, taped) = Eval(p)[a.n - 1][c]
  <2>1. c \in Contexts(p) /\ a.pc \in 1..Len(p.fns[c.f])
        /\ OpAt(p, c, a.pc) = OpOf(p, a)
        /\ Doing(p, a, taped) = Effect(p, Eval(p)[a.n - 1], a.n, c, a.pc)
    BY DoingEffect
  <2> DEFINE less == Eval(p)[a.n - 1]
  <2> HIDE DEF c, less
  <2>2. Effect(p, less, a.n, c, a.pc) =
           IF InTail(p, c, a.pc) THEN less[c]
           ELSE Entered(Frame(OpAt(p, c, a.pc).f, <<c.f, a.pc>>), c.d + 1,
                        less[Context(OpAt(p, c, a.pc).f, TRUE, c.tracing, c.d + 1, c.taped)])
    <3>1. OpAt(p, c, a.pc).op = "call"
      BY <2>1
    <3>2. QED
      BY <2>1, <3>1, EffectCall
  <2>3. Doing(p, a, taped) = Effect(p, less, a.n, c, a.pc)
    BY <2>1 DEF less
  <2>4. QED
    BY <1>3, <2>2, <2>3 DEF less
<1>5. ContextOf(b, taped) = c
  BY <1>2 DEF ContextOf
<1>6. Eval(p)[b.n][ContextOf(b, taped)] = Remaining(p, b, taped)
  BY <1>2, Begins
<1>7. Doing(p, a, taped) = Remaining(p, b, taped)
  BY <1>2, <1>4, <1>5, <1>6
<1>8. Remaining(p, Moved(a), taped) = Done
  <2>1. Moved(a).code = a.code /\ Moved(a).pc = a.pc + 1
    BY MovedOK
  <2>2. a.pc + 1 > a.pc
    BY <1>1
  <2>3. Moved(a).pc > Len(Body(p, Moved(a).code))
    BY <2>1, <2>2
  <2>4. QED
    BY <2>3 DEF Remaining, IsDone
<1>9. Remaining(p, a, taped) = Then(Remaining(p, b, taped), Done)
  BY <1>7, <1>8, RemainingIs
<1>10. Remaining(p, b, taped) \in ResultsOf(p)
  BY <1>2, RemainingIs
<1>11. Remaining(p, a, taped) = Remaining(p, b, taped)
  <2> DEFINE r == Remaining(p, b, taped)
  <2> HIDE DEF r
  <2>1. r \in Results(Frames(p)) /\ Remaining(p, a, taped) = Then(r, Done)
    BY <1>9, <1>10 DEF ResultsOf, r
  <2>2. QED
    BY <2>1, ThenDone DEF r
<1>12. QED
  BY <1>11 DEF b

\* A call opens an activation, and does what remains of that one.
LEMMA DoingCall ==
  ASSUME NEW p, WellFormed(p), NEW a \in Activation(p), NEW taped \in BOOLEAN, ~IsDone(p, a),
         Len(a.code) # 1 => a.tracing /\ taped,
         OpOf(p, a).op = "call",
         ~(Len(a.code) = 1 /\ a.kind \in {"main", "call"} /\ OpOf(p, a).f = a.code[1]
           /\ a.pc = Len(Body(p, a.code)))
  PROVE  Doing(p, a, taped) =
            Entered(Frame(OpOf(p, a).f, SiteOf(a)), a.d + 1,
                    Remaining(p, Opened(a, "call", <<OpOf(p, a).f>>, a.n - 1, a.tracing), taped))
<1> DEFINE g == OpOf(p, a).f
           b == Opened(a, "call", <<g>>, a.n - 1, a.tracing)
           less == Eval(p)[a.n - 1]
<1>1. <<g>> \in Codes(p) /\ a.n - 1 \in Nat /\ a.tracing \in BOOLEAN
  BY DoingOK DEF Entries
<1>2. /\ b \in Activation(p) /\ b.kind = "call" /\ b.code = <<g>> /\ b.n = a.n - 1
      /\ b.tracing = a.tracing /\ b.pc = 1 /\ b.d = a.d + 1
  <2>1. a.d + 1 \in Nat
    BY DEF Activation
  <2> HIDE DEF g
  <2>2. QED
    BY <1>1, <2>1 DEF Opened, Activation
<1> HIDE DEF b, g
<1>3. ContextOf(b, taped) = Context(g, TRUE, a.tracing, a.d + 1, taped)
  <2>1. <<g>>[1] = g /\ (b.kind \in {"main", "call"}) = TRUE
    BY <1>2
  <2>2. QED
    BY <1>2, <2>1 DEF ContextOf
<1>4. Remaining(p, b, taped) = less[Context(g, TRUE, a.tracing, a.d + 1, taped)]
  <2>1. Len(b.code) = 1
    BY <1>2
  <2>2. Eval(p)[b.n][ContextOf(b, taped)] = Remaining(p, b, taped)
    BY <1>2, <2>1, Begins
  <2>3. QED
    BY <1>2, <1>3, <2>2
<1> HIDE DEF less
<1>5. CASE Len(a.code) = 1
  <2> DEFINE c == ContextOf(a, taped)
  <2>1. /\ c \in Contexts(p) /\ c.f = a.code[1] /\ a.pc \in 1..Len(p.fns[c.f])
        /\ OpAt(p, c, a.pc) = OpOf(p, a) /\ <<c.f, a.pc>> = SiteOf(a)
        /\ Body(p, a.code) = p.fns[c.f]
        /\ Doing(p, a, taped) = Effect(p, less, a.n, c, a.pc)
    BY <1>5, DoingEffect DEF less
  <2>2. c.byName = (a.kind \in {"main", "call"}) /\ c.tracing = a.tracing /\ c.d = a.d /\ c.taped = taped
    BY ContextOfOK
  <2> HIDE DEF c
  <2>3. ~InTail(p, c, a.pc)
    <3>1. p.fns[c.f][a.pc].f = OpOf(p, a).f
      BY <2>1 DEF OpAt
    <3>2. QED
      BY <1>5, <2>1, <2>2, <3>1 DEF InTail
  <2>4. Doing(p, a, taped) =
           Entered(Frame(g, <<c.f, a.pc>>), c.d + 1, less[Context(g, TRUE, c.tracing, c.d + 1, c.taped)])
    <3>1. OpAt(p, c, a.pc).op = "call" /\ OpAt(p, c, a.pc).f = g
      BY <2>1 DEF g
    <3>2. Effect(p, less, a.n, c, a.pc) =
             IF InTail(p, c, a.pc) THEN less[c]
             ELSE Entered(Frame(OpAt(p, c, a.pc).f, <<c.f, a.pc>>), c.d + 1,
                          less[Context(OpAt(p, c, a.pc).f, TRUE, c.tracing, c.d + 1, c.taped)])
      BY <2>1, <3>1, EffectCall
    <3>3. QED
      BY <2>1, <2>3, <3>1, <3>2
  <2>5. QED
    BY <1>4, <2>1, <2>2, <2>4 DEF b, g
<1>6. CASE Len(a.code) # 1
  <2>1. a.tracing = TRUE /\ taped = TRUE
    BY <1>1, <1>6
  <2>2. Doing(p, a, taped) = Operand(less, g, a.code, a.d)
    BY <1>6, OperandCalls DEF Doing, g, less
  <2>3. SiteOf(a) = Append(a.code, 1)
    BY <1>6, OperandCalls DEF SiteOf
  <2>4. QED
    BY <1>4, <2>1, <2>2, <2>3 DEF Operand, b, g
<1>7. QED
  BY <1>5, <1>6

LEMMA DoingApply ==
  ASSUME NEW p, WellFormed(p), NEW a \in Activation(p), NEW taped \in BOOLEAN, ~IsDone(p, a),
         OpOf(p, a).op = "apply"
  PROVE  Doing(p, a, taped) =
            Entered(Frame("value", SiteOf(a)), a.d + 1,
                    Remaining(p, Opened(a, "apply", <<OpOf(p, a).f>>, a.n - 1, a.tracing), taped))
<1> DEFINE g == OpOf(p, a).f
           b == Opened(a, "apply", <<g>>, a.n - 1, a.tracing)
           less == Eval(p)[a.n - 1]
           c == ContextOf(a, taped)
<1>1. <<g>> \in Codes(p) /\ a.n - 1 \in Nat /\ a.tracing \in BOOLEAN
  BY DoingOK DEF Entries
<1>2. /\ b \in Activation(p) /\ b.kind = "apply" /\ b.code = <<g>> /\ b.n = a.n - 1
      /\ b.tracing = a.tracing /\ b.pc = 1 /\ b.d = a.d + 1
  <2>1. a.d + 1 \in Nat
    BY DEF Activation
  <2> HIDE DEF g
  <2>2. QED
    BY <1>1, <2>1 DEF Opened, Activation
<1> HIDE DEF b, g
<1>3. ContextOf(b, taped) = Context(g, FALSE, a.tracing, a.d + 1, taped)
  <2>1. <<g>>[1] = g /\ (b.kind \in {"main", "call"}) = FALSE
    BY <1>2
  <2>2. QED
    BY <1>2, <2>1 DEF ContextOf
<1>4. Remaining(p, b, taped) = less[Context(g, FALSE, a.tracing, a.d + 1, taped)]
  <2>1. Len(b.code) = 1
    BY <1>2
  <2>2. Eval(p)[b.n][ContextOf(b, taped)] = Remaining(p, b, taped)
    BY <1>2, <2>1, Begins
  <2>3. QED
    BY <1>2, <1>3, <2>2
<1> HIDE DEF less
<1>5. Len(a.code) = 1
  BY OperandCalls
<1>6. /\ c \in Contexts(p) /\ c.f = a.code[1] /\ a.pc \in 1..Len(p.fns[c.f])
      /\ OpAt(p, c, a.pc) = OpOf(p, a) /\ <<c.f, a.pc>> = SiteOf(a)
      /\ Doing(p, a, taped) = Effect(p, less, a.n, c, a.pc)
  BY <1>5, DoingEffect DEF less
<1>7. c.tracing = a.tracing /\ c.d = a.d /\ c.taped = taped
  BY ContextOfOK
<1> HIDE DEF c
<1>8. Doing(p, a, taped) =
         Entered(Frame("value", <<c.f, a.pc>>), c.d + 1,
                 less[Context(g, FALSE, c.tracing, c.d + 1, c.taped)])
  <2>1. OpAt(p, c, a.pc).op = "apply" /\ OpAt(p, c, a.pc).f = g
    BY <1>6 DEF g
  <2>2. Effect(p, less, a.n, c, a.pc) =
           Entered(Frame("value", <<c.f, a.pc>>), c.d + 1,
                   less[Context(OpAt(p, c, a.pc).f, FALSE, c.tracing, c.d + 1, c.taped)])
    BY <1>6, <2>1, EffectCases, Zenon
  <2>3. QED
    BY <1>6, <2>1, <2>2
<1>9. QED
  BY <1>4, <1>6, <1>7, <1>8 DEF b, g

LEMMA DoingGradient ==
  ASSUME NEW p, WellFormed(p), NEW a \in Activation(p), NEW taped \in BOOLEAN, ~IsDone(p, a),
         OpOf(p, a).op \in Gradients
  PROVE  Doing(p, a, taped) =
            IF OpOf(p, a).op = "grad" /\ a.tracing THEN Fails("not a vector")
            ELSE IF taped THEN Fails("nested")
            ELSE Entered(GradFrame, a.d + 1,
                         Remaining(p, Opened(a, "grad", SiteOf(a), a.n, TRUE), TRUE))
<1> DEFINE g == OpOf(p, a).f
           b == Opened(a, "grad", SiteOf(a), a.n, TRUE)
           less == Eval(p)[a.n - 1]
           c == ContextOf(a, taped)
<1>1. SiteOf(a) \in Codes(p) /\ a.n \in Nat /\ a.n # 0
  BY DoingOK
<1>2. /\ b \in Activation(p) /\ b.kind = "grad" /\ b.code = SiteOf(a) /\ b.n = a.n
      /\ b.pc = 1 /\ b.d = a.d + 1
  <2>1. a.d + 1 \in Nat
    BY DEF Activation
  <2> HIDE DEF g
  <2>2. QED
    BY <1>1, <2>1 DEF Opened, Activation
<1> HIDE DEF b, g
<1>5. Len(a.code) = 1
  <2>1. "call" \notin Gradients
    BY DEF Gradients
  <2>2. QED
    BY <2>1, OperandCalls
<1>6. /\ c \in Contexts(p) /\ c.f = a.code[1] /\ a.pc \in 1..Len(p.fns[c.f])
      /\ OpAt(p, c, a.pc) = OpOf(p, a) /\ <<c.f, a.pc>> = SiteOf(a)
      /\ p.fns[c.f][a.pc].f = g
      /\ Doing(p, a, taped) = Effect(p, less, a.n, c, a.pc)
  BY <1>5, DoingEffect DEF less, OpAt, g
<1>7. c.tracing = a.tracing /\ c.d = a.d /\ c.taped = taped
  BY ContextOfOK
<1> HIDE DEF c
<1>8. Remaining(p, b, TRUE) = Operand(less, g, SiteOf(a), a.d + 1)
  <2>1. b.code = <<c.f, a.pc>>
    BY <1>2, <1>6
  <2>2. Len(b.code) # 1 /\ b.code[1] = c.f /\ b.code[2] = a.pc
    BY <2>1
  <2>3. Remaining(p, b, TRUE) = Operand(Eval(p)[b.n - 1], p.fns[b.code[1]][b.code[2]].f, b.code, b.d)
    BY <1>1, <1>2, <2>2, OperandBegins
  <2>4. QED
    BY <1>2, <1>6, <2>2, <2>3 DEF less
<1> HIDE DEF less
<1>9. Doing(p, a, taped) =
         IF OpOf(p, a).op = "grad" /\ c.tracing THEN Fails("not a vector")
         ELSE IF c.taped THEN Fails("nested")
         ELSE Entered(GradFrame, c.d + 1, Operand(less, g, <<c.f, a.pc>>, c.d + 1))
  <2>1. OpAt(p, c, a.pc).op \in Gradients /\ OpAt(p, c, a.pc).f = g
    BY <1>6 DEF g
  <2>2. Effect(p, less, a.n, c, a.pc) =
           IF OpAt(p, c, a.pc).op = "grad" /\ c.tracing THEN Fails("not a vector")
           ELSE IF c.taped THEN Fails("nested")
           ELSE Entered(GradFrame, c.d + 1,
                        Operand(less, OpAt(p, c, a.pc).f, <<c.f, a.pc>>, c.d + 1))
    BY <1>6, <2>1, EffectCases, Zenon
  <2>3. QED
    BY <1>6, <2>1, <2>2, Zenon
<1>10. QED
  BY <1>6, <1>7, <1>8, <1>9 DEF b

-----------------------------------------------------------------------------
(* A run does what its program means                                       *)

\* The lines that the run at hand has printed.
Printed == IF entry.capturing THEN capture[1] ELSE stdout

\* What is still open will end as the program means; what failed, or ended, has.
RunFits ==
    active =>
        IF err = NoError /\ ctl # <<>> THEN Fits(prog, ctl, callStack[1], Printed)
        ELSE Whole(prog) = Result(err, IF err = NoError THEN <<>> ELSE callStack[1], Printed)

\* An operand of a gradient is entered by that gradient, on the traced vector.
Lambdas(c) == \A i \in DOMAIN c : Len(c[i].code) # 1 => c[i].kind = "grad" /\ c[i].tracing

\* Where the lines go.
Captures ==
    /\ active => entry.capturing = (cmd # "run")
    /\ active /\ entry.capturing => capture = Some(capture[1])
    /\ cmd # "run" \/ step = "start" => stdout = <<>>

MeaningInv == RunFits /\ Lambdas(ctl) /\ Captures /\ RunMeans

LEMMA LambdasModify ==
  ASSUME NEW S, NEW c \in Seq(S), c # <<>>, NEW a \in S, Lambdas(c),
         a.kind = c[Len(c)].kind, a.code = c[Len(c)].code, a.tracing = c[Len(c)].tracing
  PROVE  Lambdas([c EXCEPT ![Len(c)] = a])
<1> DEFINE d == [c EXCEPT ![Len(c)] = a]
           n == Len(c)
<1>1. d \in Seq(S) /\ Len(d) = n /\ n \in Nat
  BY ModifyTop
<1>2. DOMAIN c = 1..n /\ DOMAIN d = 1..n
  BY <1>1
<1>3. \A i \in 1..n : d[i].kind = c[i].kind /\ d[i].code = c[i].code /\ d[i].tracing = c[i].tracing
  BY ModifyTop
<1> HIDE DEF d, n
<1>4. Lambdas(d)
  BY <1>2, <1>3 DEF Lambdas
<1>5. QED
  BY <1>4 DEF d, n

LEMMA LambdasPush ==
  ASSUME NEW S, NEW c \in Seq(S), NEW a \in S, Lambdas(c),
         Len(a.code) # 1 => a.kind = "grad" /\ a.tracing
  PROVE  Lambdas(Append(c, a))
<1> DEFINE d == Append(c, a)
           n == Len(c)
<1>1. d \in Seq(S) /\ Len(d) = n + 1 /\ n \in Nat /\ d[n + 1] = a /\ \A i \in 1..n : d[i] = c[i]
  BY PushTop
<1>2. DOMAIN c = 1..n
  OBVIOUS
<1> HIDE DEF d, n
<1>3. \A i \in DOMAIN d : i = n + 1 \/ i \in 1..n
  BY <1>1
<1>4. Lambdas(d)
  BY <1>1, <1>2, <1>3 DEF Lambdas
<1>5. QED
  BY <1>4 DEF d

LEMMA LambdasPop ==
  ASSUME NEW p, NEW c \in Seq(Activation(p)), c # <<>>, Lambdas(c)
  PROVE  Lambdas(Popped(c)) /\ Lambdas(Advanced(Popped(c)))
<1> DEFINE S == Activation(p)
           d == Popped(c)
<1>1. d \in Seq(S) /\ Len(d) = Len(c) - 1 /\ \A i \in 1..(Len(c) - 1) : d[i] = c[i]
  BY PopTop
<1>2. DOMAIN c = 1..Len(c) /\ DOMAIN d = 1..(Len(c) - 1) /\ Len(c) \in Nat
  BY <1>1
<1> HIDE DEF d
<1>3. Lambdas(d)
  <2>1. \A i \in DOMAIN d : i \in DOMAIN c /\ d[i] = c[i]
    BY <1>1, <1>2
  <2>2. QED
    BY <2>1 DEF Lambdas
<1>4. CASE d = <<>>
  BY <1>3, <1>4 DEF Advanced, d
<1>5. CASE d # <<>>
  <2> DEFINE a == Moved(d[Len(d)])
  <2>1. d[Len(d)] \in S
    BY <1>1, <1>5
  <2>2. a \in S /\ a.kind = d[Len(d)].kind /\ a.code = d[Len(d)].code
        /\ a.tracing = d[Len(d)].tracing
    BY <2>1, MovedOK
  <2>3. Advanced(d) = [d EXCEPT ![Len(d)] = a]
    BY <1>1, <1>5 DEF Advanced, Moved
  <2> HIDE DEF a, S
  <2>4. Lambdas([d EXCEPT ![Len(d)] = a])
    BY <1>1, <1>3, <1>5, <2>2, LambdasModify
  <2>5. QED
    BY <1>3, <2>3, <2>4 DEF d
<1>6. QED
  BY <1>4, <1>5

\* The top, for the lemmas about what it does.
Taped == TapedAt(ctl, Len(ctl))

LEMMA Standing ==
  ASSUME RunInv, MeaningInv, active, err = NoError, ctl # <<>>
  PROVE  /\ WellFormed(prog) /\ Fits(prog, ctl, callStack[1], Printed)
         /\ Top \in Activation(prog) /\ Top = ctl[Len(ctl)] /\ Top.d = depth
         /\ Taped = (tape # None) /\ Taped \in BOOLEAN
         /\ Len(Top.code) # 1 => Top.kind = "grad" /\ Top.tracing /\ Taped
         /\ Finished <=> IsDone(prog, Top)
         /\ Here = OpOf(prog, Top) /\ Site = SiteOf(Top)
<1>1. WellFormed(prog) /\ Fits(prog, ctl, callStack[1], Printed)
  BY Parts DEF MeaningInv, RunFits
<1>2. /\ Top \in Activation(prog) /\ Top = ctl[Len(ctl)] /\ Top.d = depth
      /\ Len(ctl) \in 1..Len(ctl) /\ DOMAIN ctl = 1..Len(ctl)
  BY TopOK, Parts DEF Top
<1>3. Taped = (tape # None) /\ Taped \in BOOLEAN
  <2>1. tape # None <=> \E i \in 1..Len(ctl) : ctl[i].kind = "grad"
    BY <1>2, Parts DEF Shape
  <2>2. Taped <=> tape # None
    BY <2>1, Zenon DEF Taped, TapedAt
  <2>3. Taped \in BOOLEAN
    BY DEF Taped, TapedAt
  <2>4. QED
    BY <2>2, <2>3
<1>4. Len(Top.code) # 1 => Top.kind = "grad" /\ Top.tracing /\ Taped
  <2>1. Len(Top.code) # 1 => Top.kind = "grad" /\ Top.tracing
    BY <1>2 DEF MeaningInv, Lambdas
  <2>2. Top.kind = "grad" => Taped
    BY <1>2 DEF Taped, TapedAt
  <2>3. QED
    BY <2>1, <2>2
<1>5. Finished <=> IsDone(prog, Top)
  BY DEF Finished, IsDone
<1>6. QED
  BY <1>1, <1>2, <1>3, <1>4, <1>5 DEF Here, OpOf, Site, SiteOf

LEMMA KeepsMeaning ==
  ASSUME MeaningInv, active, RunFits', Lambdas(ctl)',
         UNCHANGED <<active, entry, capture, stdout, cmd, step>>
  PROVE  MeaningInv'
<1>1. Captures'
  BY DEF MeaningInv, Captures
<1>2. RunMeans'
  BY DEF RunMeans
<1>3. QED
  BY <1>1, <1>2 DEF MeaningInv

\* The top moves on within its code.
LEMMA MoveFits ==
  ASSUME RunInv, MeaningInv, active, err = NoError, ctl # <<>>,
         NEW a \in Activation(prog),
         a.kind = Top.kind, a.code = Top.code, a.tracing = Top.tracing,
         ctl' = [ctl EXCEPT ![Len(ctl)] = a],
         UNCHANGED <<prog, active, err, callStack>>,
         NEW more \in Seq(Nat), Printed' = Printed \o more,
         Remaining(prog, Top, Taped) = Then(Prints(more), Remaining(prog, a, Taped))
  PROVE  RunFits' /\ Lambdas(ctl)'
<1>1. /\ WellFormed(prog) /\ Fits(prog, ctl, callStack[1], Printed)
      /\ Top = ctl[Len(ctl)] /\ ctl \in Seq(Activation(prog))
  BY Standing, Parts
<1>2. LeftOf(prog, ctl, Len(ctl)) = Then(Prints(more), Remaining(prog, a, TapedAt(ctl, Len(ctl))))
  BY <1>1 DEF LeftOf, Taped
<1>3. Fits(prog, [ctl EXCEPT ![Len(ctl)] = a], callStack[1], Printed \o more)
  BY <1>1, <1>2, FitsMove
<1>4. RunFits'
  <2>1. Fits(prog, ctl', callStack'[1], Printed')
    BY <1>3
  <2>2. err' = NoError /\ ctl' # <<>>
    <3>1. ctl' # <<>>
      BY <2>1 DEF Fits
    <3>2. QED
      BY <3>1
  <2>3. Fits(prog, ctl, callStack[1], Printed)'
    BY <2>1
  <2>4. QED
    BY <2>2, <2>3 DEF RunFits
<1>5. Lambdas([ctl EXCEPT ![Len(ctl)] = a])
  <2> DEFINE S == Activation(prog)
  <2>1. a \in S /\ ctl \in Seq(S)
    BY <1>1
  <2> HIDE DEF S
  <2>2. QED
    BY <1>1, <2>1, LambdasModify DEF MeaningInv
<1>6. Lambdas(ctl)'
  BY <1>5
<1>7. QED
  BY <1>4, <1>6

\* The top fails, or the call that it makes is refused.
LEMMA FailFits ==
  ASSUME RunInv, MeaningInv, active, err = NoError, ctl # <<>>, ~Finished,
         err' # NoError, NEW w \in Seq(Frames(prog)),
         Doing(prog, Top, Taped) = Result(err', w, <<>>),
         callStack'[1] = callStack[1] \o w,
         UNCHANGED <<prog, active, entry, ctl, capture, stdout>>
  PROVE  RunFits' /\ Lambdas(ctl)'
<1> DEFINE e == err'
           s == callStack[1]
<1>1. /\ WellFormed(prog) /\ Fits(prog, ctl, s, Printed) /\ Top = ctl[Len(ctl)]
      /\ ~IsDone(prog, ctl[Len(ctl)])
      /\ Doing(prog, ctl[Len(ctl)], TapedAt(ctl, Len(ctl))) = Result(e, w, <<>>)
      /\ e # NoError
  BY Standing DEF Taped
<1> HIDE DEF e, s
<1>2. Whole(prog) = Result(e, s \o w, Printed)
  BY <1>1, FitsFail
<1>3. Whole(prog') = Result(err', callStack'[1], Printed')
  BY <1>2 DEF e, s, Printed
<1>4. Whole(prog)' = Result(err, IF err = NoError THEN <<>> ELSE callStack[1], Printed)'
  BY <1>3
<1>5. RunFits'
  BY <1>4 DEF RunFits
<1>6. QED
  BY <1>5 DEF MeaningInv

\* A call is made: it is entered, or refused.
LEMMA OpenFits ==
  ASSUME RunInv, MeaningInv, active, err = NoError, ctl # <<>>, ~Finished,
         NEW frame \in Frames(prog), NEW kind \in {"call", "apply", "grad"},
         NEW code \in Codes(prog), NEW n \in Nat, NEW tracing \in BOOLEAN,
         Open(frame, kind, code, n, tracing),
         Len(code) # 1 => kind = "grad" /\ tracing,
         Doing(prog, Top, Taped) =
            Entered(frame, Top.d + 1,
                    Remaining(prog, Opened(Top, kind, code, n, tracing), Taped \/ kind = "grad")),
         UNCHANGED <<prog, active, entry, capture, stdout>>
  PROVE  RunFits' /\ Lambdas(ctl)'
<1> DEFINE s == callStack[1]
           F == Frames(prog)
           a == Opened(Top, kind, code, n, tracing)
           r == Remaining(prog, a, Taped \/ kind = "grad")
<1>1. /\ s \in Seq(F) /\ callStack # None /\ callStack' = Some(Append(s, frame))
      /\ ctl \in Seq(Activation(prog))
  BY Parts DEF Open, PushFrame
<1>2. callStack'[1] = Append(s, frame)
  BY <1>1 DEF Some
<1>3. Top.d = depth /\ Top = ctl[Len(ctl)] /\ Top \in Activation(prog)
  BY Standing
<1>4. CASE TooDeep(depth + 1)
  <2>1. err' = "limit" /\ UNCHANGED <<ctl, depth>>
    BY <1>4 DEF Open
  <2>2. err' # NoError
    BY <2>1 DEF NoError
  <2> HIDE DEF F
  <2>3. <<frame>> \in Seq(F)
    BY OneSeq DEF F
  <2>4. Append(s, frame) = s \o <<frame>>
    <3>1. frame \in F
      BY DEF F
    <3> HIDE DEF s
    <3>2. QED
      BY <1>1, <3>1, AppendIsConcat
  <2>5. Doing(prog, Top, Taped) = Result(err', <<frame>>, <<>>)
    BY <1>3, <1>4, <2>1 DEF Entered, TooDeep
  <2>6. QED
    BY <1>2, <2>1, <2>2, <2>3, <2>4, <2>5, FailFits DEF F
<1>5. CASE ~TooDeep(depth + 1)
  <2>1. ctl' = Append(ctl, [kind |-> kind, code |-> code, n |-> n, tracing |-> tracing,
                            pc |-> 1, d |-> depth + 1])
        /\ err' = NoError
    BY <1>5 DEF Open
  <2>2. ctl' = Append(ctl, a)
    BY <1>3, <2>1 DEF Opened
  <2>3. a \in Activation(prog) /\ a.kind = kind /\ a.code = code /\ a.tracing = tracing
    <3>1. Top.d + 1 \in Nat
      BY <1>3 DEF Activation
    <3>2. QED
      BY <3>1 DEF Opened, Activation
  <2>4. Doing(prog, Top, Taped) = Under(frame, r)
    BY <1>3, <1>5 DEF Entered, TooDeep
  <2>5. /\ WellFormed(prog) /\ Fits(prog, ctl, s, Printed)
        /\ ~IsDone(prog, ctl[Len(ctl)])
        /\ Doing(prog, ctl[Len(ctl)], TapedAt(ctl, Len(ctl))) =
             Under(frame, Remaining(prog, a, TapedAt(ctl, Len(ctl)) \/ a.kind = "grad"))
    BY <1>3, <2>3, <2>4, Standing DEF Taped
  <2> HIDE DEF a, s
  <2>6. Fits(prog, Append(ctl, a), Append(s, frame), Printed)
    BY <2>3, <2>5, FitsPush
  <2>7. Fits(prog', ctl', callStack'[1], Printed')
    BY <1>2, <2>2, <2>6 DEF Printed
  <2>8. Fits(prog, ctl, callStack[1], Printed)'
    BY <2>7
  <2>9. ctl' # <<>>
    BY <2>7 DEF Fits
  <2>10. RunFits'
    BY <2>1, <2>8, <2>9 DEF RunFits
  <2>11. Lambdas(Append(ctl, a))
    <3> DEFINE S == Activation(prog)
    <3>1. a \in S /\ ctl \in Seq(S)
      BY <1>1, <2>3
    <3> HIDE DEF S
    <3>2. QED
      BY <2>3, <3>1, LambdasPush DEF MeaningInv
  <2>12. Lambdas(ctl)'
    BY <2>2, <2>11
  <2>13. QED
    BY <2>10, <2>12
<1>6. QED
  BY <1>4, <1>5

LEMMA Acting ==
  ASSUME RunInv, MeaningInv, active, err = NoError, ctl # <<>>, ~Finished
  PROVE  /\ WellFormed(prog) /\ Top \in Activation(prog) /\ ~IsDone(prog, Top)
         /\ Taped \in BOOLEAN /\ Taped = (tape # None)
         /\ Here = OpOf(prog, Top) /\ Site = SiteOf(Top)
         /\ Moved(Top) \in Activation(prog)
         /\ Moved(Top).kind = Top.kind /\ Moved(Top).code = Top.code
         /\ Moved(Top).tracing = Top.tracing
         /\ Advanced(ctl) = [ctl EXCEPT ![Len(ctl)] = Moved(Top)]
         /\ Remaining(prog, Top, Taped) =
               Then(Doing(prog, Top, Taped), Remaining(prog, Moved(Top), Taped))
<1>1. /\ WellFormed(prog) /\ Top \in Activation(prog) /\ ~IsDone(prog, Top)
      /\ Taped \in BOOLEAN /\ Taped = (tape # None)
      /\ Here = OpOf(prog, Top) /\ Site = SiteOf(Top)
  BY Standing
<1>2. /\ Moved(Top) \in Activation(prog) /\ Moved(Top).kind = Top.kind
      /\ Moved(Top).code = Top.code /\ Moved(Top).tracing = Top.tracing
  BY <1>1, MovedOK
<1>3. Advanced(ctl) = [ctl EXCEPT ![Len(ctl)] = Moved(Top)]
  BY Parts, TopOK DEF Advanced, Moved, Top
<1>4. Remaining(prog, Top, Taped) =
         Then(Doing(prog, Top, Taped), Remaining(prog, Moved(Top), Taped))
  BY <1>1, RemainingIs
<1>5. QED
  BY <1>1, <1>2, <1>3, <1>4

\* What was printed is a list of numbers.
LEMMA PrintedOK ==
  ASSUME RunInv, MeaningInv, active, err = NoError, ctl # <<>>
  PROVE  Printed \in Seq(Nat)
BY Standing DEF Fits

\* Refused without a call.
LEMMA RefusedFits ==
  ASSUME RunInv, MeaningInv, active, err = NoError, ctl # <<>>, ~Finished,
         err' # NoError, Doing(prog, Top, Taped) = Result(err', <<>>, <<>>),
         UNCHANGED <<prog, active, entry, ctl, callStack, capture, stdout>>
  PROVE  RunFits' /\ Lambdas(ctl)'
<1> DEFINE w == <<>>
           s == callStack[1]
           F == Frames(prog)
<1>1. s \in Seq(F)
  BY Parts
<1> HIDE DEF F, s
<1>2. w \in Seq(F)
  BY EmptySeq
<1>3. s \o w = s
  BY <1>1, ConcatEmptySeq
<1>4. callStack'[1] = callStack[1] \o w
  BY <1>3 DEF s
<1>5. Doing(prog, Top, Taped) = Result(err', w, <<>>)
  OBVIOUS
<1> HIDE DEF w
<1>6. QED
  BY <1>2, <1>4, <1>5, FailFits DEF F

\* A call that is not one of a gradient.
LEMMA EnterFits ==
  ASSUME RunInv, MeaningInv, active, err = NoError, ctl # <<>>, ~Finished,
         NEW frame \in Frames(prog), NEW kind \in {"call", "apply"},
         NEW f, <<f>> \in Codes(prog), NEW n \in Nat, NEW tracing \in BOOLEAN,
         Open(frame, kind, <<f>>, n, tracing),
         Doing(prog, Top, Taped) =
            Entered(frame, Top.d + 1, Remaining(prog, Opened(Top, kind, <<f>>, n, tracing), Taped)),
         UNCHANGED <<prog, active, entry, capture, stdout>>
  PROVE  RunFits' /\ Lambdas(ctl)'
<1>1. Taped \in BOOLEAN
  BY Standing
<1>2. (Taped \/ kind = "grad") = Taped
  BY <1>1
<1>3. Len(<<f>>) = 1 /\ kind \in {"call", "apply", "grad"}
  OBVIOUS
<1>4. Doing(prog, Top, Taped) =
         Entered(frame, Top.d + 1,
                 Remaining(prog, Opened(Top, kind, <<f>>, n, tracing), Taped \/ kind = "grad"))
  BY <1>2
<1>5. QED
  BY <1>3, <1>4, OpenFits

LEMMA EmitLineMeans ==
  ASSUME RunInv, MeaningInv, EmitLine, UNCHANGED agentVars, step # "start"
  PROVE  MeaningInv'
<1>1. active /\ err = NoError /\ ctl # <<>> /\ ~Finished /\ Here.op = "print"
      /\ ctl' = Advanced(ctl)
      /\ UNCHANGED <<prog, active, entry, err, callStack, cmd, step>>
  BY DEF EmitLine, At, agentVars
<1>2. Doing(prog, Top, Taped) = Prints(<<Top.n>>)
  BY <1>1, Acting, DoingSimple
<1>3. Top.n \in Nat
  BY <1>1, Acting DEF Activation
<1>4. Captures /\ entry.capturing = (cmd # "run")
  BY <1>1 DEF MeaningInv, Captures
<1>5. /\ Printed' = Append(Printed, Top.n)
      /\ entry.capturing => capture' = Some(capture'[1]) /\ stdout' = stdout
      /\ cmd # "run" => stdout' = stdout
  <2>1. CASE entry.capturing
    <3>1. capture = Some(capture[1]) /\ capture # None
      <4>1. capture = Some(capture[1])
        BY <1>1, <1>4, <2>1 DEF Captures
      <4>2. QED
        BY <4>1, SomeOK, Zenon
    <3>2. capture' = Some(Append(capture[1], Top.n)) /\ stdout' = stdout
      BY <3>1 DEF EmitLine
    <3>3. capture' = Some(capture'[1]) /\ capture'[1] = Append(capture[1], Top.n)
      BY <3>2, SomeOK, Zenon
    <3>4. QED
      BY <1>1, <2>1, <3>2, <3>3 DEF Printed
  <2>2. CASE ~entry.capturing
    <3>1. capture = None
      BY <1>1, <2>2, Parts
    <3>2. stdout' = Append(stdout, Top.n)
      BY <3>1 DEF EmitLine
    <3>3. cmd = "run"
      BY <1>4, <2>2
    <3>4. QED
      BY <1>1, <2>2, <3>2, <3>3 DEF Printed
  <2>3. QED
    BY <2>1, <2>2
<1>6. Printed' = Printed \o <<Top.n>>
  <2> DEFINE x == Printed
             n == Top.n
  <2>1. x \in Seq(Nat) /\ n \in Nat /\ Printed' = Append(x, n)
    BY <1>1, <1>3, <1>5, PrintedOK
  <2> HIDE DEF x, n
  <2>2. Append(x, n) = x \o <<n>>
    BY <2>1, AppendIsConcat
  <2>3. QED
    BY <2>1, <2>2 DEF x, n
<1>7. RunFits' /\ Lambdas(ctl)'
  <2>1. <<Top.n>> \in Seq(Nat)
    BY <1>3
  <2> DEFINE a == Moved(Top)
             more == <<Top.n>>
  <2>2. /\ a \in Activation(prog) /\ a.kind = Top.kind /\ a.code = Top.code
        /\ a.tracing = Top.tracing /\ ctl' = [ctl EXCEPT ![Len(ctl)] = a]
        /\ Remaining(prog, Top, Taped) = Then(Prints(more), Remaining(prog, a, Taped))
    BY <1>1, <1>2, Acting
  <2>3. more \in Seq(Nat) /\ Printed' = Printed \o more
    BY <1>6, <2>1
  <2> HIDE DEF a, more
  <2>4. QED
    BY <1>1, <2>2, <2>3, MoveFits
<1>8. Captures'
  BY <1>1, <1>4, <1>5 DEF Captures
<1>9. RunMeans'
  BY <1>1 DEF RunMeans
<1>10. QED
  BY <1>7, <1>8, <1>9 DEF MeaningInv

\* The steps that neither print nor end the run.
LEMMA TrapMeans ==
  ASSUME RunInv, MeaningInv, Trap, UNCHANGED agentVars
  PROVE  MeaningInv'
<1>1. /\ active /\ err = NoError /\ ctl # <<>> /\ ~Finished /\ Here.op = "trap"
      /\ err' = "trap" /\ err' # NoError
      /\ UNCHANGED <<prog, active, entry, ctl, callStack, capture, stdout, cmd, step>>
  BY DEF Trap, At, agentVars, NoError
<1>2. Doing(prog, Top, Taped) = Result(err', <<>>, <<>>)
  BY <1>1, Acting, DoingSimple DEF Fails
<1>3. RunFits' /\ Lambdas(ctl)'
  BY <1>1, <1>2, RefusedFits
<1>4. QED
  BY <1>1, <1>3, KeepsMeaning

LEMMA ArithmeticMeans ==
  ASSUME RunInv, MeaningInv, Arithmetic, UNCHANGED agentVars
  PROVE  MeaningInv'
<1>1. /\ active /\ err = NoError /\ ctl # <<>> /\ ~Finished /\ Here.op = "arith"
      /\ UNCHANGED <<prog, active, entry, callStack, capture, stdout, cmd, step>>
  BY DEF Arithmetic, At, agentVars
<1>2. Top.tracing => tape # None
  <2> SUFFICES ASSUME Top.tracing PROVE tape # None
    OBVIOUS
  <2>1. PICK k \in 1..Len(ctl) : ctl[k].kind = "grad"
    BY <1>1, TopOK, Parts DEF Shape, Top
  <2>2. QED
    BY <2>1, Parts DEF Shape
<1>3. ctl' = Advanced(ctl) /\ err' = NoError
  BY <1>1, <1>2 DEF Arithmetic
<1>4. Doing(prog, Top, Taped) = Done
  BY <1>1, Acting, DoingSimple
<1>5. RunFits' /\ Lambdas(ctl)'
  <2> DEFINE a == Moved(Top)
             more == <<>>
  <2>1. more \in Seq(Nat) /\ Done = Prints(more)
    BY EmptySeq, PrintsOK
  <2>2. /\ a \in Activation(prog) /\ a.kind = Top.kind /\ a.code = Top.code
        /\ a.tracing = Top.tracing /\ ctl' = [ctl EXCEPT ![Len(ctl)] = a]
        /\ Remaining(prog, Top, Taped) = Then(Prints(more), Remaining(prog, a, Taped))
    BY <1>1, <1>3, <1>4, <2>1, Acting
  <2>3. Printed' = Printed \o more
    <3>1. Printed \in Seq(Nat)
      BY <1>1, PrintedOK
    <3>2. Printed' = Printed
      BY <1>1 DEF Printed
    <3>3. QED
      BY <3>1, <3>2, ConcatEmptySeq
  <2> HIDE DEF a, more
  <2>4. QED
    BY <1>1, <1>3, <2>1, <2>2, <2>3, MoveFits
<1>6. QED
  BY <1>1, <1>5, KeepsMeaning

LEMMA TailSelfCallMeans ==
  ASSUME RunInv, MeaningInv, TailSelfCall, UNCHANGED agentVars
  PROVE  MeaningInv'
<1>1. /\ active /\ err = NoError /\ ctl # <<>> /\ ~Finished /\ Here.op = "call" /\ IsSelfTail
      /\ UNCHANGED <<prog, active, entry, err, callStack, capture, stdout, cmd, step>>
  BY DEF TailSelfCall, At, agentVars
<1>2. /\ WellFormed(prog) /\ Top \in Activation(prog) /\ ~IsDone(prog, Top) /\ Taped \in BOOLEAN
      /\ OpOf(prog, Top).op = "call" /\ OpOf(prog, Top) = Here
  BY <1>1, Acting
<1>3. /\ Top.kind \in {"main", "call"} /\ OpOf(prog, Top).f = Top.code[1]
      /\ Top.pc = Len(Body(prog, Top.code))
  BY <1>1, <1>2 DEF IsSelfTail
<1>4. Len(Top.code) = 1
  BY <1>1, <1>3, Standing
<1>5. Remaining(prog, Top, Taped) = Remaining(prog, Rewound(Top), Taped)
  BY <1>2, <1>3, <1>4, DoingJump
<1>6. /\ Rewound(Top) \in Activation(prog) /\ Rewound(Top).kind = Top.kind
      /\ Rewound(Top).code = Top.code /\ Rewound(Top).tracing = Top.tracing
  BY <1>2, DoingOK, RewoundOK
<1>7. ctl' = [ctl EXCEPT ![Len(ctl)] = Rewound(Top)]
  BY <1>1, Parts, TopOK DEF TailSelfCall, Rewound, Top
<1>8. RunFits' /\ Lambdas(ctl)'
  <2> DEFINE a == Rewound(Top)
             more == <<>>
             r == Remaining(prog, a, Taped)
  <2>1. more \in Seq(Nat) /\ Done = Prints(more)
    BY EmptySeq, PrintsOK
  <2>2. r \in Results(Frames(prog))
    BY <1>2, <1>6, RemainingIs DEF ResultsOf
  <2> HIDE DEF a, more, r
  <2>3. Then(Prints(more), r) = r
    BY <2>1, <2>2, ThenDone
  <2>4. Printed' = Printed \o more
    <3>1. Printed \in Seq(Nat)
      BY <1>1, PrintedOK
    <3>2. Printed' = Printed
      BY <1>1 DEF Printed
    <3>3. QED
      BY <3>1, <3>2, ConcatEmptySeq DEF more
  <2>5. Remaining(prog, Top, Taped) = Then(Prints(more), Remaining(prog, a, Taped))
    BY <1>5, <2>3 DEF a, r
  <2>6. QED
    BY <1>1, <1>6, <1>7, <2>1, <2>4, <2>5, MoveFits DEF a
<1>9. QED
  BY <1>1, <1>8, KeepsMeaning

LEMMA CallMeans ==
  ASSUME RunInv, MeaningInv, Call, UNCHANGED agentVars
  PROVE  MeaningInv'
<1>1. /\ active /\ err = NoError /\ ctl # <<>> /\ ~Finished /\ Here.op = "call" /\ ~IsSelfTail
      /\ Open(Frame(Here.f, Site), "call", <<Here.f>>, Top.n - 1, Top.tracing)
      /\ UNCHANGED <<prog, active, entry, capture, stdout, cmd, step>>
  BY DEF Call, At, agentVars
<1>2. /\ WellFormed(prog) /\ Top \in Activation(prog) /\ ~IsDone(prog, Top) /\ Taped \in BOOLEAN
      /\ Here = OpOf(prog, Top) /\ Site = SiteOf(Top)
      /\ Len(Top.code) # 1 => Top.tracing /\ Taped
  BY <1>1, Acting, Standing
<1>3. ~(Len(Top.code) = 1 /\ Top.kind \in {"main", "call"} /\ OpOf(prog, Top).f = Top.code[1]
         /\ Top.pc = Len(Body(prog, Top.code)))
  BY <1>1, <1>2 DEF IsSelfTail
<1>4. /\ Here.f \in DOMAIN prog.fns /\ <<Here.f>> \in Codes(prog) /\ Top.n - 1 \in Nat
      /\ Top.tracing \in BOOLEAN /\ Frame(Here.f, Site) \in Frames(prog)
  BY <1>1, <1>2, DoingOK DEF Entries
<1>5. Doing(prog, Top, Taped) =
         Entered(Frame(Here.f, Site), Top.d + 1,
                 Remaining(prog, Opened(Top, "call", <<Here.f>>, Top.n - 1, Top.tracing), Taped))
  BY <1>1, <1>2, <1>3, DoingCall
<1>6. RunFits' /\ Lambdas(ctl)'
  BY <1>1, <1>4, <1>5, EnterFits
<1>7. QED
  BY <1>1, <1>6, KeepsMeaning

LEMMA ApplyMeans ==
  ASSUME RunInv, MeaningInv, Apply, UNCHANGED agentVars
  PROVE  MeaningInv'
<1>1. /\ active /\ err = NoError /\ ctl # <<>> /\ ~Finished /\ Here.op = "apply"
      /\ Open(Frame("value", Site), "apply", <<Here.f>>, Top.n - 1, Top.tracing)
      /\ UNCHANGED <<prog, active, entry, capture, stdout, cmd, step>>
  BY DEF Apply, At, agentVars
<1>2. /\ WellFormed(prog) /\ Top \in Activation(prog) /\ ~IsDone(prog, Top) /\ Taped \in BOOLEAN
      /\ Here = OpOf(prog, Top) /\ Site = SiteOf(Top)
  BY <1>1, Acting
<1>4. /\ Here.f \in DOMAIN prog.fns /\ <<Here.f>> \in Codes(prog) /\ Top.n - 1 \in Nat
      /\ Top.tracing \in BOOLEAN /\ Frame("value", Site) \in Frames(prog)
  BY <1>1, <1>2, DoingOK DEF Entries
<1>5. Doing(prog, Top, Taped) =
         Entered(Frame("value", Site), Top.d + 1,
                 Remaining(prog, Opened(Top, "apply", <<Here.f>>, Top.n - 1, Top.tracing), Taped))
  BY <1>1, <1>2, DoingApply
<1>6. RunFits' /\ Lambdas(ctl)'
  BY <1>1, <1>4, <1>5, EnterFits
<1>7. QED
  BY <1>1, <1>6, KeepsMeaning

LEMMA GradRefusedMeans ==
  ASSUME RunInv, MeaningInv, GradRefused, UNCHANGED agentVars
  PROVE  MeaningInv'
<1>1. /\ active /\ err = NoError /\ ctl # <<>> /\ ~Finished /\ Here.op \in Gradients
      /\ UNCHANGED <<prog, active, entry, ctl, callStack, capture, stdout, cmd, step>>
  BY DEF GradRefused, At, agentVars, Gradients
<1>2. /\ WellFormed(prog) /\ Top \in Activation(prog) /\ ~IsDone(prog, Top) /\ Taped \in BOOLEAN
      /\ Here = OpOf(prog, Top) /\ Taped = (tape # None)
  BY <1>1, Acting
<1>3. Doing(prog, Top, Taped) = Result(err', <<>>, <<>>) /\ err' # NoError
  <2>1. /\ OpOf(prog, Top).op = "grad" /\ Top.tracing =>
              Doing(prog, Top, Taped) = Fails("not a vector")
        /\ ~(OpOf(prog, Top).op = "grad" /\ Top.tracing) /\ Taped =>
              Doing(prog, Top, Taped) = Fails("nested")
    BY <1>1, <1>2, DoingGradient
  <2>2. CASE Here.op = "grad" /\ Top.tracing /\ err' = "not a vector"
    BY <1>2, <2>1, <2>2 DEF Fails, NoError
  <2>3. CASE ~(Here.op = "grad" /\ Top.tracing) /\ tape # None /\ err' = "nested"
    BY <1>2, <2>1, <2>3 DEF Fails, NoError
  <2>4. QED
    BY <2>2, <2>3 DEF GradRefused
<1>4. RunFits' /\ Lambdas(ctl)'
  BY <1>1, <1>3, RefusedFits
<1>5. QED
  BY <1>1, <1>4, KeepsMeaning

LEMMA GradMeans ==
  ASSUME RunInv, MeaningInv, Grad, UNCHANGED agentVars
  PROVE  MeaningInv'
<1>1. /\ active /\ err = NoError /\ ctl # <<>> /\ ~Finished /\ Here.op \in Gradients
      /\ ~(Here.op = "grad" /\ Top.tracing) /\ tape = None
      /\ Open(GradFrame, "grad", Site, Top.n, TRUE)
      /\ UNCHANGED <<prog, active, entry, capture, stdout, cmd, step>>
  BY DEF Grad, At, agentVars, Gradients
<1>2. /\ WellFormed(prog) /\ Top \in Activation(prog) /\ ~IsDone(prog, Top) /\ Taped \in BOOLEAN
      /\ Here = OpOf(prog, Top) /\ Site = SiteOf(Top) /\ Taped = (tape # None)
  BY <1>1, Acting
<1>3. Taped = FALSE
  BY <1>1, <1>2
<1>4. Site \in Codes(prog) /\ Top.n \in Nat /\ GradFrame \in Frames(prog)
  BY <1>1, <1>2, DoingOK
<1>5. Doing(prog, Top, Taped) =
         Entered(GradFrame, Top.d + 1,
                 Remaining(prog, Opened(Top, "grad", Site, Top.n, TRUE), TRUE))
  BY <1>1, <1>2, <1>3, DoingGradient
<1>6. Doing(prog, Top, Taped) =
         Entered(GradFrame, Top.d + 1,
                 Remaining(prog, Opened(Top, "grad", Site, Top.n, TRUE), Taped \/ "grad" = "grad"))
  <2>1. (Taped \/ "grad" = "grad") = TRUE
    OBVIOUS
  <2>2. QED
    BY <1>5, <2>1
<1>7. RunFits' /\ Lambdas(ctl)'
  BY <1>1, <1>4, <1>6, OpenFits
<1>8. QED
  BY <1>1, <1>7, KeepsMeaning

LEMMA ReturnMeans ==
  ASSUME RunInv, MeaningInv, Return, UNCHANGED agentVars
  PROVE  MeaningInv'
<1> DEFINE s == callStack[1]
<1>1. /\ active /\ err = NoError /\ err' = NoError /\ ctl # <<>> /\ Finished
      /\ ctl' = Advanced(Popped(ctl))
      /\ UNCHANGED <<prog, active, entry, capture, stdout, cmd, step>>
  BY DEF Return, agentVars
<1>2. callStack'[1] = Popped(s)
  <2>1. callStack # None
    BY <1>1, Parts
  <2>2. callStack' = Some(Popped(s))
    BY <2>1 DEF Return, PopFrame
  <2>3. QED
    BY <2>2 DEF Some
<1>3. /\ WellFormed(prog) /\ Fits(prog, ctl, s, Printed) /\ IsDone(prog, ctl[Len(ctl)])
      /\ ctl \in Seq(Activation(prog)) /\ Len(ctl) \in Nat
  BY <1>1, Standing, Parts
<1> HIDE DEF s
<1>4. IF Len(ctl) = 1 THEN Whole(prog) = Prints(Printed)
      ELSE Fits(prog, Advanced(Popped(ctl)), Popped(s), Printed)
  BY <1>3, FitsPop
<1>5. Printed' = Printed
  BY <1>1 DEF Printed
<1>6. RunFits'
  <2>1. CASE Len(ctl) = 1
    <3>1. Popped(ctl) \in Seq(Activation(prog)) /\ Len(Popped(ctl)) = 0
      BY <1>1, <1>3, <2>1, PopTop
    <3>2. Popped(ctl) = <<>>
      BY <3>1
    <3>3. ctl' = <<>>
      BY <1>1, <3>2 DEF Advanced
    <3>4. Whole(prog') = Result(err', <<>>, Printed')
      BY <1>1, <1>4, <1>5, <2>1 DEF Prints
    <3>5. Whole(prog)' = Result(err, IF err = NoError THEN <<>> ELSE callStack[1], Printed)'
      BY <1>1, <3>4
    <3>6. QED
      BY <3>3, <3>5 DEF RunFits
  <2>2. CASE Len(ctl) # 1
    <3>1. Fits(prog', ctl', callStack'[1], Printed')
      BY <1>1, <1>2, <1>4, <1>5, <2>2
    <3>2. Fits(prog, ctl, callStack[1], Printed)'
      BY <3>1
    <3>3. ctl' # <<>>
      BY <3>1 DEF Fits
    <3>4. QED
      BY <1>1, <3>2, <3>3 DEF RunFits
  <2>3. QED
    BY <2>1, <2>2
<1>7. Lambdas(ctl)'
  <2>1. Lambdas(Advanced(Popped(ctl)))
    BY <1>1, <1>3, LambdasPop DEF MeaningInv
  <2>2. QED
    BY <1>1, <2>1
<1>8. QED
  BY <1>1, <1>6, <1>7, KeepsMeaning

LEMMA UnwindMeans ==
  ASSUME RunInv, MeaningInv, Unwind, UNCHANGED agentVars
  PROVE  MeaningInv'
<1>1. /\ active /\ err # NoError /\ ctl # <<>> /\ ctl' = Popped(ctl)
      /\ UNCHANGED <<prog, active, entry, err, callStack, capture, stdout, cmd, step>>
  BY DEF Unwind, agentVars
<1>2. Whole(prog) = Result(err, callStack[1], Printed)
  BY <1>1 DEF MeaningInv, RunFits
<1>3. Printed' = Printed
  BY <1>1 DEF Printed
<1>4. Whole(prog') = Result(err', callStack'[1], Printed')
  BY <1>1, <1>2, <1>3
<1>5. Whole(prog)' = Result(err, IF err = NoError THEN <<>> ELSE callStack[1], Printed)'
  BY <1>1, <1>4
<1>6. RunFits'
  BY <1>1, <1>5 DEF RunFits
<1>7. Lambdas(ctl)'
  <2>1. Lambdas(Popped(ctl))
    BY <1>1, Parts, LambdasPop DEF MeaningInv
  <2>2. QED
    BY <1>1, <2>1
<1>8. QED
  BY <1>1, <1>6, <1>7, KeepsMeaning

LEMMA LeaveMeans ==
  ASSUME RunInv, MeaningInv, Leave, UNCHANGED agentVars
  PROVE  MeaningInv'
<1> DEFINE calls == IF err = NoError THEN <<>> ELSE callStack[1]
<1>1. /\ active /\ ~active' /\ ctl = <<>>
      /\ report' = [err |-> err,
                    frames |-> IF err = NoError THEN <<>> ELSE Collapsed(callStack[1]),
                    out |-> IF entry.capturing THEN capture[1] ELSE <<>>]
      /\ UNCHANGED <<prog, entry, ctl, err, stdout, cmd, step>>
  BY DEF Leave, agentVars
<1>2. Whole(prog) = Result(err, calls, Printed)
  BY <1>1 DEF MeaningInv, RunFits
<1>3. Meaning(prog) = [err |-> err,
                       frames |-> IF err = NoError THEN <<>> ELSE Collapsed(calls),
                       out |-> Printed]
  BY <1>2, ResultFields DEF Meaning
<1>4. Meaning(prog) = [err |-> err,
                       frames |-> IF err = NoError THEN <<>> ELSE Collapsed(callStack[1]),
                       out |-> Printed]
  <2>1. CASE err = NoError
    BY <1>3, <2>1
  <2>2. CASE err # NoError
    BY <1>3, <2>2
  <2>3. QED
    BY <2>1, <2>2
<1>5. /\ entry.capturing = (cmd # "run")
      /\ cmd # "run" \/ step = "start" => stdout = <<>>
  BY <1>1 DEF MeaningInv, Captures
<1>6. Captures'
  BY <1>1, <1>5 DEF Captures
<1>7. RunFits' /\ Lambdas(ctl)'
  BY <1>1 DEF RunFits, Lambdas
<1>8. [report' EXCEPT !.out = IF cmd' = "run" THEN stdout' ELSE @] = Meaning(prog')
  <2>1. CASE cmd = "run"
    <3>1. Printed = stdout
      BY <1>5, <2>1 DEF Printed
    <3>2. [report' EXCEPT !.out = stdout] = Meaning(prog)
      BY <1>1, <1>4, <3>1
    <3>3. QED
      BY <1>1, <2>1, <3>2
  <2>2. CASE cmd # "run"
    <3>1. Printed = capture[1] /\ entry.capturing
      BY <1>5, <2>2 DEF Printed
    <3>2. report' = Meaning(prog)
      BY <1>1, <1>4, <3>1
    <3>3. [report' EXCEPT !.out = @] = report'
      BY <1>1
    <3>4. QED
      BY <1>1, <2>2, <3>2, <3>3
  <2>3. QED
    BY <2>1, <2>2
<1>9. RunMeans'
  BY <1>1, <1>5, <1>8 DEF RunMeans
<1>10. QED
  BY <1>6, <1>7, <1>9 DEF MeaningInv

LEMMA RunStepMeans ==
  ASSUME RunInv, MeaningInv, RunStep, UNCHANGED agentVars, step # "start"
  PROVE  MeaningInv'
BY EmitLineMeans, TrapMeans, ArithmeticMeans, TailSelfCallMeans, CallMeans, ApplyMeans,
   GradRefusedMeans, GradMeans, ReturnMeans, UnwindMeans, LeaveMeans, Zenon DEF RunStep

\* A program as it starts.
LEMMA FitsStart ==
  ASSUME NEW p, WellFormed(p), "main" \in DOMAIN p.fns, NEW a,
         a = [kind |-> "main", code |-> <<"main">>, n |-> p.fuel,
              tracing |-> FALSE, pc |-> 1, d |-> 0],
         NEW f, f = Frame("main", NoSite)
  PROVE  Fits(p, <<a>>, <<f>>, <<>>)
<1>1. /\ a \in Activation(p) /\ a.kind = "main" /\ a.code = <<"main">> /\ a.n = p.fuel
      /\ a.tracing = FALSE /\ a.pc = 1 /\ a.d = 0
  <2>1. <<"main">> \in Codes(p)
    BY Zenon DEF Codes
  <2>2. QED
    BY <2>1 DEF Activation, WellFormed
<1>2. f \in Frames(p)
  BY FrameOK DEF WellFormed
<1> DEFINE c == <<a>>
           s == <<f>>
           r == Remaining(p, a, FALSE)
           b == [i \in 1..1 |-> r]
<1>3. c \in Seq(Activation(p)) /\ Len(c) = 1 /\ c[1] = a /\ c # <<>>
  BY <1>1
<1>4. s \in Seq(Frames(p)) /\ Len(s) = 1 /\ s[1] = f
  BY <1>2
<1>5. r \in ResultsOf(p)
  BY <1>1, RemainingIs
<1>6. <<>> \in Seq(Nat) /\ Done = Prints(<<>>)
  BY EmptySeq, PrintsOK
<1>7. ContextOf(a, FALSE) = Context("main", TRUE, FALSE, 0, FALSE)
  <2>1. <<"main">>[1] = "main" /\ ("main" \in {"main", "call"}) = TRUE
    OBVIOUS
  <2>2. QED
    BY <1>1, <2>1 DEF ContextOf
<1>8. Eval(p)[p.fuel][Context("main", TRUE, FALSE, 0, FALSE)] = r
  <2>1. Len(a.code) = 1
    BY <1>1
  <2>2. Eval(p)[a.n][ContextOf(a, FALSE)] = Remaining(p, a, FALSE)
    BY <1>1, <2>1, Begins
  <2>3. QED
    BY <1>1, <1>7, <2>2
<1>9. Whole(p) = Under(f, r)
  BY <1>8 DEF Whole
<1> HIDE DEF c, s, r
<1>10. LeftOf(p, c, 1) = r
  <2>1. TapedAt(c, 1) = FALSE
    <3>1. \A k \in 1..1 : c[k].kind # "grad"
      BY <1>1, <1>3
    <3>2. QED
      BY <3>1 DEF TapedAt
  <2>2. QED
    BY <1>3, <2>1 DEF LeftOf, r
<1>11. Then(Prints(<<>>), r) = r
  BY <1>5, <1>6, ThenDone DEF ResultsOf
<1>12. b \in [1..1 -> ResultsOf(p)] /\ b[1] = r
  BY <1>5
<1> HIDE DEF b
<1>13. Ends(b, p, c, s, <<>>)
  BY <1>3, <1>4, <1>9, <1>10, <1>11, <1>12 DEF Ends
<1>14. QED
  BY <1>3, <1>4, <1>6, <1>13 DEF Fits, c, s

\* A run is entered.
LEMMA EnterMeans ==
  ASSUME RunInv, MeaningInv, NEW p, WellFormed(p), NEW capturing \in BOOLEAN,
         Enter(p, capturing), capturing = (cmd # "run"), cmd' = cmd,
         cmd = "run" => step = "start", step' # "start"
  PROVE  MeaningInv'
<1>1. /\ ~active /\ active' /\ prog' = p /\ stdout' = stdout
      /\ entry' = [stack |-> callStack, capture |-> capture, capturing |-> capturing]
      /\ capture' = IF capturing THEN Some(<<>>) ELSE capture
  BY DEF Enter
<1>2. stdout = <<>>
  BY DEF MeaningInv, Captures
<1>3. entry'.capturing = capturing
  BY <1>1
<1>4. capturing => capture' = Some(capture'[1]) /\ capture'[1] = <<>>
  BY <1>1, SomeOK, Zenon
<1>5. Printed' = <<>>
  BY <1>1, <1>2, <1>3, <1>4 DEF Printed
<1>6. Captures'
  BY <1>1, <1>2, <1>3, <1>4 DEF Captures
<1>7. RunMeans'
  BY <1>1 DEF RunMeans
<1>8. CASE "main" \in DOMAIN p.fns
  <2> DEFINE a == [kind |-> "main", code |-> <<"main">>, n |-> p.fuel,
                   tracing |-> FALSE, pc |-> 1, d |-> 0]
             f == Frame("main", NoSite)
  <2>1. ctl' = <<a>> /\ callStack' = Some(<<f>>) /\ err' = NoError
    BY <1>8 DEF Enter
  <2>2. Len(a.code) = 1
    OBVIOUS
  <2>3. Fits(p, <<a>>, <<f>>, <<>>)
    BY <1>8, FitsStart
  <2> HIDE DEF a, f
  <2>4. callStack'[1] = <<f>>
    BY <2>1 DEF Some
  <2>5. Fits(prog', ctl', callStack'[1], Printed')
    BY <1>1, <1>5, <2>1, <2>3, <2>4
  <2>6. Fits(prog, ctl, callStack[1], Printed)'
    BY <2>5
  <2>7. ctl' # <<>>
    BY <2>5 DEF Fits
  <2>8. RunFits'
    BY <2>1, <2>6, <2>7 DEF RunFits
  <2>9. Lambdas(ctl)'
    <3>1. DOMAIN <<a>> = {1} /\ <<a>>[1] = a
      OBVIOUS
    <3>2. Lambdas(<<a>>)
      BY <2>2, <3>1 DEF Lambdas
    <3>3. QED
      BY <2>1, <3>2
  <2>10. QED
    BY <1>6, <1>7, <2>8, <2>9 DEF MeaningInv
<1>9. CASE "main" \notin DOMAIN p.fns
  <2>1. ctl' = <<>> /\ callStack' = Some(<<>>) /\ err' = "no main" /\ err' # NoError
    BY <1>9 DEF Enter, NoError
  <2>2. callStack'[1] = <<>>
    BY <2>1 DEF Some
  <2>3. Whole(p) = Result("no main", <<>>, <<>>)
    BY <1>9 DEF Whole, Fails
  <2>4. Whole(prog') = Result(err', callStack'[1], Printed')
    BY <1>1, <1>5, <2>1, <2>2, <2>3
  <2>5. Whole(prog)' = Result(err, IF err = NoError THEN <<>> ELSE callStack[1], Printed)'
    BY <2>1, <2>4
  <2>6. RunFits'
    BY <2>1, <2>5 DEF RunFits
  <2>7. Lambdas(<<>>)
    BY DEF Lambdas
  <2>8. Lambdas(ctl)'
    BY <2>1, <2>7
  <2>9. QED
    BY <1>6, <1>7, <2>6, <2>8 DEF MeaningInv
<1>10. QED
  BY <1>8, <1>9

\* Before anything ran, the report is that of a program that does nothing.
LEMMA InitMeans ==
  ASSUME AgentInit
  PROVE  MeaningInv
<1>1. /\ prog.fuel = 1 /\ DOMAIN prog.fns = {"main"} /\ prog.fns["main"] = <<>>
      /\ ctl = <<>> /\ err = NoError /\ stdout = <<>> /\ ~active
      /\ report = [err |-> NoError, frames |-> <<>>, out |-> <<>>]
  BY DEF AgentInit, Init
<1>2. WellFormed(prog)
  BY InitRunInv, Parts DEF AgentInit
<1> DEFINE c == Context("main", TRUE, FALSE, 0, FALSE)
<1>3. c \in Contexts(prog) /\ c.f = "main"
  BY <1>1, ContextOK DEF Context
<1> HIDE DEF c
<1>4. Eval(prog)[1][c] = Done
  <2>1. Eval(prog)[1][c] = Rest(prog, Eval(prog)[0], 1, c)[Len(prog.fns[c.f])]
    <3>1. 1 \in Nat \ {0} /\ 1 - 1 = 0
      OBVIOUS
    <3>2. Eval(prog)[1][c] = Rest(prog, Eval(prog)[1 - 1], 1, c)[Len(prog.fns[c.f])]
      BY <1>2, <1>3, <3>1, EvalIs
    <3>3. QED
      BY <3>1, <3>2
  <2>2. Len(prog.fns[c.f]) = 0
    BY <1>1, <1>3
  <2>3. Eval(prog)[0] \in Bodies(prog)
    BY <1>2, EvalIs
  <2> DEFINE less == Eval(prog)[0]
             n == 1
  <2>4. n \in Nat
    OBVIOUS
  <2> HIDE DEF less, n
  <2>5. Rest(prog, less, n, c)[0] = Done
    BY <1>2, <1>3, <2>3, <2>4, RestIs DEF less
  <2>6. QED
    BY <2>1, <2>2, <2>5 DEF less, n
<1>5. Whole(prog) = Done
  <2>1. Whole(prog) = Under(Frame("main", NoSite), Done)
    BY <1>1, <1>4 DEF Whole, c
  <2>2. Done = Prints(<<>>)
    BY DEF Done, Prints
  <2>3. QED
    BY <2>1, <2>2, UnderPrints
<1>6. Meaning(prog) = report
  <2>1. Done.err = NoError /\ Done.calls = <<>> /\ Done.out = <<>>
    BY ResultFields DEF Done
  <2>2. QED
    BY <1>1, <1>5, <2>1 DEF Meaning
<1>7. RunMeans
  <2>1. [report EXCEPT !.out = IF cmd = "run" THEN stdout ELSE @] = report
    BY <1>1
  <2>2. QED
    BY <1>1, <1>6, <2>1 DEF RunMeans
<1>8. Captures /\ RunFits /\ Lambdas(ctl)
  BY <1>1 DEF Captures, RunFits, Lambdas
<1>9. QED
  BY <1>7, <1>8 DEF MeaningInv

-----------------------------------------------------------------------------
(* What the loop reports and feeds back is what the programs mean          *)

\* An entry of the transcript, about an answer of the model.
Told(t) ==
    \E p \in Answers :
       /\ t.program = p.name
       /\ IF p.clean THEN t.err = Some(Meaning(p).err) /\ t.out = Some(Meaning(p).out)
          ELSE t.err = None
AllTold(s) == \A i \in DOMAIN s : Told(s[i])

Describes(o) ==
    /\ o.success => Meaning(o.program).err = NoError /\ o.out = Some(Meaning(o.program).out)
    /\ ~o.success /\ o.program.clean /\ o.err # Some("provider") =>
          /\ Meaning(o.program).err # NoError
          /\ o.err = Some(Meaning(o.program).err) /\ o.out = Some(Meaning(o.program).out)

\* What is reported beside a program that does not check.
Carried(o, t) ==
    ~o.success /\ ~o.program.clean /\ o.err # Some("provider") => FromLastRun(o, t)

LoopMeans ==
    /\ step = "run" => prog = last.program
    /\ AllTold(transcript) /\ Describes(outcome)
    /\ step \in {"ask", "run"} => FromLastRun(last, transcript)
    /\ step = "outcome" => Carried(outcome, transcript)

MInv == IInv /\ MeaningInv /\ LoopMeans

\* The entries of a transcript with one more.
LEMMA AppendIs ==
  ASSUME NEW s, IsSequence(s), NEW e
  PROVE  LET r == Append(s, e)
             n == Len(s)
         IN  /\ n \in Nat /\ DOMAIN s = 1..n /\ DOMAIN r = 1..(n + 1)
             /\ r[n + 1] = e /\ \A i \in 1..n : r[i] = s[i]
<1> DEFINE n == Len(s)
           r == Append(s, e)
<1>1. IsSequence(r) /\ Len(r) = n + 1 /\ r[n + 1] = e /\ n \in Nat
  BY IsSequenceAppend DEF IsSequence
<1>2. DOMAIN s = 1..n
  BY DEF IsSequence
<1>3. \A i \in 1..n : r[i] = s[i]
  <2> DEFINE S == {s[i] : i \in 1..n} \cup {e}
  <2>1. \A i \in 1..n : s[i] \in S
    BY Zenon
  <2>2. e \in S
    OBVIOUS
  <2> HIDE DEF S
  <2>3. s \in Seq(S) /\ Len(s) = n
    <3>1. s = [i \in 1..n |-> s[i]] /\ n \in Nat /\ Len(s) = n
      BY DEF IsSequence
    <3> HIDE DEF n
    <3>2. [i \in 1..n |-> s[i]] \in Seq(S)
      BY <2>1, <3>1
    <3>3. QED
      BY <3>1, <3>2, Zenon
  <2>4. QED
    BY <2>2, <2>3, AppendProperties
<1> HIDE DEF r, n
<1>4. DOMAIN r = 1..(n + 1)
  BY <1>1 DEF IsSequence
<1>5. QED
  BY <1>1, <1>2, <1>3, <1>4 DEF r, n

LEMMA AllToldAppend ==
  ASSUME NEW s, IsSequence(s), AllTold(s), NEW e, Told(e)
  PROVE  AllTold(Append(s, e))
<1> DEFINE n == Len(s)
           r == Append(s, e)
<1>1. /\ n \in Nat /\ DOMAIN s = 1..n /\ DOMAIN r = 1..(n + 1)
      /\ r[n + 1] = e /\ \A i \in 1..n : r[i] = s[i]
  BY AppendIs
<1> HIDE DEF r, n
<1>2. ASSUME NEW i \in DOMAIN r PROVE Told(r[i])
  <2>1. i = n + 1 \/ i \in 1..n
    BY <1>1
  <2>2. CASE i = n + 1
    BY <1>1, <2>2
  <2>3. CASE i \in 1..n
    <3>1. r[i] = s[i] /\ Told(s[i])
      BY <1>1, <2>3 DEF AllTold
    <3>2. QED
      BY <3>1
  <2>4. QED
    BY <2>1, <2>2, <2>3
<1>3. AllTold(r)
  BY <1>2 DEF AllTold
<1>4. QED
  BY <1>3 DEF r

\* An attempt that did not run leaves the last one that did,
LEMMA NoRunAppend ==
  ASSUME NEW s, IsSequence(s), NEW e, e.err = None, NEW o, FromLastRun(o, s)
  PROVE  FromLastRun(o, Append(s, e))
<1> DEFINE n == Len(s)
           r == Append(s, e)
<1>1. /\ n \in Nat /\ DOMAIN s = 1..n /\ DOMAIN r = 1..(n + 1)
      /\ r[n + 1] = e /\ \A i \in 1..n : r[i] = s[i]
  BY AppendIs
<1> HIDE DEF r, n
<1>2. \A i \in 1..(n + 1) : i = n + 1 \/ i \in 1..n
  BY <1>1
<1>3. CASE (\A i \in DOMAIN s : s[i].err = None) /\ o.err = None /\ o.out = None
  <2>1. \A i \in DOMAIN r : r[i].err = None
    BY <1>1, <1>2, <1>3
  <2>2. QED
    BY <1>3, <2>1 DEF FromLastRun, r
<1>4. ASSUME NEW i \in DOMAIN s, s[i].err # None, o.err = s[i].err, o.out = s[i].out,
             \A j \in DOMAIN s : j > i => s[j].err = None
      PROVE  FromLastRun(o, r)
  <2>1. i \in DOMAIN r /\ r[i] = s[i]
    BY <1>1, <1>4
  <2>2. \A j \in DOMAIN r : j > i => r[j].err = None
    BY <1>1, <1>2, <1>4
  <2>3. QED
    BY <1>4, <2>1, <2>2 DEF FromLastRun
<1>5. QED
  BY <1>3, <1>4 DEF FromLastRun, r

\* and one that ran is the last one.
LEMMA RunAppend ==
  ASSUME NEW s, IsSequence(s), NEW e, e.err # None, NEW o, o.err = e.err, o.out = e.out
  PROVE  FromLastRun(o, Append(s, e))
<1> DEFINE n == Len(s)
           r == Append(s, e)
<1>1. n \in Nat /\ DOMAIN r = 1..(n + 1) /\ r[n + 1] = e
  BY AppendIs
<1> HIDE DEF r, n
<1>2. n + 1 \in DOMAIN r /\ \A j \in DOMAIN r : ~(j > n + 1)
  BY <1>1
<1>3. FromLastRun(o, r)
  BY <1>1, <1>2 DEF FromLastRun
<1>4. QED
  BY <1>3 DEF r

\* What counts of o is its error and its output.
LEMMA SameRun ==
  ASSUME NEW o, NEW u, NEW t, FromLastRun(o, t), u.err = o.err, u.out = o.out
  PROVE  FromLastRun(u, t)
BY DEF FromLastRun

LEMMA NothingRan ==
  ASSUME NEW o, o.err = None, o.out = None
  PROVE  FromLastRun(o, <<>>)
BY DEF FromLastRun

\* Between the steps of a run nothing of its meaning changes.
LEMMA MeaningStutter ==
  ASSUME MeaningInv, UNCHANGED runVars, cmd' = cmd, step' # "start" \/ step' = step
  PROVE  MeaningInv'
<1>1. UNCHANGED <<prog, active, entry, ctl, err, callStack, capture, stdout, report>>
  BY DEF runVars
<1>2. Printed' = Printed
  BY <1>1 DEF Printed
<1>3. RunFits'
  BY <1>1, <1>2 DEF MeaningInv, RunFits
<1>4. Lambdas(ctl)'
  BY <1>1 DEF MeaningInv
<1>5. Captures'
  BY <1>1 DEF MeaningInv, Captures
<1>6. RunMeans'
  BY <1>1 DEF MeaningInv, RunMeans
<1>7. QED
  BY <1>3, <1>4, <1>5, <1>6 DEF MeaningInv

LEMMA RunStepProg ==
  ASSUME RunStep
  PROVE  prog' = prog
<1>1. EmitLine \/ Trap \/ Arithmetic \/ TailSelfCall \/ GradRefused => prog' = prog
  BY DEF EmitLine, Trap, Arithmetic, TailSelfCall, GradRefused
<1>2. Call \/ Apply \/ Grad => prog' = prog
  BY DEF Call, Apply, Grad
<1>3. Return \/ Unwind \/ Leave => prog' = prog
  BY DEF Return, Unwind, Leave
<1>4. QED
  BY <1>1, <1>2, <1>3, Zenon DEF RunStep

\* When the loop reads the report it is about the program that it holds.
LEMMA ReportIs ==
  ASSUME MInv, step = "run", ~active
  PROVE  /\ last.program \in Answers /\ last.program.clean
         /\ report.err = Meaning(last.program).err /\ report.out = Meaning(last.program).out
<1>1. AgentInv /\ last.program.clean
  BY DEF MInv, IInv, AgentInv, LoopOK
<1>2. last.program \in Answers
  BY <1>1, CleanRuns
<1>3. cmd # "run"
  BY <1>1 DEF AgentInv, CommandOK
<1>4. [report EXCEPT !.out = @] = Meaning(prog) /\ prog = last.program
  BY <1>3 DEF MInv, MeaningInv, RunMeans, LoopMeans
<1>5. DOMAIN report = {"err", "frames", "out"}
  <2>1. DOMAIN [report EXCEPT !.out = @] = DOMAIN report
    OBVIOUS
  <2>2. DOMAIN Meaning(prog) = {"err", "frames", "out"}
    BY DEF Meaning
  <2>3. QED
    BY <1>4, <2>1, <2>2
<1>6. [report EXCEPT !.out = @].err = report.err /\ [report EXCEPT !.out = @].out = report.out
  BY <1>5
<1>7. QED
  BY <1>1, <1>2, <1>4, <1>6

LEMMA RunCommandMeans ==
  ASSUME MInv, RunCommand
  PROVE  MeaningInv' /\ LoopMeans'
<1>1. PICK p \in RunPrograms : Enter(p, FALSE)
  BY DEF RunCommand
<1>2. cmd = "run" /\ step = "start" /\ step' = "running" /\ UNCHANGED <<cmd, last, transcript, outcome>>
  BY DEF RunCommand
<1>3. WellFormed(p) /\ RunInv /\ MeaningInv /\ (FALSE = (cmd # "run"))
  BY <1>2, ProgramsAssumption DEF MInv, IInv
<1>4. MeaningInv'
  BY <1>1, <1>2, <1>3, EnterMeans
<1>5. LoopMeans'
  BY <1>2 DEF MInv, LoopMeans
<1>6. QED
  BY <1>4, <1>5

LEMMA AnswerAcceptedMeans ==
  ASSUME MInv, AnswerAccepted
  PROVE  MeaningInv' /\ LoopMeans'
<1>1. PICK p \in Answers :
         p.clean /\ last' = [last EXCEPT !.program = p, !.diags = {}] /\ Enter(p, TRUE)
  BY DEF AnswerAccepted
<1>2. step = "ask" /\ step' = "run" /\ UNCHANGED <<cmd, transcript, outcome>>
  BY DEF AnswerAccepted
<1>3. cmd # "run" /\ DOMAIN last = {"program", "diags", "err", "out"}
  BY <1>2 DEF MInv, IInv, AgentInv, CommandOK, LoopOK
<1>4. WellFormed(p) /\ RunInv /\ MeaningInv /\ (TRUE = (cmd # "run"))
  BY <1>1, <1>3, ProgramsAssumption DEF MInv, IInv
<1>5. MeaningInv'
  BY <1>1, <1>2, <1>3, <1>4, EnterMeans
<1>6. /\ last'.program = p /\ prog' = p
      /\ last'.err = last.err /\ last'.out = last.out
  BY <1>1, <1>3 DEF Enter
<1>7. FromLastRun(last', transcript')
  BY <1>2, <1>6, SameRun DEF MInv, LoopMeans
<1>8. LoopMeans'
  BY <1>2, <1>6, <1>7 DEF MInv, LoopMeans
<1>9. QED
  BY <1>5, <1>8

LEMMA StartGradeMeans ==
  ASSUME MInv, StartGrade
  PROVE  MeaningInv' /\ LoopMeans'
<1>1. /\ cmd = "bench" /\ step' = "grade" /\ Enter(outcome.program, TRUE)
      /\ WellFormed(outcome.program) /\ UNCHANGED <<cmd, last, transcript, outcome>>
  BY DEF StartGrade, MInv, IInv, AgentInv, OutcomeOK
<1>2. cmd # "run" /\ RunInv /\ MeaningInv /\ (TRUE = (cmd # "run"))
  BY <1>1 DEF MInv, IInv
<1>3. MeaningInv'
  BY <1>1, <1>2, EnterMeans
<1>4. LoopMeans'
  BY <1>1 DEF MInv, LoopMeans
<1>5. QED
  BY <1>3, <1>4

LEMMA RunStepsMean ==
  ASSUME MInv, RunStep, UNCHANGED agentVars
  PROVE  MeaningInv' /\ LoopMeans'
<1>1. active /\ RunInv /\ MeaningInv
  BY RunStepActive DEF MInv, IInv
<1>2. step # "start"
  BY <1>1 DEF MInv, IInv, AgentInv, CommandOK
<1>3. MeaningInv'
  BY <1>1, <1>2, RunStepMeans
<1>4. LoopMeans'
  BY RunStepProg DEF MInv, LoopMeans, agentVars
<1>5. QED
  BY <1>3, <1>4

\* An outcome.
LEMMA FinishMeans ==
  ASSUME MInv, NEW o, Finish(o), DOMAIN o = DOMAIN NoOutcome, Describes(o),
         Carried(o, transcript'), AllTold(transcript'), UNCHANGED <<runVars, cmd>>
  PROVE  MeaningInv' /\ LoopMeans'
<1>1. outcome' = [o EXCEPT !.iterations = iter] /\ step' = "outcome"
  BY DEF Finish
<1>2. MeaningInv'
  BY <1>1, MeaningStutter DEF MInv
<1>3. /\ outcome'.success = o.success /\ outcome'.program = o.program
      /\ outcome'.err = o.err /\ outcome'.out = o.out
  <2>1. DOMAIN o = {"success", "program", "diags", "err", "out", "iterations"}
    BY DEF NoOutcome
  <2>2. QED
    BY <1>1, <2>1
<1>4. Describes(outcome')
  BY <1>3, Zenon DEF Describes
<1>5. Carried(outcome', transcript')
  <2>1. CASE outcome'.success \/ outcome'.program.clean \/ outcome'.err = Some("provider")
    BY <2>1 DEF Carried
  <2>2. CASE ~(outcome'.success \/ outcome'.program.clean \/ outcome'.err = Some("provider"))
    <3>1. FromLastRun(o, transcript')
      BY <1>3, <2>2 DEF Carried
    <3>2. FromLastRun(outcome', transcript')
      BY <1>3, <3>1, SameRun
    <3>3. QED
      BY <3>2 DEF Carried
  <2>3. QED
    BY <2>1, <2>2
<1>6. QED
  BY <1>1, <1>2, <1>4, <1>5 DEF LoopMeans

LEMMA ProviderFailsMeans ==
  ASSUME MInv, ProviderFails
  PROVE  MeaningInv' /\ LoopMeans'
<1> DEFINE o == [NoOutcome EXCEPT !.program = last.program, !.diags = last.diags,
                                  !.err = Some("provider")]
<1>1. Finish(o) /\ UNCHANGED <<runVars, cmd, transcript>>
  BY DEF ProviderFails
<1>2. DOMAIN o = DOMAIN NoOutcome /\ ~o.success /\ o.err = Some("provider")
  BY DEF NoOutcome
<1>3. AllTold(transcript')
  BY <1>1 DEF MInv, LoopMeans
<1> HIDE DEF o
<1>4. Describes(o) /\ Carried(o, transcript')
  BY <1>2 DEF Describes, Carried
<1>5. QED
  BY <1>1, <1>2, <1>3, <1>4, FinishMeans

LEMMA AnswerRejectedMeans ==
  ASSUME MInv, AnswerRejected
  PROVE  MeaningInv' /\ LoopMeans'
<1>1. PICK p \in Answers :
        /\ ~p.clean /\ last' = [last EXCEPT !.program = p, !.diags = Diags(p)]
        /\ transcript' = Append(transcript, [program |-> p.name, err |-> None, out |-> None])
  BY DEF AnswerRejected, Rejected
<1>2. UNCHANGED <<runVars, cmd>>
  BY DEF AnswerRejected
<1>3. DOMAIN last = {"program", "diags", "err", "out"} /\ IsSequence(transcript)
      /\ AllTold(transcript) /\ Describes(outcome) /\ FromLastRun(last, transcript)
  BY DEF AnswerRejected, MInv, IInv, AgentInv, LoopOK, LoopMeans
<1>4. last'.program = p /\ last'.err = last.err /\ last'.out = last.out
  BY <1>1, <1>3
<1>5. AllTold(transcript') /\ FromLastRun(last', transcript')
  <2> DEFINE e == [program |-> p.name, err |-> None, out |-> None]
  <2>1. Told(e) /\ e.err = None
    BY <1>1 DEF Told
  <2> HIDE DEF e
  <2>2. AllTold(Append(transcript, e))
    BY <1>3, <2>1, AllToldAppend
  <2>3. FromLastRun(last, Append(transcript, e))
    BY <1>3, <2>1, NoRunAppend
  <2>4. FromLastRun(last', Append(transcript, e))
    BY <1>4, <2>3, SameRun
  <2>5. QED
    BY <1>1, <2>2, <2>4 DEF e
<1>6. CASE iter < Iters
  <2>1. step' = "ask" \/ step' = step
    BY <1>6 DEF AnswerRejected
  <2>2. step = "ask" /\ outcome' = outcome
    BY <1>6 DEF AnswerRejected
  <2>3. MeaningInv'
    BY <1>2, <2>1, <2>2, MeaningStutter DEF MInv
  <2>4. LoopMeans'
    BY <1>3, <1>5, <2>1, <2>2 DEF LoopMeans
  <2>5. QED
    BY <2>3, <2>4
<1>7. CASE ~(iter < Iters)
  <2> DEFINE o == [NoOutcome EXCEPT !.program = last'.program, !.diags = last'.diags,
                                    !.err = last'.err, !.out = last'.out]
  <2>1. Finish(o)
    BY <1>7 DEF AnswerRejected
  <2>2. /\ DOMAIN o = DOMAIN NoOutcome /\ ~o.success /\ o.program = last'.program
        /\ o.err = last'.err /\ o.out = last'.out
    BY DEF NoOutcome
  <2> HIDE DEF o
  <2>3. Describes(o)
    BY <1>1, <1>4, <2>2 DEF Describes
  <2>4. FromLastRun(o, transcript')
    BY <1>5, <2>2, SameRun
  <2>5. Carried(o, transcript')
    BY <2>4 DEF Carried
  <2>6. QED
    BY <1>2, <1>5, <2>1, <2>2, <2>3, <2>5, FinishMeans
<1>8. QED
  BY <1>6, <1>7

LEMMA RunSucceedsMeans ==
  ASSUME MInv, RunSucceeds
  PROVE  MeaningInv' /\ LoopMeans'
<1> DEFINE o == [NoOutcome EXCEPT !.success = TRUE, !.program = last.program,
                                  !.out = Some(report.out)]
<1>1. /\ step = "run" /\ ~active /\ report.err = NoError /\ Finish(o)
      /\ UNCHANGED <<runVars, cmd, transcript>>
  BY DEF RunSucceeds
<1>2. /\ DOMAIN o = DOMAIN NoOutcome /\ o.success = TRUE /\ o.program = last.program
      /\ o.out = Some(report.out)
  BY DEF NoOutcome
<1>3. AllTold(transcript')
  BY <1>1 DEF MInv, LoopMeans
<1> HIDE DEF o
<1>4. report.err = Meaning(last.program).err /\ report.out = Meaning(last.program).out
  BY <1>1, ReportIs
<1>5. Describes(o) /\ Carried(o, transcript')
  BY <1>1, <1>2, <1>4 DEF Describes, Carried
<1>6. QED
  BY <1>1, <1>2, <1>3, <1>5, FinishMeans

LEMMA RunFailsMeans ==
  ASSUME MInv, RunFails
  PROVE  MeaningInv' /\ LoopMeans'
<1>1. /\ step = "run" /\ ~active /\ report.err # NoError /\ UNCHANGED <<runVars, cmd>>
      /\ last' = [last EXCEPT !.err = Some(report.err), !.out = Some(report.out)]
  BY DEF RunFails
<1>2. DOMAIN last = {"program", "diags", "err", "out"} /\ IsSequence(transcript)
      /\ AllTold(transcript) /\ Describes(outcome)
  BY DEF MInv, IInv, AgentInv, LoopOK, LoopMeans
<1>3. /\ last'.program = last.program /\ last'.err = Some(report.err)
      /\ last'.out = Some(report.out)
  BY <1>1, <1>2
<1>4. /\ last.program \in Answers /\ last.program.clean
      /\ report.err = Meaning(last.program).err /\ report.out = Meaning(last.program).out
  BY <1>1, ReportIs
<1>5. CASE iter < Iters
  <2> DEFINE e == [program |-> last.program.name, err |-> last'.err, out |-> last'.out]
  <2>1. step' = "ask" /\ outcome' = outcome /\ transcript' = Append(transcript, e)
    BY <1>5 DEF RunFails
  <2>2. Told(e)
    <3>1. /\ e.program = last.program.name /\ e.err = Some(Meaning(last.program).err)
          /\ e.out = Some(Meaning(last.program).out)
      BY <1>3, <1>4
    <3> HIDE DEF e
    <3>2. QED
      BY <1>4, <3>1 DEF Told
  <2>3. e.err = last'.err /\ e.out = last'.out /\ last'.err # None
    BY <1>3 DEF Some, None
  <2> HIDE DEF e
  <2>4. AllTold(transcript')
    BY <1>2, <2>1, <2>2, AllToldAppend
  <2>5. MeaningInv'
    BY <1>1, <2>1, MeaningStutter DEF MInv
  <2>6. FromLastRun(last', transcript')
    BY <1>2, <2>1, <2>3, RunAppend
  <2>7. LoopMeans'
    BY <1>2, <2>1, <2>4, <2>6 DEF LoopMeans
  <2>8. QED
    BY <2>5, <2>7
<1>6. CASE ~(iter < Iters)
  <2> DEFINE o == [NoOutcome EXCEPT !.program = last.program, !.err = last'.err,
                                    !.out = last'.out]
  <2>1. Finish(o) /\ transcript' = transcript
    BY <1>6 DEF RunFails
  <2>2. /\ DOMAIN o = DOMAIN NoOutcome /\ ~o.success /\ o.program = last.program
        /\ o.err = last'.err /\ o.out = last'.out
    BY DEF NoOutcome
  <2> HIDE DEF o
  <2>3. Describes(o) /\ Carried(o, transcript')
    BY <1>1, <1>3, <1>4, <2>2 DEF Describes, Carried
  <2>4. AllTold(transcript')
    BY <1>2, <2>1
  <2>5. QED
    BY <1>1, <2>1, <2>2, <2>3, <2>4, FinishMeans
<1>7. QED
  BY <1>5, <1>6

\* The steps that only go on to something else.
LEMMA OtherMeans ==
  ASSUME MInv, RunDone \/ Report \/ StartTask \/ NoProvider \/ NotConverged \/ Graded
  PROVE  MeaningInv' /\ LoopMeans'
<1>1. UNCHANGED <<runVars, cmd>> /\ step' \notin {"run", "start"}
  BY DEF RunDone, Report, StartTask, NoProvider, NotConverged, Graded, NextTask
<1>2. MeaningInv'
  BY <1>1, MeaningStutter DEF MInv
<1>3. AllTold(transcript) /\ Describes(outcome)
  BY DEF MInv, LoopMeans
<1>4. AllTold(transcript') /\ Describes(outcome')
  <2>1. CASE StartTask
    <3>1. transcript' = <<>> /\ outcome' = NoOutcome
      BY <2>1 DEF StartTask
    <3>2. AllTold(<<>>)
      BY DEF AllTold
    <3>3. ~NoOutcome.success /\ ~NoOutcome.program.clean
      BY DEF NoOutcome, NoProgram
    <3>4. Describes(NoOutcome)
      BY <3>3 DEF Describes
    <3>5. QED
      BY <3>1, <3>2, <3>4
  <2>2. CASE RunDone \/ Report \/ NoProvider \/ NotConverged \/ Graded
    <3>1. UNCHANGED <<transcript, outcome>>
      BY <2>2 DEF RunDone, Report, NoProvider, NotConverged, Graded
    <3>2. QED
      BY <1>3, <3>1
  <2>3. QED
    BY <2>1, <2>2
<1>5. step' = "ask" => FromLastRun(last', transcript')
  <2> SUFFICES ASSUME step' = "ask" PROVE FromLastRun(last', transcript')
    OBVIOUS
  <2>1. StartTask
    BY DEF RunDone, Report, NoProvider, NotConverged, Graded, NextTask
  <2>2. last' = Nothing /\ transcript' = <<>>
    BY <2>1 DEF StartTask
  <2>3. Nothing.err = None /\ Nothing.out = None
    BY DEF Nothing
  <2>4. QED
    BY <2>2, <2>3, NothingRan
<1>6. step' # "outcome"
  BY DEF RunDone, Report, StartTask, NoProvider, NotConverged, Graded, NextTask
<1>7. QED
  BY <1>1, <1>2, <1>4, <1>5, <1>6 DEF LoopMeans

LEMMA StepMeans ==
  ASSUME MInv, [Next]_vars
  PROVE  MInv'
<1>1. IInv'
  BY Step DEF MInv
<1>2. CASE UNCHANGED vars
  <2>1. UNCHANGED <<runVars, cmd, step, last, transcript, outcome, prog>>
    BY <1>2 DEF vars, agentVars, runVars
  <2>2. MeaningInv'
    BY <2>1, MeaningStutter DEF MInv
  <2>3. LoopMeans'
    BY <2>1 DEF MInv, LoopMeans
  <2>4. QED
    BY <1>1, <2>2, <2>3 DEF MInv
<1>3. CASE Next
  <2>1. MeaningInv' /\ LoopMeans'
    BY <1>3, RunCommandMeans, AnswerAcceptedMeans, StartGradeMeans, RunStepsMean,
       ProviderFailsMeans, AnswerRejectedMeans, RunSucceedsMeans, RunFailsMeans, OtherMeans,
       Zenon DEF Next
  <2>2. QED
    BY <1>1, <2>1 DEF MInv
<1>4. QED
  BY <1>2, <1>3

LEMMA InitMInv ==
  ASSUME AgentInit
  PROVE  MInv
<1>1. IInv /\ MeaningInv
  BY AgentInitInv, InitMeans
<1>2. LoopMeans
  <2>1. step # "run" /\ transcript = <<>> /\ outcome = NoOutcome
    BY DEF AgentInit
  <2>2. ~NoOutcome.success /\ ~NoOutcome.program.clean
    BY DEF NoOutcome, NoProgram
  <2>3. AllTold(<<>>) /\ Describes(NoOutcome)
    BY <2>2 DEF AllTold, Describes
  <2>4. step # "outcome" /\ last = Nothing
    BY DEF AgentInit
  <2>5. FromLastRun(last, transcript)
    BY <2>1, <2>4, NothingRan DEF Nothing
  <2>6. QED
    BY <2>1, <2>3, <2>4, <2>5 DEF LoopMeans
<1>3. QED
  BY <1>1, <1>2 DEF MInv

-----------------------------------------------------------------------------

\* Every open activation and every error on its way is what evaluating the
\* program, without any state, comes to.
THEOREM Follows == Spec => []MInv
<1>1. AgentInit => MInv
  BY InitMInv
<1>2. MInv /\ [Next]_vars => MInv'
  BY StepMeans
<1>3. QED
  BY <1>1, <1>2, PTL DEF Spec

\* A run ends with the error, the chain of calls and the lines that its program
\* means, whatever ran before it on the same thread and whatever was open when
\* it failed (interp.rs run_main_traced, run_main_capturing_traced_partial,
\* eval_tail, apply_value, grad).
THEOREM RunsMean == Spec => []RunMeans
<1>1. MInv => RunMeans
  BY DEF MInv, MeaningInv
<1>2. QED
  BY <1>1, Follows, PTL

\* A success is a program that checks and runs, with what it prints; what is
\* reported of a failure is about the program that is reported, and if that one
\* does not check, the error and the output are of one earlier program (agent.rs
\* run_loop).
THEOREM OutcomesDescribe == Spec => []OutcomeDescribesProgram
<1>1. MInv => OutcomeDescribesProgram
  BY DEF MInv, IInv, AgentInv, LoopMeans, Describes, Carried, OutcomeDescribesProgram
<1>2. QED
  BY <1>1, Follows, PTL

\* The model is told, of every answer that it gave, that it does not check or
\* how it ends and what it prints before (agent.rs run_loop).
THEOREM FeedbackIsComplete == Spec => []FeedbackComplete
<1>1. MInv => FeedbackComplete
  BY Zenon DEF MInv, IInv, AgentInv, LoopMeans, AllTold, Told, FeedbackComplete
<1>2. QED
  BY <1>1, Follows, PTL
=============================================================================
