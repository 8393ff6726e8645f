------------------------------- MODULE MCAgent -------------------------------
(* Programs for AriaAgent: main calls f in some way, after or before another   *)
(* operation; the bodies of f and g are all sequences of a few operations.     *)
EXTENDS AriaAgentMeaning, AriaAgentProofs, TLC

SeqsOf(S, lens) == UNION {[1..k -> S] : k \in lens}

Plain == {Op(o, "") : o \in {"print", "trap", "arith"}}
Entering(f) == {Op(o, f) : o \in {"call", "apply", "grad", "gradlit"}}

Fns(m, f, g) == "main" :> m @@ "f" :> f @@ "g" :> g
Checked(name, fns, fuel) == [name |-> name, clean |-> TRUE, fns |-> fns, fuel |-> fuel]

\* Every body of f of at most three operations, whichever way main enters it.
Alone == {Checked("run", Fns(<<m, Op("print", "")>>, f, <<>>), 4) :
            m \in Entering("f"),
            f \in SeqsOf({Op("print", ""), Op("arith", ""), Op("trap", "")} \cup Entering("f"), 1..3)}

\* Two functions that call each other.
Together == {Checked("run", Fns(<<Op("print", ""), m>>, f, g), 4) :
            m \in Entering("f"),
            f \in SeqsOf({Op("arith", "")} \cup Entering("f") \cup Entering("g"), {2}),
            g \in {<<Op("call", "f")>>, <<Op("call", "g"), Op("trap", "")>>,
                   <<Op("apply", "f"), Op("print", "")>>}}

NoMain == [name |-> "nomain", clean |-> TRUE, fns |-> "f" :> <<>>, fuel |-> 1]

MCRunPrograms == Alone \cup Together \cup {NoMain}

\* What a model answers: programs that do not check, that succeed, by a loop, a
\* gradient or otherwise, and that fail in each way there is.
Rejects(name) == [name |-> name, clean |-> FALSE, fns |-> [f \in {} |-> <<>>], fuel |-> 1]
Loop == Checked("loop", Fns(<<Op("call", "f")>>, <<Op("print", ""), Op("call", "f")>>, <<>>), 5)
Gradient == Checked("gradient", Fns(<<Op("gradlit", "f"), Op("print", "")>>,
                                    <<Op("arith", "")>>, <<>>), 2)
Traps == Checked("traps", Fns(<<Op("print", ""), Op("call", "f")>>,
                              <<Op("call", "f"), Op("trap", "")>>, <<>>), 3)
GradientTraps == Checked("gradient traps",
                         Fns(<<Op("gradlit", "f")>>, <<Op("trap", "")>>, <<>>), 2)
Deep == Checked("deep", Fns(<<Op("call", "f")>>, <<Op("call", "f"), Op("print", "")>>, <<>>), 6)

MCAnswers == {Rejects("untyped"), Rejects("garbled"), Loop, Gradient, Traps,
              GradientTraps, Deep, NoMain}
MCTwice == {Rejects("untyped"), Traps}
MCTasks == <<<<4, 3, 2, 1>>, <<2>>>>
=============================================================================
