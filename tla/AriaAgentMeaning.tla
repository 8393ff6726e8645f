--------------------------- MODULE AriaAgentMeaning ---------------------------
(***************************************************************************)
(* What a run of a program means, the promise of src/src/interp.rs without *)
(* its state, and what the commands of AriaAgent owe to it: every report of *)
(* a run, every outcome and everything a model is told is compared with    *)
(* the meaning.  There, the depth, the chain of calls and whether a        *)
(* gradient is being taken are parameters of the evaluation, so nothing    *)
(* has to be undone when it returns or fails.                              *)
(***************************************************************************)
EXTENDS AriaAgent

\* A body is entered with: its function, and whether by name, so that its tail
\* calls to itself are jumps; whether the vector is traced, the depth, and
\* whether a gradient is open.
Contexts(p) ==
    [f : DOMAIN p.fns, byName : BOOLEAN, tracing : BOOLEAN, d : Nat, taped : BOOLEAN]
Context(f, byName, tracing, d, taped) ==
    [f |-> f, byName |-> byName, tracing |-> tracing, d |-> d, taped |-> taped]

\* How something ends, through which calls, and what it prints.
Result(e, calls, out) == [err |-> e, calls |-> calls, out |-> out]
Done == Result(NoError, <<>>, <<>>)
Fails(e) == Result(e, <<>>, <<>>)

\* a, and then b if a does not fail.
Then(a, b) == IF a.err # NoError THEN a ELSE Result(b.err, b.calls, a.out \o b.out)

\* A call whose body does r, and the same at depth d.
Under(frame, r) == IF r.err = NoError THEN r ELSE Result(r.err, <<frame>> \o r.calls, r.out)
Entered(frame, d, r) ==
    IF d > MAX_CALL_DEPTH THEN Result("limit", <<frame>>, <<>>) ELSE Under(frame, r)

\* The operand of a gradient at depth d, a lambda at site that calls f on the
\* traced vector; less is what bodies do at the next smaller number.
Operand(less, f, site, d) ==
    Entered(Frame(f, Append(site, 1)), d + 1, less[Context(f, TRUE, TRUE, d + 1, TRUE)])

\* Operation i of the body entered with c, and what it does at number n.
InTail(p, c, i) == c.byName /\ p.fns[c.f][i].f = c.f /\ i = Len(p.fns[c.f])

Effect(p, less, n, c, i) ==
    LET o == p.fns[c.f][i]
        site == <<c.f, i>>
        Callee(byName) == less[Context(o.f, byName, c.tracing, c.d + 1, c.taped)]
    IN  CASE o.op = "print" -> Result(NoError, <<>>, <<n>>)
          [] o.op = "trap" -> Fails("trap")
          [] o.op = "arith" -> Done
          [] o.op = "call" ->
                IF InTail(p, c, i) THEN less[c]
                ELSE Entered(Frame(o.f, site), c.d + 1, Callee(TRUE))
          [] o.op = "apply" -> Entered(Frame("value", site), c.d + 1, Callee(FALSE))
          [] o.op \in Gradients ->
                IF o.op = "grad" /\ c.tracing THEN Fails("not a vector")
                ELSE IF c.taped THEN Fails("nested")
                ELSE Entered(GradFrame, c.d + 1, Operand(less, o.f, site, c.d + 1))

\* The last k operations of that body.
Rest(p, less, n, c) ==
    LET body == p.fns[c.f]
        rest[k \in Nat] ==
            IF k \notin 1..Len(body) THEN Done
            ELSE Then(Effect(p, less, n, c, Len(body) + 1 - k), rest[k - 1])
    IN  rest

\* What every body does at every number.
Eval(p) ==
    LET eval[n \in Nat] ==
            [c \in Contexts(p) |->
                IF n = 0 THEN Done ELSE Rest(p, eval[n - 1], n, c)[Len(p.fns[c.f])]]
    IN  eval

Whole(p) ==
    IF "main" \notin DOMAIN p.fns THEN Fails("no main")
    ELSE Under(Frame("main", NoSite), Eval(p)[p.fuel][Context("main", TRUE, FALSE, 0, FALSE)])

\* The report of a run whose output is captured.
Meaning(p) ==
    LET r == Whole(p)
    IN  [err |-> r.err, frames |-> IF r.err = NoError THEN <<>> ELSE Collapsed(r.calls),
         out |-> r.out]

-----------------------------------------------------------------------------
(* What the commands owe to it                                             *)

\* A run ends as the program means: with the same error through the same chain
\* of calls, and with the lines printed before it, in the buffer if the run
\* captures and on the standard output if not.
RunMeans ==
    ~active =>
        /\ [report EXCEPT !.out = IF cmd = "run" THEN stdout ELSE @] = Meaning(prog)
        /\ cmd # "run" => stdout = <<>>

\* The error and the output that o carries belong together: they are those of the
\* last attempt in the transcript that ran, or none of them ran.
FromLastRun(o, t) ==
    \/ /\ \A i \in DOMAIN t : t[i].err = None
       /\ o.err = None /\ o.out = None
    \/ \E i \in DOMAIN t :
          /\ t[i].err # None /\ \A j \in DOMAIN t : j > i => t[j].err = None
          /\ o.err = t[i].err /\ o.out = t[i].out

\* What the loop reports is about the program it reports: a success is a program
\* that checks and runs, with what it prints; the diagnostics are those of the
\* final program, and if that one checks, the error is the one it runs into.  If
\* it does not check, the error and the output beside it outlive their program
\* (last_runtime_error, last_output): both are of the last program that ran, never
\* the error of one and the output of another, or both are missing.
OutcomeDescribesProgram ==
    LET p == outcome.program
        m == Meaning(p)
    IN  /\ OutcomeChecked
        /\ outcome.success => m.err = NoError /\ outcome.out = Some(m.out)
        /\ ~outcome.success /\ p.clean /\ outcome.err # Some("provider") =>
              /\ m.err # NoError
              /\ outcome.err = Some(m.err) /\ outcome.out = Some(m.out)
        /\ step = "outcome" /\ ~outcome.success /\ ~p.clean /\ outcome.err # Some("provider") =>
              FromLastRun(outcome, transcript)

\* When the model is asked again it has been told about every attempt so far:
\* that it does not check, or how it ended and what it printed before.
FeedbackComplete ==
    /\ EveryIterationTold
    /\ step = "ask" =>
          \A i \in DOMAIN transcript : \E p \in Answers :
              /\ transcript[i].program = p.name
              /\ IF p.clean
                 THEN transcript[i].err = Some(Meaning(p).err)
                      /\ transcript[i].out = Some(Meaning(p).out)
                 ELSE transcript[i].err = None
=============================================================================
