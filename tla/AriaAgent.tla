------------------------------ MODULE AriaAgent ------------------------------
(***************************************************************************)
(* The commands that run programs in the interpreter: `aria run`           *)
(* (src/src/main.rs), `aria agent`, the loop that asks a model for a       *)
(* program, checks it, runs it and feeds back what went wrong              *)
(* (src/src/agent.rs), and `aria agent-bench`, which grades what the loop  *)
(* converged to (src/src/agent_bench.rs, src/src/agent_tasks.rs).  All     *)
(* their runs share the thread whose state AriaRun models.                 *)
(***************************************************************************)
EXTENDS AriaRun

CONSTANTS
    RunPrograms,     \* the programs `aria run` is given, all checked
    Answers,         \* what a model may answer, by name, checked or not
    Budgets,         \* values of max_iters
    Tasks            \* the outputs that the tasks of the benchmark expect

ASSUME BudgetsAssumption == Budgets \subseteq Nat
ASSUME TasksAssumption == Len(Tasks) \in Nat \ {0}

\* What runs has been checked.
ASSUME ProgramsAssumption ==
    \A p \in RunPrograms \cup {q \in Answers : q.clean} : WellFormed(p)

VARIABLES
    cmd,          \* "run", "agent" or "bench"
    step,         \* where the command stands
    budget,       \* max_iters
    iter,         \* iteration of run_loop
    last,         \* last_program, last_diags, last_runtime_error, last_output
    transcript,   \* the feedback that is part of every prompt
    outcome,      \* the AgentOutcome
    results       \* the TaskResults so far

agentVars == <<cmd, step, budget, iter, last, transcript, outcome, results>>
vars == <<runVars, agentVars>>

NoProgram == [name |-> "", clean |-> FALSE, fns |-> [f \in {} |-> <<>>], fuel |-> 1]

\* check_program: the diagnostics name the program they are about.
Diags(p) == IF p = NoProgram \/ p.clean THEN {} ELSE {p.name}

NoOutcome == [success |-> FALSE, program |-> NoProgram, diags |-> {},
              err |-> None, out |-> None, iterations |-> 0]
Nothing == [program |-> NoProgram, diags |-> {}, err |-> None, out |-> None]

\* iters: at least one.
Iters == IF budget < 1 THEN 1 ELSE budget

AgentInit ==
    /\ Init
    /\ cmd \in {"run", "agent", "bench"}
    /\ step = (CASE cmd = "run" -> "start" [] cmd = "agent" -> "ask" [] cmd = "bench" -> "task")
    /\ budget \in IF cmd = "run" THEN {0} ELSE Budgets
    /\ iter = 1 /\ last = Nothing /\ transcript = <<>>
    /\ outcome = NoOutcome /\ results = <<>>

-----------------------------------------------------------------------------
(* aria run                                                                *)

RunCommand ==
    /\ cmd = "run" /\ step = "start" /\ step' = "running"
    /\ \E p \in RunPrograms : Enter(p, FALSE)
    /\ UNCHANGED <<cmd, budget, iter, last, transcript, outcome, results>>

RunDone ==
    /\ cmd = "run" /\ step = "running" /\ ~active /\ step' = "done"
    /\ UNCHANGED <<runVars, cmd, budget, iter, last, transcript, outcome, results>>

-----------------------------------------------------------------------------
(* run_loop                                                                *)

Finish(o) == outcome' = [o EXCEPT !.iterations = iter] /\ step' = "outcome" /\ UNCHANGED iter

\* The provider fails, at any iteration: what there is, is returned.
ProviderFails ==
    /\ step = "ask"
    /\ Finish([NoOutcome EXCEPT !.program = last.program, !.diags = last.diags,
                                !.err = Some("provider")])
    /\ UNCHANGED <<runVars, cmd, budget, last, transcript, results>>

\* Mutant: the error of the last run is cleared and its output is not.
Rejected_Mixed(p) == [last EXCEPT !.program = p, !.diags = Diags(p), !.err = None]

Rejected(p) == [last EXCEPT !.program = p, !.diags = Diags(p)]

\* Mutant: the loop runs once more.
AnswerRejected_OneMore ==
    /\ step = "ask"
    /\ \E p \in Answers :
          /\ ~p.clean
          /\ last' = Rejected(p)
          /\ transcript' = Append(transcript, [program |-> p.name, err |-> None, out |-> None])
    /\ IF iter <= Iters
       THEN iter' = iter + 1 /\ UNCHANGED <<step, outcome>>
       ELSE Finish([NoOutcome EXCEPT !.program = last'.program, !.diags = last'.diags,
                                     !.err = last'.err, !.out = last'.out])
    /\ UNCHANGED <<runVars, cmd, budget, results>>

\* The answer does not check: its diagnostics are fed back, in the last
\* iteration too, and the budget may be exhausted.
AnswerRejected ==
    /\ step = "ask"
    /\ \E p \in Answers :
          /\ ~p.clean
          /\ last' = Rejected(p)
          /\ transcript' = Append(transcript, [program |-> p.name, err |-> None, out |-> None])
    /\ IF iter < Iters
       THEN iter' = iter + 1 /\ UNCHANGED <<step, outcome>>
       ELSE Finish([NoOutcome EXCEPT !.program = last'.program, !.diags = last'.diags,
                                     !.err = last'.err, !.out = last'.out])
    /\ UNCHANGED <<runVars, cmd, budget, results>>

\* The answer checks, so it runs, with its output captured.
AnswerAccepted ==
    /\ step = "ask" /\ step' = "run"
    /\ \E p \in Answers :
          /\ p.clean
          /\ last' = [last EXCEPT !.program = p, !.diags = {}]
          /\ Enter(p, TRUE)
    /\ UNCHANGED <<cmd, budget, iter, transcript, outcome, results>>

RunSucceeds ==
    /\ step = "run" /\ ~active /\ report.err = NoError
    /\ Finish([NoOutcome EXCEPT !.success = TRUE, !.program = last.program,
                                !.out = Some(report.out)])
    /\ UNCHANGED <<runVars, cmd, budget, last, transcript, results>>

\* Mutants: a run that failed is not reported to the model; the iteration is
\* not counted.
RunFails_Silent ==
    /\ step = "run" /\ ~active /\ report.err # NoError
    /\ last' = [last EXCEPT !.err = Some(report.err), !.out = Some(report.out)]
    /\ IF iter < Iters
       THEN iter' = iter + 1 /\ step' = "ask" /\ UNCHANGED <<outcome, transcript>>
       ELSE /\ Finish([NoOutcome EXCEPT !.program = last.program, !.err = last'.err,
                                        !.out = last'.out])
            /\ UNCHANGED transcript
    /\ UNCHANGED <<runVars, cmd, budget, results>>
RunFails_Uncounted ==
    /\ step = "run" /\ ~active /\ report.err # NoError
    /\ last' = [last EXCEPT !.err = Some(report.err), !.out = Some(report.out)]
    /\ step' = "ask" /\ UNCHANGED <<iter, outcome, transcript>>
    /\ UNCHANGED <<runVars, cmd, budget, results>>

\* It checked and failed at run time: the error and what was printed before it
\* are fed back, if there is an iteration left to read it.
RunFails ==
    /\ step = "run" /\ ~active /\ report.err # NoError
    /\ last' = [last EXCEPT !.err = Some(report.err), !.out = Some(report.out)]
    /\ IF iter < Iters
       THEN /\ iter' = iter + 1 /\ step' = "ask"
            /\ transcript' = Append(transcript, [program |-> last.program.name,
                                                 err |-> last'.err, out |-> last'.out])
            /\ UNCHANGED outcome
       ELSE /\ Finish([NoOutcome EXCEPT !.program = last.program, !.err = last'.err,
                                        !.out = last'.out])
            /\ UNCHANGED transcript
    /\ UNCHANGED <<runVars, cmd, budget, results>>

\* aria agent reports the outcome.
Report ==
    /\ cmd = "agent" /\ step = "outcome" /\ step' = "done"
    /\ UNCHANGED <<runVars, cmd, budget, iter, last, transcript, outcome, results>>

-----------------------------------------------------------------------------
(* The benchmark                                                           *)

TaskResult(converged, iterations, grade) ==
    [converged |-> converged, iterations |-> iterations, grade |-> grade]

NextTask(r) ==
    /\ results' = Append(results, r)
    /\ step' = IF Len(results') = Len(Tasks) THEN "done" ELSE "task"

\* A task starts with a provider and a loop of its own, or without a provider.
StartTask ==
    /\ step = "task" /\ step' = "ask"
    /\ iter' = 1 /\ last' = Nothing /\ transcript' = <<>> /\ outcome' = NoOutcome
    /\ UNCHANGED <<runVars, cmd, budget, results>>

NoProvider ==
    /\ step = "task"
    /\ NextTask(TaskResult(FALSE, 0, None))
    /\ UNCHANGED <<runVars, cmd, budget, iter, last, transcript, outcome>>

NotConverged ==
    /\ cmd = "bench" /\ step = "outcome" /\ ~outcome.success
    /\ NextTask(TaskResult(FALSE, outcome.iterations, None))
    /\ UNCHANGED <<runVars, cmd, budget, iter, last, transcript, outcome>>

\* grade runs the program again.
StartGrade ==
    /\ cmd = "bench" /\ step = "outcome" /\ outcome.success /\ step' = "grade"
    /\ Enter(outcome.program, TRUE)
    /\ UNCHANGED <<cmd, budget, iter, last, transcript, outcome, results>>

Correct(r, task) == r.err = NoError /\ r.out = Tasks[task]

Graded ==
    /\ step = "grade" /\ ~active
    /\ NextTask(TaskResult(TRUE, outcome.iterations,
                           Some(Correct(report, Len(results) + 1))))
    /\ UNCHANGED <<runVars, cmd, budget, iter, last, transcript, outcome>>

-----------------------------------------------------------------------------

Next ==
    \/ RunCommand \/ RunDone
    \/ ProviderFails \/ AnswerRejected \/ AnswerAccepted \/ RunSucceeds \/ RunFails
    \/ Report
    \/ StartTask \/ NoProvider \/ NotConverged \/ StartGrade \/ Graded
    \/ RunStep /\ UNCHANGED agentVars

\* A command works until it is done.
Spec == AgentInit /\ [][Next]_vars /\ WF_vars(Next)

-----------------------------------------------------------------------------
(* Properties                                                              *)

\* The types of the variables of the commands.
TypeOK ==
    /\ cmd \in {"run", "agent", "bench"}
    /\ step \in {"start", "running", "task", "ask", "run", "outcome", "grade", "done"}
    /\ iter \in 1..Iters
    /\ last.program \in Answers \cup {NoProgram}
    /\ outcome.program \in Answers \cup {NoProgram}
    /\ Len(results) <= Len(Tasks)

\* The outcome's diagnostics are those of its program, and a success checks.
OutcomeChecked ==
    /\ outcome.diags = Diags(outcome.program)
    /\ outcome.success => outcome.program.clean

\* When the model is asked again, it has been told of every iteration so far,
\* the last one about the program the loop still holds.
EveryIterationTold ==
    step = "ask" =>
        /\ Len(transcript) = iter - 1
        /\ iter > 1 => transcript[iter - 1].program = last.program.name

\* Every command ends, whatever the model answers, if its programs do.
Terminates == <>(step = "done")
=============================================================================
