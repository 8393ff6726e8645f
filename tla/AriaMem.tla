------------------------------- MODULE AriaMem -------------------------------
(***************************************************************************)
(* The memory pipeline from a checked program to its result: run_mem in    *)
(* src/src/main.rs (lower, count, execute), and the tail-call pass that    *)
(* the compiling backends run before they emit code.                       *)
(***************************************************************************)
EXTENDS AriaRc, AriaIrInterp

CONSTANT Programs    \* the programs that are run: functions by name

VARIABLES
    src,     \* the program
    run      \* the result of the execution and the heap after it

vars == <<stage, src, code, run>>

Interp == INSTANCE AriaInterp

NotRun == <<>>

Init ==
    /\ stage = "checked" /\ src \in Programs
    /\ code = <<>> /\ run = NotRun

LowerStep ==
    /\ stage = "checked" /\ stage' = "lowered"
    /\ code' = LowerProgram(src)
    /\ UNCHANGED <<src, run>>

Execute ==
    /\ stage \in {"counted", "optimised"} /\ stage' = "ran"
    /\ run' = RunMain(code, TRUE)
    /\ UNCHANGED <<src, code>>

\* The passes of AriaRc.
Count == InsertRcStep /\ UNCHANGED <<src, run>>
Optimise == TailCallStep /\ UNCHANGED <<src, run>>

Next == LowerStep \/ Count \/ Optimise \/ Execute

Spec == Init /\ [][Next]_vars

-----------------------------------------------------------------------------
(* Properties                                                              *)

Ran == stage = "ran"

\* The counted code reads and drops no freed cell, and misses no arm.
NoInternalError == Ran => run.h.err = ""

\* Cells alive at exit are those the result reaches: nothing leaks, whatever
\* path was taken (rc.rs: "every heap cell is freed exactly once").
NothingLeaks ==
    Ran /\ run.h.err = "" =>
        \A a \in DOMAIN run.h.cells :
            IsFreed(run.h, a) \/ a \in Cells(run.h, run.v)

\* The compiled program computes what the tree-walking interpreter computes.
AgreesWithInterpreter ==
    Ran /\ run.h.err = "" =>
        Tree(run.h, run.v) =
            Interp!Eval(src["main"].e, [x \in {} |-> Truth(FALSE)], src)

\* Lowered code is what the passes rely on: temporaries are new, and a name is not
\* bound again where it is needed.
LoweredIsWellFormed == stage = "lowered" => Lowered
=============================================================================
