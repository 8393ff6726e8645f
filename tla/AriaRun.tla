------------------------------- MODULE AriaRun -------------------------------
(***************************************************************************)
(* The run-time state of the tree-walking interpreter (src/src/interp.rs): *)
(* the depth of an Interp, and the thread-locals CALL_STACK,               *)
(* OUTPUT_CAPTURE and GRAD_TAPE, which every entry point installs and every *)
(* early return by `?` must leave as it found them.                        *)
(*                                                                         *)
(* Programs are reduced to what touches that state.  A function takes a    *)
(* number n and a vector; its body does nothing if n is 0, and else a      *)
(* sequence of operations, the last one in tail position.  Calls pass n - 1 *)
(* and the vector on.                                                      *)
(***************************************************************************)
EXTENDS Naturals, Sequences

CONSTANT MAX_CALL_DEPTH

ASSUME DepthAssumption == MAX_CALL_DEPTH \in Nat \ {0}

VARIABLES
    prog,        \* the program: its functions' operations, and main's n
    active,      \* a run_main is in flight
    entry,       \* what the entry point saved, and whether it captures
    ctl,         \* the open activations (the native stack), outermost first
    err,         \* the error that is being propagated, or NoError
    depth,       \* Interp::depth
    callStack,   \* CALL_STACK
    capture,     \* OUTPUT_CAPTURE
    tape,        \* GRAD_TAPE: the number of its nodes
    stdout,      \* lines that went to the standard output
    report       \* what the last run returned

runVars == <<prog, active, entry, ctl, err, depth, callStack, capture, tape, stdout, report>>

\* Option values.
None == <<>>
Some(v) == <<v>>

NoError == "ok"

\* Operations: what they do and the function they enter, if they enter one.
Op(o, f) == [op |-> o, f |-> f]
Gradients == {"grad", "gradlit"}
Entries == {"call", "apply"} \cup Gradients
Operation(p) ==
    [op : {"print", "trap", "arith"} \cup Entries, f : DOMAIN p.fns \cup {""}]

\* What check_program guarantees of a program: every call names a function.
WellFormed(p) ==
    /\ p.fuel \in Nat
    /\ \A f \in DOMAIN p.fns :
          /\ p.fns[f] \in Seq(Operation(p))
          /\ \A i \in DOMAIN p.fns[f] :
                p.fns[f][i].op \in Entries => p.fns[f][i].f \in DOMAIN p.fns

\* A site, the place of a call in the source, is the code it stands in and its
\* position there; the code is a function's body, or the lambda in the operand
\* of a grad, which calls a function.
Body(p, code) ==
    IF Len(code) = 1 THEN p.fns[code[1]]
    ELSE <<Op("call", p.fns[code[1]][code[2]].f)>>

Frame(function, site) == [function |-> function, site |-> site]
NoSite == <<>>
GradFrame == Frame("grad function", NoSite)

Top == ctl[Len(ctl)]
Finished == Top.n = 0 \/ Top.pc > Len(Body(prog, Top.code))
Here == Body(prog, Top.code)[Top.pc]
Site == Append(Top.code, Top.pc)
At(o) == active /\ err = NoError /\ ctl # <<>> /\ ~Finished /\ Here.op = o

Advanced(c) == IF c = <<>> THEN c ELSE [c EXCEPT ![Len(c)].pc = @ + 1]
Popped(s) == SubSeq(s, 1, Len(s) - 1)

PushFrame(frame) ==
    callStack' = IF callStack = None THEN None ELSE Some(Append(callStack[1], frame))
PopFrame ==
    callStack' = IF callStack = None THEN None ELSE Some(Popped(callStack[1]))

-----------------------------------------------------------------------------
(* Entry points                                                            *)

Init ==
    /\ prog = [fns |-> [f \in {"main"} |-> <<>>], fuel |-> 1]
    /\ active = FALSE
    /\ entry = [stack |-> None, capture |-> None, capturing |-> FALSE]
    /\ ctl = <<>> /\ err = NoError /\ depth = 0
    /\ callStack = None /\ capture = None /\ tape = None /\ stdout = <<>>
    /\ report = [err |-> NoError, frames |-> <<>>, out |-> <<>>]

\* A new Interp runs p: run_main_traced, or run_main_capturing_traced_partial.
Enter(p, capturing) ==
    /\ ~active /\ active' = TRUE
    /\ prog' = p
    /\ depth' = 0
    /\ entry' = [stack |-> callStack, capture |-> capture, capturing |-> capturing]
    /\ capture' = IF capturing THEN Some(<<>>) ELSE capture
    /\ IF "main" \in DOMAIN p.fns
       THEN /\ callStack' = Some(<<Frame("main", NoSite)>>)
            /\ ctl' = <<[kind |-> "main", code |-> <<"main">>, n |-> p.fuel,
                         tracing |-> FALSE, pc |-> 1, d |-> 0]>>
            /\ err' = NoError
       ELSE /\ callStack' = Some(<<>>)
            /\ ctl' = <<>>
            /\ err' = "no main"
    /\ UNCHANGED <<tape, stdout, report>>

\* The trace: most recent call first, equal neighbours once.
Collapsed(stack) ==
    LET n == Len(stack)
        kept[i \in 0..n] ==
            IF i = 0 THEN <<>>
            ELSE LET f == stack[n + 1 - i]
                 IN  IF i > 1 /\ stack[n + 2 - i] = f THEN kept[i - 1]
                     ELSE Append(kept[i - 1], f)
    IN  kept[n]

\* Mutant: an error leaves the buffer in place.
Leave_KeepsCapture ==
    /\ active /\ ctl = <<>> /\ active' = FALSE
    /\ report' = [err |-> err,
                  frames |-> IF err = NoError THEN <<>> ELSE Collapsed(callStack[1]),
                  out |-> IF entry.capturing THEN capture[1] ELSE <<>>]
    /\ callStack' = entry.stack
    /\ capture' = IF entry.capturing /\ err = NoError THEN entry.capture ELSE capture
    /\ UNCHANGED <<prog, entry, ctl, err, depth, tape, stdout>>

\* with_call_stack and the capturing wrapper put back what they replaced.
Leave ==
    /\ active /\ ctl = <<>> /\ active' = FALSE
    /\ report' = [err |-> err,
                  frames |-> IF err = NoError THEN <<>> ELSE Collapsed(callStack[1]),
                  out |-> IF entry.capturing THEN capture[1] ELSE <<>>]
    /\ callStack' = entry.stack
    /\ capture' = IF entry.capturing THEN entry.capture ELSE capture
    /\ UNCHANGED <<prog, entry, ctl, err, depth, tape, stdout>>

-----------------------------------------------------------------------------
(* Operations                                                              *)

\* emit_line: to the buffer if there is one, else to the standard output.
EmitLine ==
    /\ At("print")
    /\ IF capture = None THEN stdout' = Append(stdout, Top.n) /\ UNCHANGED capture
       ELSE capture' = Some(Append(capture[1], Top.n)) /\ UNCHANGED stdout
    /\ ctl' = Advanced(ctl)
    /\ UNCHANGED <<prog, active, entry, err, depth, callStack, tape, report>>

\* A run-time error of a builtin or an operator: division by zero, an index.
Trap ==
    /\ At("trap") /\ err' = "trap"
    /\ UNCHANGED <<prog, active, entry, ctl, depth, callStack, capture, tape, stdout, report>>

\* Arithmetic on the vector.  On a tracing one it pushes a node, and panics
\* without a tape.
Arithmetic ==
    /\ At("arith")
    /\ IF ~Top.tracing THEN UNCHANGED <<tape, err>> /\ ctl' = Advanced(ctl)
       ELSE IF tape = None THEN err' = "panic" /\ UNCHANGED <<tape, ctl>>
       ELSE tape' = Some(tape[1] + 1) /\ ctl' = Advanced(ctl) /\ UNCHANGED err
    /\ UNCHANGED <<prog, active, entry, depth, callStack, capture, stdout, report>>

\* The last operation of a body that eval_fn_body evaluates calls the function
\* itself: the parameters are rebound and the body starts again.
IsSelfTail ==
    /\ Top.kind \in {"main", "call"}
    /\ Here.f = Top.code[1]
    /\ Top.pc = Len(Body(prog, Top.code))

\* Mutant: the loop is left to the ordinary path.
TailSelfCall_Pushes ==
    /\ At("call") /\ IsSelfTail
    /\ PushFrame(Frame(Here.f, Site))
    /\ ctl' = [ctl EXCEPT ![Len(ctl)].n = @ - 1, ![Len(ctl)].pc = 1]
    /\ UNCHANGED <<prog, active, entry, err, depth, capture, tape, stdout, report>>

TailSelfCall ==
    /\ At("call") /\ IsSelfTail
    /\ ctl' = [ctl EXCEPT ![Len(ctl)].n = @ - 1, ![Len(ctl)].pc = 1]
    /\ UNCHANGED <<prog, active, entry, err, depth, callStack, capture, tape, stdout, report>>

\* Mutant: the guard is off by one.
TooDeep_Early(d) == d >= MAX_CALL_DEPTH
TooDeep(d) == d > MAX_CALL_DEPTH

\* The frame is pushed before the depth is looked at, and stays if it is too
\* large.
Open(frame, kind, code, n, tracing) ==
    LET d == depth + 1 IN
    /\ PushFrame(frame)
    /\ IF TooDeep(d)
       THEN err' = "limit" /\ UNCHANGED <<ctl, depth>>
       ELSE /\ depth' = d
            /\ ctl' = Append(ctl, [kind |-> kind, code |-> code, n |-> n,
                                   tracing |-> tracing, pc |-> 1, d |-> d])
            /\ UNCHANGED err

\* A call of a function by its name.
Call ==
    /\ At("call") /\ ~IsSelfTail
    /\ Open(Frame(Here.f, Site), "call", <<Here.f>>, Top.n - 1, Top.tracing)
    /\ UNCHANGED <<prog, active, entry, capture, tape, stdout, report>>

\* apply_value: a function used as a value has no definition line, and its
\* body no tail calls.
Apply ==
    /\ At("apply")
    /\ Open(Frame("value", Site), "apply", <<Here.f>>, Top.n - 1, Top.tracing)
    /\ UNCHANGED <<prog, active, entry, capture, tape, stdout, report>>

\* grad of a lambda over the vector at hand, or over one of its own ("gradlit").
\* Only a plain vector is accepted, and only without a tape.
GradRefused ==
    /\ At("grad") \/ At("gradlit")
    /\ \/ Here.op = "grad" /\ Top.tracing /\ err' = "not a vector"
       \/ ~(Here.op = "grad" /\ Top.tracing) /\ tape # None /\ err' = "nested"
    /\ UNCHANGED <<prog, active, entry, ctl, depth, callStack, capture, tape, stdout, report>>

\* The tape is installed, with a leaf; apply_value may fail at once, and then
\* the tape is gone again.
Grad ==
    /\ At("grad") \/ At("gradlit")
    /\ ~(Here.op = "grad" /\ Top.tracing) /\ tape = None
    /\ Open(GradFrame, "grad", Site, Top.n, TRUE)
    /\ tape' = IF TooDeep(depth + 1) THEN None ELSE Some(1)
    /\ UNCHANGED <<prog, active, entry, capture, stdout, report>>

\* Mutant: `?` after the evaluation of f skips the tear-down.
TapeAfter_Early(kind) == IF kind = "grad" /\ err = NoError THEN None ELSE tape

\* grad clears the tape on both paths.
TapeAfter(kind) == IF kind = "grad" THEN None ELSE tape

\* main does not count.
DepthAfter(a) == IF a.kind = "main" THEN depth ELSE a.d - 1

\* A body ended: its frame is popped.
Return ==
    /\ active /\ err = NoError /\ ctl # <<>> /\ Finished
    /\ ctl' = Advanced(Popped(ctl))
    /\ depth' = DepthAfter(Top)
    /\ tape' = TapeAfter(Top.kind)
    /\ PopFrame
    /\ UNCHANGED <<prog, active, entry, err, capture, stdout, report>>

\* An error passes through a body: its frame stays.
Unwind ==
    /\ active /\ err # NoError /\ ctl # <<>>
    /\ ctl' = Popped(ctl)
    /\ depth' = DepthAfter(Top)
    /\ tape' = TapeAfter(Top.kind)
    /\ UNCHANGED <<prog, active, entry, err, callStack, capture, stdout, report>>

RunStep ==
    \/ EmitLine \/ Trap \/ Arithmetic
    \/ TailSelfCall \/ Call \/ Apply \/ GradRefused \/ Grad
    \/ Return \/ Unwind \/ Leave

-----------------------------------------------------------------------------
(* Properties                                                              *)

\* The frame that activation i must have: its name, and the place in its
\* caller's body where the caller now stands.
FrameOf(i) ==
    LET a == ctl[i]
        site == IF i = 1 THEN NoSite ELSE Append(ctl[i - 1].code, ctl[i - 1].pc)
    IN  CASE a.kind = "grad" -> GradFrame
          [] a.kind = "apply" -> Frame("value", site)
          [] OTHER -> Frame(a.code[1], site)

\* The call stack is the chain of open activations at every step, each with
\* the place of its call.  While an error unwinds it, what is still open is the
\* beginning of it.
StackIsChain ==
    active =>
        /\ Len(callStack[1]) >= Len(ctl)
        /\ err = NoError => Len(callStack[1]) = Len(ctl)
        /\ \A i \in DOMAIN ctl : callStack[1][i] = FrameOf(i)

\* The depth counts the open calls, whether they are returning or failing, and
\* never exceeds the limit; tail calls of a function to itself do not count.
DepthExact ==
    active => depth = (IF ctl = <<>> THEN 0 ELSE Len(ctl) - 1) /\ depth <= MAX_CALL_DEPTH

\* There is a tape exactly while a grad is open, one grad at a time; so an
\* operation on a tracing value always finds the tape it belongs to.
TapeScoped ==
    /\ tape # None <=> \E i \in DOMAIN ctl : ctl[i].kind = "grad"
    /\ \A i, j \in DOMAIN ctl :
          /\ ctl[i].kind = "grad" /\ ctl[j].kind = "grad" => i = j
          /\ ctl[j].tracing => \E k \in 1..j : ctl[k].kind = "grad"
    /\ err # "panic"

\* Between two runs nothing of the last one is left, however it ended: no
\* trace, no buffer, no tape, so the next run and the host's own output are
\* unaffected.
RunsAreIsolated ==
    ~active => callStack = None /\ capture = None /\ tape = None
=============================================================================
