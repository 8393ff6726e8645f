----------------------------- MODULE AriaInterval -----------------------------
(***************************************************************************)
(* What the binary range coder promises: arithmetic coding in unbounded    *)
(* numbers.  The message so far is the interval base .. base + width - 1 of *)
(* numbers that have one digit more than there were rescalings; each bit   *)
(* takes a part of it, and what is sent lies in the last interval.         *)
(***************************************************************************)
EXTENDS Integers

CONSTANTS RADIX, TOP

VARIABLES base, width, sent

vars == <<base, width, sent>>

Silent == -1

Init == base = 0 /\ width = RADIX * TOP - 1 /\ sent = Silent

\* A bit takes the lower part of the interval or the upper one; neither is empty.
Narrow ==
    /\ sent = Silent /\ width >= TOP
    /\ \E part \in 1..(width - 1) :
          \/ width' = part /\ base' = base
          \/ width' = width - part /\ base' = base + part
    /\ UNCHANGED sent
Rescale ==
    /\ sent = Silent /\ width < TOP
    /\ base' = RADIX * base /\ width' = RADIX * width /\ UNCHANGED sent
\* The least number of the interval is sent, all of its digits.
Send == sent = Silent /\ sent' = base /\ UNCHANGED <<base, width>>

Next == Narrow \/ Rescale \/ Send
Spec == Init /\ [][Next]_vars
=============================================================================
