------------------------------- MODULE MCRans -------------------------------
(* Instances of AriaRans for TLC, scaled down: a byte has 4 values, a word 4   *)
(* bytes; M and RANS_BYTE_L stand to them as in the code (more than a byte,    *)
(* half of 3 bytes).                                                           *)
EXTENDS AriaRansProofs

SeqsUpTo(S, n) == UNION {[1..k -> S] : k \in 0..n}

\* All short messages over four of the eight symbols, the extremes among them.
Short == SeqsUpTo({0, 3, 7}, 4)

\* Two symbols that are frequent and six that are rare: rounding gives twelve
\* slots, and two rounds of taking bring them down to eight.
Repeat(s, n) == [i \in 1..n |-> s]
Rare == <<2, 3, 4, 5, 6, 7>>
Crowded == {Repeat(0, 9) \o Repeat(1, 9) \o Rare, Rare \o Repeat(1, 9) \o Repeat(0, 9),
            Repeat(7, 9) \o Rare \o <<0, 1>>, Repeat(0, 7) \o <<1, 2>>}

MCMessages == Short \cup Crowded
\* Words in front of a short stream, under tables whose total is right, one
\* short, and one too large.  The lengths: two small ones, one that the allocator
\* may refuse or grant, and one that no Vec can hold.
Table(a, b, c) == [s \in Sym |-> CASE s = 0 -> a [] s = 1 -> b [] s = 7 -> c [] OTHER -> 0]
MCGarbled ==
    {[part |-> "table", len |-> n, table |-> t, stream |-> w \o r] :
        n \in {1, 2, 26, 40}, t \in {Table(8, 0, 0), Table(0, 8, 0), Table(3, 4, 1),
                             Table(4, 3, 0), Table(4, 4, 1), Table(0, 0, 15)},
        w \in [1..4 -> {0, 3}], r \in {<<>>, <<3, 1, 2>>}}
=============================================================================
