----------------------------- MODULE AriaPredict -----------------------------
(***************************************************************************)
(* The models that predict the next bit for the binary range coder: the    *)
(* order-0 model of arith.rs and the context mixer of predict.rs.  Both    *)
(* learn from the bits that were coded, so that the encoder and the        *)
(* decoder hold the same model without a table in the blob.                *)
(*                                                                         *)
(* The shifts of the code are divisions, which floor as they do.  The hash *)
(* of a context is the context itself, and the two logistic tables, which  *)
(* are computed in floating point once, are constants.                     *)
(***************************************************************************)
EXTENDS Integers, Sequences

CONSTANTS
    RADIX,        \* number of bytes
    PROB_SCALE,   \* 2^PROB_BITS
    ADAPT,        \* 2^ADAPT_SHIFT
    RATES,        \* 2^rate of each context model
    WEIGHT_ONE, WEIGHT_MAX, LEARNING,
    LOGIT_MAX, Stretch, Squash

\* Every table answers with an integer; shifts are by a number of bits.
ASSUME ModelAssumption ==
    /\ RADIX \in Nat \ {0, 1} /\ PROB_SCALE \in Nat \ {0, 1}
    /\ RATES \in Seq(Nat \ {0}) /\ Len(RATES) \in 1..3
    /\ {ADAPT, WEIGHT_ONE, LEARNING} \subseteq Nat \ {0}
    /\ WEIGHT_MAX \in Nat /\ LOGIT_MAX \in Nat
    /\ Stretch \in [1..(PROB_SCALE - 1) -> Int]
    /\ Squash \in [-LOGIT_MAX..LOGIT_MAX -> 1..(PROB_SCALE - 1)]

Models == 1..Len(RATES)
Even == PROB_SCALE \div 2

Clamp(x, least, most) == IF x < least THEN least ELSE IF x > most THEN most ELSE x
ClampProb(p) == Clamp(p, 1, PROB_SCALE - 1)

\* The bits of the current byte behind a leading 1; 1 again when it is complete.
Walk(partial, bit) ==
    LET next == 2 * partial + bit IN IF next >= RADIX THEN 1 ELSE next

-----------------------------------------------------------------------------
(* The adaptive order-0 model                                              *)

BitModel == [probs |-> [ctx \in 1..(RADIX - 1) |-> Even], ctx |-> 1]

Get(m) == m.probs[m.ctx]
Update(m, bit) ==
    LET p == Get(m)
        np == IF bit = 1 THEN p + (PROB_SCALE - p) \div ADAPT ELSE p - p \div ADAPT
    IN  [probs |-> [m.probs EXCEPT ![m.ctx] = ClampProb(np)], ctx |-> Walk(m.ctx, bit)]

-----------------------------------------------------------------------------
(* The context mixer.  A table maps the contexts it has met to their       *)
(* probability; all others have an even chance.                            *)

NewPredictor ==
    [tables |-> [k \in Models |-> <<>>], weights |-> [k \in Models |-> WEIGHT_ONE \div Len(RATES)],
     c1 |-> 0, c2 |-> 0, partial |-> 1,
     idx |-> [k \in Models |-> <<>>], st |-> [k \in Models |-> 0], last_p |-> Even]

\* Model k sees the last k - 1 bytes.
ctx_index(m, k) == <<m.partial>> \o SubSeq(<<m.c1, m.c2>>, 1, k - 1)
Chance(table, i) == IF i \in DOMAIN table THEN table[i] ELSE Even
Learned(table, i, p) == [j \in DOMAIN table \cup {i} |-> IF j = i THEN p ELSE table[j]]

predict_bit(m) ==
    LET idx == [k \in Models |-> ctx_index(m, k)]
        st == [k \in Models |-> Stretch[Chance(m.tables[k], idx[k])]]
        dot[k \in 0..Len(RATES)] == IF k = 0 THEN 0 ELSE dot[k - 1] + m.weights[k] * st[k]
    IN  [m EXCEPT !.idx = idx, !.st = st,
                  !.last_p = Squash[Clamp(dot[Len(RATES)] \div WEIGHT_ONE, -LOGIT_MAX, LOGIT_MAX)]]

counter_update(p, bit, rate) ==
    ClampProb(p + ((IF bit = 1 THEN PROB_SCALE - 1 ELSE 0) - p) \div rate)

\* Learns from what predict_bit left in the model.
update_bit(m, bit) ==
    LET err == bit * PROB_SCALE - m.last_p
        next == 2 * m.partial + bit
        whole == next >= RADIX
    IN  [m EXCEPT
           !.weights = [k \in Models |-> Clamp(@[k] + (m.st[k] * err) \div LEARNING,
                                               -WEIGHT_MAX, WEIGHT_MAX)],
           !.tables = [k \in Models |->
                          Learned(@[k], m.idx[k],
                                  counter_update(Chance(@[k], m.idx[k]), bit, RATES[k]))],
           !.c2 = IF whole THEN m.c1 ELSE @,
           !.c1 = IF whole THEN next - RADIX ELSE @,
           !.partial = Walk(@, bit)]
=============================================================================
