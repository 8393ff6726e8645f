------------------------------ MODULE AriaRange ------------------------------
(***************************************************************************)
(* The binary range coder of arith.rs with the two codecs built on it:     *)
(* compress_adaptive (ARB1) and the predictive codec of neural_codec.rs    *)
(* (ARN1).  The encoder keeps the low end of its interval with a carry that *)
(* may still run through bytes it withholds; the decoder keeps the offset  *)
(* of the stream into the same interval.                                   *)
(*                                                                         *)
(* One action is one step of a loop.  2^24 and 2^32 are powers of RADIX,   *)
(* the number of bytes.                                              *)
(***************************************************************************)
EXTENDS AriaPredict

CONSTANTS
    BITS,         \* bits of a byte
    Messages,     \* the data, as sequences of bits
    MaxCut        \* bound: the bytes that a stored blob may lose at its end

TOP == RADIX * RADIX * RADIX
Word == RADIX * TOP

\* Whole bytes; no slice of the interval is empty; a probability is a word.
ASSUME ScalesAssumption ==
    /\ BITS \in Nat \ {0} /\ RADIX = 2^BITS
    /\ PROB_SCALE <= TOP /\ MaxCut \in Nat
    /\ \A m \in Messages : m \in Seq(0..1) /\ Len(m) % BITS = 0

VARIABLES
    codec, data, phase,
    enc,      \* ArithEncoder: low, range, cache, cache_size, out
    model, coded, flushed,
    blob,     \* magic, length in bits, stream
    dec,      \* ArithDecoder: range, code, pos
    dmodel, bits

encoder == <<enc, model, coded, flushed>>
decoder == <<dec, dmodel, bits>>
vars == <<codec, data, phase, encoder, blob, decoder>>

-----------------------------------------------------------------------------
(* The model, through the interface that the two codecs have to theirs     *)

Fresh(c) == IF c = "ARB1" THEN BitModel ELSE NewPredictor
Consulted(c, m) == IF c = "ARB1" THEN m ELSE predict_bit(m)
Probability(c, m) == IF c = "ARB1" THEN Get(m) ELSE m.last_p
Taught(c, m, bit) == IF c = "ARB1" THEN Update(m, bit) ELSE update_bit(m, bit)

\* The part of the interval that stands for a 1, at its lower end.
Slice(range, p) == (range * ClampProb(p)) \div PROB_SCALE

-----------------------------------------------------------------------------
(* Encoding                                                                *)

\* Mutant: the carry stays in low after it was sent.
shift_low_KeepsCarry(e) ==
    LET settled == e.low < (RADIX - 1) * TOP \/ e.low >= Word
        withheld == [i \in 1..e.cache_size |-> IF i = 1 THEN e.cache ELSE RADIX - 1]
    IN  IF settled
        THEN [e EXCEPT !.out = @ \o [i \in DOMAIN withheld |->
                                        (withheld[i] + (e.low \div Word)) % RADIX],
                       !.cache = (e.low \div TOP) % RADIX, !.cache_size = 1,
                       !.low = @ * RADIX]
        ELSE [e EXCEPT !.cache_size = @ + 1, !.low = @ * RADIX]
\* Mutant: the carry reaches the cached byte and stops before the run behind it.
shift_low_ShortCarry(e) ==
    LET carry == e.low \div Word
        settled == e.low < (RADIX - 1) * TOP \/ e.low >= Word
        low == (e.low * RADIX) % Word
    IN  IF settled
        THEN [e EXCEPT !.out = @ \o [i \in 1..e.cache_size |->
                                        IF i = 1 THEN (e.cache + carry) % RADIX ELSE RADIX - 1],
                       !.cache = (e.low \div TOP) % RADIX, !.cache_size = 1, !.low = low]
        ELSE [e EXCEPT !.cache_size = @ + 1, !.low = low]
shift_low(e) ==
    LET carry == e.low \div Word
        settled == e.low < (RADIX - 1) * TOP \/ e.low >= Word
        withheld == [i \in 1..e.cache_size |-> IF i = 1 THEN e.cache ELSE RADIX - 1]
        low == (e.low * RADIX) % Word
    IN  IF settled
        THEN [e EXCEPT !.out = @ \o [i \in DOMAIN withheld |-> (withheld[i] + carry) % RADIX],
                       !.cache = (e.low \div TOP) % RADIX, !.cache_size = 1, !.low = low]
        ELSE [e EXCEPT !.cache_size = @ + 1, !.low = low]

EncodeBit ==
    /\ phase = "encode" /\ enc.range >= TOP /\ coded < Len(data)
    /\ LET m == Consulted(codec, model)
           bit == data[coded + 1]
           r1 == Slice(enc.range, Probability(codec, m))
       IN  /\ enc' = IF bit = 1 THEN [enc EXCEPT !.range = r1]
                     ELSE [enc EXCEPT !.low = @ + r1, !.range = @ - r1]
           /\ model' = Taught(codec, m, bit)
    /\ coded' = coded + 1
    /\ UNCHANGED <<codec, data, phase, flushed, blob, decoder>>
ShiftLow ==
    /\ phase = "encode" /\ enc.range < TOP
    /\ enc' = [shift_low(enc) EXCEPT !.range = @ * RADIX]
    /\ UNCHANGED <<codec, data, phase, model, coded, flushed, blob, decoder>>
Flush ==
    /\ phase = "encode" /\ enc.range >= TOP /\ coded = Len(data) /\ data # <<>> /\ flushed < 5
    /\ enc' = shift_low(enc) /\ flushed' = flushed + 1
    /\ UNCHANGED <<codec, data, phase, model, coded, blob, decoder>>
\* No data, no stream.  What is stored may lose bytes at its end.
Store ==
    /\ phase = "encode" /\ (data = <<>> \/ flushed = 5)
    /\ \E n \in 0..MaxCut :
          /\ n <= Len(enc.out)
          /\ blob' = [magic |-> codec, len |-> Len(data),
                      stream |-> SubSeq(enc.out, 1, Len(enc.out) - n)]
    /\ phase' = "stored"
    /\ UNCHANGED <<codec, data, encoder, decoder>>

-----------------------------------------------------------------------------
(* Decoding                                                                *)

\* A code in the lower part of the interval is a 1.
\* Mutant: the first number of the upper part, too.
Decided_Late(code, r1) == IF code <= r1 THEN 1 ELSE 0
Decided(code, r1) == IF code < r1 THEN 1 ELSE 0

\* The byte at a position, and zeros beyond the end.
Byte(pos) == IF pos < Len(blob.stream) THEN blob.stream[pos + 1] ELSE 0

\* A caller hands the blob to the decoder of c, which knows its own blobs.  The
\* first byte of a stream is skipped.
Open(c) ==
    /\ phase = "stored"
    /\ IF blob.magic # c THEN phase' = "refused" /\ UNCHANGED <<dec, dmodel>>
       ELSE IF blob.len = 0 THEN phase' = "done" /\ UNCHANGED <<dec, dmodel>>
       ELSE /\ phase' = "decode" /\ dmodel' = Fresh(c)
            /\ dec' = [range |-> Word - 1, pos |-> 5,
                       code |-> ((Byte(1) * RADIX + Byte(2)) * RADIX + Byte(3)) * RADIX + Byte(4)]
    /\ UNCHANGED <<codec, data, encoder, blob, bits>>
DecodeBit ==
    /\ phase = "decode" /\ dec.range >= TOP /\ Len(bits) < blob.len
    /\ LET m == Consulted(codec, dmodel)
           r1 == Slice(dec.range, Probability(codec, m))
           bit == Decided(dec.code, r1)
       IN  /\ dec' = IF bit = 1 THEN [dec EXCEPT !.range = r1]
                     ELSE [dec EXCEPT !.code = @ - r1, !.range = @ - r1]
           /\ dmodel' = Taught(codec, m, bit)
           /\ bits' = Append(bits, bit)
    /\ UNCHANGED <<codec, data, phase, encoder, blob>>
\* Mutant: the decoder waits for the bytes that a stream has lost.
NextByte_Waits ==
    /\ phase = "decode" /\ dec.range < TOP /\ dec.pos < Len(blob.stream)
    /\ dec' = [range |-> dec.range * RADIX, pos |-> dec.pos + 1,
               code |-> ((dec.code * RADIX) % Word) + Byte(dec.pos)]
    /\ UNCHANGED <<codec, data, phase, enc, model, coded, flushed, blob, dmodel, bits>>
NextByte ==
    /\ phase = "decode" /\ dec.range < TOP
    /\ dec' = [range |-> dec.range * RADIX, pos |-> dec.pos + 1,
               code |-> ((dec.code * RADIX) % Word) + Byte(dec.pos)]
    /\ UNCHANGED <<codec, data, phase, encoder, blob, dmodel, bits>>
Finish ==
    /\ phase = "decode" /\ dec.range >= TOP /\ Len(bits) = blob.len
    /\ phase' = "done"
    /\ UNCHANGED <<codec, data, encoder, blob, decoder>>

-----------------------------------------------------------------------------

Codecs == {"ARB1", "ARN1"}

Init ==
    /\ codec \in Codecs /\ data \in Messages /\ phase = "encode"
    /\ enc = [low |-> 0, range |-> Word - 1, cache |-> 0, cache_size |-> 1, out |-> <<>>]
    /\ model = Fresh(codec) /\ coded = 0 /\ flushed = 0
    /\ blob = [magic |-> codec, len |-> 0, stream |-> <<>>]
    /\ dec = [range |-> 0, code |-> 0, pos |-> 0] /\ dmodel = Fresh(codec) /\ bits = <<>>

Next ==
    \/ EncodeBit \/ ShiftLow \/ Flush \/ Store
    \/ \E c \in Codecs : Open(c)
    \/ DecodeBit \/ NextByte \/ Finish

Spec == Init /\ [][Next]_vars
\* A call of compress or decompress runs until it returns.
FairSpec == Spec /\ WF_vars(Next)

-----------------------------------------------------------------------------
(* Properties                                                              *)

\* The number that a sequence of bytes stands for.
Value(s) ==
    LET v[i \in 0..Len(s)] == IF i = 0 THEN 0 ELSE v[i - 1] * RADIX + s[i] IN v[Len(s)]

\* No word leaves its width: the low end has one bit of carry, and the decoder's
\* code stays in its interval, so that its shift loses no bit, also when the
\* stream was cut (the u64 and u32 of arith.rs).
TypeOK ==
    /\ enc.low \in 0..(2 * Word - 1) /\ enc.range \in 1..(Word - 1)
    /\ enc.cache \in 0..(RADIX - 1) /\ enc.cache_size >= 1
    /\ \A i \in DOMAIN enc.out : enc.out[i] \in 0..(RADIX - 1)
    /\ phase = "decode" => (dec.range \in 1..(Word - 1) /\ dec.code \in 0..(dec.range - 1))

\* The withheld bytes and low, with the carry in it, are the low end of an
\* interval in unbounded numbers, and the stream is the last of them to the
\* last digit: no carry is lost or arrives late (shift_low and finish).
Held ==
    enc.out \o <<enc.cache>> \o [i \in 1..(enc.cache_size - 1) |-> RADIX - 1]
\* finish shifts the digits of low out one by one.
Shifted == <<1, RADIX, RADIX * RADIX, TOP, Word>>
Base ==
    IF flushed = 5 THEN Value(enc.out)
    ELSE LET scale == Shifted[flushed + 1]
         IN  Value(Held) * (Word \div scale) + enc.low \div scale
Ideal ==
    INSTANCE AriaInterval WITH
        base <- Base, width <- enc.range,
        sent <- IF phase = "encode" \/ data = <<>> THEN -1 ELSE Value(enc.out)
CodesExactly == Ideal!Spec

\* The decoder gives back the data, bit by bit, also when the stream has lost
\* zeros at its end, which the decoder reads there anyway; the other codec
\* refuses the blob (decompress_adaptive and decompress).
Intact == \A i \in DOMAIN enc.out : i > Len(blob.stream) => enc.out[i] = 0
Lossless ==
    /\ phase \in {"decode", "done"} /\ Intact => bits = SubSeq(data, 1, Len(bits))
    /\ phase = "done" /\ Intact => bits = data

\* Each call returns, with as many bytes as the header says: no probability makes
\* the interval empty, which would renormalise for ever (encode_bit).
Terminates == <>(phase = "refused" \/ (phase = "done" /\ Len(bits) = blob.len))
=============================================================================
