------------------------------ MODULE AriaRans ------------------------------
(***************************************************************************)
(* Aria's entropy coder (src/src/rans.rs): compress counts the symbols of  *)
(* the data, scales the counts to a table of total M, and pushes the       *)
(* symbols, last one first, onto a word x whose low bytes spill to the     *)
(* stream; decompress reads the table and the stream back and pops the     *)
(* symbols, first one first.  Between the two, the blob may lose its tail  *)
(* or be garbled.  decompress allocates its output first, of the length    *)
(* that the blob names: the one step of it that may end in no result.      *)
(***************************************************************************)
EXTENDS Integers, Sequences, FiniteSets

CONSTANTS
    N,           \* symbols: 256 in the code
    M,           \* total of the frequency table: 1 << SCALE_BITS
    Quot,        \* RANS_BYTE_L >> SCALE_BITS
    Radix,       \* values of a byte: 256
    Messages,    \* the data that is compressed
    Garbled,     \* what storage may turn a blob into
    Memory,      \* an allocation of this many bytes succeeds
    MaxCapacity  \* the largest capacity of a Vec<u8>: isize::MAX

Sym == 0..(N - 1)
Byte == 0..(Radix - 1)
RANS_BYTE_L == Quot * M
U16 == Radix * Radix
U32 == U16 * U16

\* A blob: the leading parts that are complete ("none", the "header", or the
\* header and the "table"), the length of the data, the table, the stream.
Blob == [part : {"none", "header", "table"}, len : Nat,
         table : [Sym -> 0..(U16 - 1)], stream : Seq(Byte)]

ASSUME WidthsAssumption ==
    /\ N \in Nat \ {0} /\ M \in Nat \ {0} /\ Quot \in Nat \ {0}
    /\ Radix \in Nat /\ Radix > 1
    /\ N <= M                              \* every symbol gets a slot
    /\ M < U16                             \* a frequency fits the table's u16
    /\ RANS_BYTE_L * Radix <= U32          \* a word in use fits the u32

ASSUME InputsAssumption == Messages \subseteq Seq(Sym) /\ Garbled \subseteq Blob

\* There is room for what was compressed; a blob may name any length.
ASSUME MemoryAssumption ==
    /\ Memory \in Nat /\ MaxCapacity \in Nat /\ Memory <= MaxCapacity
    /\ \A d \in Messages : Len(d) <= Memory

VARIABLES
    phase,     \* "reconcile", "encode", "stored", "decode"; then "done" or
               \* "error" (decompress returned), "panic" or "abort" (it did not)
    data,      \* the argument of compress
    freqs,     \* the frequency table of the encoder, then of the decoder
    left,      \* symbols still to be encoded
    x,         \* the coder's word
    stream,    \* bytes written, the last one first; then bytes not yet read
    blob,      \* what compress returned
    out,       \* symbols decoded
    pending,   \* the symbol decoded and not yet pushed to out, or None
    damage,    \* what happened to the blob: "none", "cut" or "garbled"
    trail      \* history, read by no action: the encoder's states, which the
               \* decoder revisits from the last to the first

vars == <<phase, data, freqs, left, x, stream, blob, out, pending, damage, trail>>

None == -1
State(w, n, b) == [x |-> w, left |-> n, stream |-> b]

-----------------------------------------------------------------------------
(* Tables                                                                  *)

\* build_cum: running totals of a table.
Cum(fr) == LET c[i \in 0..N] == IF i = 0 THEN 0 ELSE c[i - 1] + fr[i - 1] IN c
Total(fr) == Cum(fr)[N]

\* build_slot2sym: the symbol whose range contains the slot, 0 if none does.
InRange(fr, s, slot) == Cum(fr)[s] <= slot /\ slot < Cum(fr)[s] + fr[s]
Symbol(fr, slot) ==
    IF \E s \in Sym : InRange(fr, s, slot)
    THEN CHOOSE s \in Sym : InRange(fr, s, slot) ELSE 0

Count(d, s) == Cardinality({i \in 1..Len(d) : d[i] = s})

\* Mutant: a symbol whose share rounds to nothing gets no slot.
Scaled_Dropped(d) == [s \in Sym |-> (Count(d, s) * M) \div Len(d)]

\* A symbol's share of M, rounded down, and at least 1 if it occurs.
Scaled(d) ==
    [s \in Sym |->
        LET f == (Count(d, s) * M) \div Len(d)
        IN  IF Count(d, s) = 0 THEN 0 ELSE IF f = 0 THEN 1 ELSE f]

\* Mutant: if two symbols have the largest frequency there is no largest.
Largest_Strict(fr, m) == \A s \in Sym \ {m} : fr[s] < fr[m]

\* The first of the symbols with the largest frequency.
Largest(fr, m) ==
    /\ \A s \in Sym : fr[s] <= fr[m]
    /\ \A s \in Sym : s < m => fr[s] < fr[m]

Lesser(a, b) == IF a <= b THEN a ELSE b

-----------------------------------------------------------------------------
(* compress                                                                *)

EmptyTable == [s \in Sym |-> 0]
NoBlob == [part |-> "none", len |-> 0, table |-> EmptyTable, stream |-> <<>>]

Init ==
    /\ data \in Messages
    /\ IF data = <<>>
       THEN /\ phase = "stored"
            /\ freqs = EmptyTable
            /\ blob = [NoBlob EXCEPT !.part = "header"]
       ELSE /\ phase = "reconcile"
            /\ freqs = Scaled(data)
            /\ blob = NoBlob
    /\ left = Len(data) /\ x = RANS_BYTE_L /\ stream = <<>>
    /\ out = <<>> /\ pending = None /\ damage = "none"
    /\ trail = <<State(x, left, stream)>>

\* Mutant: the largest symbol may lose its last slot.
TakeExcess_All ==
    /\ phase = "reconcile" /\ Total(freqs) > M
    /\ \E m \in Sym :
          /\ Largest(freqs, m) /\ freqs[m] > 1
          /\ freqs' = [freqs EXCEPT ![m] = @ - Lesser(Total(freqs) - M, @)]
    /\ UNCHANGED <<phase, data, left, x, stream, blob, out, pending, damage, trail>>

\* Too many slots: the largest symbol gives some up, and keeps one.
TakeExcess ==
    /\ phase = "reconcile" /\ Total(freqs) > M
    /\ \E m \in Sym :
          /\ Largest(freqs, m) /\ freqs[m] > 1
          /\ freqs' = [freqs EXCEPT ![m] = @ - Lesser(Total(freqs) - M, @ - 1)]
    /\ UNCHANGED <<phase, data, left, x, stream, blob, out, pending, damage, trail>>

\* Too few: the largest symbol gets the rest.
GiveSlack ==
    /\ phase = "reconcile" /\ Total(freqs) < M
    /\ \E m \in Sym :
          /\ Largest(freqs, m)
          /\ freqs' = [freqs EXCEPT ![m] = @ + (M - Total(freqs))]
    /\ UNCHANGED <<phase, data, left, x, stream, blob, out, pending, damage, trail>>

\* The total is M, or the excess is stuck: nobody has a slot to give up.
Reconciled ==
    \/ Total(freqs) = M
    \/ Total(freqs) > M /\ \A s \in Sym : freqs[s] <= 1

StartEncoding ==
    /\ phase = "reconcile" /\ phase' = "encode"
    /\ Reconciled
    /\ UNCHANGED <<data, freqs, left, x, stream, blob, out, pending, damage, trail>>

\* Mutant: the bound is off by one.
XMax_Late(s) == Quot * Radix * freqs[s] + 1

\* A word of at least this much would overflow when it absorbs symbol s.
XMax(s) == Quot * Radix * freqs[s]

\* Shift right by a byte.
Shr(w) == w \div Radix

EncodeByte ==
    /\ phase = "encode" /\ left > 0 /\ x >= XMax(data[left])
    /\ stream' = <<x % Radix>> \o stream
    /\ x' = Shr(x)
    /\ trail' = Append(trail, State(x', left, stream'))
    /\ UNCHANGED <<phase, data, freqs, left, blob, out, pending, damage>>

\* The word after it absorbed symbol s.
Absorb(s) == (x \div freqs[s]) * M + (x % freqs[s]) + Cum(freqs)[s]

EncodeSymbol ==
    /\ phase = "encode" /\ left > 0 /\ x < XMax(data[left])
    /\ x' = Absorb(data[left])
    /\ left' = left - 1
    /\ trail' = Append(trail, State(x', left', stream))
    /\ UNCHANGED <<phase, data, freqs, stream, blob, out, pending, damage>>

\* The four bytes of a word, little end first.
Digits(w) == <<w % Radix, Shr(w) % Radix, Shr(Shr(w)) % Radix, Shr(Shr(Shr(w))) % Radix>>

Flush ==
    /\ phase = "encode" /\ left = 0 /\ phase' = "stored"
    /\ blob' = [part |-> "table", len |-> Len(data),
                table |-> [s \in Sym |-> freqs[s] % U16],
                stream |-> Digits(x) \o stream]
    /\ UNCHANGED <<data, freqs, left, x, stream, out, pending, damage, trail>>

-----------------------------------------------------------------------------
(* Storage                                                                 *)

\* The blob loses its tail: bytes of the stream, or parts before it too.
Cut ==
    /\ phase = "stored" /\ damage = "none" /\ damage' = "cut"
    /\ \/ \E n \in 0..(Len(blob.stream) - 1) :
             blob' = [blob EXCEPT !.stream = SubSeq(@, 1, n)]
       \/ \E p \in {"none", "header"} :
             /\ p # blob.part
             /\ blob' = [blob EXCEPT !.part = p, !.stream = <<>>]
    /\ UNCHANGED <<phase, data, freqs, left, x, stream, out, pending, trail>>

Garble ==
    /\ phase = "stored" /\ damage = "none" /\ damage' = "garbled"
    /\ blob' \in Garbled
    /\ UNCHANGED <<phase, data, freqs, left, x, stream, out, pending, trail>>

-----------------------------------------------------------------------------
(* decompress                                                              *)

\* Mutant: the table's total is not checked.
Refused_Unchecked ==
    \/ blob.part = "none"
    \/ blob.len > 0 /\ (blob.part = "header" \/ Len(blob.stream) < 4)

Refused ==
    \/ blob.part = "none"
    \/ /\ blob.len > 0
       /\ \/ blob.part = "header"
          \/ Total(blob.table) # M
          \/ Len(blob.stream) < 4

Refuse ==
    /\ phase = "stored" /\ Refused /\ phase' = "error"
    /\ UNCHANGED <<data, freqs, left, x, stream, blob, out, pending, damage, trail>>

OpenEmpty ==
    /\ phase = "stored" /\ ~Refused /\ blob.len = 0 /\ phase' = "done"
    /\ UNCHANGED <<data, freqs, left, x, stream, blob, out, pending, damage, trail>>

Undigits(b) == b[1] + Radix * (b[2] + Radix * (b[3] + Radix * b[4]))

\* The table and the first word are there, and nothing has been allocated yet.
Opens == phase = "stored" /\ ~Refused /\ blob.len > 0

\* The length in the blob is more than any Vec can hold: with_capacity panics.
CapacityOverflow ==
    /\ Opens /\ blob.len > MaxCapacity /\ phase' = "panic"
    /\ UNCHANGED <<data, freqs, left, x, stream, blob, out, pending, damage, trail>>

\* It is more than can be counted on: the allocator may refuse, which aborts.
AllocationFails ==
    /\ Opens /\ blob.len > Memory /\ blob.len <= MaxCapacity /\ phase' = "abort"
    /\ UNCHANGED <<data, freqs, left, x, stream, blob, out, pending, damage, trail>>

\* The output is allocated, and the first word read.
Open ==
    /\ Opens /\ blob.len <= MaxCapacity /\ phase' = "decode"
    /\ freqs' = blob.table
    /\ x' = Undigits(blob.stream)
    /\ stream' = SubSeq(blob.stream, 5, Len(blob.stream))
    /\ UNCHANGED <<data, left, blob, out, pending, damage, trail>>

\* The history before its last state.
Earlier == SubSeq(trail, 1, Len(trail) - 1)

DecodeSymbol ==
    /\ phase = "decode" /\ pending = None /\ Len(out) < blob.len
    /\ LET slot == x % M
           s == Symbol(freqs, slot)
       IN  /\ x' = freqs[s] * (x \div M) + slot - Cum(freqs)[s]
           /\ pending' = s
    /\ trail' = Earlier
    /\ UNCHANGED <<phase, data, freqs, left, stream, blob, out, damage>>

\* The word has left its interval and needs a byte.
Low == x < RANS_BYTE_L

DecodeByte ==
    /\ phase = "decode" /\ pending # None /\ Low /\ stream # <<>>
    /\ x' = x * Radix + Head(stream)
    /\ stream' = Tail(stream)
    /\ trail' = Earlier
    /\ UNCHANGED <<phase, data, freqs, left, blob, out, pending, damage>>

\* Mutant: a missing byte is read as zero.
EndOfStream_Zero ==
    /\ phase = "decode" /\ pending # None /\ Low /\ stream = <<>>
    /\ x' = x * Radix
    /\ UNCHANGED <<phase, data, freqs, left, stream, blob, out, pending, damage, trail>>

EndOfStream ==
    /\ phase = "decode" /\ pending # None /\ Low /\ stream = <<>>
    /\ phase' = "error"
    /\ UNCHANGED <<data, freqs, left, x, stream, blob, out, pending, damage, trail>>

Push ==
    /\ phase = "decode" /\ pending # None /\ ~Low
    /\ out' = Append(out, pending)
    /\ pending' = None
    /\ UNCHANGED <<phase, data, freqs, left, x, stream, blob, damage, trail>>

Finish ==
    /\ phase = "decode" /\ pending = None /\ Len(out) = blob.len
    /\ phase' = "done"
    /\ UNCHANGED <<data, freqs, left, x, stream, blob, out, pending, damage, trail>>

-----------------------------------------------------------------------------

Next ==
    \/ TakeExcess \/ GiveSlack \/ StartEncoding
    \/ EncodeByte \/ EncodeSymbol \/ Flush
    \/ Cut \/ Garble
    \/ Refuse \/ OpenEmpty \/ CapacityOverflow \/ AllocationFails \/ Open
    \/ DecodeSymbol \/ DecodeByte \/ EndOfStream \/ Push \/ Finish

Spec == Init /\ [][Next]_vars

\* A call runs until it ends.
FairSpec == Spec /\ WF_vars(Next)

-----------------------------------------------------------------------------
(* Properties                                                              *)

Returned == phase \in {"done", "error"}
Died == phase \in {"panic", "abort"}

\* The types; above all, x is a word in every step of the encoder and, for
\* every blob, of the decoder (no shift, product or difference leaves the u32),
\* and every slot that is looked up belongs to a symbol.
TypeOK ==
    /\ phase \in {"reconcile", "encode", "stored", "decode", "done", "error",
                 "panic", "abort"}
    /\ data \in Messages
    /\ freqs \in [Sym -> Nat]
    /\ left \in 0..Len(data)
    /\ x \in 0..(U32 - 1)
    /\ stream \in Seq(Byte)
    /\ blob \in Blob
    /\ out \in Seq(Sym)
    /\ pending \in Sym \cup {None}
    /\ damage \in {"none", "cut", "garbled"}
    /\ trail \in Seq([x : Nat, left : Nat, stream : Seq(Byte)])

\* normalize keeps its promise, whatever it takes to get there: "present
\* symbols have freq >= 1 and the total is exactly M".
TableSound ==
    phase = "encode" \/ (phase = "decode" /\ damage # "garbled") =>
        /\ Total(freqs) = M
        /\ \A s \in Sym : freqs[s] > 0 <=> \E i \in 1..Len(data) : data[i] = s

\* "Lossless": what is decoded is at every moment a prefix of the data, and all
\* of it in the end.
Lossless ==
    damage # "garbled" =>
        /\ Len(out) <= Len(data)
        /\ \A i \in 1..Len(out) : out[i] = data[i]
        /\ phase = "done" => Len(out) = Len(data)

\* A blob is refused only if it is damaged, and always if it lost its tail: the
\* decoder cannot take a shorter stream for a whole one.  A blob that was not
\* garbled is never fatal: what is left of it names the length of the data.
RefusesTheDamaged ==
    /\ phase = "error" => damage # "none"
    /\ phase = "done" => damage # "cut"
    /\ Died => damage = "garbled"

\* The buffer of encode, two bytes per symbol and some, is never exceeded: at
\* most two bytes spill per symbol, even one with a single slot.
BufferFits == phase = "encode" => Len(stream) <= 2 * (Len(data) - left + 1)

\* Every call ends (taking the excess, and the loops of the encoder and of the
\* decoder, on every blob), and it returns, unless the blob names a length that
\* there is no room for: with_capacity trusts it.
Terminates == <>(Returned \/ (Died /\ blob.len > Memory))
=============================================================================
