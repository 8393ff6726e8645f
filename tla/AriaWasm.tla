------------------------------ MODULE AriaWasm ------------------------------
(***************************************************************************)
(* The heap helpers of the WebAssembly backend (src/src/wasm.rs,           *)
(* emit_heap_helper): reference-counted strings, arrays, vectors, tensors, *)
(* ordered maps and sets and constructor cells in linear memory.  A helper *)
(* owns the references it is given: it drops them, moves them into its     *)
(* result, or overwrites an object in place when it holds the only one.    *)
(*                                                                         *)
(* Helpers are operators on a heap h (AriaWasmAlloc) and return a heap, or *)
(* a record of the heap and a result p (an address or a scalar).           *)
(***************************************************************************)
EXTENDS AriaWasmAlloc, AriaArith, FiniteSets, SequencesExt

CONSTANTS
    CHARS,      \* bytes of a string in a slot (8)
    FLOATS,     \* f32 elements of a tensor in a slot (2)
    CtorTags,   \* constructors, in the order of their tags
    FieldKinds, \* the kinds of the fields of each
    FAdd(_, _), FSub(_, _), FMul(_, _),
    FDot(_, _), FCosine(_, _), FNorm(_), Narrow(_), Widen(_), Act(_, _),
    MAX_ELEMS,  \* MAX_TENSOR_ELEMS
    HALF_WORD   \* 2^32

STR_HEADER == 2
TENSOR_HEADER == 3
ARRAY_HEADER == 4
VEC_HEADER == 3
MAP_HEADER == 5
SET_HEADER == 4
MIN_CAP == 4    \* ARRAY_MIN_CAP, VEC_MIN_CAP and the literals of emit_*_grow

\* The kinds whose slots hold an address.
HeapKinds == {"Str", "Ref", "Bytes", "Vector", "Array", "Map", "Set"}
\* Arrays hold these, maps and sets only the first two.
ElemHeapKinds == {"Str", "Bytes", "Ref", "Vector"}
SlotHeapKinds == {"Str", "Bytes"}

Ok(h, p) == [h |-> h, p |-> p, ok |-> TRUE]
Trapped == [h |-> EmptyHeap, p |-> 0, ok |-> FALSE]
Failed(r) == ~r.ok

CeilDiv(n, d) == (n + d - 1) \div d
\* Consecutive groups of n elements, one per slot, and back.
Packed(s, n) ==
    [k \in 1..CeilDiv(Len(s), n) |-> SubSeq(s, (k - 1) * n + 1,
                                            IF k * n < Len(s) THEN k * n ELSE Len(s))]
Slots(h, p, n) == [i \in 1..n |-> h.mem[p + i - 1]]
Unpacked(h, p, len, n) == SubSeq(FlattenSeq(Slots(h, p, CeilDiv(len, n))), 1, len)

RefCount(h, p) == h.mem[p]
Dup(h, p) == [h EXCEPT !.mem[p] = @ + 1]
Reused(h) == [h EXCEPT !.reuses = @ + 1]
\* rc--, and at zero the release of the object.
Dropped(h, p, release(_)) ==
    LET g == [h EXCEPT !.mem[p] = @ - 1] IN IF g.mem[p] = 0 THEN release(g) ELSE g

-----------------------------------------------------------------------------
(* Strings: rc, length, bytes                                              *)

StrClass(len) == Clamped(CeilDiv(len, CHARS), STR_MAX_CLASS)
StrLen(h, p) == h.mem[p + 1]
StrBytes(h, p) == Unpacked(h, p + STR_HEADER, StrLen(h, p), CHARS)

AllocStr(h, s) ==
    LET a == Alloc(h, StrClass(Len(s)))
    IN  Ok(Write(a.h, a.p + 1, <<Len(s)>> \o Packed(s, CHARS)), a.p)
DropStr(h, p) == Dropped(h, p, LAMBDA g : Free(g, p, StrClass(StrLen(g, p))))

Concat(h, a, b) ==
    LET c == AllocStr(h, StrBytes(h, a) \o StrBytes(h, b))
    IN  Ok(DropStr(DropStr(c.h, a), b), c.p)

\* The digits are counted by repeated division, then written from the end.
DigitCount(n) == CHOOSE k \in 1..20 : 10^k > n /\ (k = 1 \/ 10^(k - 1) <= n)
IntToStr(h, n) ==
    LET m == IF n < 0 THEN -n ELSE n
        k == DigitCount(m)
        digits == [i \in 1..k |-> 48 + ((m \div 10^(k - i)) % 10)]
    IN  AllocStr(h, (IF n < 0 THEN <<45>> ELSE <<>>) \o digits)

StrEq(h, a, b) == StrLen(h, a) = StrLen(h, b) /\ StrBytes(h, a) = StrBytes(h, b)

\* __key_cmp: strings by their bytes and then by their length, integers by value.
KeyCmp(h, kind, a, b) ==
    LET sign(x, y) == IF x < y THEN -1 ELSE IF x > y THEN 1 ELSE 0
        s == StrBytes(h, a)
        t == StrBytes(h, b)
        diff == {i \in DOMAIN s \cap DOMAIN t : s[i] # t[i]}
        first == CHOOSE i \in diff : \A j \in diff : i <= j
    IN  IF kind # "Str" THEN sign(a, b)
        ELSE IF diff # {} THEN sign(s[first], t[first]) ELSE sign(Len(s), Len(t))

-----------------------------------------------------------------------------
(* Dispatch on the kind of a slot, and the release of objects              *)

ArrayLen(h, p) == h.mem[p + 1]
ArrayCap(h, p) == h.mem[p + 2]
ArrayKind(h, p) == h.mem[p + 3]
ArrayElems(h, p) == Slots(h, p + ARRAY_HEADER, ArrayLen(h, p))
ArrayClass(cap) == Clamped(cap + 2, TENSOR_MAX_CLASS)

VecLen(h, p) == h.mem[p + 1]
VecCap(h, p) == h.mem[p + 2]
VecElems(h, p) == Slots(h, p + VEC_HEADER, VecLen(h, p))
VecClass(cap) == Clamped(cap + 1, TENSOR_MAX_CLASS)
DropVec(h, p) == Dropped(h, p, LAMBDA g : Free(g, p, VecClass(VecCap(g, p))))

\* Maps: rc, key kind, value kind, length, capacity, then keys and values.
MapLen(h, p) == h.mem[p + 3]
MapCap(h, p) == h.mem[p + 4]
MapKinds(h, p) == <<h.mem[p + 1], h.mem[p + 2]>>
Entries(h, p) ==
    [i \in 1..MapLen(h, p) |-> LET q == p + MAP_HEADER + 2 * (i - 1) IN <<h.mem[q], h.mem[q + 1]>>]
MapClass(cap) == Clamped(2 * cap + 3, TENSOR_MAX_CLASS)

SetKind(h, p) == h.mem[p + 1]
SetLen(h, p) == h.mem[p + 2]
SetCap(h, p) == h.mem[p + 3]
SetElems(h, p) == Slots(h, p + SET_HEADER, SetLen(h, p))
SetClass(cap) == Clamped(cap + 2, TENSOR_MAX_CLASS)

\* emit_elem_kind_if; all objects count their references in the same slot.
DupElem(h, kind, x) == IF kind \in ElemHeapKinds THEN Dup(h, x) ELSE h
DupElems(h, kind, xs) == FoldLeft(LAMBDA g, x : DupElem(g, kind, x), h, xs)
SlotDup(h, kind, x) == IF kind \in SlotHeapKinds THEN Dup(h, x) ELSE h

\* The fields of a constructor are released kind by kind.
Tag(c) == (CHOOSE i \in DOMAIN CtorTags : CtorTags[i] = c) - 1
FieldsOf(c, kinds) == SelectSeq([i \in DOMAIN FieldKinds[c] |-> i],
                                LAMBDA i : FieldKinds[c][i] \in kinds)
ManagedFields(c) ==
    FieldsOf(c, {"Ref"}) \o FieldsOf(c, {"Str"}) \o FieldsOf(c, {"Array", "Bytes"})
    \o FieldsOf(c, {"Vector"}) \o FieldsOf(c, {"Map"}) \o FieldsOf(c, {"Set"})

RECURSIVE DropKind(_, _, _), DropFields(_, _, _), Drop(_, _)

DropArray(h, p) ==
    Dropped(h, p, LAMBDA g :
        Free(FoldLeft(LAMBDA m, x : DropKind(m, ArrayKind(g, p), x), g,
                      IF ArrayKind(g, p) \in ElemHeapKinds THEN ArrayElems(g, p) ELSE <<>>),
             p, ArrayClass(ArrayCap(g, p))))

SlotDrop(h, kind, x) ==
    IF kind = "Str" THEN DropStr(h, x) ELSE IF kind = "Bytes" THEN DropArray(h, x) ELSE h

DropPair(h, kinds, e) ==
    FoldLeft(LAMBDA g, i : SlotDrop(g, kinds[i], e[i]), h, <<1, 2>>)
DropMap(h, p) ==
    Dropped(h, p, LAMBDA g :
        Free(FoldLeft(LAMBDA m, e : DropPair(m, MapKinds(g, p), e), g, Entries(g, p)),
             p, MapClass(MapCap(g, p))))

DropSet(h, p) ==
    Dropped(h, p, LAMBDA g :
        Free(FoldLeft(LAMBDA m, x : SlotDrop(m, SetKind(g, p), x), g, SetElems(g, p)),
             p, SetClass(SetCap(g, p))))

DropKind(h, kind, x) ==
    CASE kind = "Str" -> DropStr(h, x)
      [] kind \in {"Array", "Bytes"} -> DropArray(h, x)
      [] kind = "Vector" -> DropVec(h, x)
      [] kind = "Map" -> DropMap(h, x)
      [] kind = "Set" -> DropSet(h, x)
      [] kind \in {"Ref", "Tensor"} -> Drop(h, x)
      [] OTHER -> h

DropFields(h, p, c) ==
    FoldLeft(LAMBDA g, i : DropKind(g, FieldKinds[c][i], g.mem[p + CELL_HEADER + i - 1]),
             h, ManagedFields(c))

\* __drop: one test of the tag after the other, each reading it anew, also
\* after the cell has been freed, when the slot holds the link of a free list:
\* the link is 0 or an address, and must not be a tag that is yet to be tested.
Drop(h, p) ==
    Dropped(h, p, LAMBDA g :
        FoldLeft(LAMBDA m, c : IF m.mem[p + 1] # Tag(c) THEN m
                               ELSE Free(DropFields(m, p, c), p, Len(FieldKinds[c])),
                 g, CtorTags))

\* __drop_reuse: the fields go, the cell is the token; a shared one gives none.
DropReuse(h, p) ==
    LET g == [h EXCEPT !.mem[p] = @ - 1]
    IN  IF g.mem[p] # 0 THEN Ok(g, 0)
        ELSE Ok(FoldLeft(LAMBDA m, c : IF m.mem[p + 1] = Tag(c) THEN DropFields(m, p, c) ELSE m,
                         g, CtorTags), p)

-----------------------------------------------------------------------------
(* Cells                                                                   *)

Construct(h, c, xs) ==
    LET a == Alloc(h, Len(FieldKinds[c])) IN Ok(Write(a.h, a.p + 1, <<Tag(c)>> \o xs), a.p)
\* emit_ctor_reuse: the token, when there is one, in place of a new cell.
ConstructReuse(h, tok, c, xs) ==
    IF tok = 0 THEN Construct(h, c, xs)
    ELSE Ok(Reused(Write(h, tok, <<1, Tag(c)>> \o xs)), tok)

CtorAt(h, p) == CtorTags[h.mem[p + 1] + 1]
Field(h, p, i) == h.mem[p + CELL_HEADER + i]

-----------------------------------------------------------------------------
(* Arrays                                                                  *)

AllocArray(h, kind, cap) ==
    LET a == Alloc(h, ArrayClass(cap)) IN Ok(Write(a.h, a.p + 1, <<0, cap, kind>>), a.p)
NewArray(h, kind, cap, xs) ==
    LET a == AllocArray(h, kind, cap)
    IN  Ok(Write([a.h EXCEPT !.mem[a.p + 1] = Len(xs)], a.p + ARRAY_HEADER, xs), a.p)

Within(i, len) == i >= 0 /\ i < len

\* Mutant: the element is handed out without a reference of its own.
ArrayGet_NoDup(h, p, i) ==
    IF ~Within(i, ArrayLen(h, p)) THEN Trapped
    ELSE LET x == ArrayElems(h, p)[i + 1] IN Ok(DropArray(h, p), x)

ArrayGet(h, p, i) ==
    IF ~Within(i, ArrayLen(h, p)) THEN Trapped
    ELSE LET x == ArrayElems(h, p)[i + 1]
         IN  Ok(DropArray(DupElem(h, ArrayKind(h, p), x), p), x)

ArraySet(h, p, i, x) ==
    LET xs == ArrayElems(h, p)
        kind == ArrayKind(h, p)
        displaced == IF kind \in ElemHeapKinds THEN DropKind(h, kind, xs[i + 1]) ELSE h
        kept == [j \in DOMAIN xs \ {i + 1} |-> xs[j]]
        c == NewArray(h, kind, Len(xs), [xs EXCEPT ![i + 1] = x])
        shared == FoldSet(LAMBDA j, g : DupElem(g, kind, kept[j]), c.h, DOMAIN kept)
    IN  CASE ~Within(i, Len(xs)) -> Trapped
          [] Within(i, Len(xs)) /\ RefCount(h, p) = 1 ->
                Ok(Reused([displaced EXCEPT !.mem[p + ARRAY_HEADER + i] = x]), p)
          [] OTHER -> Ok(DropArray(shared, p), c.p)

Grown(cap) == IF cap > 0 THEN 2 * cap ELSE MIN_CAP

\* An empty array takes the kind of the element that comes in.
ArrayPush(h0, p, x, kind) ==
    LET n == ArrayLen(h0, p)
        h == IF n = 0 THEN [h0 EXCEPT !.mem[p + 3] = kind] ELSE h0
        xs == ArrayElems(h, p)
        cap == ArrayCap(h, p)
        grown == NewArray(h, kind, Grown(cap), Append(xs, x))
        copy == NewArray(h, kind, n + 1, Append(xs, x))
    IN  CASE RefCount(h, p) = 1 /\ n < cap ->
                Ok(Reused([h EXCEPT !.mem[p + ARRAY_HEADER + n] = x, !.mem[p + 1] = n + 1]), p)
          [] RefCount(h, p) = 1 /\ n >= cap ->
                Ok(Reused(Free(grown.h, p, ArrayClass(cap))), grown.p)
          [] OTHER -> Ok(DropArray(DupElems(copy.h, kind, xs), p), copy.p)

PushAll(h, p, xs, kind) ==
    FoldLeft(LAMBDA r, x : ArrayPush(r.h, r.p, x, kind), Ok(h, p), xs)

-----------------------------------------------------------------------------
(* Bytes: arrays of integers                                               *)

BytesFromStr(h, p) ==
    LET s == StrBytes(h, p)
        a == NewArray(h, "Int", Len(s), s) IN Ok(DropStr(a.h, p), a.p)

\* emit_utf8_classify: how many bytes follow a lead byte, and the range of the
\* first of them; -1 for a byte that cannot lead.
Lead(n, lo, hi) == [need |-> n, lo |-> lo, hi |-> hi]
Classified(c) ==
    CASE c < 128 -> Lead(0, 128, 191)
      [] c \in 194..223 -> Lead(1, 128, 191)
      [] c = 224 -> Lead(2, 160, 191)
      [] c \in 225..236 -> Lead(2, 128, 191)
      [] c = 237 -> Lead(2, 128, 159)
      [] c \in 238..239 -> Lead(2, 128, 191)
      [] c = 240 -> Lead(3, 144, 191)
      [] c \in 241..243 -> Lead(3, 128, 191)
      [] c = 244 -> Lead(3, 128, 143)
      [] OTHER -> Lead(-1, 0, 0)

RECURSIVE WellFormedFrom(_, _)
WellFormedFrom(s, i) ==
    i > Len(s) \/
    LET l == Classified(s[i]) IN
    /\ l.need >= 0 /\ i + l.need <= Len(s)
    /\ \A k \in 1..l.need : IF k = 1 THEN s[i + 1] \in l.lo..l.hi ELSE s[i + k] \in 128..191
    /\ WellFormedFrom(s, i + l.need + 1)

BytesToStr(h, p) ==
    LET s == ArrayElems(h, p)
        a == AllocStr(h, s)
    IN  IF ~WellFormedFrom(s, 1) THEN Trapped ELSE Ok(DropArray(a.h, p), a.p)

BytesEq(h, a, b) == ArrayElems(h, a) = ArrayElems(h, b)
=============================================================================
