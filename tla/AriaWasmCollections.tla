------------------------- MODULE AriaWasmCollections -------------------------
(***************************************************************************)
(* The remaining heap helpers of the WebAssembly backend (src/src/wasm.rs):*)
(* vectors of f64, tensors of f32, ordered maps and sets, and structural   *)
(* equality.  An update of an object with one reference overwrites it, any *)
(* other update works on a copy and drops the reference to the original.   *)
(***************************************************************************)
EXTENDS AriaWasm

Unshared(h, p) == RefCount(h, p) = 1

-----------------------------------------------------------------------------
(* Vectors                                                                 *)

NewVec(h, cap, xs) ==
    LET a == Alloc(h, VecClass(cap))
    IN  Ok(Write(a.h, a.p + 1, <<Len(xs), cap>> \o xs), a.p)
VecOf(h, xs) == NewVec(h, Len(xs), xs)

VecGet(h, p, i) ==
    IF ~Within(i, VecLen(h, p)) THEN Trapped ELSE Ok(DropVec(h, p), VecElems(h, p)[i + 1])

VecPush(h, p, x) ==
    LET xs == VecElems(h, p)
        n == Len(xs)
        cap == VecCap(h, p)
        moved == NewVec(h, IF Unshared(h, p) THEN Grown(cap) ELSE n + 1, Append(xs, x))
    IN  CASE Unshared(h, p) /\ n < cap ->
                Ok(Reused(Write([h EXCEPT !.mem[p + 1] = n + 1], p + VEC_HEADER + n, <<x>>)), p)
          [] Unshared(h, p) /\ n >= cap -> Ok(Reused(Free(moved.h, p, VecClass(cap))), moved.p)
          [] OTHER -> Ok(DropVec(moved.h, p), moved.p)

VecFromArr(h, p) ==
    LET v == VecOf(h, ArrayElems(h, p)) IN Ok(DropArray(v.h, p), v.p)
VecToArr(h, p) ==
    LET a == AllocArray(h, "Float", 0)
        r == PushAll(a.h, a.p, VecElems(h, p), "Float")
    IN  Ok(DropVec(r.h, p), r.p)

\* Mutant: the result always overwrites a.
VecMap_InPlace(h, a, xs) == Ok(Reused(Write(h, a + VEC_HEADER, xs)), a)

\* The result overwrites a, or a copy of it.
VecMap(h, a, xs) ==
    IF Unshared(h, a) THEN Ok(Reused(Write(h, a + VEC_HEADER, xs)), a) ELSE VecOf(h, xs)

VecZip(h, a, b, f(_, _)) ==
    LET xs == VecElems(h, a)
        ys == VecElems(h, b)
        r == VecMap(h, a, [i \in DOMAIN xs |-> f(xs[i], ys[i])])
        g == DropVec(r.h, b)
    IN  IF Len(xs) # Len(ys) THEN Trapped
        ELSE Ok(IF r.p = a THEN g ELSE DropVec(g, a), r.p)
VecAdd(h, a, b) == VecZip(h, a, b, FAdd)
VecSub(h, a, b) == VecZip(h, a, b, FSub)
VecScale(h, a, x) ==
    LET r == VecMap(h, a, [i \in 1..VecLen(h, a) |-> FMul(VecElems(h, a)[i], x)])
    IN  Ok(IF r.p = a THEN r.h ELSE DropVec(r.h, a), r.p)

VecReduce(h, a, b, f(_, _)) ==
    IF VecLen(h, a) # VecLen(h, b) THEN Trapped
    ELSE Ok(DropVec(DropVec(h, a), b), f(VecElems(h, a), VecElems(h, b)))
VecDot(h, a, b) == VecReduce(h, a, b, FDot)
VecCosine(h, a, b) == VecReduce(h, a, b, FCosine)
VecNorm(h, a) == Ok(DropVec(h, a), FNorm(VecElems(h, a)))

VecEq(h, a, b) == VecElems(h, a) = VecElems(h, b)

-----------------------------------------------------------------------------
(* Tensors: rc, rows, columns, and two f32 to a slot                       *)

\* i64 arithmetic wraps, a wrapped size is then cut to 32 bits.
Cut32(n) == n % HALF_WORD

TensorRows(h, p) == h.mem[p + 1]
TensorCols(h, p) == h.mem[p + 2]
TensorClass(n) == Clamped(1 + CeilDiv(n, FLOATS), TENSOR_MAX_CLASS)
TensorData(h, p) ==
    Unpacked(h, p + TENSOR_HEADER, TensorRows(h, p) * TensorCols(h, p), FLOATS)

NewTensor(h, rows, cols, xs) ==
    LET a == Alloc(h, TensorClass(rows * cols))
    IN  Ok(Write(a.h, a.p + 1, <<rows, cols>> \o Packed(xs, FLOATS)), a.p)
DropTensor(h, p) ==
    Dropped(h, p, LAMBDA g : Free(g, p, TensorClass(TensorRows(g, p) * TensorCols(g, p))))
\* A fresh tensor in place of the consumed t.
Replaced(h, t, rows, cols, xs) ==
    LET r == NewTensor(h, rows, cols, xs) IN Ok(DropTensor(r.h, t), r.p)

TensorZeros(h, rows, cols) ==
    LET n == Wrapped(rows * cols)
    IN  IF rows < 0 \/ cols < 0 \/ n > MAX_ELEMS THEN Trapped
        ELSE NewTensor(h, Cut32(rows), Cut32(cols), [i \in 1..n |-> Narrow(0)])

CellAt(h, t, r, c) == r * TensorCols(h, t) + c + 1
TensorSet(h, t, r, c, x) ==
    IF ~Within(r, TensorRows(h, t)) \/ ~Within(c, TensorCols(h, t)) THEN Trapped
    ELSE Replaced(h, t, TensorRows(h, t), TensorCols(h, t),
                  [TensorData(h, t) EXCEPT ![CellAt(h, t, r, c)] = Narrow(x)])
TensorGet(h, t, r, c) ==
    IF ~Within(r, TensorRows(h, t)) \/ ~Within(c, TensorCols(h, t)) THEN Trapped
    ELSE Ok(DropTensor(h, t), Widen(TensorData(h, t)[CellAt(h, t, r, c)]))
TensorShape(h, t, n) == Ok(DropTensor(h, t), n)

TensorRow(h, t, i) ==
    LET v == VecOf(h, [c \in 1..TensorCols(h, t) |->
                          Widen(TensorData(h, t)[CellAt(h, t, i, c - 1)])])
    IN  IF ~Within(i, TensorRows(h, t)) THEN Trapped ELSE Ok(DropTensor(v.h, t), v.p)

TensorFromRows(h, p) ==
    LET rows == ArrayElems(h, p)
        n == Len(rows)
        l == IF n = 0 THEN 0 ELSE VecLen(h, rows[1])
        r == NewTensor(h, n, l, [i \in 1..(n * l) |->
                 Narrow(VecElems(h, rows[((i - 1) \div l) + 1])[((i - 1) % l) + 1])])
    IN  IF \E i \in 2..n : VecLen(h, rows[i]) # l THEN Trapped
        ELSE Ok(DropArray(r.h, p), r.p)

\* Three nested loops over i, j and p; the accumulator is an f32.
Matmul(h, a, b) ==
    LET m == TensorRows(h, a)
        k == TensorCols(h, a)
        n == TensorCols(h, b)
        x == TensorData(h, a)
        y == TensorData(h, b)
        entry(i, j) == FoldLeft(LAMBDA acc, p : Narrow(FAdd(acc,
                           Narrow(FMul(x[i * k + p], y[(p - 1) * n + j + 1])))),
                                Narrow(0), [p \in 1..k |-> p])
        r == NewTensor(h, m, n, [e \in 1..(m * n) |-> entry((e - 1) \div n, (e - 1) % n)])
    IN  IF k # TensorRows(h, b) THEN Trapped
        ELSE Ok(DropTensor(DropTensor(r.h, a), b), r.p)

Transpose(h, t) ==
    LET m == TensorRows(h, t)
        n == TensorCols(h, t)
        x == TensorData(h, t)
    IN  Replaced(h, t, n, m, [e \in 1..(m * n) |-> x[((e - 1) % m) * n + ((e - 1) \div m) + 1]])

Activated(f, h, t) == Act(f, <<TensorRows(h, t), TensorCols(h, t), TensorData(h, t)>>)
Relu(h, t) == Replaced(h, t, TensorRows(h, t), TensorCols(h, t), Activated("relu", h, t))
Softmax(h, t) == Replaced(h, t, TensorRows(h, t), TensorCols(h, t), Activated("softmax", h, t))

-----------------------------------------------------------------------------
(* Ordered maps and sets: the entries are sorted by key.  A map has two    *)
(* slots to an entry and two kinds in its header, a set one of each.       *)

NewMap(h, kinds, cap, es) ==
    LET a == Alloc(h, MapClass(cap))
    IN  Ok(Write(a.h, a.p + 1, kinds \o <<Len(es), cap>> \o FlattenSeq(es)), a.p)
NewSet(h, kind, cap, xs) ==
    LET a == Alloc(h, SetClass(cap))
    IN  Ok(Write(a.h, a.p + 1, <<kind, Len(xs), cap>> \o xs), a.p)

\* The linear scan: the entries below the key, and whether the next one has it.
MapFind(h, p, key) ==
    LET ks == [i \in 1..MapLen(h, p) |-> Entries(h, p)[i][1]]
        below == {i \in DOMAIN ks : \A j \in 1..i : KeyCmp(h, MapKinds(h, p)[1], ks[j], key) < 0}
        i == Cardinality(below)
    IN  [i |-> i, found |-> i < Len(ks) /\ KeyCmp(h, MapKinds(h, p)[1], ks[i + 1], key) = 0]
SetFind(h, p, x) ==
    LET xs == SetElems(h, p)
        below == {i \in DOMAIN xs : \A j \in 1..i : KeyCmp(h, SetKind(h, p), xs[j], x) < 0}
        i == Cardinality(below)
    IN  [i |-> i, found |-> i < Len(xs) /\ KeyCmp(h, SetKind(h, p), xs[i + 1], x) = 0]

AtLeastOne(n) == IF n > 0 THEN n ELSE 1
SlotDups(h, kind, xs) == FoldLeft(LAMBDA g, x : SlotDup(g, kind, x), h, xs)

\* A copy owns a reference to every key and value.
MapClone(h, p) ==
    LET es == Entries(h, p)
        r == NewMap(h, MapKinds(h, p), AtLeastOne(Len(es)), es)
    IN  Ok(FoldLeft(LAMBDA g, e : SlotDup(SlotDup(g, MapKinds(h, p)[1], e[1]),
                                          MapKinds(h, p)[2], e[2]), r.h, es), r.p)
SetClone(h, p) ==
    LET r == NewSet(h, SetKind(h, p), AtLeastOne(SetLen(h, p)), SetElems(h, p))
    IN  Ok(SlotDups(r.h, SetKind(h, p), SetElems(h, p)), r.p)

\* The object to update: p itself, or a copy after p has been dropped.
MapOwned(h, p) ==
    IF Unshared(h, p) THEN Ok(Reused(h), p)
    ELSE LET c == MapClone(h, p) IN Ok(DropMap(c.h, p), c.p)
SetOwned(h, p) ==
    IF Unshared(h, p) THEN Ok(Reused(h), p)
    ELSE LET c == SetClone(h, p) IN Ok(DropSet(c.h, p), c.p)

\* A full object moves into one of twice the capacity.
MapGrow(h, p) ==
    LET cap == MapCap(h, p)
        r == NewMap(h, MapKinds(h, p), Grown(cap), Entries(h, p))
    IN  IF MapLen(h, p) < cap THEN Ok(h, p) ELSE Ok(Free(r.h, p, MapClass(cap)), r.p)
SetGrow(h, p) ==
    LET cap == SetCap(h, p)
        r == NewSet(h, SetKind(h, p), Grown(cap), SetElems(h, p))
    IN  IF SetLen(h, p) < cap THEN Ok(h, p) ELSE Ok(Free(r.h, p, SetClass(cap)), r.p)

WriteEntries(h, p, es) ==
    Write([h EXCEPT !.mem[p + 3] = Len(es)], p + MAP_HEADER, FlattenSeq(es))
WriteElems(h, p, xs) == Write([h EXCEPT !.mem[p + 2] = Len(xs)], p + SET_HEADER, xs)

\* The entry goes into the owned object o, where at says: in place of the old
\* value, whose key stays and the new key is dropped, or between two entries.
MapPut(o, at, key, x) ==
    LET es == Entries(o.h, o.p)
        old == es[at.i + 1]
        g == MapGrow(o.h, o.p)
        dead == DropPair(o.h, Reverse(MapKinds(o.h, o.p)), <<old[2], key>>)
    IN  IF at.found THEN Ok(WriteEntries(dead, o.p, ReplaceAt(es, at.i + 1, <<old[1], x>>)), o.p)
        ELSE Ok(WriteEntries(g.h, g.p, InsertAt(es, at.i + 1, <<key, x>>)), g.p)
MapPutIn(o, key, x) == MapPut(o, MapFind(o.h, o.p, key), key, x)
\* An empty map takes the kinds of the entry that comes in.
MapInsert(h, p, key, x, kinds) ==
    MapPutIn(MapOwned(IF MapLen(h, p) = 0 THEN Write(h, p + 1, kinds) ELSE h, p), key, x)

MapGot(h, p, at, key, dflt) ==
    LET kk == MapKinds(h, p)
        x == Entries(h, p)[at.i + 1][2]
        g == IF at.found THEN DropPair(SlotDup(h, kk[2], x), Reverse(kk), <<dflt, key>>)
             ELSE SlotDrop(h, kk[1], key)
    IN  Ok(DropMap(g, p), IF at.found THEN x ELSE dflt)
MapGetOr(h, p, key, dflt) == MapGot(h, p, MapFind(h, p, key), key, dflt)

MapHas(h, p, key) ==
    Ok(DropMap(SlotDrop(h, MapKinds(h, p)[1], key), p), MapFind(h, p, key).found)

MapCut(o, at, key) ==
    LET es == Entries(o.h, o.p)
        gone == WriteEntries(DropPair(o.h, MapKinds(o.h, o.p), es[at.i + 1]), o.p,
                             RemoveAt(es, at.i + 1))
    IN  Ok(SlotDrop(IF at.found THEN gone ELSE o.h, MapKinds(o.h, o.p)[1], key), o.p)
MapCutIn(o, key) == MapCut(o, MapFind(o.h, o.p, key), key)
MapRemove(h, p, key) == MapCutIn(MapOwned(h, p), key)

\* which = 1 for the keys, 2 for the values.
MapEnumerate(h, p, which, kind) ==
    LET xs == [i \in 1..MapLen(h, p) |-> Entries(h, p)[i][which]]
        a == AllocArray(h, kind, 0)
        r == FoldLeft(LAMBDA q, x : ArrayPush(SlotDup(q.h, MapKinds(h, p)[which], x), q.p, x, kind),
                      a, xs)
    IN  Ok(DropMap(r.h, p), r.p)
SetToArr(h, p, kind) ==
    LET a == AllocArray(h, kind, 0)
        r == FoldLeft(LAMBDA q, x : ArrayPush(SlotDup(q.h, SetKind(h, p), x), q.p, x, kind),
                      a, SetElems(h, p))
    IN  Ok(DropSet(r.h, p), r.p)

SetPut(o, at, x) ==
    LET g == SetGrow(o.h, o.p)
    IN  IF at.found THEN Ok(SlotDrop(o.h, SetKind(o.h, o.p), x), o.p)
        ELSE Ok(WriteElems(g.h, g.p, InsertAt(SetElems(o.h, o.p), at.i + 1, x)), g.p)
SetPutIn(o, x) == SetPut(o, SetFind(o.h, o.p, x), x)
SetAdd(h, p, x, kind) ==
    SetPutIn(SetOwned(IF SetLen(h, p) = 0 THEN [h EXCEPT !.mem[p + 1] = kind] ELSE h, p), x)

SetHas(h, p, x) == Ok(DropSet(SlotDrop(h, SetKind(h, p), x), p), SetFind(h, p, x).found)

SetCut(o, at, x) ==
    LET xs == SetElems(o.h, o.p)
        kind == SetKind(o.h, o.p)
        gone == WriteElems(SlotDrop(o.h, kind, xs[at.i + 1]), o.p, RemoveAt(xs, at.i + 1))
    IN  Ok(SlotDrop(IF at.found THEN gone ELSE o.h, kind, x), o.p)
SetCutIn(o, x) == SetCut(o, SetFind(o.h, o.p, x), x)
SetRemove(h, p, x) == SetCutIn(SetOwned(h, p), x)

\* Rendering: fresh pieces, concatenated from the left.
Lit == [map |-> <<77, 97, 112, 91>>, set |-> <<83, 101, 116, 91>>, close |-> <<93>>,
        comma |-> <<44, 32>>, colon |-> <<58, 32>>,
        true |-> <<116, 114, 117, 101>>, false |-> <<102, 97, 108, 115, 101>>]
SlotToStr(h, kind, x) ==
    CASE kind = "Str" -> Ok(Dup(h, x), x)
      [] kind = "Bool" -> AllocStr(h, IF x THEN Lit.true ELSE Lit.false)
      [] OTHER -> IntToStr(h, x)
ConcatLit(r, s) == LET l == AllocStr(r.h, s) IN Concat(l.h, r.p, l.p)
ConcatSlot(r, kind, x) == LET s == SlotToStr(r.h, kind, x) IN Concat(s.h, r.p, s.p)

MapShow(h, p) ==
    LET kk == MapKinds(h, p)
        es == Entries(h, p)
        comma(r, i) == IF i > 1 THEN ConcatLit(r, Lit.comma) ELSE r
        r == FoldLeft(LAMBDA q, i :
                 ConcatSlot(ConcatLit(ConcatSlot(comma(q, i), kk[1], es[i][1]), Lit.colon),
                            kk[2], es[i][2]),
                 AllocStr(h, Lit.map), [i \in DOMAIN es |-> i])
        s == ConcatLit(r, Lit.close)
    IN  Ok(DropMap(s.h, p), s.p)
SetShow(h, p) ==
    LET xs == SetElems(h, p)
        comma(r, i) == IF i > 1 THEN ConcatLit(r, Lit.comma) ELSE r
        r == FoldLeft(LAMBDA q, i : ConcatSlot(comma(q, i), SetKind(h, p), xs[i]),
                      AllocStr(h, Lit.set), [i \in DOMAIN xs |-> i])
        s == ConcatLit(r, Lit.close)
    IN  Ok(DropSet(s.h, p), s.p)

SlotEq(h, kind, x, y) ==
    CASE kind = "Str" -> StrEq(h, x, y) [] kind = "Bytes" -> BytesEq(h, x, y) [] OTHER -> x = y
MapEq(h, a, b) ==
    /\ MapLen(h, a) = MapLen(h, b)
    /\ \A i \in 1..MapLen(h, a), w \in 1..2 :
          SlotEq(h, MapKinds(h, a)[w], Entries(h, a)[i][w], Entries(h, b)[i][w])
SetEq(h, a, b) ==
    /\ SetLen(h, a) = SetLen(h, b)
    /\ \A i \in 1..SetLen(h, a) :
          SlotEq(h, SetKind(h, a), SetElems(h, a)[i], SetElems(h, b)[i])

-----------------------------------------------------------------------------
(* Structural equality of cells (__eq): it reads the heap only.            *)

RECURSIVE CellEq(_, _, _)
CellEq(h, a, b) ==
    LET c == CtorAt(h, a)
        same(kind, x, y) ==
            CASE kind = "Str" -> StrEq(h, x, y)
              [] kind = "Ref" -> CellEq(h, x, y)
              [] kind = "Bytes" -> BytesEq(h, x, y)
              [] kind \in {"Tensor", "Array", "Vector", "Map", "Set"} -> TRUE
              [] OTHER -> x = y
    IN  /\ h.mem[a + 1] = h.mem[b + 1]
        /\ \A i \in DOMAIN FieldKinds[c] :
              same(FieldKinds[c][i], Field(h, a, i - 1), Field(h, b, i - 1))
=============================================================================
