----------------------------- MODULE AriaWasmRun -----------------------------
(***************************************************************************)
(* A compiled program at run time (src/src/wasm.rs): its locals hold       *)
(* addresses, and every instruction calls the helper that the emitter      *)
(* chooses from the static types of the operands.                          *)
(***************************************************************************)
EXTENDS AriaWasmCollections, AriaStatic, FiniteSetsExt

CONSTANTS
    Slot,       \* locals that hold an owned reference
    Nil         \* an empty slot

VARIABLES
    wheap,      \* linear memory and the allocator
    wloc,       \* what each local holds: its static type and an address
    wout        \* the last scalar result, or <<"Trap">>

wvars == <<wheap, wloc, wout>>

\* An operand is a local or a literal; a string literal is a new object.
Operands(h, xs) ==
    FoldLeft(LAMBDA r, x :
        IF x \notin Slot /\ x[1] = "Str"
        THEN LET s == AllocStr(r.h, x[2]) IN [h |-> s.h, w |-> Append(r.w, s.p)]
        ELSE [r EXCEPT !.w = Append(@, IF x \in Slot THEN wloc[x].p ELSE x[2])],
        [h |-> h, w |-> <<>>], xs)
TypeOf(x) == IF x \in Slot THEN wloc[x].ty ELSE <<x[1]>>

\* ==: both operands are read, then dropped.
Equal(h, ty, a, b) ==
    CASE ty[1] = "Str" -> Ok(DropStr(DropStr(h, a), b), StrEq(h, a, b))
      [] ty[1] = "Bytes" -> Ok(DropArray(DropArray(h, a), b), BytesEq(h, a, b))
      [] ty[1] = "Vector" -> Ok(DropVec(DropVec(h, a), b), VecEq(h, a, b))
      [] ty[1] = "Map" -> Ok(DropMap(DropMap(h, a), b), MapEq(h, a, b))
      [] ty[1] = "Set" -> Ok(DropSet(DropSet(h, a), b), SetEq(h, a, b))
      [] ty[1] = "Data" -> Ok(Drop(Drop(h, a), b), CellEq(h, a, b))

\* A match that takes one field: the field gets a reference of its own, then
\* the cell is dropped.
TakeField(h, p, i) ==
    LET kind == FieldKinds[CtorAt(h, p)][i + 1]
        x == Field(h, p, i)
    IN  Ok(Drop(IF kind \in HeapKinds THEN Dup(h, x) ELSE h, p), x)

DropObject(h, ty, p) == IF ty[1] = "Tensor" THEN DropTensor(h, p) ELSE DropKind(h, KindOf(ty), p)

\* The helper of each builtin, on operands w of static types tys; to is the
\* static type of the result.
StrCall(name, h, w) ==
    CASE name = "concat" -> Concat(h, w[1], w[2])
      [] name = "int_to_str" -> IntToStr(h, w[1])
ArrayCall(name, h, w, tys, to) ==
    CASE name = "array_new" -> AllocArray(h, to[2], 0)
      [] name = "array_len" -> Ok(DropArray(h, w[1]), ArrayLen(h, w[1]))
      [] name = "array_lit" -> NewArray(h, to[2], Len(w), w)
      [] name = "array_get" -> ArrayGet(h, w[1], w[2])
      [] name = "array_set" -> ArraySet(h, w[1], w[2], w[3])
      [] name = "array_push" -> ArrayPush(h, w[1], w[2], KindOf(tys[2]))
BytesCall(name, h, w) ==
    CASE name = "bytes_new" -> AllocArray(h, "Int", 0)
      [] name = "bytes_len" -> Ok(DropArray(h, w[1]), ArrayLen(h, w[1]))
      [] name = "bytes_get" -> ArrayGet(h, w[1], w[2])
      [] name = "bytes_set" -> IF w[3] \in 0..255 THEN ArraySet(h, w[1], w[2], w[3]) ELSE Trapped
      [] name = "bytes_push" -> IF w[2] \in 0..255 THEN ArrayPush(h, w[1], w[2], "Int") ELSE Trapped
      [] name = "bytes_from_str" -> BytesFromStr(h, w[1])
      [] name = "bytes_to_str" -> BytesToStr(h, w[1])
VecCall(name, h, w) ==
    CASE name = "vec_new" -> NewVec(h, 0, <<>>)
      [] name = "vec_len" -> Ok(DropVec(h, w[1]), VecLen(h, w[1]))
      [] name = "vec_from_array" -> VecFromArr(h, w[1])
      [] name = "vec_to_array" -> VecToArr(h, w[1])
      [] name = "vec_get" -> VecGet(h, w[1], w[2])
      [] name = "vec_push" -> VecPush(h, w[1], w[2])
      [] name = "vec_add" -> VecAdd(h, w[1], w[2])
      [] name = "vec_sub" -> VecSub(h, w[1], w[2])
      [] name = "vec_scale" -> VecScale(h, w[1], w[2])
      [] name = "vec_dot" -> VecDot(h, w[1], w[2])
      [] name = "vec_cosine" -> VecCosine(h, w[1], w[2])
      [] name = "vec_norm" -> VecNorm(h, w[1])
TensorCall(name, h, w) ==
    CASE name = "tensor_zeros" -> TensorZeros(h, w[1], w[2])
      [] name = "tensor_set" -> TensorSet(h, w[1], w[2], w[3], w[4])
      [] name = "tensor_get" -> TensorGet(h, w[1], w[2], w[3])
      [] name = "tensor_rows" -> TensorShape(h, w[1], TensorRows(h, w[1]))
      [] name = "tensor_cols" -> TensorShape(h, w[1], TensorCols(h, w[1]))
      [] name = "tensor_row" -> TensorRow(h, w[1], w[2])
      [] name = "tensor_from_rows" -> TensorFromRows(h, w[1])
      [] name = "matmul" -> Matmul(h, w[1], w[2])
      [] name = "transpose" -> Transpose(h, w[1])
      [] name = "relu" -> Relu(h, w[1])
      [] name = "softmax" -> Softmax(h, w[1])
MapCall(name, h, w, to) ==
    CASE name = "map_new" -> NewMap(h, <<to[2], to[3]>>, 0, <<>>)
      [] name = "map_len" -> Ok(DropMap(h, w[1]), MapLen(h, w[1]))
      [] name = "map_insert" -> MapInsert(h, w[1], w[2], w[3], <<to[2], to[3]>>)
      [] name = "map_get_or" -> MapGetOr(h, w[1], w[2], w[3])
      [] name = "map_has" -> MapHas(h, w[1], w[2])
      [] name = "map_remove" -> MapRemove(h, w[1], w[2])
      [] name = "map_show" -> MapShow(h, w[1])
      [] name = "map_keys" -> MapEnumerate(h, w[1], 1, to[2])
      [] name = "map_values" -> MapEnumerate(h, w[1], 2, to[2])
SetCall(name, h, w, tys, to) ==
    CASE name = "set_new" -> NewSet(h, to[2], 0, <<>>)
      [] name = "set_len" -> Ok(DropSet(h, w[1]), SetLen(h, w[1]))
      [] name = "set_add" -> SetAdd(h, w[1], w[2], KindOf(tys[2]))
      [] name = "set_has" -> SetHas(h, w[1], w[2])
      [] name = "set_remove" -> SetRemove(h, w[1], w[2])
      [] name = "set_show" -> SetShow(h, w[1])
      [] name = "set_to_array" -> SetToArr(h, w[1], to[2])
ArithCall(name, h, w) ==
    LET r == wasm_prim(name, w[1], w[Len(w)]) IN IF r = <<>> THEN Trapped ELSE Ok(h, r[1])
Exec(name, h, w, tys, ty) ==
    LET to == WasmReturn(name, tys, ty) IN
    CASE name \in StringOps -> StrCall(name, h, w)
      [] name \in ArrayOps -> ArrayCall(name, h, w, tys, to)
      [] name \in BytesOps -> BytesCall(name, h, w)
      [] name \in VectorOps -> VecCall(name, h, w)
      [] name \in TensorOps -> TensorCall(name, h, w)
      [] name \in MapOps -> MapCall(name, h, w, to)
      [] name \in SetOps -> SetCall(name, h, w, tys, to)
      [] name \in ArithOps -> ArithCall(name, h, w)
      [] name = "eq" -> Equal(h, tys[1], w[1], w[2])
      [] name = "field" -> TakeField(h, w[1], w[2])

-----------------------------------------------------------------------------

WInit == wheap = EmptyHeap /\ wloc = [s \in Slot |-> Nil] /\ wout = <<"Unit">>

\* The result r of the operands xs is of static type ty and lands in t.
WDeliver(xs, r, ty, t) ==
    LET kept == ty[1] \in HeapTypes
        used == {xs[i] : i \in DOMAIN xs}
    IN  IF Failed(r) THEN wout' = <<"Trap">> /\ UNCHANGED <<wheap, wloc>>
        ELSE /\ wheap' = r.h
             /\ wloc' = [s \in Slot |-> IF s = t /\ kept THEN [ty |-> ty, p |-> r.p]
                                        ELSE IF s \in used THEN Nil ELSE wloc[s]]
             /\ wout' = IF kept THEN <<"Unit">> ELSE <<ty[1], r.p>>

\* Reuses are counted from one instruction to the next.
Fresh(h) == [h EXCEPT !.reuses = 0]

\* The prologue of a lambda: the body gets a reference to every object that the
\* closure at p captured and that the kind of its field counts.
DupCapture(h, kind, x) == IF kind \in HeapKinds THEN Dup(h, x) ELSE h
Captures(h, p) == [i \in DOMAIN FieldKinds[CtorAt(h, p)] |-> Field(h, p, i - 1)]
Prologue(h, p) ==
    FoldLeft(LAMBDA g, i : DupCapture(g, FieldKinds[CtorAt(h, p)][i], Field(h, p, i - 1)),
             h, [i \in DOMAIN FieldKinds[CtorAt(h, p)] |-> i])
\* What a builtin or the body of the closure at p runs on, and the release of
\* the closure once the body has run.
Enter(o, p) == IF p = Nil THEN o ELSE [h |-> Prologue(o.h, p), w |-> Captures(o.h, p) \o o.w]
Leave(r, p) == IF p = Nil \/ Failed(r) THEN r ELSE Ok(Drop(r.h, p), r.p)

WBody(i, b, tys, ty) == Exec(i.name, b.h, b.w, tys, ty)
WCall(i, p, o, tys, ty) == Leave(WBody(i, Enter(o, p), tys, ty), p)
WInstr(i, tys, ty, t) ==
    WDeliver(i.clo \o i.xs,
             WCall(i, IF i.clo = <<>> THEN Nil ELSE wloc[i.clo[1]].p,
                   Operands(Fresh(wheap), i.xs), tys, ty),
             WasmReturn(i.name, tys, ty), t)
WRun(i, ty, t) == WInstr(i, i.held \o [k \in DOMAIN i.xs |-> TypeOf(i.xs[k])], ty, t)
WLiteral(s, t) == WDeliver(<<>>, AllocStr(Fresh(wheap), s), <<"Str">>, t)
WConstruct(c, xs, ty, t) ==
    LET o == Operands(Fresh(wheap), xs) IN WDeliver(xs, Construct(o.h, c, o.w), ty, t)
\* A match that rebuilds: the kept fields are copied, the cell is released into
\* a token, and the token becomes the new cell.
WRebuild(s, c, keep, xs, ty, t) ==
    LET p == wloc[s].p
        kind(i) == FieldKinds[CtorAt(wheap, p)][i]
        kept == FoldSet(LAMBDA i, g : IF kind(i) \in HeapKinds THEN Dup(g, Field(g, p, i - 1)) ELSE g,
                        Fresh(wheap), keep)
        d == DropReuse(kept, p)
        o == Operands(d.h, xs)
        n == Len(xs) + Cardinality(keep)
        ws == [i \in 1..n |-> IF i \in keep THEN Field(wheap, p, i - 1)
                              ELSE o.w[Cardinality({j \in 1..i : j \notin keep})]]
    IN  WDeliver(<<s>> \o xs, ConstructReuse(o.h, d.p, c, ws), ty, t)
WCopy(s, t) ==
    /\ wheap' = Dup(Fresh(wheap), wloc[s].p)
    /\ wloc' = [wloc EXCEPT ![t] = wloc[s]] /\ wout' = <<"Unit">>
WDiscard(s) ==
    /\ wheap' = DropObject(Fresh(wheap), wloc[s].ty, wloc[s].p)
    /\ wloc' = [wloc EXCEPT ![s] = Nil] /\ wout' = <<"Unit">>

-----------------------------------------------------------------------------
(* What the memory means, and the references in it                         *)

RECURSIVE View(_, _, _)
View(h, kind, x) ==
    LET each(k, xs) == [i \in DOMAIN xs |-> View(h, k, xs[i])] IN
    CASE kind = "Str" -> <<"Str", StrBytes(h, x)>>
      [] kind = "Bytes" -> <<"Bytes", ArrayElems(h, x)>>
      [] kind = "Array" -> <<"Array", each(ArrayKind(h, x), ArrayElems(h, x))>>
      [] kind = "Vector" -> <<"Vector", VecElems(h, x)>>
      [] kind = "Tensor" -> <<"Tensor", <<TensorRows(h, x), TensorCols(h, x), TensorData(h, x)>>>>
      [] kind = "Map" -> <<"Map", [i \in 1..MapLen(h, x) |->
                              <<View(h, MapKinds(h, x)[1], Entries(h, x)[i][1]),
                                View(h, MapKinds(h, x)[2], Entries(h, x)[i][2])>>]>>
      [] kind = "Set" -> <<"Set", each(SetKind(h, x), SetElems(h, x))>>
      [] kind = "Ref" -> <<"Data", <<CtorAt(h, x), [i \in DOMAIN FieldKinds[CtorAt(h, x)] |->
                              View(h, FieldKinds[CtorAt(h, x)][i], Field(h, x, i - 1))]>>>>
      [] OTHER -> <<kind, x>>

WValue(s) == IF wloc[s] = Nil THEN Nil ELSE View(wheap, KindOf(wloc[s].ty), wloc[s].p)

\* The references an object holds: a sequence of objects, a kind and an address.
Children(h, o) ==
    LET refs(k, xs) == IF k \in HeapKinds \cup {"Tensor"} THEN [i \in DOMAIN xs |-> <<k, xs[i]>>] ELSE <<>>
        kind == o[1]
        p == o[2]
    IN  CASE kind = "Array" -> refs(ArrayKind(h, p), ArrayElems(h, p))
          [] kind = "Map" -> refs(MapKinds(h, p)[1], [i \in 1..MapLen(h, p) |-> Entries(h, p)[i][1]])
                             \o refs(MapKinds(h, p)[2], [i \in 1..MapLen(h, p) |-> Entries(h, p)[i][2]])
          [] kind = "Set" -> refs(SetKind(h, p), SetElems(h, p))
          [] kind = "Ref" -> FlattenSeq([i \in DOMAIN FieldKinds[CtorAt(h, p)] |->
                                 refs(FieldKinds[CtorAt(h, p)][i], <<Field(h, p, i - 1)>>)])
          [] OTHER -> <<>>

RECURSIVE Reached(_, _)
Reached(h, os) ==
    LET next == os \cup UNION {Range(Children(h, o)) : o \in os}
    IN  IF next = os THEN os ELSE Reached(h, next)
Roots == [s \in {x \in Slot : wloc[x] # Nil} |-> <<KindOf(wloc[s].ty), wloc[s].p>>]
Objects == Reached(wheap, Range(Roots))

\* Slots of the heap that an object occupies.
Extent(h, o) ==
    LET p == o[2] IN
    p..(p - 1 +
      CASE o[1] = "Str" -> STR_HEADER + CeilDiv(StrLen(h, p), CHARS)
        [] o[1] \in {"Array", "Bytes"} -> ARRAY_HEADER + ArrayCap(h, p)
        [] o[1] = "Vector" -> VEC_HEADER + VecCap(h, p)
        [] o[1] = "Tensor" -> TENSOR_HEADER + CeilDiv(TensorRows(h, p) * TensorCols(h, p), FLOATS)
        [] o[1] = "Map" -> MAP_HEADER + 2 * MapCap(h, p)
        [] o[1] = "Set" -> SET_HEADER + SetCap(h, p)
        [] o[1] = "Ref" -> CELL_HEADER + Len(FieldKinds[CtorAt(h, p)]))
=============================================================================
