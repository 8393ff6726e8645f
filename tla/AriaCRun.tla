------------------------------- MODULE AriaCRun -------------------------------
(***************************************************************************)
(* A program compiled to C at run time (src/src/c_backend.rs): its locals  *)
(* hold pointers, and every instruction calls the run-time function that   *)
(* the emitter chooses from the static types of the operands.              *)
(***************************************************************************)
EXTENDS AriaCCollections, AriaStatic

CONSTANTS
    Slot,       \* locals that hold an owned reference
    Nil         \* an empty local

VARIABLES
    cheap,      \* the objects malloc has handed out, aria_live and aria_reuses
    cloc,       \* what each local holds: its static type and an address
    cout        \* the last scalar result, or <<"Trap">>

cvars == <<cheap, cloc, cout>>

\* An operand is a local or a literal; a string literal is a new object.
Operands(h, xs) ==
    FoldLeft(LAMBDA r, x :
        IF x \notin Slot /\ x[1] = "Str"
        THEN LET s == str_lit(r.h, x[2]) IN [h |-> s.h, w |-> Append(r.w, s.p)]
        ELSE [r EXCEPT !.w = Append(@, IF x \in Slot THEN cloc[x].p ELSE x[2])],
        [h |-> h, w |-> <<>>], xs)
TypeOf(x) == IF x \in Slot THEN cloc[x].ty ELSE <<x[1]>>

\* ==: the _consume variants read both operands, then drop them.
equal_consume(h, ty, a, b) ==
    LET same == CASE ty[1] = "Data" -> eq(h, a, b)
                  [] ty[1] = "Map" -> map_eq(h, a, b)
                  [] ty[1] = "Set" -> set_eq(h, a, b)
                  [] ty[1] = "Str" -> streq(h, a, b)
                  [] ty[1] = "Bytes" -> byteseq(h, a, b)
                  [] ty[1] = "Vector" -> veceq(h, a, b)
    IN  Ok(drop(drop(h, a), b), same)

\* A match that takes one field: the field gets a reference of its own, then
\* the cell is dropped.
take_field(h, p, i) ==
    LET x == Elems(h, p)[i + 1]
    IN  Ok(drop(slot_dup(h, FieldKinds[Header(h, p)[1]][i + 1], x), p), x)

\* emit_builtin, emit_array_builtin, emit_map_set_builtin on operands w of
\* static types tys; ty is the type of the result.  The kinds that go into a
\* call are those of the operands where there are any (unify_slot).
str_call(name, h, w) ==
    CASE name = "concat" -> concat(h, w[1], w[2])
      [] name = "int_to_str" -> int_to_str(h, w[1])
array_call(name, h, w, tys, to) ==
    CASE name = "array_new" -> array_new(h, to[2])
      [] name = "array_len" -> len_(h, w[1])
      [] name = "array_lit" -> array_lit(h, to[2], w)
      [] name = "array_get" -> array_get(h, w[1], w[2])
      [] name = "array_set" -> array_set(h, w[1], w[2], w[3])
      [] name = "array_push" -> array_push(h, w[1], w[2], KindOf(tys[2]))
bytes_call(name, h, w) ==
    CASE name = "bytes_new" -> bytes_of(h, <<>>)
      [] name = "bytes_len" -> len_(h, w[1])
      [] name = "bytes_get" -> bytes_get(h, w[1], w[2])
      [] name = "bytes_set" -> bytes_set(h, w[1], w[2], w[3])
      [] name = "bytes_push" -> bytes_push(h, w[1], w[2])
      [] name = "bytes_from_str" -> bytes_from_str(h, w[1])
      [] name = "bytes_to_str" -> bytes_to_str(h, w[1])
vec_call(name, h, w) ==
    CASE name = "vec_new" -> vec_of(h, <<>>)
      [] name = "vec_len" -> len_(h, w[1])
      [] name = "vec_from_array" -> vec_from_array(h, w[1])
      [] name = "vec_to_array" -> vec_to_array(h, w[1])
      [] name = "vec_get" -> vec_get(h, w[1], w[2])
      [] name = "vec_push" -> vec_push(h, w[1], w[2])
      [] name = "vec_add" -> vec_add(h, w[1], w[2])
      [] name = "vec_sub" -> vec_sub(h, w[1], w[2])
      [] name = "vec_scale" -> vec_scale(h, w[1], w[2])
      [] name = "vec_dot" -> vec_dot(h, w[1], w[2])
      [] name = "vec_cosine" -> vec_cosine(h, w[1], w[2])
      [] name = "vec_norm" -> vec_norm(h, w[1])
tensor_call(name, h, w) ==
    CASE name = "tensor_zeros" -> tensor_zeros(h, w[1], w[2])
      [] name = "tensor_set" -> tensor_set(h, w[1], w[2], w[3], w[4])
      [] name = "tensor_get" -> tensor_get(h, w[1], w[2], w[3])
      [] name = "tensor_rows" -> tensor_shape(h, w[1], 1)
      [] name = "tensor_cols" -> tensor_shape(h, w[1], 2)
      [] name = "tensor_row" -> tensor_row(h, w[1], w[2])
      [] name = "tensor_from_rows" -> tensor_from_rows(h, w[1])
      [] name = "matmul" -> tensor_matmul(h, w[1], w[2])
      [] name = "transpose" -> tensor_transpose(h, w[1])
      [] name = "relu" -> tensor_relu(h, w[1])
      [] name = "softmax" -> tensor_softmax(h, w[1])
map_call(name, h, w, tys, to) ==
    CASE name = "map_new" -> map_new(h, <<to[2], to[3]>>)
      [] name = "map_len" -> len_(h, w[1])
      [] name = "map_insert" -> map_insert(h, w[1], w[2], w[3], <<KindOf(tys[2]), KindOf(tys[3])>>)
      [] name = "map_get_or" -> map_get_or(h, w[1], w[2], w[3], <<KindOf(tys[2]), KindOf(tys[3])>>)
      [] name = "map_has" -> map_has(h, w[1], w[2], KindOf(tys[2]))
      [] name = "map_remove" -> map_remove(h, w[1], w[2], KindOf(tys[2]))
      [] name = "map_show" -> map_show(h, w[1])
      [] name = "map_keys" -> map_keys(h, w[1], tys[1][2], to[2])
      [] name = "map_values" -> map_values(h, w[1], tys[1][3], to[2])
set_call(name, h, w, tys, to) ==
    CASE name = "set_new" -> set_new(h, to[2])
      [] name = "set_len" -> len_(h, w[1])
      [] name = "set_add" -> set_add(h, w[1], w[2], KindOf(tys[2]))
      [] name = "set_has" -> set_has(h, w[1], w[2], KindOf(tys[2]))
      [] name = "set_remove" -> set_remove(h, w[1], w[2], KindOf(tys[2]))
      [] name = "set_show" -> set_show(h, w[1])
      [] name = "set_to_array" -> set_to_array(h, w[1], tys[1][2], to[2])
arith_call(name, h, w) ==
    LET r == c_prim(name, w[1], w[Len(w)]) IN IF r = <<>> THEN Trapped ELSE Ok(h, r[1])
Exec(name, h, w, tys, ty) ==
    LET to == NativeReturn(name, tys, ty) IN
    CASE name \in StringOps -> str_call(name, h, w)
      [] name \in ArrayOps -> array_call(name, h, w, tys, to)
      [] name \in BytesOps -> bytes_call(name, h, w)
      [] name \in VectorOps -> vec_call(name, h, w)
      [] name \in TensorOps -> tensor_call(name, h, w)
      [] name \in MapOps -> map_call(name, h, w, tys, to)
      [] name \in SetOps -> set_call(name, h, w, tys, to)
      [] name \in ArithOps -> arith_call(name, h, w)
      [] name = "eq" -> equal_consume(h, tys[1], w[1], w[2])
      [] name = "field" -> take_field(h, w[1], w[2])

-----------------------------------------------------------------------------

CInit == cheap = NoObjects /\ cloc = [s \in Slot |-> Nil] /\ cout = <<"Unit">>

\* The result r of the operands xs is of static type ty and lands in t.
CDeliver(xs, r, ty, t) ==
    LET kept == ty[1] \in HeapTypes
        used == {xs[i] : i \in DOMAIN xs}
    IN  IF ~r.ok THEN cout' = <<"Trap">> /\ UNCHANGED <<cheap, cloc>>
        ELSE /\ cheap' = r.h
             /\ cloc' = [s \in Slot |-> IF s = t /\ kept THEN [ty |-> ty, p |-> r.p]
                                        ELSE IF s \in used THEN Nil ELSE cloc[s]]
             /\ cout' = IF kept THEN <<"Unit">> ELSE <<ty[1], r.p>>

\* Reuses are counted from one instruction to the next.
Fresh(h) == [h EXCEPT !.reuses = 0]

\* emit_lambda: the body gets a reference to everything that was captured.
prologue(h, p) == FoldLeft(LAMBDA g, e : dup(g, e[2]), h, Refs(h, p))
\* What a builtin or the body of the closure at p runs on, and the release of
\* the closure once the body has run.
enter(o, p) == IF p = Nil THEN o ELSE [h |-> prologue(o.h, p), w |-> Elems(o.h, p) \o o.w]
leave(r, p) == IF p = Nil \/ ~r.ok THEN r ELSE Ok(drop(r.h, p), r.p)

CBody(i, b, tys, ty) == Exec(i.name, b.h, b.w, tys, ty)
CCall(i, p, o, tys, ty) == leave(CBody(i, enter(o, p), tys, ty), p)
CInstr(i, tys, ty, t) ==
    CDeliver(i.clo \o i.xs,
             CCall(i, IF i.clo = <<>> THEN Nil ELSE cloc[i.clo[1]].p,
                   Operands(Fresh(cheap), i.xs), tys, ty),
             NativeReturn(i.name, tys, ty), t)
CRun(i, ty, t) == CInstr(i, i.held \o [k \in DOMAIN i.xs |-> TypeOf(i.xs[k])], ty, t)
CLiteral(s, t) == CDeliver(<<>>, str_lit(Fresh(cheap), s), <<"Str">>, t)
CConstruct(c, xs, ty, t) ==
    LET o == Operands(Fresh(cheap), xs) IN CDeliver(xs, ctor(o.h, c, o.w), ty, t)
\* A match that rebuilds: the kept fields are copied, the cell is released into
\* a token, and the token becomes the new cell.
CRebuild(s, c, keep, xs, ty, t) ==
    LET p == cloc[s].p
        old == Elems(cheap, p)
        kept == FoldSet(LAMBDA i, g : slot_dup(g, FieldKinds[Header(cheap, p)[1]][i], old[i]),
                        Fresh(cheap), keep)
        d == drop_reuse(kept, p)
        o == Operands(d.h, xs)
        ws == [i \in 1..(Len(xs) + Cardinality(keep)) |->
                  IF i \in keep THEN old[i] ELSE o.w[Cardinality({j \in 1..i : j \notin keep})]]
    IN  CDeliver(<<s>> \o xs, ctor_reuse(o.h, d.p, c, ws), ty, t)
CCopy(s, t) ==
    /\ cheap' = dup(Fresh(cheap), cloc[s].p)
    /\ cloc' = [cloc EXCEPT ![t] = cloc[s]] /\ cout' = <<"Unit">>
CDiscard(s) ==
    /\ cheap' = drop(Fresh(cheap), cloc[s].p)
    /\ cloc' = [cloc EXCEPT ![s] = Nil] /\ cout' = <<"Unit">>

-----------------------------------------------------------------------------
(* What the objects mean, and the references in them                       *)

RECURSIVE View(_, _, _)
View(h, kind, x) ==
    LET o == h.mem[x]
        each(k, xs) == [i \in DOMAIN xs |-> View(h, k, xs[i])]
    IN  CASE kind = "Array" -> <<"Array", each(o.head[1], o.xs)>>
          [] kind = "Tensor" -> <<"Tensor", o.head \o <<o.xs>>>>
          [] kind = "Map" -> <<"Map", [i \in DOMAIN o.xs |-> <<View(h, o.head[1], o.xs[i][1]),
                                                              View(h, o.head[2], o.xs[i][2])>>]>>
          [] kind = "Set" -> <<"Set", each(o.head[1], o.xs)>>
          [] kind = "Ref" -> <<"Data", <<o.head[1], [i \in DOMAIN o.xs |->
                                  View(h, FieldKinds[o.head[1]][i], o.xs[i])]>>>>
          [] kind \in {"Str", "Bytes", "Vector"} -> <<kind, o.xs>>
          [] OTHER -> <<kind, x>>

CValue(s) == IF cloc[s] = Nil THEN Nil ELSE View(cheap, KindOf(cloc[s].ty), cloc[s].p)

\* The references from locals and from objects, each a kind and an address.
Held == LET held == {s \in Slot : cloc[s] # Nil}
        IN  [s \in held |-> <<<<KindOf(cloc[s].ty), cloc[s].p>>>>] @@
            [p \in DOMAIN cheap.mem |-> Refs(cheap, p)]
=============================================================================
