------------------------------ MODULE AriaStatic ------------------------------
(***************************************************************************)
(* Static types in the compiled backends.  The monomorphiser               *)
(* (src/src/monomorphize.rs) writes the kinds of the elements into the name*)
(* of a collection builtin, map_new$s_i; the backends (wasm.rs,            *)
(* c_backend.rs) derive from the names and the operands the static type of *)
(* every local, which says how it is copied, dropped and compared.         *)
(*                                                                         *)
(* A type is a tuple of kinds: <<"Map", "Str", "Int">>, <<"Array", "Ref">>.*)
(***************************************************************************)
EXTENDS Sequences, AriaArith

HeapTypes == {"Str", "Array", "Bytes", "Vector", "Map", "Set", "Tensor", "Data"}
\* The kind of a slot that holds a value of type ty.
KindOf(ty) == IF ty[1] = "Data" THEN "Ref" ELSE ty[1]
\* default_empty_elem: an empty collection that nothing types holds integers.
default_empty_elem(ty) == [i \in DOMAIN ty |-> IF i = 1 THEN ty[1] ELSE "Int"]

\* The type of a result on operands of types tys, where the checker says ty.
\* An update takes the kinds of what it stores; removals and enumerations
\* trust the container.
Return(name, tys, ty) ==
    CASE name = "map_insert" -> <<"Map", KindOf(tys[2]), KindOf(tys[3])>>
      [] name \in {"map_remove", "set_remove"} -> tys[1]
      [] name \in {"map_keys", "set_to_array"} -> <<"Array", tys[1][2]>>
      [] name = "map_values" -> <<"Array", tys[1][3]>>
      [] OTHER -> ty
\* set_add: wasm.rs trusts the set, c_backend.rs the element.
WasmReturn(name, tys, ty) == IF name = "set_add" THEN tys[1] ELSE Return(name, tys, ty)
NativeReturn(name, tys, ty) ==
    IF name = "set_add" THEN <<"Set", KindOf(tys[2])>> ELSE Return(name, tys, ty)

-----------------------------------------------------------------------------
(* The builtins, by family                                                 *)

StringOps == {"concat", "int_to_str"}
ArrayOps == {"array_new", "array_lit", "array_len", "array_get", "array_set", "array_push"}
BytesOps == {"bytes_new", "bytes_len", "bytes_get", "bytes_set", "bytes_push",
             "bytes_from_str", "bytes_to_str"}
VectorOps == {"vec_new", "vec_from_array", "vec_to_array", "vec_len", "vec_get", "vec_push",
              "vec_add", "vec_sub", "vec_scale", "vec_dot", "vec_cosine", "vec_norm"}
TensorOps == {"tensor_zeros", "tensor_set", "tensor_get", "tensor_rows", "tensor_cols",
              "tensor_row", "tensor_from_rows", "matmul", "transpose", "relu", "softmax"}
MapOps == {"map_new", "map_insert", "map_get_or", "map_has", "map_len", "map_remove",
           "map_show", "map_keys", "map_values"}
SetOps == {"set_new", "set_add", "set_has", "set_len", "set_remove", "set_show", "set_to_array"}
=============================================================================
