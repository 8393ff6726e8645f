----------------------------- MODULE MCBackends -----------------------------
(***************************************************************************)
(* Small programs for TLC: each exercises one family of builtins.          *)
(***************************************************************************)
EXTENDS AriaBackends, TLC

CONSTANTS s1, s2, s3

MCSlot == {s1, s2, s3}
MCSymmetry == Permutations(MCSlot)

I(ns) == {<<"Int", n>> : n \in ns}
F(ns) == {<<"Float", n>> : n \in ns}

\* Floats are residues: addition wraps, an f32 loses the highest bit.
Mod == 4
MCFAdd(x, y) == (x + y) % Mod
MCFSub(x, y) == (x - y) % Mod
MCFMul(x, y) == (x * y) % Mod
MCFDot(x, y) == FoldLeft(LAMBDA a, i : (a + x[i] * y[i]) % Mod, 0, [i \in DOMAIN x |-> i])
MCFCosine(x, y) == MCFDot(x, y)
MCFNorm(x) == MCFDot(x, x)
MCNarrow(x) == x % 2
MCWiden(x) == x
MCAct(f, t) == IF f = "relu" THEN [i \in DOMAIN t[3] |-> IF t[3][i] = 1 THEN 0 ELSE t[3][i]]
               ELSE [i \in DOMAIN t[3] |-> (t[3][i] + 1) % 2]

MCCtorTags == <<"Leaf", "Node", "Tagged", "Held", "Pair", "Push", "Put", "Rows">>
MCFieldKinds == [Leaf |-> <<>>, Node |-> <<"Str", "Ref">>, Tagged |-> <<"Int", "Ref">>,
                 Held |-> <<"Map", "Array">>, Pair |-> <<"Set", "Bytes">>,
                 Push |-> <<"Array">>, Put |-> <<"Array", "Int">>, Rows |-> <<"Tensor">>]
MCFields == [Leaf |-> <<>>, Node |-> <<<<"Str">>, <<"Data">>>>, Tagged |-> <<<<"Int">>, <<"Data">>>>,
             Held |-> <<<<"Map", "Int", "Bool">>, <<"Array", "Bool">>>>,
             Pair |-> <<<<"Set", "Int">>, <<"Bytes">>>>,
             Push |-> <<<<"Array", "Str">>>>, Put |-> <<<<"Array", "Str">>, <<"Int">>>>,
             Rows |-> <<<<"Tensor">>>>]

S(ss) == {<<"Str", s>> : s \in ss}

Base == [ops |-> {}, elem |-> "Int", key |-> "Int", value |-> "Int", strings |-> {}, literals |-> {},
         ctors |-> {}, lambdas |-> <<>>, fields |-> MCFields, eq |-> {},
         annotated |-> TRUE, locals |-> 2, limit |-> 44, steps |-> 6]

a == 97
StringProgram == [Base EXCEPT !.ops = StringOps, !.strings = {<<>>, <<a, a, a>>},
                              !.literals = I({-10, 7}), !.eq = {"Str"}]
ArrayProgram == [Base EXCEPT !.steps = 5, !.ops = ArrayOps, !.elem = "Str",
                             !.literals = I({-1, 0, 1}) \cup S({<<a>>})]
BytesProgram == [Base EXCEPT !.steps = 5, !.ops = BytesOps, !.strings = {<<195, 169>>},
                             !.literals = I({0, 128, 256}), !.eq = {"Bytes"}]
VectorProgram == [Base EXCEPT !.ops = VectorOps, !.elem = "Float", !.literals = I({0, 1}) \cup F({1, 3}),
                              !.eq = {"Vector"}]
TensorProgram == [Base EXCEPT !.steps = 4,
                  !.ops = TensorOps \ {"tensor_from_rows"}, !.literals = I({0, 1, 2}) \cup F({1})]
\* Rows: vectors, an array of them and the tensor made of it.
RowsProgram == [Base EXCEPT !.steps = 7, !.elem = "Vector",
                  !.ops = {"vec_new", "vec_push", "array_lit", "tensor_from_rows", "tensor_row"},
                  !.literals = I({0, 1}) \cup F({1})]
MapProgram == [Base EXCEPT !.steps = 5, !.ops = MapOps, !.key = "Str", !.value = "Str",
                           !.literals = S({<<a>>, <<a, a>>}), !.eq = {"Map"}]
\* A map whose `let` has no type.
BareProgram == [Base EXCEPT !.annotated = FALSE, !.steps = 5, !.key = "Str", !.value = "Str",
                            !.ops = {"map_new", "map_insert", "map_keys", "map_values"},
                            !.literals = S({<<a>>})]
SetProgram == [Base EXCEPT !.ops = SetOps, !.key = "Str", !.literals = S({<<a>>, <<98>>}), !.eq = {"Set"}]
CellProgram == [Base EXCEPT !.ctors = {"Leaf", "Node", "Tagged"},
                  !.literals = I({5}) \cup S({<<a>>}), !.eq = {"Data"}]
\* Cells that hold a map of Booleans and an array, or a set and bytes.
HolderProgram == [Base EXCEPT !.ctors = {"Held", "Pair"}, !.elem = "Bool", !.value = "Bool",
                    !.ops = {"map_new", "map_insert", "map_values", "set_new", "set_add",
                             "bytes_new", "array_get"},
                    !.literals = I({1, 2}) \cup {<<"Bool", FALSE>>}]

\* Functions from strings to arrays that capture an array.
ClosureProgram == [Base EXCEPT !.steps = 7, !.elem = "Str",
                     !.ops = {"array_new"}, !.lambdas = [Push |-> "array_push", Put |-> "array_set"],
                     !.literals = I({0}) \cup S({<<a>>})]

\* Arithmetic on the least, the greatest, the small words and those whose
\* squares wrap; no remainder of the least word, which WebAssembly
\* takes for zero.
Corners == {n \in Words : Magnitude(n) >= 29 \/ Magnitude(n) <= 8 \/ Magnitude(n) = 16}
Arith(ops, ns) == [Base EXCEPT !.steps = 1, !.ops = ops, !.literals = I(ns)]
ArithProgram == Arith(ArithOps \ {"mod"}, Corners)
RemainderProgram == Arith({"mod"}, Corners \ {I64_MIN})

MCPrograms ==
    {ArithProgram, RemainderProgram, StringProgram, ArrayProgram, BytesProgram, VectorProgram,
     TensorProgram, RowsProgram, MapProgram, BareProgram, SetProgram, ClosureProgram,
     CellProgram, HolderProgram}

-----------------------------------------------------------------------------
(* Programs on which the backends and the documentation disagree           *)

\* Two strings, one longer than the largest class holds.
MCOversize == {[Base EXCEPT !.ops = {"concat"}, !.strings = {<<a, a, a>>, <<98>>}]}
\* A function that captures a tensor.
MCCapture == {[Base EXCEPT !.ops = {"tensor_zeros"}, !.lambdas = [Rows |-> "tensor_rows"],
                           !.literals = I({1})]}
=============================================================================
