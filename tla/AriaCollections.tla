--------------------------- MODULE AriaCollections ---------------------------
(***************************************************************************)
(* What the collection builtins of Aria mean: strings, arrays, bytes,      *)
(* vectors, tensors, ordered maps and sets, as the tree-walking interpreter*)
(* computes them (src/src/interp.rs, the oracle of every other backend).   *)
(* Values are immutable trees; an instruction takes the values its operand *)
(* slots own and leaves a value, a scalar result or a run-time error.      *)
(*                                                                         *)
(* A value is tagged like the interpreter's enum Value: <<"Int", 3>>,      *)
(* <<"Str", <<97, 98>>>>, <<"Array", <<v1, v2>>>>, ...                     *)
(***************************************************************************)
EXTENDS Integers, Sequences, FiniteSetsExt, SequencesExt, AriaStatic

CONSTANTS
    Slot,             \* locals that hold an owned reference
    Nil,              \* an empty slot
    MaxLen,           \* bound: length of a string or of a collection
    MAX_TENSOR_ELEMS, \* tensor_zeros refuses more elements
    FAdd(_, _), FSub(_, _), FMul(_, _), \* arithmetic on f64
    FDot(_, _), FCosine(_, _), FNorm(_),  \* reductions over vectors
    Narrow(_),        \* f64 to f32
    Widen(_),         \* f32 to f64
    Act(_, _)         \* relu and softmax, row by row

VARIABLES
    val,    \* the value each slot holds
    typ,    \* the type the checker gives each slot
    out     \* the last scalar result, or "trap" once the program has failed

Trap == <<"Trap">>
Unit == <<"Unit">>
Int_(n) == <<"Int", n>>
Bool_(b) == <<"Bool", b>>
Float_(x) == <<"Float", x>>
Str_(s) == <<"Str", s>>
Bytes_(s) == <<"Bytes", s>>
Array_(s) == <<"Array", s>>
Vector_(s) == <<"Vector", s>>
Map_(s) == <<"Map", s>>
Set_(s) == <<"Set", s>>
Tensor_(r, c, d) == <<"Tensor", <<r, c, d>>>>

IsTrap(v) == v[1] = "Trap"

-----------------------------------------------------------------------------
(* Keys                                                                    *)

\* Bytes are compared one by one, a proper prefix comes first.
BytesLess(a, b) ==
    \/ Len(a) < Len(b) /\ IsPrefix(a, b)
    \/ \E i \in DOMAIN a \cap DOMAIN b :
          a[i] < b[i] /\ SubSeq(a, 1, i - 1) = SubSeq(b, 1, i - 1)

key_cmp(a, b) ==
    LET less(x, y) == IF x[1] = "Int" THEN x[2] < y[2] ELSE BytesLess(x[2], y[2])
    IN  IF less(a, b) THEN -1 ELSE IF less(b, a) THEN 1 ELSE 0

\* The entries of a sorted sequence before and after a key; key(e) of an entry.
Before(es, key(_), k) == SelectSeq(es, LAMBDA e : key_cmp(key(e), k) < 0)
After(es, key(_), k) == SelectSeq(es, LAMBDA e : key_cmp(key(e), k) > 0)
At(es, key(_), k) == SelectSeq(es, LAMBDA e : key_cmp(key(e), k) = 0)

First(e) == e[1]
Self(e) == e

-----------------------------------------------------------------------------
(* Integers                                                                *)

\* A unary operation has its operand twice.
Second(a) == a[Len(a)][2]
int_builtin(name, a) ==
    LET r == int_op(name, a[1][2], Second(a))
    IN  IF r = <<>> THEN Trap
        ELSE IF name \in {"lt", "le", "gt", "ge"} THEN Bool_(r[1]) ELSE Int_(r[1])

-----------------------------------------------------------------------------
(* Strings                                                                 *)

RECURSIVE Digits(_)
Digits(n) ==
    IF n < 0 THEN <<45>> \o Digits(-n)
    ELSE IF n < 10 THEN <<48 + n>>
    ELSE Digits(n \div 10) \o <<48 + (n % 10)>>

\* The bytes of the texts that displayed collections are made of.
Text == [Map |-> <<77, 97, 112, 91>>, Set |-> <<83, 101, 116, 91>>,
         Close |-> <<93>>, Comma |-> <<44, 32>>, Colon |-> <<58, 32>>,
         true |-> <<116, 114, 117, 101>>, false |-> <<102, 97, 108, 115, 101>>]

display(v) == CASE v[1] = "Int" -> Digits(v[2])
                [] v[1] = "Bool" -> IF v[2] THEN Text.true ELSE Text.false
                [] v[1] = "Str" -> v[2]

Joined(pieces) ==
    FoldLeft(LAMBDA a, i : a \o (IF i = 1 THEN <<>> ELSE Text.Comma) \o pieces[i],
             <<>>, [i \in DOMAIN pieces |-> i])

map_show(m) ==
    Text.Map \o Joined([i \in DOMAIN m |-> display(m[i][1]) \o Text.Colon \o display(m[i][2])])
    \o Text.Close
set_show(s) == Text.Set \o Joined([i \in DOMAIN s |-> display(s[i])]) \o Text.Close

\* std::str::from_utf8: the text is a concatenation of code points in their
\* shortest form, without surrogates.
CodePoints ==
    [n \in 1..4 |->
        CASE n = 1 -> {<<0, 127>>}
          [] n = 2 -> {<<194, 223, 128, 191>>}
          [] n = 3 -> {<<224, 224, 160, 191>>, <<225, 236, 128, 191>>,
                       <<237, 237, 128, 159>>, <<238, 239, 128, 191>>}
          [] n = 4 -> {<<240, 240, 144, 191>>, <<241, 243, 128, 191>>, <<244, 244, 128, 143>>}]

IsCodePoint(s) ==
    \E p \in CodePoints[Len(s)] :
        /\ s[1] \in p[1]..p[2]
        /\ Len(s) > 1 => s[2] \in p[3]..p[4]
        /\ \A i \in 3..Len(s) : s[i] \in 128..191

RECURSIVE ValidUtf8(_)
ValidUtf8(s) ==
    s = <<>> \/ \E n \in 1..4 :
        /\ n <= Len(s)
        /\ IsCodePoint(SubSeq(s, 1, n))
        /\ ValidUtf8(SubSeq(s, n + 1, Len(s)))

-----------------------------------------------------------------------------
(* Arrays and bytes                                                        *)

InRange(xs, i) == i >= 0 /\ i < Len(xs)
Byte(n) == n >= 0 /\ n <= 255

array_get(xs, i) == IF InRange(xs, i) THEN xs[i + 1] ELSE Trap
array_set(xs, i, v) == IF InRange(xs, i) THEN Array_([xs EXCEPT ![i + 1] = v]) ELSE Trap
bytes_get(bs, i) == IF InRange(bs, i) THEN Int_(bs[i + 1]) ELSE Trap
bytes_set(bs, i, v) ==
    IF InRange(bs, i) /\ Byte(v) THEN Bytes_([bs EXCEPT ![i + 1] = v]) ELSE Trap
bytes_push(bs, v) == IF Byte(v) THEN Bytes_(Append(bs, v)) ELSE Trap
bytes_to_str(bs) == IF ValidUtf8(bs) THEN Str_(bs) ELSE Trap

-----------------------------------------------------------------------------
(* Vectors and tensors                                                     *)

vec_get(xs, i) == IF InRange(xs, i) THEN Float_(xs[i + 1]) ELSE Trap
Zipped(f(_, _), x, y) ==
    IF Len(x) = Len(y) THEN Vector_([i \in DOMAIN x |-> f(x[i], y[i])]) ELSE Trap
SameLength(x, y, r) == IF Len(x) = Len(y) THEN Float_(r) ELSE Trap

\* Row-major data, 0-based coordinates.
Cell(t, r, c) == t[3][r * t[2] + c + 1]
Inside(t, r, c) == r >= 0 /\ c >= 0 /\ r < t[1] /\ c < t[2]
Filled(r, c, f(_, _)) ==
    Tensor_(r, c, [i \in 1..(r * c) |-> f((i - 1) \div c, (i - 1) % c)])

tensor_zeros(r, c) ==
    IF r < 0 \/ c < 0 \/ r * c > MAX_TENSOR_ELEMS THEN Trap
    ELSE Filled(r, c, LAMBDA i, j : Narrow(0))
tensor_set(t, r, c, v) ==
    IF Inside(t, r, c)
    THEN Tensor_(t[1], t[2], [t[3] EXCEPT ![r * t[2] + c + 1] = Narrow(v)]) ELSE Trap
tensor_get(t, r, c) == IF Inside(t, r, c) THEN Float_(Widen(Cell(t, r, c))) ELSE Trap
tensor_row(t, i) ==
    IF i < 0 \/ i >= t[1] THEN Trap
    ELSE Vector_([c \in 1..t[2] |-> Widen(Cell(t, i, c - 1))])
tensor_from_rows(rows) ==
    IF rows = <<>> THEN Tensor_(0, 0, <<>>)
    ELSE LET l == Len(rows[1][2]) IN
         IF \E r \in DOMAIN rows : Len(rows[r][2]) # l THEN Trap
         ELSE Filled(Len(rows), l, LAMBDA i, j : Narrow(rows[i + 1][2][j + 1]))
matmul(a, b) ==
    IF a[2] # b[1] THEN Trap
    ELSE Filled(a[1], b[2], LAMBDA i, j :
            FoldLeft(LAMBDA acc, p : Narrow(FAdd(acc,
                     Narrow(FMul(Cell(a, i, p - 1), Cell(b, p - 1, j))))),
                     Narrow(0), [p \in 1..a[2] |-> p]))
transpose(t) == Filled(t[2], t[1], LAMBDA i, j : Cell(t, j, i))
activation(f, t) == Tensor_(t[1], t[2], Act(f, t))

-----------------------------------------------------------------------------
(* Ordered maps and sets: entries sorted by key                            *)

map_insert(m, k, v) == Before(m, First, k) \o <<<<k, v>>>> \o After(m, First, k)
map_remove(m, k) == Before(m, First, k) \o After(m, First, k)
map_get_or(m, k, d) == IF At(m, First, k) = <<>> THEN d ELSE At(m, First, k)[1][2]
map_has(m, k) == Bool_(At(m, First, k) # <<>>)
set_add(s, x) ==
    IF At(s, Self, x) # <<>> THEN s ELSE Before(s, Self, x) \o <<x>> \o After(s, Self, x)
set_remove(s, x) == Before(s, Self, x) \o After(s, Self, x)
set_has(s, x) == Bool_(At(s, Self, x) # <<>>)

-----------------------------------------------------------------------------

\* The builtins on the values a.
string_builtin(name, a) ==
    CASE name = "concat" -> Str_(a[1][2] \o a[2][2])
      [] name = "int_to_str" -> Str_(Digits(a[1][2]))
array_builtin(name, a) ==
    CASE name = "array_new" -> Array_(<<>>)
      [] name = "array_len" -> Int_(Len(a[1][2]))
      [] name = "array_lit" -> Array_(a)
      [] name = "array_get" -> array_get(a[1][2], a[2][2])
      [] name = "array_set" -> array_set(a[1][2], a[2][2], a[3])
      [] name = "array_push" -> Array_(Append(a[1][2], a[2]))
bytes_builtin(name, a) ==
    CASE name = "bytes_new" -> Bytes_(<<>>)
      [] name = "bytes_len" -> Int_(Len(a[1][2]))
      [] name = "bytes_get" -> bytes_get(a[1][2], a[2][2])
      [] name = "bytes_set" -> bytes_set(a[1][2], a[2][2], a[3][2])
      [] name = "bytes_push" -> bytes_push(a[1][2], a[2][2])
      [] name = "bytes_from_str" -> Bytes_(a[1][2])
      [] name = "bytes_to_str" -> bytes_to_str(a[1][2])
vec_builtin(name, a) ==
    CASE name = "vec_new" -> Vector_(<<>>)
      [] name = "vec_len" -> Int_(Len(a[1][2]))
      [] name = "vec_from_array" -> Vector_([i \in DOMAIN a[1][2] |-> a[1][2][i][2]])
      [] name = "vec_to_array" -> Array_([i \in DOMAIN a[1][2] |-> Float_(a[1][2][i])])
      [] name = "vec_get" -> vec_get(a[1][2], a[2][2])
      [] name = "vec_push" -> Vector_(Append(a[1][2], a[2][2]))
      [] name = "vec_add" -> Zipped(FAdd, a[1][2], a[2][2])
      [] name = "vec_sub" -> Zipped(FSub, a[1][2], a[2][2])
      [] name = "vec_scale" -> Vector_([i \in DOMAIN a[1][2] |-> FMul(a[1][2][i], a[2][2])])
      [] name = "vec_dot" -> SameLength(a[1][2], a[2][2], FDot(a[1][2], a[2][2]))
      [] name = "vec_cosine" -> SameLength(a[1][2], a[2][2], FCosine(a[1][2], a[2][2]))
      [] name = "vec_norm" -> Float_(FNorm(a[1][2]))
tensor_builtin(name, a) ==
    CASE name = "tensor_zeros" -> tensor_zeros(a[1][2], a[2][2])
      [] name = "tensor_set" -> tensor_set(a[1][2], a[2][2], a[3][2], a[4][2])
      [] name = "tensor_get" -> tensor_get(a[1][2], a[2][2], a[3][2])
      [] name = "tensor_rows" -> Int_(a[1][2][1])
      [] name = "tensor_cols" -> Int_(a[1][2][2])
      [] name = "tensor_row" -> tensor_row(a[1][2], a[2][2])
      [] name = "tensor_from_rows" -> tensor_from_rows(a[1][2])
      [] name = "matmul" -> matmul(a[1][2], a[2][2])
      [] name = "transpose" -> transpose(a[1][2])
      [] name \in {"relu", "softmax"} -> activation(name, a[1][2])
map_builtin(name, a) ==
    CASE name = "map_new" -> Map_(<<>>)
      [] name = "map_len" -> Int_(Len(a[1][2]))
      [] name = "map_insert" -> Map_(map_insert(a[1][2], a[2], a[3]))
      [] name = "map_get_or" -> map_get_or(a[1][2], a[2], a[3])
      [] name = "map_has" -> map_has(a[1][2], a[2])
      [] name = "map_remove" -> Map_(map_remove(a[1][2], a[2]))
      [] name = "map_show" -> Str_(map_show(a[1][2]))
      [] name = "map_keys" -> Array_([i \in DOMAIN a[1][2] |-> a[1][2][i][1]])
      [] name = "map_values" -> Array_([i \in DOMAIN a[1][2] |-> a[1][2][i][2]])
set_builtin(name, a) ==
    CASE name = "set_new" -> Set_(<<>>)
      [] name = "set_len" -> Int_(Len(a[1][2]))
      [] name = "set_add" -> Set_(set_add(a[1][2], a[2]))
      [] name = "set_has" -> set_has(a[1][2], a[2])
      [] name = "set_remove" -> Set_(set_remove(a[1][2], a[2]))
      [] name = "set_show" -> Str_(set_show(a[1][2]))
      [] name = "set_to_array" -> Array_(a[1][2])
builtin(name, a) ==
    CASE name \in StringOps -> string_builtin(name, a)
      [] name \in ArrayOps -> array_builtin(name, a)
      [] name \in BytesOps -> bytes_builtin(name, a)
      [] name \in VectorOps -> vec_builtin(name, a)
      [] name \in TensorOps -> tensor_builtin(name, a)
      [] name \in MapOps -> map_builtin(name, a)
      [] name \in SetOps -> set_builtin(name, a)
      [] name \in ArithOps -> int_builtin(name, a)
      [] name = "eq" -> Bool_(a[1] = a[2])
      [] name = "field" -> a[1][2][2][a[2][2] + 1]

-----------------------------------------------------------------------------
(* The running program: each instruction consumes the operand slots it     *)
(* names and leaves its result in one of them or in an empty slot.         *)

Value(x) == IF x \in Slot THEN val[x] ELSE x
Operands(xs) == {xs[i] : i \in DOMAIN xs} \cap Slot

\* Lengths of a value, for the bound.
Size(v) == CASE v[1] \in {"Str", "Array", "Bytes", "Vector", "Map", "Set"} -> Len(v[2])
             [] v[1] = "Tensor" -> Len(v[2][3])
             [] OTHER -> 0

Running == ~IsTrap(out)

\* The result r of an instruction over the operands xs is of type ty and lands
\* in t; a scalar is only seen.
Deliver(xs, r, ty, t) ==
    /\ Size(r) <= MaxLen
    /\ IF IsTrap(r) THEN UNCHANGED <<val, typ>>
       ELSE LET kept == r[1] \in HeapTypes IN
            /\ val' = [s \in Slot |-> IF s = t /\ kept THEN r
                                      ELSE IF s \in Operands(xs) THEN Nil ELSE val[s]]
            /\ typ' = [s \in Slot |-> IF s = t /\ kept THEN ty
                                      ELSE IF s \in Operands(xs) THEN Nil ELSE typ[s]]
    /\ out' = IF r[1] \in HeapTypes THEN Unit ELSE r

\* An instruction i: a builtin on the operands xs, or the application of a
\* closure (clo holds it), whose body is that builtin on what it captured and
\* on xs.
Run(i, t) ==
    Deliver(i.clo \o i.xs,
            builtin(i.name, FoldLeft(LAMBDA vs, s : val[s][2][2], <<>>, i.clo)
                            \o [k \in DOMAIN i.xs |-> Value(i.xs[k])]), i.ty, t)
Literal(s, t) == Deliver(<<>>, Str_(s), <<"Str">>, t)
Construct(c, xs, ty, t) ==
    Deliver(xs, <<"Data", <<c, [i \in DOMAIN xs |-> Value(xs[i])]>>>>, ty, t)
\* Operands xs, with the fields of a matched value in the positions keep.
Merged(n, keep, xs, field(_)) ==
    [i \in 1..n |-> IF i \in keep THEN field(i)
                    ELSE xs[Cardinality({j \in 1..i : j \notin keep})]]
\* A match that rebuilds: the scrutinee s is consumed with the operands xs.
Rebuild(s, c, keep, xs, ty, t) ==
    Deliver(<<s>> \o xs,
            <<"Data", <<c, Merged(Len(xs) + Cardinality(keep), keep, [i \in DOMAIN xs |-> Value(xs[i])],
                                  LAMBDA i : val[s][2][2][i])>>>>, ty, t)
Copy(s, t) == /\ val' = [val EXCEPT ![t] = val[s]]
              /\ typ' = [typ EXCEPT ![t] = typ[s]] /\ out' = Unit
Discard(s) == /\ val' = [val EXCEPT ![s] = Nil]
              /\ typ' = [typ EXCEPT ![s] = Nil] /\ out' = Unit

Init == val = [s \in Slot |-> Nil] /\ typ = [s \in Slot |-> Nil] /\ out = Unit
=============================================================================
