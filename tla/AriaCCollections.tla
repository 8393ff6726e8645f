--------------------------- MODULE AriaCCollections ---------------------------
(***************************************************************************)
(* The rest of the C run-time library (src/src/c_backend.rs, RUNTIME):     *)
(* vectors of double, tensors of float, sorted maps and sets, equality.    *)
(***************************************************************************)
EXTENDS AriaC

-----------------------------------------------------------------------------
(* Vectors                                                                 *)

vec_of(h, xs) == malloc(h, Object("Vector", <<>>, Len(xs), xs))
vec_get(h, p, i) ==
    IF ~Within(i, Count(h, p)) THEN Trapped ELSE Ok(drop(h, p), Elems(h, p)[i + 1])
vec_push(h, p, x) == LET o == owned(h, p) IN append(o.h, o.p, x)
vec_from_array(h, p) == LET v == vec_of(h, Elems(h, p)) IN Ok(drop(v.h, p), v.p)
vec_to_array(h, p) ==
    LET a == array_lit(h, "Float", Elems(h, p)) IN Ok(drop(a.h, p), a.p)

vec_zip(h, a, b, f(_, _)) ==
    LET xs == Elems(h, a)
        ys == Elems(h, b)
        o == owned(h, a)
    IN  IF Len(xs) # Len(ys) THEN Trapped
        ELSE Ok(drop(Store(o.h, o.p, [i \in DOMAIN xs |-> f(xs[i], ys[i])]), b), o.p)
vec_add(h, a, b) == vec_zip(h, a, b, FAdd)
vec_sub(h, a, b) == vec_zip(h, a, b, FSub)
vec_scale(h, a, x) ==
    LET o == owned(h, a)
    IN  Ok(Store(o.h, o.p, [i \in 1..Count(h, a) |-> FMul(Elems(h, a)[i], x)]), o.p)

vec_reduce(h, a, b, f(_, _)) ==
    IF Count(h, a) # Count(h, b) THEN Trapped
    ELSE Ok(drop(drop(h, a), b), f(Elems(h, a), Elems(h, b)))
vec_dot(h, a, b) == vec_reduce(h, a, b, FDot)
vec_cosine(h, a, b) == vec_reduce(h, a, b, FCosine)
vec_norm(h, a) == Ok(drop(h, a), FNorm(Elems(h, a)))
veceq(h, a, b) == Elems(h, a) = Elems(h, b)

-----------------------------------------------------------------------------
(* Tensors: head is <<rows, columns>>                                      *)

tensor_of(h, rows, cols, xs) == malloc(h, Object("Tensor", <<rows, cols>>, rows * cols, xs))
\* The element of row r and column c, both counted from 0.
at(h, t, r, c) == r * Header(h, t)[2] + c + 1
inside(h, t, r, c) == Within(r, Header(h, t)[1]) /\ Within(c, Header(h, t)[2])

\* The product is checked for overflow, then against the limit.
tensor_zeros(h, rows, cols) ==
    IF rows < 0 \/ cols < 0 \/ rows * cols > MAX_ELEMS THEN Trapped
    ELSE tensor_of(h, rows, cols, [i \in 1..(rows * cols) |-> Narrow(0)])
\* Mutant: a shared tensor is overwritten as if it had one reference.
tensor_update_shared(h, t, xs) == Ok(Reused(Store(h, t, xs)), t)

\* tensor_set and relu overwrite a tensor with one reference.
tensor_update(h, t, xs) ==
    IF Unique(h, t) THEN Ok(Reused(Store(h, t, xs)), t)
    ELSE LET n == tensor_of(h, Header(h, t)[1], Header(h, t)[2], xs) IN Ok(drop(n.h, t), n.p)
tensor_set(h, t, r, c, x) ==
    IF ~inside(h, t, r, c) THEN Trapped
    ELSE tensor_update(h, t, [Elems(h, t) EXCEPT ![at(h, t, r, c)] = Narrow(x)])
tensor_get(h, t, r, c) ==
    IF ~inside(h, t, r, c) THEN Trapped
    ELSE Ok(drop(h, t), Widen(Elems(h, t)[at(h, t, r, c)]))
tensor_shape(h, t, i) == Ok(drop(h, t), Header(h, t)[i])
tensor_row(h, t, r) ==
    LET v == vec_of(h, [c \in 1..Header(h, t)[2] |-> Widen(Elems(h, t)[at(h, t, r, c - 1)])])
    IN  IF ~Within(r, Header(h, t)[1]) THEN Trapped ELSE Ok(drop(v.h, t), v.p)
tensor_from_rows(h, p) ==
    LET rows == Elems(h, p)
        l == IF rows = <<>> THEN 0 ELSE Count(h, rows[1])
        t == tensor_of(h, Len(rows), l,
                       FlattenSeq([r \in DOMAIN rows |->
                           [c \in 1..l |-> Narrow(Elems(h, rows[r])[c])]]))
    IN  IF \E r \in DOMAIN rows : Count(h, rows[r]) # l THEN Trapped ELSE Ok(drop(t.h, p), t.p)

\* Row i of the product accumulates a[i, p] * b[p, _] for each p in turn.
tensor_matmul(h, a, b) ==
    LET m == Header(h, a)[1]
        k == Header(h, a)[2]
        n == Header(h, b)[2]
        out == tensor_zeros(h, m, n)
        row(i) == FoldLeft(LAMBDA dst, p : [j \in 1..n |->
                      Narrow(FAdd(dst[j], Narrow(FMul(Elems(h, a)[at(h, a, i, p)],
                                                      Elems(h, b)[at(h, b, p, j - 1)]))))],
                      [j \in 1..n |-> Narrow(0)], [p \in 1..k |-> p - 1])
        xs == FlattenSeq([i \in 1..m |-> row(i - 1)])
    IN  IF k # Header(h, b)[1] \/ ~out.ok THEN Trapped
        ELSE Ok(drop(drop(Store(out.h, out.p, xs), a), b), out.p)
tensor_transpose(h, t) ==
    LET m == Header(h, t)[1]
        n == Header(h, t)[2]
        r == tensor_of(h, n, m, [e \in 1..(m * n) |-> Elems(h, t)[at(h, t, (e - 1) % m, (e - 1) \div m)]])
    IN  Ok(drop(r.h, t), r.p)
activated(f, h, t) == Act(f, <<Header(h, t)[1], Header(h, t)[2], Elems(h, t)>>)
tensor_relu(h, t) == tensor_update(h, t, activated("relu", h, t))
tensor_softmax(h, t) ==
    LET r == tensor_of(h, Header(h, t)[1], Header(h, t)[2], activated("softmax", h, t))
    IN  Ok(drop(r.h, t), r.p)

-----------------------------------------------------------------------------
(* Maps and sets: sorted, searched by bisection                            *)

\* The index of the key, or where it would go.
find(h, kind, ks, key) ==
    LET n == Len(ks)
        search[lo \in 0..n, hi \in 0..n] ==
            LET mid == lo + (hi - lo) \div 2
                c == key_cmp(h, kind, ks[mid + 1], key)
            IN  CASE lo >= hi -> [i |-> lo, found |-> FALSE]
                  [] lo < hi /\ c = 0 -> [i |-> mid, found |-> TRUE]
                  [] lo < hi /\ c < 0 -> search[mid + 1, hi]
                  [] OTHER -> search[lo, mid]
    IN  search[0, n]
map_find(h, p, key) == find(h, Header(h, p)[1], [i \in 1..Count(h, p) |-> Elems(h, p)[i][1]], key)
set_find(h, p, x) == find(h, Header(h, p)[1], Elems(h, p), x)

map_new(h, kinds) == malloc(h, Object("Map", kinds, 0, <<>>))
map_insert(h, p, key, x, kinds) ==
    LET o == owned(IF Count(h, p) = 0 THEN Retag(h, p, kinds) ELSE h, p)
        head == Header(o.h, o.p)
        es == Elems(o.h, o.p)
        f == map_find(o.h, o.p, key)
        replaced == Store(slot_drop(o.h, head[2], es[f.i + 1][2]), o.p,
                          ReplaceAt(es, f.i + 1, <<es[f.i + 1][1], x>>))
        g == grow(o.h, o.p)
    IN  IF f.found THEN Ok(slot_drop(replaced, head[1], key), o.p)
        ELSE Ok(Store(g.h, g.p, InsertAt(es, f.i + 1, <<key, x>>)), g.p)

\* The lookups drop the key by the kind that the emitter passes.
map_get_or(h, p, key, dflt, kinds) ==
    LET f == map_find(h, p, key)
        x == Elems(h, p)[f.i + 1][2]
        r == IF f.found THEN Ok(slot_drop(slot_dup(h, kinds[2], x), kinds[2], dflt), x)
             ELSE Ok(h, dflt)
    IN  Ok(drop(slot_drop(r.h, kinds[1], key), p), r.p)
map_has(h, p, key, kind) == Ok(drop(slot_drop(h, kind, key), p), map_find(h, p, key).found)
map_remove(h, p, key, kind) ==
    LET o == owned(h, p)
        f == map_find(o.h, o.p, key)
        es == Elems(o.h, o.p)
        e == es[f.i + 1]
        head == Header(o.h, o.p)
        gone == Store(slot_drop(slot_drop(o.h, head[1], e[1]), head[2], e[2]), o.p,
                      RemoveAt(es, f.i + 1))
    IN  Ok(slot_drop(IF f.found THEN gone ELSE o.h, kind, key), o.p)

set_new(h, kind) == malloc(h, Object("Set", <<kind>>, 0, <<>>))
set_add(h, p, x, kind) ==
    LET o == owned(IF Count(h, p) = 0 THEN Retag(h, p, <<kind>>) ELSE h, p)
        f == set_find(o.h, o.p, x)
        g == grow(o.h, o.p)
    IN  IF f.found THEN Ok(slot_drop(o.h, Header(o.h, o.p)[1], x), o.p)
        ELSE Ok(Store(g.h, g.p, InsertAt(Elems(o.h, o.p), f.i + 1, x)), g.p)
set_has(h, p, x, kind) == Ok(drop(slot_drop(h, kind, x), p), set_find(h, p, x).found)
set_remove(h, p, x, kind) ==
    LET o == owned(h, p)
        f == set_find(o.h, o.p, x)
        xs == Elems(o.h, o.p)
        gone == Store(slot_drop(o.h, Header(o.h, o.p)[1], xs[f.i + 1]), o.p, RemoveAt(xs, f.i + 1))
    IN  Ok(slot_drop(IF f.found THEN gone ELSE o.h, kind, x), o.p)

\* A fresh array of kind out of the elements xs of p, each copied.
enumerate(h, p, xs, src, out) ==
    LET a == FoldLeft(LAMBDA r, x : array_push(slot_dup(r.h, src, x), r.p, x, out),
                      array_new(h, out), xs)
    IN  Ok(drop(a.h, p), a.p)
map_keys(h, p, src, out) == enumerate(h, p, [i \in 1..Count(h, p) |-> Elems(h, p)[i][1]], src, out)
map_values(h, p, src, out) == enumerate(h, p, [i \in 1..Count(h, p) |-> Elems(h, p)[i][2]], src, out)
set_to_array(h, p, src, out) == enumerate(h, p, Elems(h, p), src, out)

\* Rendering into one growing buffer.
text == [map |-> <<77, 97, 112, 91>>, set |-> <<83, 101, 116, 91>>, close |-> <<93>>,
         comma |-> <<44, 32>>, colon |-> <<58, 32>>,
         true |-> <<116, 114, 117, 101>>, false |-> <<102, 97, 108, 115, 101>>]
sb_slot(h, kind, x) ==
    CASE kind = "Str" -> Elems(h, x)
      [] kind = "Bool" -> IF x THEN text.true ELSE text.false
      [] OTHER -> decimal(x)
rendered(open, parts) ==
    open \o FlattenSeq([i \in DOMAIN parts |-> (IF i > 1 THEN text.comma ELSE <<>>) \o parts[i]])
    \o text.close
map_show(h, p) ==
    LET kinds == Header(h, p)
        s == str_lit(h, rendered(text.map, [i \in 1..Count(h, p) |->
                 sb_slot(h, kinds[1], Elems(h, p)[i][1]) \o text.colon
                 \o sb_slot(h, kinds[2], Elems(h, p)[i][2])]))
    IN  Ok(drop(s.h, p), s.p)
set_show(h, p) ==
    LET s == str_lit(h, rendered(text.set, [i \in 1..Count(h, p) |->
                 sb_slot(h, Header(h, p)[1], Elems(h, p)[i])]))
    IN  Ok(drop(s.h, p), s.p)

-----------------------------------------------------------------------------
(* Equality reads the heap only                                            *)

\* Values of a map are never cells, arrays or vectors (native_map_value_ok).
slot_eq(h, kind, x, y) ==
    CASE kind = "Str" -> streq(h, x, y) [] kind = "Bytes" -> byteseq(h, x, y) [] OTHER -> x = y
map_eq(h, a, b) ==
    /\ Count(h, a) = Count(h, b)
    /\ \A i \in 1..Count(h, a) :
          /\ key_cmp(h, Header(h, a)[1], Elems(h, a)[i][1], Elems(h, b)[i][1]) = 0
          /\ slot_eq(h, Header(h, a)[2], Elems(h, a)[i][2], Elems(h, b)[i][2])
set_eq(h, a, b) ==
    /\ Count(h, a) = Count(h, b)
    /\ \A i \in 1..Count(h, a) : key_cmp(h, Header(h, a)[1], Elems(h, a)[i], Elems(h, b)[i]) = 0

\* Arrays in cells are compared by address.
RECURSIVE eq(_, _, _)
eq(h, a, b) ==
    LET same(kind, x, y) ==
            CASE kind = "Str" -> streq(h, x, y)
              [] kind = "Ref" -> eq(h, x, y)
              [] kind = "Bytes" -> byteseq(h, x, y)
              [] kind = "Vector" -> veceq(h, x, y)
              [] kind = "Map" -> map_eq(h, x, y)
              [] kind = "Set" -> set_eq(h, x, y)
              [] OTHER -> x = y
    IN  /\ Header(h, a) = Header(h, b)
        /\ \A i \in 1..Count(h, a) :
              same(FieldKinds[Header(h, a)[1]][i], Elems(h, a)[i], Elems(h, b)[i])
=============================================================================
