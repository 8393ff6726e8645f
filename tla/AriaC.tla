-------------------------------- MODULE AriaC --------------------------------
(***************************************************************************)
(* The run-time library of the C backend (src/src/c_backend.rs, RUNTIME):  *)
(* reference-counted objects from malloc.  A helper owns the references it *)
(* is given; an update of an object with one reference overwrites it (a    *)
(* reuse), any other update works on a clone.                              *)
(*                                                                         *)
(* An object is a record: what it is (k), its count, the rest of its header*)
(* (head: the kinds of its elements, the shape of a tensor, the constructor*)
(* of a cell), its capacity and its elements.  An address is a number.     *)
(***************************************************************************)
EXTENDS Integers, Sequences, FiniteSetsExt, SequencesExt, TLC

CONSTANTS
    FieldKinds, \* the kinds of the fields of each constructor
    FAdd(_, _), FSub(_, _), FMul(_, _),
    FDot(_, _), FCosine(_, _), FNorm(_), Narrow(_), Widen(_), Act(_, _),
    MAX_ELEMS   \* ARIA_MAX_TENSOR_ELEMS

\* The kinds that aria_slot_dup and aria_slot_drop count.
SlotKinds == {"Str", "Ref", "Bytes", "Vector", "Array", "Map", "Set"}

NoObjects == [mem |-> <<>>, live |-> 0, reuses |-> 0]
Ok(h, p) == [h |-> h, p |-> p, ok |-> TRUE]
Trapped == [h |-> NoObjects, p |-> 0, ok |-> FALSE]

Put(h, p, o) == [h EXCEPT !.mem = p :> o @@ h.mem]
\* malloc returns an address that is not in use, realloc one that was not.
malloc(h, o) ==
    LET p == Min((1..(Cardinality(DOMAIN h.mem) + 1)) \ DOMAIN h.mem)
    IN  Ok([Put(h, p, o) EXCEPT !.live = @ + 1], p)
free(h, p) ==
    [h EXCEPT !.mem = [q \in DOMAIN h.mem \ {p} |-> h.mem[q]], !.live = @ - 1]
realloc(h, p, cap) ==
    LET r == malloc(h, [h.mem[p] EXCEPT !.cap = cap]) IN Ok(free(r.h, p), r.p)

Object(k, head, cap, xs) == [k |-> k, rc |-> 1, head |-> head, cap |-> cap, xs |-> xs]
Elems(h, p) == h.mem[p].xs
Count(h, p) == Len(Elems(h, p))
Header(h, p) == h.mem[p].head
Store(h, p, xs) == Put(h, p, [h.mem[p] EXCEPT !.xs = xs])
Retag(h, p, head) == Put(h, p, [h.mem[p] EXCEPT !.head = head])
Reused(h) == [h EXCEPT !.reuses = @ + 1]
Unique(h, p) == h.mem[p].rc = 1
AtLeastOne(n) == IF n > 0 THEN n ELSE 1
Within(i, n) == i >= 0 /\ i < n

-----------------------------------------------------------------------------
(* Copies and drops                                                        *)

\* The references in an object, each with the kind it is reached by.
Refs(h, p) ==
    LET o == h.mem[p]
        each(k, xs) == IF k \in SlotKinds THEN [i \in DOMAIN xs |-> <<k, xs[i]>>] ELSE <<>>
    IN  CASE o.k \in {"Array", "Set"} -> each(o.head[1], o.xs)
          [] o.k = "Map" -> FlattenSeq([i \in DOMAIN o.xs |-> each(o.head[1], <<o.xs[i][1]>>)
                                                          \o each(o.head[2], <<o.xs[i][2]>>)])
          [] o.k = "Ref" -> FlattenSeq([i \in DOMAIN o.xs |->
                                IF FieldKinds[o.head[1]][i] = "Tensor" THEN <<<<"Tensor", o.xs[i]>>>>
                                ELSE each(FieldKinds[o.head[1]][i], <<o.xs[i]>>)])
          [] OTHER -> <<>>

dup(h, p) == Put(h, p, [h.mem[p] EXCEPT !.rc = @ + 1])
slot_dup(h, kind, x) == IF kind \in SlotKinds THEN dup(h, x) ELSE h

RECURSIVE drop(_, _)
drop_children(h, p) == FoldLeft(LAMBDA g, e : drop(g, e[2]), h, Refs(h, p))
drop(h, p) ==
    LET g == Put(h, p, [h.mem[p] EXCEPT !.rc = @ - 1])
    IN  IF g.mem[p].rc > 0 THEN g ELSE free(drop_children(g, p), p)
slot_drop(h, kind, x) == IF kind \in SlotKinds THEN drop(h, x) ELSE h

\* The cell, its fields released, is the token; a shared one gives none.
drop_reuse(h, p) ==
    LET g == Put(h, p, [h.mem[p] EXCEPT !.rc = @ - 1])
    IN  IF g.mem[p].rc > 0 THEN Ok(g, 0) ELSE Ok(drop_children(g, p), p)

clone(h, p) ==
    LET r == malloc(h, [h.mem[p] EXCEPT !.rc = 1, !.cap = AtLeastOne(Count(h, p))])
    IN  Ok(FoldLeft(LAMBDA g, e : dup(g, e[2]), r.h, Refs(h, p)), r.p)
grow(h, p) ==
    LET cap == h.mem[p].cap
    IN  IF Count(h, p) < cap THEN Ok(h, p) ELSE realloc(h, p, IF cap > 0 THEN 2 * cap ELSE 4)

\* Mutant: the clone replaces the original, which keeps its reference.
owned_kept(h, p) == IF Unique(h, p) THEN Ok(Reused(h), p) ELSE clone(h, p)
\* Mutant: an update in place is not counted.
owned_uncounted(h, p) ==
    IF Unique(h, p) THEN Ok(h, p) ELSE LET c == clone(h, p) IN Ok(drop(c.h, p), c.p)

\* What an update may overwrite: the object, or a clone after it was dropped.
owned(h, p) ==
    IF Unique(h, p) THEN Ok(Reused(h), p)
    ELSE LET c == clone(h, p) IN Ok(drop(c.h, p), c.p)

-----------------------------------------------------------------------------
(* Cells and strings                                                       *)

ctor(h, c, xs) == malloc(h, Object("Ref", <<c>>, Len(xs), xs))
\* aria_reuse keeps the slot of the cell whose fields were released.
ctor_reuse(h, tok, c, xs) ==
    IF tok = 0 THEN ctor(h, c, xs)
    ELSE Ok(Reused(Put(h, tok, Object("Ref", <<c>>, Len(xs), xs))), tok)

str_lit(h, s) == malloc(h, Object("Str", <<>>, Len(s), s))
streq(h, a, b) == Elems(h, a) = Elems(h, b)
concat(h, a, b) ==
    LET r == str_lit(h, Elems(h, a) \o Elems(h, b)) IN Ok(drop(drop(r.h, a), b), r.p)

\* printf's %lld
RECURSIVE decimal(_)
decimal(n) == IF n < 0 THEN <<45>> \o decimal(-n)
              ELSE (IF n > 9 THEN decimal(n \div 10) ELSE <<>>) \o <<48 + (n % 10)>>
int_to_str(h, n) == str_lit(h, decimal(n))

key_cmp(h, kind, a, b) ==
    LET sign(x, y) == IF x < y THEN -1 ELSE IF x > y THEN 1 ELSE 0
        s == Elems(h, a)
        t == Elems(h, b)
        diff == {i \in DOMAIN s \cap DOMAIN t : s[i] # t[i]}
    IN  IF kind # "Str" THEN sign(a, b)
        ELSE IF diff = {} THEN sign(Len(s), Len(t)) ELSE sign(s[Min(diff)], t[Min(diff)])

-----------------------------------------------------------------------------
(* Arrays                                                                  *)

array_new(h, kind) == malloc(h, Object("Array", <<kind>>, 0, <<>>))
len_(h, p) == Ok(drop(h, p), Count(h, p))

array_get(h, p, i) ==
    IF ~Within(i, Count(h, p)) THEN Trapped
    ELSE LET x == Elems(h, p)[i + 1] IN Ok(drop(slot_dup(h, Header(h, p)[1], x), p), x)

array_set(h, p, i, x) ==
    LET o == owned(h, p)
        g == slot_drop(o.h, Header(h, p)[1], Elems(h, p)[i + 1])
    IN  IF ~Within(i, Count(h, p)) THEN Trapped
        ELSE Ok(Store(g, o.p, [Elems(h, p) EXCEPT ![i + 1] = x]), o.p)

append(h, p, x) == LET g == grow(h, p) IN Ok(Store(g.h, g.p, Append(Elems(h, p), x)), g.p)
\* The kind of an empty array is that of the element that comes in.
array_push(h, p, x, kind) ==
    LET o == owned(IF Count(h, p) = 0 THEN Retag(h, p, <<kind>>) ELSE h, p)
    IN  append(IF Unique(h, p) THEN o.h ELSE Retag(o.h, o.p, <<kind>>), o.p, x)
array_lit(h, kind, xs) ==
    FoldLeft(LAMBDA r, x : array_push(r.h, r.p, x, kind), array_new(h, kind), xs)

-----------------------------------------------------------------------------
(* Bytes                                                                   *)

Byte(v) == v \in 0..255
bytes_of(h, s) == malloc(h, Object("Bytes", <<>>, Len(s), s))
bytes_get(h, p, i) ==
    IF ~Within(i, Count(h, p)) THEN Trapped ELSE Ok(drop(h, p), Elems(h, p)[i + 1])
bytes_set(h, p, i, v) ==
    LET o == owned(h, p)
    IN  IF ~Within(i, Count(h, p)) \/ ~Byte(v) THEN Trapped
        ELSE Ok(Store(o.h, o.p, [Elems(h, p) EXCEPT ![i + 1] = v]), o.p)
bytes_push(h, p, v) ==
    LET o == owned(h, p) IN IF ~Byte(v) THEN Trapped ELSE append(o.h, o.p, v)
bytes_from_str(h, p) == LET b == bytes_of(h, Elems(h, p)) IN Ok(drop(b.h, p), b.p)

\* How many bytes follow the lead byte c and the range of the first; -1: none may.
utf8_lead(c) ==
    CASE c < 128 -> <<0, 128, 191>>
      [] c \in 194..223 -> <<1, 128, 191>>
      [] c \in 224..239 -> <<2, IF c = 224 THEN 160 ELSE 128, IF c = 237 THEN 159 ELSE 191>>
      [] c \in 240..244 -> <<3, IF c = 240 THEN 144 ELSE 128, IF c = 244 THEN 143 ELSE 191>>
      [] OTHER -> <<-1, 0, 0>>
RECURSIVE utf8_valid(_)
utf8_valid(s) ==
    s = <<>> \/ LET l == utf8_lead(s[1]) IN
                /\ l[1] >= 0 /\ l[1] < Len(s)
                /\ l[1] >= 1 => s[2] \in l[2]..l[3]
                /\ \A k \in 3..(l[1] + 1) : s[k] \in 128..191
                /\ utf8_valid(SubSeq(s, l[1] + 2, Len(s)))
bytes_to_str(h, p) ==
    LET s == str_lit(h, Elems(h, p))
    IN  IF ~utf8_valid(Elems(h, p)) THEN Trapped ELSE Ok(drop(s.h, p), s.p)
byteseq(h, a, b) == Elems(h, a) = Elems(h, b)
=============================================================================
