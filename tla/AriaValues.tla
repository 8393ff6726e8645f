------------------------------ MODULE AriaValues ------------------------------
(***************************************************************************)
(* What the memory model of Aria promises to a program: variables hold     *)
(* immutable values.  There is no heap, no reference count and no sharing  *)
(* here.  A slot holds a value (a tree) or nothing, every operation builds *)
(* its result from the values of its operands, and no operation changes    *)
(* what any other slot holds.  AriaHeap implements this with counted cells *)
(* that are overwritten in place (src/src/ir.rs); its property             *)
(* ImplementsValues says that the overwriting can never be seen.           *)
(***************************************************************************)
EXTENDS Naturals, Sequences

CONSTANTS
    Slot,        \* the owned references of the running program
    Scalar,      \* unboxed values
    Nil,         \* no value
    Tags,        \* constructors, lifted lambdas and the array tags
    ARRAY_TAG,
    BYTES_TAG,
    MaxLen       \* bound on the number of fields of a value

VARIABLE val     \* val[s]: the value slot s holds, or Nothing

\* A tree is a tag with its fields; a field is a tree or a scalar.
Tree(c, fs) == [tag |-> c, fields |-> fs]

\* An empty slot, which no tree is like.
Nothing == Tree(Nil, <<>>)

\* Operations are relations between the store v before and w after.
Full(v, s) == v[s] # Nothing

\* Operands: slots, whose values move into the result, and scalars.
Operands(v, n) ==
    {g \in [1..n -> Slot \cup Scalar] :
        /\ \A i \in 1..n : g[i] \in Slot => Full(v, g[i])
        /\ \A i, j \in 1..n : i # j /\ g[i] \in Slot => g[i] # g[j]}

Value(v, x) == IF x \in Slot THEN v[x] ELSE x

\* The store after the operands g moved away and the result r arrived in t.
Yield(v, g, t, r) ==
    [s \in Slot |-> IF s = t THEN r
                    ELSE IF \E i \in DOMAIN g : g[i] = s THEN Nothing ELSE v[s]]

Landing(v, g, t) == ~Full(v, t) \/ \E i \in DOMAIN g : g[i] = t

-----------------------------------------------------------------------------

Build(v, w, c, n, t) ==
    \E g \in Operands(v, n) :
        /\ Landing(v, g, t)
        /\ w = Yield(v, g, t, Tree(c, [i \in 1..n |-> Value(v, g[i])]))

Copy(v, w, s, t) == Full(v, s) /\ ~Full(v, t) /\ w = [v EXCEPT ![t] = v[s]]

Discard(v, w, S) == w = [s \in Slot |-> IF s \in S THEN Nothing ELSE v[s]]

\* A field of the value in s is read into t; s itself may be consumed.
Project(v, w, s, i, t, consume) ==
    /\ Full(v, s) /\ ~Full(v, t)
    /\ i \in DOMAIN v[s].fields
    /\ w = [v EXCEPT ![t] = v[s].fields[i],
                     ![s] = IF consume THEN Nothing ELSE @]

\* Fields of the value in s are read into the empty slots T.
ProjectAll(v, w, s, T) ==
    /\ Full(v, s) /\ \A t \in T : ~Full(v, t)
    /\ \E m \in [T -> DOMAIN v[s].fields] :
          w = [t \in Slot |-> IF t \in T THEN v[s].fields[m[t]] ELSE v[t]]

\* The aggregate in s, with element i replaced by x (or extended with it), is
\* delivered in t; s and x are consumed.
Update(v, w, s, i, x, t) ==
    /\ Full(v, s) /\ v[s].tag \in {ARRAY_TAG, BYTES_TAG}
    /\ i \in 1..(Len(v[s].fields) + 1)
    /\ x # s /\ (x \in Slot => Full(v, x))
    /\ Landing(v, <<s, x>>, t)
    /\ LET fs == v[s].fields
           upd == [j \in DOMAIN fs \cup {i} |-> IF j = i THEN Value(v, x) ELSE fs[j]]
       IN  w = Yield(v, <<s, x>>, t, Tree(v[s].tag, upd))

Step(v, w) ==
    \/ \E c \in Tags, n \in 0..MaxLen, t \in Slot : Build(v, w, c, n, t)
    \/ \E s, t \in Slot : Copy(v, w, s, t)
    \/ \E S \in SUBSET Slot : Discard(v, w, S)
    \/ \E s, t \in Slot, i \in 1..MaxLen, b \in BOOLEAN : Project(v, w, s, i, t, b)
    \/ \E s \in Slot, T \in SUBSET Slot : ProjectAll(v, w, s, T)
    \/ \E s, t \in Slot, i \in 1..MaxLen, x \in Slot \cup Scalar :
          Update(v, w, s, i, x, t)

Init == val = [s \in Slot |-> Nothing]

\* The singletons only name the two stores, for TLC to evaluate them once.
Next == \E v \in {val}, w \in {val'} : Step(v, w)

Spec == Init /\ [][Next]_val
=============================================================================
