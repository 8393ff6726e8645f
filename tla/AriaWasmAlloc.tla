---------------------------- MODULE AriaWasmAlloc ----------------------------
(***************************************************************************)
(* The allocator that the WebAssembly backend emits into every module      *)
(* (src/src/wasm.rs): a bump pointer and one free list per size class, in  *)
(* a linear memory of 8-byte slots.  A block of class n is a header of two *)
(* slots and n payload slots; a freed block holds the link of its list in  *)
(* its second slot, over what was the tag or the length of the object.     *)
(*                                                                         *)
(* Addresses count slots.  Every other slot of a freed block is Stale: no  *)
(* helper may read it, so what the code leaves there is not kept.          *)
(***************************************************************************)
EXTENDS Naturals, Sequences

CONSTANTS
    HEAP_BASE,        \* first address of the heap, after the bookkeeping
    MaxSlots,         \* bound: addresses of linear memory
    STR_MAX_CLASS,    \* largest class of a string
    TENSOR_MAX_CLASS, \* largest class of every other sized object
    MaxArity,         \* largest constructor arity of the program
    Stale             \* the contents of a slot nobody may read

CELL_HEADER == 2

FreeListClasses ==
    0..(CHOOSE m \in {STR_MAX_CLASS, TENSOR_MAX_CLASS, MaxArity} :
            \A k \in {STR_MAX_CLASS, TENSOR_MAX_CLASS, MaxArity} : k <= m)

\* A heap: the slots, the bump pointer, the list heads, __live and __reuses.
EmptyHeap ==
    [mem |-> [a \in HEAP_BASE..MaxSlots |-> Stale], bump |-> HEAP_BASE,
     fl |-> [n \in FreeListClasses |-> 0], live |-> 0, reuses |-> 0]

Write(h, p, ws) ==
    [h EXCEPT !.mem = [a \in DOMAIN h.mem |->
                          IF a \in p..(p + Len(ws) - 1) THEN ws[a - p + 1] ELSE h.mem[a]]]

Alloc(h, n) ==
    LET head == h.fl[n]
        p == IF head # 0 THEN head ELSE h.bump
        g == IF head # 0 THEN [h EXCEPT !.fl[n] = h.mem[head + 1]]
             ELSE [h EXCEPT !.bump = @ + CELL_HEADER + n]
    IN  [h |-> [g EXCEPT !.mem[p] = 1, !.live = @ + 1], p |-> p]

\* Mutant: the block is linked into the list of the next larger class.
Free_WrongClass(h, p, n) ==
    LET k == IF n + 1 \in FreeListClasses THEN n + 1 ELSE n
    IN  [Write(h, p, <<Stale, h.fl[k]>> \o [i \in 1..n |-> Stale])
            EXCEPT !.fl[k] = p, !.live = @ - 1]

Free(h, p, n) ==
    [Write(h, p, <<Stale, h.fl[n]>> \o [i \in 1..n |-> Stale])
        EXCEPT !.fl[n] = p, !.live = @ - 1]

\* Sizes.  A request beyond the largest class is served by that class.
Clamped(n, m) == IF n > m THEN m ELSE n

\* The free list of class n, walked from its head along the links; the heap
\* below the bump pointer has no room for a longer walk.
FreeBlocks(h, n) ==
    LET walk[k \in Nat] ==
            IF k = 0 THEN {h.fl[n]} \ {0}
            ELSE LET met == walk[k - 1] IN met \cup ({h.mem[p + 1] : p \in met} \ {0})
    IN  walk[h.bump]
=============================================================================
