----------------------------- MODULE AriaBackends -----------------------------
(***************************************************************************)
(* One program run by the interpreter and by the compiled backend: each    *)
(* instruction is a call of a builtin on owned values that the type checker*)
(* accepts, and every backend executes it.  The reference counts are those *)
(* that the rc pass inserts: an operand is consumed, a value used again has*)
(* been copied (Copy), a value no longer needed is dropped (Discard).      *)
(*                                                                         *)
(* A program is a record: the builtins it uses, the kinds of the elements, *)
(* keys and values of its collections, its literals and constructors, and   *)
(* how many locals and how much of the heap it uses.                       *)
(***************************************************************************)
EXTENDS AriaCollections

CONSTANTS
    Programs,
    HEAP_BASE, MaxSlots, STR_MAX_CLASS, TENSOR_MAX_CLASS, MaxArity, Stale,
    CHARS, FLOATS, CtorTags, FieldKinds, MAX_ELEMS, HALF_WORD

\* A freed cell's link is no tag: the heap lies above them all.
ASSUME TagsBelowHeap == Len(CtorTags) <= HEAP_BASE

VARIABLES
    prog,    \* the program
    steps,   \* bound: instructions it may still execute
    wheap, wloc, wout,   \* the program compiled to WebAssembly
    cheap, cloc, cout    \* the program compiled to C

Wasm == INSTANCE AriaWasmRun
Native == INSTANCE AriaCRun

vars == <<prog, steps, val, typ, out, wheap, wloc, wout, cheap, cloc, cout>>

-----------------------------------------------------------------------------
(* What the type checker accepts: the types of the operands and the result *)

Sig(name) ==
    LET S == <<"Str">>
        B == <<"Bytes">>
        V == <<"Vector">>
        T == <<"Tensor">>
        I == <<"Int">>
        F == <<"Float">>
        Bool == <<"Bool">>
        E == <<prog.elem>>
        A == <<"Array", prog.elem>>
        AF == <<"Array", "Float">>
        K == <<prog.key>>
        X == <<prog.value>>
        M == <<"Map", prog.key, prog.value>>
        Z == <<"Set", prog.key>>
    IN  CASE name \in {"add", "sub", "mul", "div", "mod"} -> <<<<I, I>>, I>>
          [] name = "neg" -> <<<<I>>, I>>
          [] name \in {"lt", "le", "gt", "ge"} -> <<<<I, I>>, Bool>>
          [] name = "concat" -> <<<<S, S>>, S>>
          [] name = "int_to_str" -> <<<<I>>, S>>
          [] name = "array_new" -> <<<<>>, A>>
          [] name = "array_lit" -> <<<<E, E>>, A>>
          [] name = "array_len" -> <<<<A>>, I>>
          [] name = "array_get" -> <<<<A, I>>, E>>
          [] name = "array_set" -> <<<<A, I, E>>, A>>
          [] name = "array_push" -> <<<<A, E>>, A>>
          [] name = "bytes_new" -> <<<<>>, B>>
          [] name = "bytes_len" -> <<<<B>>, I>>
          [] name = "bytes_get" -> <<<<B, I>>, I>>
          [] name = "bytes_set" -> <<<<B, I, I>>, B>>
          [] name = "bytes_push" -> <<<<B, I>>, B>>
          [] name = "bytes_from_str" -> <<<<S>>, B>>
          [] name = "bytes_to_str" -> <<<<B>>, S>>
          [] name = "vec_new" -> <<<<>>, V>>
          [] name = "vec_from_array" -> <<<<AF>>, V>>
          [] name = "vec_to_array" -> <<<<V>>, AF>>
          [] name = "vec_len" -> <<<<V>>, I>>
          [] name = "vec_get" -> <<<<V, I>>, F>>
          [] name = "vec_push" -> <<<<V, F>>, V>>
          [] name \in {"vec_add", "vec_sub"} -> <<<<V, V>>, V>>
          [] name = "vec_scale" -> <<<<V, F>>, V>>
          [] name \in {"vec_dot", "vec_cosine"} -> <<<<V, V>>, F>>
          [] name = "vec_norm" -> <<<<V>>, F>>
          [] name = "tensor_zeros" -> <<<<I, I>>, T>>
          [] name = "tensor_set" -> <<<<T, I, I, F>>, T>>
          [] name = "tensor_get" -> <<<<T, I, I>>, F>>
          [] name \in {"tensor_rows", "tensor_cols"} -> <<<<T>>, I>>
          [] name = "tensor_row" -> <<<<T, I>>, V>>
          [] name = "tensor_from_rows" -> <<<<<<"Array", "Vector">>>>, T>>
          [] name = "matmul" -> <<<<T, T>>, T>>
          [] name \in {"transpose", "relu", "softmax"} -> <<<<T>>, T>>
          [] name = "map_new" -> <<<<>>, M>>
          [] name = "map_insert" -> <<<<M, K, X>>, M>>
          [] name = "map_get_or" -> <<<<M, K, X>>, X>>
          [] name = "map_has" -> <<<<M, K>>, Bool>>
          [] name = "map_len" -> <<<<M>>, I>>
          [] name = "map_remove" -> <<<<M, K>>, M>>
          [] name = "map_show" -> <<<<M>>, S>>
          [] name = "map_keys" -> <<<<M>>, <<"Array", prog.key>>>>
          [] name = "map_values" -> <<<<M>>, <<"Array", prog.value>>>>
          [] name = "set_new" -> <<<<>>, Z>>
          [] name = "set_add" -> <<<<Z, K>>, Z>>
          [] name = "set_has" -> <<<<Z, K>>, Bool>>
          [] name = "set_len" -> <<<<Z>>, I>>
          [] name = "set_remove" -> <<<<Z, K>>, Z>>
          [] name = "set_show" -> <<<<Z>>, S>>
          [] name = "set_to_array" -> <<<<Z>>, <<"Array", prog.key>>>>

\* The values an operand of type ty may be: an owned local or a literal scalar.
Candidates(ty) ==
    {s \in Slot : typ[s] = ty} \cup {x \in prog.literals : ty = <<x[1]>>}
OperandChoices(tys) ==
    LET some == FoldLeft(LAMBDA acc, ty : {Append(xs, x) : xs \in acc, x \in Candidates(ty)},
                         {<<>>}, tys)
    IN  {xs \in some : \A i, j \in DOMAIN xs : xs[i] \in Slot /\ xs[i] = xs[j] => i = j}

Free == IF Cardinality({s \in Slot : typ[s] # Nil}) < prog.locals
        THEN {s \in Slot : typ[s] = Nil} ELSE {}
\* A result takes the local of the first operand, or an empty one.
Targets(xs) ==
    LET ops == SelectSeq(xs, LAMBDA x : x \in Slot) IN IF ops = <<>> THEN Free ELSE {ops[1]}

-----------------------------------------------------------------------------

\* Bounds: the instructions of a program and its bump pointer.
Turn ==
    /\ Running /\ steps > 0 /\ wheap.bump <= prog.limit
    /\ steps' = steps - 1 /\ UNCHANGED prog

Instruction(name, xs, ty) == [name |-> name, clo |-> <<>>, held |-> <<>>, xs |-> xs, ty |-> ty]
Calls ==
    UNION {{Instruction(name, xs, Sig(name)[2]) : xs \in OperandChoices(Sig(name)[1])} :
               name \in prog.ops}
\* Applications of closures.  All lambdas of a program have the same type, so
\* that only the tag in a closure tells which one it is.
Function == <<"Data", "Function">>
Applied(s, op, held, sig) ==
    {[name |-> op, clo |-> <<s>>, held |-> held, xs |-> xs, ty |-> sig[2]] :
        xs \in OperandChoices(SubSeq(sig[1], Len(held) + 1, Len(sig[1])))}
Applications ==
    UNION {Applied(s, prog.lambdas[val[s][2][1]], prog.fields[val[s][2][1]],
                   Sig(prog.lambdas[val[s][2][1]])) : s \in {x \in Slot : typ[x] = Function}}
\* A match that takes one field of its scrutinee.
Projections ==
    UNION {LET tys == prog.fields[val[s][2][1]]
           IN  {Instruction("field", <<s, Int_(i - 1)>>, tys[i]) : i \in DOMAIN tys} :
               s \in {x \in Slot : typ[x] = <<"Data">>}}
\* == of two values.  emit_adt_eq refuses a program with a constructor whose
\* fields __eq cannot compare.
Refused(ty) ==
    ty[1] = "Data" /\ \E c \in prog.ctors :
        \E i \in DOMAIN FieldKinds[c] : FieldKinds[c][i] \in {"Array", "Bytes", "Map", "Set"}
Comparisons ==
    {Instruction("eq", <<p[1], p[2]>>, <<"Bool">>) :
        p \in {q \in Slot \X Slot :
                  /\ q[1] # q[2] /\ typ[q[1]] # Nil /\ typ[q[1]] = typ[q[2]]
                  /\ typ[q[1]][1] \in prog.eq /\ ~Refused(typ[q[1]])}}

\* The type that the name of a builtin carries: the one the checker gives the
\* `let`, or a guess where it has none.
Written(i) ==
    IF i.name \in {"map_new", "set_new", "array_new"} /\ ~prog.annotated
    THEN default_empty_elem(i.ty) ELSE i.ty

\* A builtin, an application, a comparison or a projection, executed by the
\* interpreter and by both backends.
Execute ==
    /\ Turn
    /\ \E i \in Calls \cup Applications \cup Projections \cup Comparisons : \E t \in Targets(i.clo \o i.xs) :
          Run(i, t) /\ Wasm!WRun(i, Written(i), t) /\ Native!CRun(i, Written(i), t)

\* A string literal.
StrLit ==
    /\ Turn
    /\ \E s \in prog.strings, t \in Free : Literal(s, t) /\ Wasm!WLiteral(s, t) /\ Native!CLiteral(s, t)

\* A constructor application, or a closure, which is a cell of what it captures
\* (locals and numbers) under a tag of its own.
Builds(c, xs, ty) ==
    \E t \in Targets(xs) :
        /\ Construct(c, xs, ty, t)
        /\ Wasm!WConstruct(c, xs, ty, t) /\ Native!CConstruct(c, xs, ty, t)
Ctor ==
    /\ Turn
    /\ \E c \in prog.ctors \cup DOMAIN prog.lambdas :
       \E xs \in OperandChoices(prog.fields[c]) :
          Builds(c, xs, IF c \in prog.ctors THEN <<"Data">> ELSE Function)
\* A match that rebuilds its scrutinee s with a constructor of the same number
\* of fields (try_reuse); it keeps some fields of s, which are copied first.
Match ==
    /\ Turn
    /\ \E s \in Slot, c \in prog.ctors :
          /\ typ[s] = <<"Data">>
          /\ LET from == prog.fields[val[s][2][1]]
                 to == prog.fields[c]
             IN  /\ Len(from) = Len(to)
                 /\ \E keep \in SUBSET {i \in DOMAIN to : from[i] = to[i]} :
                    \E xs \in OperandChoices(SelectSeq([i \in DOMAIN to |-> IF i \in keep THEN Nil ELSE to[i]],
                                                   LAMBDA ty : ty # Nil)) :
                       /\ \A i \in DOMAIN xs : xs[i] # s
                       /\ Rebuild(s, c, keep, xs, <<"Data">>, s)
                       /\ Wasm!WRebuild(s, c, keep, xs, <<"Data">>, s)
                       /\ Native!CRebuild(s, c, keep, xs, <<"Data">>, s)

Dup ==
    /\ Turn
    /\ \E s \in Slot, t \in Free : typ[s] # Nil /\ Copy(s, t) /\ Wasm!WCopy(s, t) /\ Native!CCopy(s, t)
Drop ==
    /\ Turn
    /\ \E s \in Slot : typ[s] # Nil /\ Discard(s) /\ Wasm!WDiscard(s) /\ Native!CDiscard(s)

Start == Init /\ Wasm!WInit /\ Native!CInit /\ prog \in Programs /\ steps = prog.steps

Next ==
    Execute \/ StrLit \/ Ctor \/ Match \/ Dup \/ Drop

Spec == Start /\ [][Next]_vars

-----------------------------------------------------------------------------
(* Properties                                                              *)

\* The program compiled to WebAssembly computes what the interpreter computes:
\* the same scalar or the same failure, and locals whose memory means the same
\* values (wasm.rs and interp.rs, every builtin).
AgreesWithInterpreter ==
    wout = out /\ \A s \in Slot : Wasm!WValue(s) = val[s]

\* So does the program compiled to C (c_backend.rs and interp.rs).
NativeAgrees ==
    cout = out /\ \A s \in Slot : Native!CValue(s) = val[s]

\* WebAssembly: every count is the number of references to the object, from
\* locals and from the fields and elements of the objects that locals reach,
\* and __live counts exactly those objects: nothing leaks, nothing is freed
\* while it is referenced (every helper of wasm.rs).
CountsExact ==
    LET os == Wasm!Objects
        from == [o \in os |-> Wasm!Children(wheap, o)]
        roots == Wasm!Roots
        held(o) == Cardinality({s \in DOMAIN roots : roots[s] = o})
                   + MapThenSumSet(LAMBDA q : Cardinality({i \in DOMAIN from[q] : from[q][i] = o}), os)
    IN  Running => /\ wheap.live = Cardinality(os)
                   /\ \A o \in os : wheap.mem[o[2]] = held(o)

\* C: every object is referenced exactly as often as it counts, by references
\* of its own kind (so that the function chosen by the kind drops it), holds no
\* more elements than were allocated, and aria_live counts them all.
NativeHeapSound ==
    LET held == Native!Held
        references(p) == MapThenSumSet(LAMBDA q : Cardinality({i \in DOMAIN held[q] : held[q][i][2] = p}),
                                       DOMAIN held)
    IN  Running =>
        /\ cheap.live = Cardinality(DOMAIN cheap.mem)
        /\ \A p \in DOMAIN cheap.mem :
              /\ cheap.mem[p].rc = references(p) /\ cheap.mem[p].rc > 0
              /\ Len(cheap.mem[p].xs) <= cheap.mem[p].cap
        /\ \A q \in DOMAIN held : \A i \in DOMAIN held[q] :
              held[q][i][2] \in DOMAIN cheap.mem /\ cheap.mem[held[q][i][2]].k = held[q][i][1]

\* WebAssembly: no two blocks overlap, whether live or on a free list, none
\* lies beyond the bump pointer, and a list holds blocks of its class only.
BlocksDisjoint ==
    LET objects == Wasm!Objects
        live == {Wasm!Extent(wheap, o) : o \in objects}
        free == UNION {{p..(p + 1 + n) : p \in Wasm!FreeBlocks(wheap, n)} : n \in Wasm!FreeListClasses}
        blocks == live \cup free
    IN  Running =>
        /\ MapThenSumSet(Cardinality, blocks) = Cardinality(UNION blocks)
        /\ Cardinality(live) = Cardinality(objects)
        /\ \A b \in blocks : b \subseteq HEAP_BASE..(wheap.bump - 1)

\* Both backends overwrite a unique object at the same instructions, unless
\* the program has tensors, which only C overwrites, or array literals, which
\* C builds by pushes.
SameReuses ==
    prog.ops \cap (TensorOps \cup {"array_lit"}) = {} => wheap.reuses = cheap.reuses
=============================================================================
