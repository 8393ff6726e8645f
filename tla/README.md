# Aria: a verification development

Aria (`src/`) is a small functional language written in Rust. A program is
parsed, type-checked, and either walked as a tree (`interp.rs`) or lowered to an
A-normal form with explicit reference counts (`ir.rs`, `rc.rs`), which an IR
interpreter, a WebAssembly backend and a C backend execute. Around the language
stand a compression codec, an embedding and retrieval library, an agent loop
that lets a model write Aria programs, and a language server.

This directory holds TLA+ models of the parts whose correctness depends on
long sequences of steps, the TLC configurations that check them on small
instances, and proofs, checked by TLAPS, for every value of their constants.

## Inventory

### The memory model: `ir.rs`, `rc.rs`

*State.* `Heap` (ir.rs:1180-1440): a vector of cells `Option<Cell>` with a tag, a
count `rc` and the fields; `Metrics`; a `call_depth`. The environment of a
running function maps a variable to an address or a scalar, or to a reuse token
(`Value::Token(Option<addr>)`).

*Operations.* Allocation (`Ctor`, `MakeClosure`, array and Bytes builders), `Dup`
and `Drop`, the recursive `drop_cell`, `DropReuse`/`CtorReuse` (a cell whose
count reached zero is kept and overwritten), `Apply` of a closure, and the
array operations that write in place when `rc == 1` and copy otherwise.

*Interaction.* `lower` flattens the tree to a sequence of bindings; `insert_rc`
adds a dup for every use but the last and a drop in each branch that does not
use a variable, and pairs drops of matched cells with later constructors;
`tail_call_optimize` turns self tail calls to jumps; an interpreter or a backend
executes the result. The passes agree about one thing that no type expresses:
*who owns a reference at each point*. A mistake in any pass appears far away, as
a double free, a leak or a wrong value.

*Hard.* The order inside a cascade of releases; sharing, where one cell is
reached twice during a cascade; tokens on paths that split; the array fast path,
which is only sound if every alias is counted; scrutinees borrowed by the binders
of an arm; names that are bound twice.

*Correct when* every count equals the number of references; nothing freed is
reachable and nothing live is unreachable; a token owns its cell alone; the
in-place updates cannot be told from copies; the compiled program computes what
the tree-walking interpreter computes and leaks nothing.

### The entropy coder: `rans.rs`

*State.* The encoder: a frequency table that sums to exactly `M`, a 32-bit word
`x`, a buffer that is filled from its end. The decoder: the table read back, `x`,
a read position. *Operations.* `count_freqs`, `normalize` (scale, then take the
excess or give the slack), `encode` (renormalise by bytes, then absorb a symbol,
last symbol first), flush, `decode`. *Interaction.* Encoder and decoder share
nothing but the blob; they must take the same renormalisation decisions in
opposite order. *Hard.* Boundaries: `x` against `x_max` and `RANS_BYTE_L`, symbols
of frequency 1 or `M`, the buffer's capacity, overflow of `x`, a table whose
rounding exceeds `M`, an output allocated at the length a blob names. *Correct when* decoding inverts encoding for every
message, a blob that lost its tail is refused, `x` never overflows and the buffer
is never too small.

### The agent loop: `agent.rs`, `agent_bench.rs`, `agent_tasks.rs`

*State.* The iteration, the current program, its diagnostics, the last output
and run-time error, the repair context. *Operations.* ask the provider, extract a
program, check, run, decide to stop or to repair. *Interaction.* A provider that
may fail, and programs that may not check, fail at run time, or succeed. *Hard.*
State kept from one iteration to the next, the budget, an error of the provider
in the middle. *Correct when* the reported outcome describes the reported program.

### The language server: `lsp.rs`

*State.* Whether `shutdown` was asked for; no document is kept, each notification brings the
whole text. *Operations.* frame, parse, dispatch, answer, publish diagnostics. Sequential over
one pipe. *Correct when* each request gets one answer, in order, diagnostics are
those of the text just received, and the exit code says whether shutdown came first.

### The tree-walking interpreter's run-time state: `interp.rs`

*State.* Thread-local call stack, captured output, autodiff tape, depth. *Hard.*
Early returns by `?` must restore what was pushed. *Correct when* every entry point
leaves the state as it found it and an error's trace is the chain of open calls.

### The typed front end: `typeck.rs`, `traits.rs`, `monomorphize.rs`

*State.* The checker: a substitution for its unknowns, the bounds of the function it is in, the
types of lambda parameters, which are found out of order. Monomorphisation: the types
and functions made so far, the names that were begun (`type_seen`, `fn_seen`), a table from mangled
names back to types, the depth of the specialisations under way. *Operations.* Unify and
synthesise; find a missing case of nested patterns; lower an interface to a dispatcher and one function per
implementation; from `main` on, specialise each function and type per set of type
arguments, make records positional, resolve methods. *Interaction.* What the checker accepts, the interpreter runs as it is and
the backends get specialised: two programs that must mean the same. *Hard.* Nested patterns
with constructors, literals and records; lambdas whose parameters are known only
after the other arguments; rigid parameters and their bounds; type arguments inferred from names that are
already mangled; polymorphic recursion, which only limits stop; record fields
in another order than declared. *Correct when* an accepted program is never stuck, a case
reported missing really is, and a specialised program has no type parameters, is well typed as it stands and
does what its source does.

### Other static passes: `shape.rs`, `analyze.rs`, `dataflow.rs`

Pure functions of the tree: symbolic dimensions of tensors, the call graph and purity, lints.
*Correct when* they compute the fixpoint they claim.

### Backends: `wasm.rs`, `c_backend.rs`, `grad_native.rs`

*State.* A program compiled to WebAssembly has a linear memory with a bump pointer, one free
list per size class, and two counters (`__live`, `__reuses`); objects are strings, arrays,
Bytes, vectors, tensors, maps, sets, constructor cells and closures, each with a count, a
length, a capacity and, where elements are counted, their kinds. A program compiled to C has
the same objects from `malloc`, and its own run-time library. *Operations.* Per kind of
object an allocation, a drop, a dup of elements, and the builtins; every builtin consumes its
operands and overwrites an object whose count is one. *Interaction.* The backends execute
the counted code of `rc.rs`; the static kinds that `monomorphize.rs` writes into the names
of builtins say how an object is dropped, shown and compared. *Hard.* Size classes and the
clamp of a class; an object that grows and moves; a copy that must count its elements while
the original loses one; kinds that are a guess; checked arithmetic on wrapped results.
*Correct when* both compute what the interpreter computes, fail where it fails, and neither
leaks nor frees too early.

### The binary range coder: `arith.rs`, `predict.rs`, `neural_codec.rs`

*State.* The encoder: the low end of an interval with an outstanding carry, its width, a cached
byte and a run of withheld bytes; the decoder: the offset of the stream in the same
interval; on both sides a model that learns from the bits. *Hard.* A carry arrives after the
bytes it changes; the two models must be asked and taught in the same order; a stream that
lost its end is read on as zeros; a probability at its limit. *Correct when* the
intervals are those of exact arithmetic coding and decoding gives the data back.

### Other parts

`pack.rs` (delta and zigzag coding of columns); `tensor*.rs`, `embed.rs`, `rag.rs`,
`transformer.rs` (floating point); `lexer.rs`, `parser.rs`, `ast.rs`,
`diagnostics.rs`, `gbnf.rs`, `prelude.rs`, `builtins.rs` (text and tables);
`main.rs` (commands), `proptest.rs` (generators of programs for tests).

Nothing in the repository runs concurrently: no threads share state and nothing
is persisted between two runs, so there are no interleavings of processes and no
crash recovery. What is hard is long legal sequences of operations and the order
of the steps inside one.

## Modules

| module | models | from |
| --- | --- | --- |
| `AriaValues` | what variables promise: immutable values, no sharing | the contract of ir.rs |
| `AriaHeap` | the cells, counts, cascades, tokens, closures, arrays and Bytes | ir.rs 1150-1760 |
| `AriaHeapProofs` | inductive invariant and theorems about `AriaHeap`: counts | |
| `AriaHeapValueProofs` | the same: reachability, cascades, the refinement of `AriaValues` | |
| `AriaInduction` | induction, recursive functions and division, for all the proofs | |
| `MCHeap` | instances of both | |
| `AriaAnf` | A-normal form, and what counted code owes on every path | ir.rs 36-126; the contract of rc.rs |
| `AriaIR` | the source forms and their lowering to A-normal form | ir.rs 216-855 |
| `AriaRc` | `insert_rc`, reuse, `tail_call_optimize`, and what they rely on | rc.rs, ir.rs 857-954 |
| `AriaRcProofs` | both passes balance every well-formed program | |
| `AriaIrInterp` | execution of A-normal form, counted or not | ir.rs 1150-1760 |
| `AriaInterp` | the tree walker, as the reference | interp.rs |
| `AriaMem` | composes them: `aria mem` from a checked program to its result | main.rs run_mem |
| `MCMem` | sets of programs for `AriaMem` | |
| `AriaRans` | the encoder, the blob and its damage, the decoder | rans.rs |
| `AriaRansProofs` | inductive invariant and theorems about `AriaRans` | |
| `MCRans` | scaled-down instances, messages, garbled blobs | |
| `AriaRun` | a run's depth, call stack, capture buffer and tape | interp.rs 207-384, 519-651, 793-856, 944-1182 |
| `AriaAgent` | `aria run`, the agent loop, the benchmark; all their runs share one thread | agent.rs, agent_bench.rs, agent_tasks.rs, main.rs |
| `AriaAgentMeaning` | what a run means, without state, and what the commands owe to it | the contracts of interp.rs and agent.rs |
| `AriaAgentProofs` | inductive invariants and theorems about `AriaRun` and `AriaAgent` | |
| `MCAgent` | programs, answers, tasks | |
| `AriaCollections` | what strings, arrays, Bytes, vectors, tensors, maps, sets and integers mean | interp.rs 1285-2172 |
| `AriaStatic` | the static kinds in the names of builtins | monomorphize.rs, atom types of the backends |
| `AriaArith` | checked integer arithmetic, three times | interp.rs 1243-1270, wasm.rs 4037-4181, c_backend.rs 1209-1254 |
| `AriaWasmAlloc`, `AriaWasm`, `AriaWasmCollections` | allocator, objects and helpers in linear memory | wasm.rs 4291-12524 |
| `AriaWasmRun` | instructions as WebAssembly | wasm.rs 1728-3943, 13475-13606 |
| `AriaC`, `AriaCCollections`, `AriaCRun` | the C library and the instructions as C | c_backend.rs 960-2385, 2498-3934 |
| `AriaBackendProofs` | arithmetic agrees; the allocator keeps blocks apart | |
| `AriaBackends` | composes interpreter, WebAssembly and C on one program | |
| `MCBackends` | families of programs | |
| `AriaPredict` | the two models of the next bit | arith.rs 178-207, predict.rs |
| `AriaInterval` | arithmetic coding in unbounded numbers | the contract of arith.rs |
| `AriaRange` | the range coder and its two codecs | arith.rs, neural_codec.rs |
| `AriaRangeProofs` | the encoder's invariant, that it implements `AriaInterval`, and that the decoder follows it | |
| `MCRange` | bytes of two bits, data | |
| `AriaTypes` | types, expressions, nested patterns, records; interfaces lowered to functions | ast.rs, traits.rs |
| `AriaCheck` | unification, synthesis, exhaustiveness, bounds | typeck.rs 211-512, 765-871, 1183-2405 |
| `AriaMono` | specialisation, mangled names, limits | monomorphize.rs |
| `AriaSurface` | the tree walker on the typed surface language | interp.rs 679-948, 1071-1117, 1285-1383 |
| `AriaFront` | composes them: check, interpret, specialise, run again | main.rs |
| `MCFront` | families of programs over a generic library | |

### `AriaHeap` and the code

One action stands for one instruction of the IR interpreter, with its whole
effect: `Construct` (Ctor, MakeClosure, `array_new`, literals, the Bytes builders),
`Dup`, `DupField` (a match arm binds and dups a field), `Drop` (and the read-only
builtins that consume their array), `DropCompared` (`==`), `DropReuse`, `CtorReuse`,
`Apply`, `Return`, `ArrayGet`, `ArraySet`, `ArrayPush`, `Fail`. A `Slot` is one owned reference: a
variable that was dup'd twice occupies two slots. What the rc pass may emit is
"an instruction consumes slots it owns", so every interleaving of instructions
that ownership allows is explored, not only those of some programs.

`drop_cell` is recursive. The recursion is a stack, `work`, and each release
(`ReleaseSlot`, `ReleaseField`, `FinishCell`) is a step, so that invariants are seen
between two steps of a cascade. As in the code the fields are taken out of the
cell before they are dropped; the mutant `ReleaseField_InPlace` shows why.

`dups`, `drops` and `peak_live` of `Metrics` are plain counters and left out; the
width of `rc` (u32) is abstracted to a natural number.

### `AriaIR` to `AriaMem` and the code

These are the passes as operators: `LowerProgram`, `InsertRc`, `TailCallOptimize`,
`RunMain`, each with the case analysis of the code on variables, constructors,
calls, function values, lambdas, blocks, `if` and `match` over one level of
constructors. Literals, arithmetic, records (which the lowering rejects), `&&`
and `||`, nested and literal patterns, expression statements and the gates of
builtins are left out: they add no way to own a reference. Iteration over hash sets is
replaced by one fixed order.

`AriaMem` is the pipeline as a state machine: lower, count, optionally optimise,
execute. `IrInterp` itself rejects a tail jump (ir.rs:1159), since `run_mem` does not
run that pass; executing optimised code in the model stands for the backends
that do (`wasm.rs`, `c_backend.rs`), with the jump as a loop. The comment at
ir.rs:1677 says that the rc pass drops an applied closure; the code drops it in
`Apply` (1731-1734) and so does the model.

`AriaAnf` has the forms of A-normal form, with the nested `let`, `dup` and `drop` of an expression as a
sequence of instructions. `Code` is the set of expressions nested up to `MaxNesting`; `Names` and `MaxNesting` are its
constants. A reuse token bears the name of the variable that was released, which nothing
names any more, where the code makes one up. `Balanced` judges counted code without running it. Its state
(`Knowledge`) at a point of a path is how many references each variable owns, of which scrutinee a
catch-all binder is another name, into whose cell the binder of a constructor arm points, which tokens are pending
and for how many fields, what is unboxed and in scope, and the variables with which something was wrong: more was consumed than
owned, something was gained from a cell that could be gone, a name was bound over a reference, a token was lost or used at
another size, or two branches left the variables in two ways. At the end of a body nothing is owned, no token is pending and nothing was wrong.

The passes are two steps of `AriaRc` on `stage` and `code`, which `AriaMem` runs between `LowerStep` and `Execute`. `WellFormed` says what
they rely on: no name is bound again where it is still needed (by what follows, as
the scrutinee of an open match, by another arm), binders of an arm are distinct, conditions are results of comparisons,
and there is no counting yet. `rc` recurses on the nesting of branches only: the conversion of a sequence is its `Spine`,
one piece of code per `let`, each from the free variables of what follows.

### `AriaRans` and the code

One action is one step of a loop of rans.rs: `TakeExcess` and `GiveSlack` (a round of
`normalize`), `EncodeByte` and `EncodeSymbol`, `Flush`, then `Open`, `DecodeSymbol`,
`DecodeByte`, `EndOfStream`, `Push`, `Finish`, and `Refuse` for the early returns. An empty message goes straight
to a blob with a header only, as in `compress`. `stream` is the part of the buffer that is
written, so that the copy at the end of `encode` is the identity on it. `Cut` and `Garble`
are what storage does to a blob and are not code. `decode` calls `Vec::with_capacity` with the length in the
blob's header before it decodes a symbol (rans.rs:211). `Open` is the case that it succeeds,
`CapacityOverflow` the panic for a length beyond `MaxCapacity` (`isize::MAX`), and `AllocationFails` the abort
when the allocator refuses, which it may for any length beyond `Memory`: between the two bounds both may happen. The
allocations of `compress`, in proportion to data that is in memory already, succeed, and memory that
was granted is there when it is written. The order of the two passes
of `normalize` is that of their guards (a table has an excess or a slack, not
both). The `u32` counts are natural numbers.

### `AriaRun`, `AriaAgent` and the code

A program is reduced to what touches the interpreter's state: its functions are
sequences of operations (print, fail, arithmetic, call by name, call of a function
value, gradient of a lambda, gradient over a new vector), a call passes a smaller number, and a body
does nothing at zero. `ctl` is the native stack. `Enter` and `Leave` are `run_main` with `with_call_stack`
and the capture wrapper; `Call`, `Apply` and `Grad` push the frame before they look
at the depth, and leave it when the limit is reached, as `push_frame` and the `?` after it do;
`TailSelfCall` is the loop of `eval_fn_body`; `Return` and `Unwind` are the two epilogues of a
call, one activation at a time, so that the state is seen half unwound. "no
main" stands for a main with parameters too. A site is a place in the source, not a
line.

`AriaAgent` runs these programs from three commands on one thread. A model may
answer anything out of `Answers` at each prompt, or fail. `last` holds the four variables
that `run_loop` keeps from one iteration to the next, `transcript` what was fed back.
`grade` is a second run of the program an outcome carries. `AriaAgentMeaning` evaluates a
program in one go, as a recursive function of the number that calls decrease: what every body does at
`n`, given what all of them do at `n - 1`. The depth, the gradient that is open and whether the
vector is traced are parameters of a body (`Contexts`) and the chain of calls is part of its result, so
there is nothing to restore; it is what reports are compared with.

### `AriaBackends` and the code

A program is a set of builtins, literals and constructors over a few locals. An action takes one
instruction that the type checker accepts (`Sig`, the table of builtins.rs) and executes it three
times: `AriaCollections` on values, as `builtin` of interp.rs does; `AriaWasmRun` on a linear
memory; `AriaCRun` on `malloc`ed objects. The instructions are those that the rc pass leaves: an
operand is consumed, a value that is used again was copied (`Dup`), one that is no longer
needed is dropped (`Drop`), a `match` that rebuilds its scrutinee reuses its cell (`Match`), a
closure is a cell under a tag of its own, applied by `Applications`.

The helpers of wasm.rs are functions that emit instructions one by one. The model gives each the effect
of the instructions it emits, on a memory of 8-byte slots, one slot per word: an address counts
slots, `Chain` overwrites the second slot of a freed block, and what a freed block holds
otherwise is `Stale`. The scans of maps and sets keep their order; loops that copy, dup
or drop elements are folds in the order of the code. `NativeHeapSound` and `CountsExact` compare the
counts of each heap with the references in it; `Wasm!WValue` and `Native!CValue` read a local's
memory back as a value. Floats are residues with a lossy conversion to f32, so that a missing
conversion or another order of operands is seen; rounding is not. Strings are sequences of bytes with UTF-8
validation as in the code.

`AriaArith` has the three versions of checked arithmetic, with `WORD` for 2^64: `int_op` of the
interpreter, the helpers that look at wrapped results in WebAssembly, and the `__builtin_*_overflow` calls of C.

### `AriaRange` and the code

`EncodeBit` and `ShiftLow` are the body and the loop of `encode_bit`, `Flush` a round of `finish`,
`DecodeBit` and `NextByte` the same of `decode_bit`. `codec` says which of the two codecs runs,
and with it which model is asked (`Consulted`) and taught (`Taught`): the order-0 model of arith.rs or the
context mixer of predict.rs in its integer arithmetic, with its two logistic tables as
constants. The hash of a context is the context, so two contexts never share a counter; both sides
would share it alike. `Store` may lose bytes at the end, `Open` is called by the decoder of either codec.
`AriaInterval` knows no bytes and no carry: an interval of unbounded numbers that is
narrowed and rescaled; what `AriaRange` has sent, withheld and kept in `low` must be its low end.

### `AriaTypes` to `AriaFront` and the code

The passes are operators on a program, a record of its types, functions, interfaces and implementations. `Int`
and `Bool` stand for the built-in types without parameters; an interface has one method. `WithTraits` is `lower` of
traits.rs: per method a dispatcher that matches on its receiver and one function per implementation, where, as
in the code, the dispatcher's body is not checked.

The checker threads its state `c` through every operator, and stops at the first error, as `?` does. Unknowns
are numbered (`Meta`), a declared parameter is rigid (`TVar`), and an unannotated lambda
parameter has the number of its hole, so that the type the checker settles on can be written back
(`Annotations`), since monomorphisation reads it. Lambda arguments are checked after the others.
`MissingWitness` is the matrix algorithm of the exhaustiveness check, with specialised and default
matrices and the witness it builds.

`AriaMono` is the recursion of `monomorphize.rs` with its tables as the state `m`. A type is marked
as begun before its fields are walked, so that recursive types end; a function likewise;
`MaxSpecializeDepth` and `MaxInstantiations` are `MAX_SPECIALIZE_DEPTH` and `MAX_INSTANTIATIONS`. A mangled
name is the string the code builds, with its separators, so that two types under one name would be seen. Types that calls want
are mangled before they are unified, as in the code.

`AriaFront` takes one program through `CheckProgram`, `Interpret`, `SpecialiseProgram` and `RunCompiled`.
"Interpret" tries every function of first order without type parameters on every small argument, not only
`main`. The specialised program is run by the same interpreter: what backends add is the matter of
`AriaMem` and `AriaBackends`. Inference of `IO`, tensor shapes, the signatures of builtins, strings and floats are left out.

## Runs

Twelve runs. All bounds are constants of the `.cfg` files or sets of the MC modules.

| run | question | instance | distinct states |
| --- | --- | --- | --- |
| `heap` | counts, tokens and in-place updates at every step of every cascade | 3 slots, 3 cells, 1 token, a constructor of arity 2, a lambda with one capture, arrays up to length 2, one open call; slots are symmetric | 64 207 |
| `heap_bytes` | the same with unboxed scalars (arrays of scalars, Bytes): in-place updates cannot be seen | 2 cells, 2 scalars, else as above | 45 949 |
| `mem` | lower, count, optimise, execute: no internal error, no leak, the tree walker's result, balanced paths, well-formed lowered code | 10 151 programs of one to three operations and recursive ones, 4 functions, 3 inputs; 32 names, branches nested up to 3 deep | 50 759 |
| `rans` | table, word, buffer, round trip, refusal of every truncation; blobs with arbitrary words, streams and tables | 8 symbols, `M` 8, radix 4; all messages up to length 4 over 3 symbols and 4 messages of up to 24 symbols; garbled blobs: 64 first words, 3 streams, 6 tables, 4 lengths: two small ones, one beyond `Memory` (24), one beyond `MaxCapacity` (32) | 718 342 |
| `agent` | interpreter state, meaning of runs, agent loop, benchmark | depth limit 3, numbers up to 6, bodies of up to 3 operations, 8 answers, budgets 0, 2 and 3, 2 tasks | 85 136 |
| `backends` | WebAssembly and C against the interpreter, counts, blocks, reuse | 14 programs, one per family of builtins: 3 locals, up to 7 instructions, collections up to length 3, words of 6 bits, size classes up to 8 and 12 | 62 325 |
| `range` | carries, intervals, lockstep of the models, cut streams, termination | bytes of 2 bits, 4 bytes to a word, 8 probabilities; all data of up to 3 bytes, half of those of 4, and 4 longer ones; up to 2 bytes cut | 25 904 |
| `typed` | checker, exhaustiveness, monomorphisation and the interpreter on one program | 2 625 programs over a library of 7 types, 11 functions and an interface; integers 0 to 2, values three levels deep, 5 nested specialisations, 8 nested calls | 10 987 |
| `shadow_block`, `wasm_oversize`, `wasm_capture`, `typed_bound` | see Findings | one or two programs each | counterexample |

What each shows:

- `heap`, `heap_bytes`: between any two steps of a cascade of releases the count
  of each cell is the number of places that refer to it (`RcExact`), so no freed cell is
  touched (`NoMemoryError`), nothing unreachable stays alive (`GarbageFree`), a token owns
  its cell alone (`TokensExclusive`), and the heap implements `AriaValues` (`ImplementsValues`): a variable
  denotes the same tree before and after every step that does not assign it. `CascadeShrinks` says that the
  recursion of `drop_cell` is bounded by the references there are.
- `mem`: no internal error (`NoInternalError`), no leak (`NothingLeaks`), the tree walker's
  result (`AgreesWithInterpreter`), and `EveryPathBalanced` for the paths that no input takes. `LoweredIsWellFormed` is the
  assumption of the theorem about the passes: the lowering gives them what they rely on.
- `rans`: `Lossless`, `TableSound` and `BufferFits`; `RefusesTheDamaged`, which also says that a blob that was not garbled
  never makes decompress panic or abort; and `Terminates`: every call ends, and it returns unless the
  blob names a length beyond `Memory`. This is as much as holds (see Findings).
- `backends`: `AgreesWithInterpreter` (WebAssembly) and `NativeAgrees` (C): the same results, the same
  failures, and memory that means the same values; `CountsExact` and `NativeHeapSound`: every count is the number of
  references and nothing leaks; `BlocksDisjoint`: live and free blocks never overlap and a
  free list holds blocks of its class; `SameReuses`: both backends overwrite at the same instructions.
- `range`: `CodesExactly` (the refinement of `AriaInterval`), `Lossless` for whole streams and for
  those that only lost zeros, `Terminates`, and in `TypeOK` that a cut stream
  never takes the decoder out of its interval.
- `agent`: `StackIsChain`, `TapeScoped` and `RunsAreIsolated` for the
  interpreter at every step of a run; `RunMeans` compares every report with a
  meaning that has no state; `OutcomeDescribesProgram`, `FeedbackComplete`
  and `Terminates` for the loop.
- `typed`: `AcceptedIsSafe`: what the checker accepts never meets a value without an arm, a missing
  implementation or a call of what is no function; `WitnessEscapes`: a case that is reported missing
  is a value no arm takes, so no match is refused for nothing; `SpecialisesAccepted`: what is
  specialised has no parameters left, passes the checker again, and a refusal names one of
  the stated limits; `SpecialisedAgrees`: every function of the specialised program does what
  the function it was made from does. The programs are `Calls` (all expressions of two steps, by type),
  `Matches` (up to three rows of nested patterns, complete or not), `Generics` (well
  and ill typed generic bodies), `Functions_` and `IllFormed`.

Why the bounds are enough. Heap: two references to one cell, a cell inside a
cell inside a cell, a token while a cascade is under way, and an array that is shared or not, are
all there with three cells; each further cell repeats the same transitions, and
the proofs cover them. `rans`: a radix of 4 keeps what the code relies on (`M` is
more than a byte, `RANS_BYTE_L` is half of three bytes), and a word spills zero, one and two digits;
the crowded messages need two rounds of taking excess; the longest message just fits `Memory`, and of the garbled
lengths one may be granted or refused and one must be refused. `agent`: a limit of 3
with numbers up to 6 is exceeded through each of the ways to enter a function; a budget of 3
gives an attempt before and after each kind of failure. `backends`: an object is shared or
unique, at its capacity or below, in a list of freed blocks or fresh, with keys found first, last
or not at all, within three elements and seven instructions; a word of 6 bits has all
overflows. `range`: withheld runs of three bytes, carries through them, carries at the flush and the least
probability are all met (checked by looking for each as a violated invariant). `typed`: every kind of error the model of the
checker has, and every stated limit, is met; `nest` is polymorphic recursion and runs into the
depth of specialisation; patterns are nested two levels deep, which is what tells a
specialised matrix from a default one; expressions are two steps deep, so that the
result type of one generic call is the argument of another.

Fairness. `AriaRans` has `FairSpec`, weak fairness of the next-state relation: a call
of `compress` or `decompress` runs until it ends, nothing else is assumed.
`AriaRange` assumes the same of its codecs. `AriaAgent` assumes the same of a command, which includes that the
provider answers or fails (the code sets no timeout) and that the programs end
(they do in the model, since every call decreases a number). The heap and the pipeline are
checked for safety only. `CHECK_DEADLOCK FALSE` is set throughout because
all of these stop: programs end, the error state of the heap is final, and
commands are done.

## Proofs

`AriaHeapProofs` proves, for any finite set of slots and any tokens, constructors,
arities, cells and fields that meet `BoundsAssumption` and `KindsAssumption`:

| theorem | property | says |
| --- | --- | --- |
| `Invariance` | `IInv` | the inductive invariant |
| `TypeCorrect` | `TypeOK` (in no run) | types |
| `CountsExact` | `RcExact` | a count is the number of places that refer to its cell, at every step of every cascade |
| `MemorySafe` | `NoMemoryError` | no double free, no reachable freed cell |
| `TokensSafe` | `TokensExclusive` | a reuse token owns its cell alone |
| `MetricsRight` | `MetricsExact` (in no run) | the metrics are those of the heap |

Counts are not inductive by themselves. `IInv` strengthens `RcExact` by what the
instructions rely on:

- `TypeOK`, and no double free so far;
- `Linked`: a field that holds something lies within its cell's length, and the
  cell is live or is being released;
- `InFlight`: the slots that wait to be dropped or are being applied hold cells, each
  of these slots is listed once, and no slot is both;
- `TokensMatch`: a cell kept for reuse belongs to exactly one token;
- `Pushed`: cells above `top` are absent and those below are not;
- `CountsMatch`: the metrics against the cardinality of the set of cells in each state.

The core of the argument is counting: each action moves a few references between
places, and the lemmas on cardinality (one place added, removed or replaced; a
function injective on the new places) turn that into the change of one count. Each
action has a lemma of its own; `Step` collects them and `Invariance` ends with PTL.

`AriaRcProofs` proves, for any finite set of names and any nesting (`CodeAssumption`):

| theorem | property | says |
| --- | --- | --- |
| `PassesBalanced` | `EveryPathBalanced` | from any program whose functions are well-formed, `insert_rc` makes code that consumes each reference and each token once on every path, and `tail_call_optimize` keeps it so |

It is a theorem about `Passes`, which starts from any well-formed program (`Lowered`) and takes the steps of the two passes. The inductive invariant
`PassInv` says which programs there are at each stage: well-formed ones, then balanced ones. It is the
two steps that need the work (`InsertRcKeeps`, `TailCallKeeps`).

The first is the comment on `rc` made exact: "owned-on-entry = `fv(e) ∪ live`". `Right(e)` says
that, from any knowledge in which just these are owned, one reference each (`Ready`), the converted `e` leaves just `live` owned, with
the same tokens and no fault (`Serves`); and that it does so too when its first constructor of the
right size takes a token that is pending (`Takes`), since `try_reuse` rewrites the body of an arm after it was converted. `AllRight` is proved by
induction on `Rank`, the depth of nesting, and within an expression along its spine, one lemma for each kind of `let`. References are counted by
holders: a holder is a variable with a number, for each reference it holds; `Counts` says that a set of holders is what is owned, so that
a dup adds one, an operand takes one away, and a catch-all binder moves those of its scrutinee to another
name. A let that is converted is a run of dups, the bind, and a drop (`Dupping`, `Done`, `HasBound`); a match is the entry
of each arm (`EnterReady`) and what makes the arms leave the same (`Served`).

The second does not go back to `rc`. The rewritten code has the same knowledge at its end as the code it was made from, if
nothing is wrong there (`Keeping`): a call, the `let` of its result and the return of it consume what the jump consumes. The
proviso is what makes the induction go through: where nothing is wrong at the end, nothing was before, and no variable
owes a reference (`Kept`, `Paid`, `AfterKept`).

`AriaRansProofs` proves, for any number of symbols, total, interval and radix that
meet `WidthsAssumption` (so for 256, 2^12, 2^11 and 256 as for the runs), any set of messages, and any memory they
fit in (`MemoryAssumption`):

| theorem | property | says |
| --- | --- | --- |
| `Invariance` | `IInv` | the inductive invariant |
| `TypeCorrect` | `TypeOK` | no word leaves its 32 bits; no slot lacks a symbol |
| `TableRight` | `TableSound` | `normalize` ends with a total of `M` and a slot for every symbol |
| `RoundTrip` | `Lossless` | decoding gives the message |
| `Refusals` | `RefusesTheDamaged` | a blob that lost its tail is refused, a whole one is not, and neither is fatal |
| `BufferLargeEnough` | `BufferFits` | the encoder's buffer is large enough |

The argument is one of retracing. `trail` is a history variable, read by no
action: the states `(x, left, stream)` the encoder went through. It is a run of the
encoder, each state linked to the next by a spilled digit or an absorbed
symbol (`TrailOK`). The decoder is always in the last state of the trail that it has not undone
(`DecodeOK`), and the two links are invertible: a digit that was spilled is the
one that is read because the interval of the word after it is known, and an absorbed symbol
is found again because its slot lies in its range. A blob without its tail has less of the
stream than the state says (`StoredOK`), so that the end is met while digits are owed.
`BufferOK` bounds the digits: a word below its interval has spilled one digit
if it is at least `Quot * Radix` and two if not, never three. `Cum` is a recursive
function; its facts are proved by an induction that is stated with sets
(`Least`, `Induction`).

`AriaAgentProofs` has lemmas about each step of a run and theorems about
every command, for any limit of the depth, any programs whose calls name functions,
any answers of a model, any budgets and any non-empty list of tasks:

| theorem | property | says |
| --- | --- | --- |
| `Invariance` | `IInv` | the inductive invariant |
| `TypeCorrect` | `TypeOK` | no iteration beyond the budget, no task graded twice |
| `StackCorrect` | `StackIsChain` | the call stack is the chain of open calls, also while an error unwinds |
| `DepthCorrect` | `DepthExact` (in no run) | the depth is the number of open calls, on every path, within the limit |
| `TapeCorrect` | `TapeScoped` | a tape is there exactly while one gradient is taken; recording never panics |
| `RunsIsolated` | `RunsAreIsolated` | nothing of a run is left when it ended |
| `OutcomesChecked` | (part of `OutcomeDescribesProgram`) | diagnostics are those of the reported program; a success checks |
| `IterationsTold` | (part of `FeedbackComplete`) | each prompt follows a report on every earlier iteration |
| `Follows` | `MInv` | the second inductive invariant, for the next three |
| `RunsMean` | `RunMeans` | every run ends with the error, the chain of calls and the lines that the program means |
| `OutcomesDescribe` | `OutcomeDescribesProgram` | the outcome of the loop is what its last program means; beside one that does not check, error and output are of one run |
| `FeedbackIsComplete` | `FeedbackComplete` | everything a model is told about its answers is what they mean |

`IInv` adds to these what each step relies on: the code of every activation is code
of the program (`Codes`, which `WellFormed` closes under calls), the call stack exists
while a run is active and what the entry point saved is empty (`StackOK`), an
activation knows its level, `main` is at the bottom and only there, a traced
value lives inside the one open gradient (`Shape`), and, for the loop, in
which steps a run may be active (`CommandOK`) and that the diagnostics
and the transcript belong to the current program and iteration (`LoopOK`).

The state of a run says nothing of what is still to come, so that `RunMeans` needs a second invariant.
`Then` puts results in a row; it is associative and `Done` is its unit. Each activation
on the native stack has a result that is still to come (`Remaining`: the rest of its body in its
context, or that of the operand for a gradient). `RunFits` says that the chain of these, from the
last activation with what was printed to the first, is the meaning of the program: activation
`i` ends with `b[i]`, which is `b[i + 1]` under the frame of its call, and then the rest of its body; `b[1]` under
the frame of `main` is `Whole(prog)`. While an error unwinds it says that the meaning is this error, through the saved stack, after
these lines. There is a lemma for each way to change the chain (`FitsStart`, `FitsMove`, `FitsPush`, `FitsPop`,
`FitsFail`) and one for each step of a run. `LoopMeans` carries the meaning of the reports
through the loop, and that `last` and an exhausted outcome carry the error and the output of the last attempt that ran (`FromLastRun`). That `Eval` and `Rest` are what their recursive definitions say is proved from `AriaInduction`.

`AriaBackendProofs` has two parts. Arithmetic, for every even word of more than two bits' worth of values:

| theorem | says |
| --- | --- |
| `HelpersExact` | each overflow helper of WebAssembly fails exactly where the exact result leaves the word, and returns it otherwise |
| `ArithmeticAgrees` | all three versions agree on every operation and pair of words, but for the remainder of the least word by -1 in WebAssembly |

The sums are cases of sign; a product is found in its wrapped result by dividing it again.

The allocator of `AriaWasmAlloc`, for any base above address 0 (which stands for no block), any size of memory and any classes (`Layout`):

| theorem | says |
| --- | --- |
| `EmptyHeapSound`, `AllocSound`, `FreeSound`, `WriteSound` | `Sound` holds at first and is kept by each call, and by a store into a block in use |
| `BlocksStayApart` | so it holds after any sequence of calls by a program that stores into its own blocks and frees each block in use as one of its class |

`Sound` relates the heap to the set of blocks that are in use: `__live` is their number, the links of each free list lead through distinct
blocks and end, no block in use is on a list, and no two blocks, in use or free, overlap or lie beyond the bump pointer. That a list ends is what
lets `Alloc` pop it, and that its blocks have the class of the list what lets it return the block uncleared. The blocks of a list are disjoint and lie below the
bump pointer, so they are fewer than its addresses (`Pigeons`): the walk of `FreeBlocks`, which is that long, meets them all. The two hypotheses on the
program are what the helpers of `AriaWasm` owe; `wasm_oversize` is a program for which they do not keep the first, and `BlocksDisjoint` checks them together with the allocator.

`AriaHeapValueProofs` goes on from the inductive invariant of the heap, under the same assumptions:

| theorem | property | says |
| --- | --- | --- |
| `NoCircle` | `Acyclic` (in no run) | in any set of cells there is one that no cell of the set refers to |
| `NothingLost` | `GarbageFree` | every live cell is reachable from a slot or from a cascade under way |
| `CascadesEnd` | `CascadeShrinks` | each cell that a cascade enters was live and is not any more |
| `SlotsAreValues` | `ImplementsValues` | the heap refines `AriaValues`: every in-place update is invisible to the other slots |

Counting finds every lost cell only if there is no circle, and there is none because a cell is filled when it is
fresh or unique, from values that were there before (`NextAcyclic`). Then `NothingLost` is an argument on the set of cells
that are live and out of reach: one of them is referred to by none of the others, so its
count is zero. `Reachable` and the trees that slots denote are recursive functions of the number of cells; they have
reached their limit because a set of cells that sinks along fields sinks at most that often (`Complete`), so that
the tree of a cell is a constructor over the trees of its fields. With this the refinement is one lemma
for each kind of step: a step that frees, dups or clears leaves the trees of the slots that remain (`SlotKept`, `Discards`, `Shares`),
one that builds adds a tree (`Builds`), one that overwrites changes one that only its own slot can see (`Updates`, `Overwrites`).

`AriaRangeProofs` holds for bytes of any number of bits, any scale of probabilities
up to `TOP`, one to three models of any rates and logistic tables that meet `ModelAssumption`, any data and any cut of what is stored:

| theorem | property | says |
| --- | --- | --- |
| `CoderInvariance` | `CoderInv` (in no run) | the encoder's invariant |
| `CodesTheIdeal` | `CodesExactly` | the encoder implements `AriaInterval`: it sends the low end of the last interval |
| `WordsFit` | `TypeOK` | no word leaves its width, in the decoder of a cut stream either |
| `DecodesTheData` | `Lossless` | what is decoded is the data, unless the stream lost more than zeros |

What could go wrong is a carry that runs past the byte that waits for it. `NoCarryLost` excludes
it: `low + range` is at most two words, and one word while the byte that waits is full. The number that the
encoder holds (`NumberOf`: what it sent, the byte that waits, the full ones it counts, `low`) is
multiplied by the radix at each shift and otherwise grows by what `low` grows, which is the low end of `AriaInterval`. The
decoder's argument is one of two runs of the same course: `Runs` is the sequence of intervals and models that the data alone
decides; the encoder is in one of its moments (`Followed`). The stream is in the last interval, so in all before it,
which contain it (`HoldsBefore`); the code of the decoder is its offset into the interval of the moment it has
reached (`DecodedAt`), so it finds the bits. For a cut stream there is still `Within`: code below range, whatever the bytes are.

`AriaInduction` states induction and the existence of recursive functions with sets (`Induction`,
`RecursiveFunction`, `RecursionUpTo`, and `RankedRecursion` for code, whose set `Code` is built in levels), since those of the library take an operator as a parameter, which
the provers cannot instantiate; and facts about products and division that the SMT solver does not find.

The `IInv` of `AriaHeap`, `AriaRans` and `AriaAgent` and the type invariant of the heap were checked by TLC before they were proved; the runs do not repeat it.

Only model-checked:

- lowering, its well-formedness (`LoweredIsWellFormed`, which the theorem about the passes assumes) and execution (`NoInternalError`,
  `NothingLeaks`, `AgreesWithInterpreter` of `mem`), and everything about the front end (`typed`): recursive operators on programs;
- everything about the helpers and the generated code of the backends (`backends`): that they store only into their own blocks, so
  `BlocksDisjoint` for them, counts, and results. They are folds and recursive operators on objects and programs;
- `Terminates` of the two coders and of the loop, which is liveness. What they rest on is in part
  proved: `CascadesEnd` for the heap, `WordsFit` (no interval is empty) for the range coder.

## Findings

Four runs end in a counterexample, each against what a comment of the repository says.

- `shadow_block` (ir.rs:629-631, "must not leak to siblings"): the lowering pushes the
  `let` of an inner block under its written name into the enclosing statements, so
  it overwrites an outer binding of that name. The run `mem` covers programs whose names are
  distinct, on which the pipeline is right.
- `wasm_oversize` (wasm.rs:587-590, an oversize string "is bump-allocated"): the class is clamped
  to the largest before `__alloc` is called (4728), which bumps by the clamped class: an object beyond that size runs
  into the next block.
- `wasm_capture` (wasm.rs:3478-3482, "the lambda body borrowed the captures (dup'ing each)"): the prologue of a lambda does
  not dup a captured Tensor (13549) and the closure's drop does not release it; C does both
  (c_backend.rs:4441-4451).
- `typed_bound` (typeck.rs:1638-1641, a bounded function "may only be instantiated at a type that has an `impl`"): the
  obligation is checked for named types and parameters, `_ => {}` (1669) lets the others pass: `size(1)` is accepted and the
  dispatcher of the method ends in `no match arm`. A bounded function used as a value is not checked either.

Met while modelling, without a run of their own:

- An arm drops, where it begins, the outer variables that only other arms use, by name and under its own binders (rc.rs:276-285):
  in `match a { N(b) => L, P(c, d) => b, L => L }` the arm of `N` drops its binder `b`, a field of the cell that was released just before,
  and the outer `b` is lost. TLC ends in a double free when `MCMem` is given this function; the header of rc.rs says that "every heap cell is
  freed exactly once". It is why `WellFormed` asks that no binder of an arm is a name that another arm needs.
- `__eq` of WebAssembly takes Vector fields of two cells as equal, and `emit_adt_eq` refuses only constructors with
  Array, Map or Set fields (wasm.rs:3340-3365), where the comment says such an `==` is refused (5299).
- `i64.rem_s` (wasm.rs:3748) gives 0 for the least Int and -1, where the interpreter and C fail and the
  comment says "Div/Mod already trap natively on /0 and MIN/-1" (1845-1846). `ArithmeticAgrees` excepts this one case.
- decompress of rans.rs is not total: "`sum == M` makes decompress total" (rans.rs:70) holds of the table, but the length in
  the header goes unchecked into `Vec::with_capacity` (211), so a corrupted one panics with a capacity overflow or aborts.
  TLC finds it in `MCRans` when `Terminates` is stated without its exception. `decompress` of neural_codec.rs does
  the same (57); that of arith.rs caps the capacity at `1 << 20` (255). `range` does not corrupt headers, so that its `Terminates` says
  nothing of this.
- When the budget of the agent loop is exhausted by a program that does not check,
  the outcome carries `last_output` of an earlier program (agent.rs:877), where the field's comment says "`None` if the
  program never reached a clean+running state" (agent.rs:735). `OutcomeDescribesProgram` says what does hold then: `last_output` and
  `last_runtime_error` are those of one program, the last that ran.
- docs/ANALYSIS.md describes a trace with one frame for a recursive function; the code and its test
  (interp.rs:2263) give one per call site, and the frames of mutual recursion are not collapsed.
- `==` on two traced scalars is decided before the check for traced operands, so it gives a value where the other
  comparisons give an error.
- A field named twice in a record pattern is not refused: the checker and monomorphisation take the first pattern,
  the interpreter checks both.
- Monomorphisation takes the call of a local closure for an unknown builtin when it looks for a type, and
  goes on with `Unit` (monomorphize.rs:609-639); an unknown expected type of an application becomes `Unit` too. A lambda's
  annotations are returned unmangled, so `or_else(apply(None, \x -> x), 1)` makes a function with a parameter of the generic type,
  against monomorphize.rs:10-13. In the programs of `typed` a lambda over a generic type is applied to arguments
  whose type is seen from themselves (`Evident`).
- `subst_ty` does not enqueue a type without parameters that is only mentioned and never made; the programs of `typed` make a
  value of theirs.
- Mangled names may collide (`enqueue_type` joins them by underscores), and types have no depth guard of their own.
- The interpreter evaluates the fields of a record literal in the order written (interp.rs:709) and
  monomorphisation puts them in the order declared, which shows when a field prints or fails. The comment "Records are
  interpreter-only so far" at monomorphize.rs:576 is out of date.

## Plan

Built, in this order: the heap and its proofs, the memory pipeline, the entropy
coder and its proofs, the interpreter's run-time state with the agent loop and
their proofs, the backends with their arithmetic, the range coder, the typed front end.

Then the proofs: of the range coder, of what the slots of the heap denote, of what runs mean, of the allocator, of the passes that count.

Next, most important first:

1. *From balanced code to the heap*: that code which `Balanced` accepts only takes steps of `AriaHeap` that its slots allow, so that the
   theorems of the heap hold of every compiled program. Lowering and the front end themselves stay with TLC, their operators being recursive on syntax.
2. *The other static passes*: call graph and purity, the shape checker.
3. *The language server*: framing, dispatch, shutdown.

## Not modelled

`PROJECT.json` lists every part with the reason. In short: text (lexer, parser, diagnostics,
grammar, prelude, the prompts of the agent) and tables have no state; floating-point numerics
(embeddings, retrieval, transformer, the gradient compiler, the predictor's logistic tables) are out of TLC's reach;
the remaining commands are file and process I/O; the generators of `proptest.rs` are test code.
Two things the models abstract from on purpose: the width of a count (u32), which memory
bounds first, and the size of the native stack, which `main.rs` makes large and
`MAX_CALL_DEPTH` is meant to respect. Of the backends, what depends on the host is left out: the growth of linear memory,
a failing `malloc`, rounding of floats, and the sizes at which `rows * cols` of a tensor wraps.
`drop_cell` recurses once per cell of a chain (ir.rs:1235), so a very long list overflows that stack when it is dropped; the
model bounds the recursion (`CascadeShrinks`) but has no stack. Of the front end, the shape checker, the inference of `IO` and type arguments found
through the signature of a builtin are left out.
