------------------------------ MODULE AriaArith ------------------------------
(***************************************************************************)
(* Arithmetic on Int, a signed integer of one word, as the interpreter     *)
(* checks it (src/src/interp.rs), as the helpers of WebAssembly check it   *)
(* (src/src/wasm.rs) and as C code checks it (src/src/c_backend.rs).       *)
(* A result is <<n>>, or <<>> where the program fails.                     *)
(***************************************************************************)
EXTENDS Integers

CONSTANT WORD   \* 2^64

\* A word has a sign bit, and -1 is not its least value.
ASSUME WordIsEven == WORD \in Nat /\ WORD > 2 /\ 2 * (WORD \div 2) = WORD

I64_MIN == -(WORD \div 2)
Words == I64_MIN..(-I64_MIN - 1)

\* A machine instruction keeps one word of its result.
Wrapped(n) == ((n - I64_MIN) % WORD) + I64_MIN
\* Rust's checked_add, checked_mul, ...; __builtin_add_overflow, ... in C.
Checked(n) == IF n \in Words THEN <<n>> ELSE <<>>

\* Division rounds to zero, a remainder has the sign of the dividend.
Magnitude(n) == IF n < 0 THEN -n ELSE n
Quotient(a, b) ==
    LET q == Magnitude(a) \div Magnitude(b) IN IF (a < 0) = (b < 0) THEN q ELSE -q
Remainder(a, b) == a - b * Quotient(a, b)

ArithOps == {"add", "sub", "mul", "div", "mod", "neg", "lt", "le", "gt", "ge"}
Compare(op, a, b) ==
    CASE op = "lt" -> a < b [] op = "le" -> a <= b [] op = "gt" -> a > b [] op = "ge" -> a >= b

-----------------------------------------------------------------------------
(* The interpreter                                                         *)

int_op(op, a, b) ==
    CASE op = "add" -> Checked(a + b)
      [] op = "sub" -> Checked(a - b)
      [] op = "mul" -> Checked(a * b)
      [] op = "div" -> IF b = 0 THEN <<>> ELSE Checked(Quotient(a, b))
      [] op = "mod" -> IF b = 0 \/ Checked(Quotient(a, b)) = <<>> THEN <<>>
                       ELSE <<Remainder(a, b)>>
      [] op = "neg" -> Checked(-a)
      [] OTHER -> <<Compare(op, a, b)>>

-----------------------------------------------------------------------------
(* WebAssembly: add, subtract, multiply and negate are calls of helpers, the*)
(* rest are instructions.                                                  *)

\* x ^ y < 0
SignsDiffer(x, y) == (x < 0) # (y < 0)

AddOvf(a, b) ==
    LET r == Wrapped(a + b)
    IN  IF SignsDiffer(a, r) /\ SignsDiffer(b, r) THEN <<>> ELSE <<r>>
SubOvf(a, b) ==
    LET r == Wrapped(a - b)
    IN  IF SignsDiffer(a, b) /\ SignsDiffer(a, r) THEN <<>> ELSE <<r>>
\* The product is divided again; -1 goes first, dividing by it may fail.
MulOvf(a, b) ==
    LET r == Wrapped(a * b) IN
    IF a = 0 THEN <<0>>
    ELSE IF a = -1 THEN IF b = I64_MIN THEN <<>> ELSE <<Wrapped(0 - b)>>
    ELSE IF Quotient(r, a) = b THEN <<r>> ELSE <<>>
NegOvf(a) == IF a = I64_MIN THEN <<>> ELSE <<Wrapped(0 - a)>>

\* The instructions i64.div_s and i64.rem_s of WebAssembly.
DivS(a, b) == IF b = 0 \/ (a = I64_MIN /\ b = -1) THEN <<>> ELSE <<Quotient(a, b)>>
RemS(a, b) == IF b = 0 THEN <<>> ELSE <<Remainder(a, b)>>

wasm_prim(op, a, b) ==
    CASE op = "add" -> AddOvf(a, b)
      [] op = "sub" -> SubOvf(a, b)
      [] op = "mul" -> MulOvf(a, b)
      [] op = "div" -> DivS(a, b)
      [] op = "mod" -> RemS(a, b)
      [] op = "neg" -> NegOvf(a)
      [] OTHER -> <<Compare(op, a, b)>>

-----------------------------------------------------------------------------
(* C: the compiler's checked operations, and a guard before a division     *)

DivisionFails(a, b) == b = 0 \/ (a = I64_MIN /\ b = -1)
c_prim(op, a, b) ==
    CASE op = "add" -> Checked(a + b)
      [] op = "sub" -> Checked(a - b)
      [] op = "mul" -> Checked(a * b)
      [] op = "div" -> IF DivisionFails(a, b) THEN <<>> ELSE <<Quotient(a, b)>>
      [] op = "mod" -> IF DivisionFails(a, b) THEN <<>> ELSE <<Remainder(a, b)>>
      [] op = "neg" -> Checked(0 - a)
      [] OTHER -> <<Compare(op, a, b)>>
=============================================================================
