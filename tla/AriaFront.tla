----------------------------- MODULE AriaFront -----------------------------
(***************************************************************************)
(* A program on its way through the front end: the checker accepts or      *)
(* refuses it (AriaCheck), the interpreter runs what is accepted           *)
(* (AriaSurface), and for the compiled backends it is specialised          *)
(* (AriaMono).  What the specialised program does is found by the same     *)
(* interpreter: a backend adds nothing to the meaning of a program without *)
(* type parameters (AriaMem, AriaBackends).                                *)
(***************************************************************************)
EXTENDS AriaMono, AriaSurface

CONSTANTS
    Programs,       \* the programs that are compiled
    Ints,           \* the integers that functions are tried on
    MaxNesting      \* how deep the values are that functions are tried on

VARIABLES stage, program, verdicts, runs, specialised, compiled
vars == <<stage, program, verdicts, runs, specialised, compiled>>

NotYet == [err |-> "", program |-> <<>>]

Init ==
    /\ stage = "parsed" /\ program \in Programs
    /\ verdicts = <<>> /\ runs = {} /\ specialised = NotYet /\ compiled = {}

-----------------------------------------------------------------------------
(* What a program does                                                     *)

\* The values of a type, up to a nesting; one stands for all of a type that
\* patterns cannot look into.
RECURSIVE Inhabitants(_, _, _)
Inhabitants(t, k, P) ==
    LET d == P.types[t.n]
        map == Bindings(d.params, t.as)
        \* the values of the variant's fields, one row each
        Rows(ts) == FoldLeft(LAMBDA rows, x :
                               {Append(row, v) : row \in rows, v \in Inhabitants(x, k - 1, P)},
                             {<<>>}, [i \in DOMAIN ts |-> ApplyMap(ts[i], map)])
    IN  CASE t.k = "int" -> {VInt(n) : n \in Ints}
          [] t.k = "bool" -> {VBool(b) : b \in BOOLEAN}
          [] t.k = "named" ->
               IF k = 0 THEN {}
               ELSE UNION {{VData(d.variants[i].n, row) : row \in Rows(d.variants[i].ts)}
                           : i \in DOMAIN d.variants}
          [] OTHER -> {VInt(0)}

\* A value as the source writes it: constructors under their own names, functions
\* all alike.
RECURSIVE InSource(_, _)
InSource(v, P) ==
    LET sites == {s \in UNION {{<<t, i>> : i \in DOMAIN P.types[t].variants}
                               : t \in DOMAIN P.types} : P.types[s[1]].variants[s[2]].n = v.c}
        s == CHOOSE s \in sites : TRUE
    IN  CASE v.k = "data" -> VData(P.types[s[1]].variants[s[2]].from,
                                   [i \in DOMAIN v.fs |-> InSource(v.fs[i], P)])
          [] v.k = "closure" -> [k |-> "closure"]
          [] OTHER -> v

\* The functions that are tried: those of first order, without type parameters.
RECURSIVE FirstOrder(_)
FirstOrder(t) == t.k \in {"int", "bool"} \/ (t.k = "named" /\ \A i \in DOMAIN t.as : FirstOrder(t.as[i]))
Tried(P) ==
    {f \in DOMAIN P.fns :
        P.fns[f].tps = <<>> /\ \A i \in DOMAIN P.fns[f].ps : FirstOrder(P.fns[f].ps[i].t)}

\* Every such function on every argument: the function of the source, the arguments
\* and the outcome.
Behaviour(P) ==
    UNION {LET fn == P.fns[f]
               rows == FoldLeft(LAMBDA acc, p :
                                  {Append(row, v) : row \in acc,
                                                    v \in Inhabitants(p.t, MaxNesting, P)},
                                {<<>>}, fn.ps)
           IN  {<<fn.from, [i \in DOMAIN row |-> InSource(row[i], P)],
                  InSource(CallFunction(f, row, 0, P), P)>> : row \in rows}
           : f \in Tried(P)}

-----------------------------------------------------------------------------
CheckProgram ==
    /\ stage = "parsed"
    /\ verdicts' = Verdicts(program)
    /\ stage' = IF Accepts(program, verdicts') THEN "accepted" ELSE "refused"
    /\ UNCHANGED <<program, runs, specialised, compiled>>

Interpret ==
    /\ stage = "accepted"
    /\ runs' = Behaviour(program)
    /\ stage' = "interpreted"
    /\ UNCHANGED <<program, verdicts, specialised, compiled>>

SpecialiseProgram ==
    /\ stage = "interpreted"
    /\ specialised' = Monomorphize(program)
    /\ stage' = IF specialised'.err = "" THEN "specialised" ELSE "not compiled"
    /\ UNCHANGED <<program, verdicts, runs, compiled>>

RunCompiled ==
    /\ stage = "specialised"
    /\ compiled' = Behaviour(specialised.program)
    /\ stage' = "compiled"
    /\ UNCHANGED <<program, verdicts, runs, specialised>>

Next == CheckProgram \/ Interpret \/ SpecialiseProgram \/ RunCompiled
Spec == Init /\ [][Next]_vars

-----------------------------------------------------------------------------
(* What the front end promises                                             *)

\* A program that the checker accepts never comes to a point where it cannot go
\* on: no constructor without an arm, no missing implementation, nothing applied
\* that is no function (typeck.rs:1986, interp.rs:868).
AcceptedIsSafe == \A r \in runs : r[3].k # "stuck"

\* A missing case that is reported is a value that no arm matches
\* (typeck.rs:1996): no match is refused for nothing.
WitnessEscapes ==
    \A f \in DOMAIN verdicts :
        LET m == verdicts[f].missing
        IN  m # <<>> =>
              \E v \in Inhabitants(m.t, MaxNesting, program) :
                  /\ MatchPattern(m.w, v, <<>>, program).ok
                  /\ \A i \in DOMAIN m.rows : ~MatchPattern(m.rows[i][1], v, <<>>, program).ok

\* The limits of specialisation that the code states.
Limits == {"could not infer", "generic function as a value", "unannotated parameter", "limit"}

\* No parameters are left, and every type is built in or a name alone.
RECURSIVE Concrete(_)
Concrete(t) ==
    CASE t.k = "named" -> t.as = <<>>
      [] t.k = "fn" -> (\A i \in DOMAIN t.ps : Concrete(t.ps[i])) /\ Concrete(t.r)
      [] OTHER -> ~HasVars(t)
Monomorphic(P) ==
    /\ \A t \in DOMAIN P.types :
          /\ P.types[t].params = <<>>
          /\ \A i \in DOMAIN P.types[t].variants :
                \A ty \in Range(P.types[t].variants[i].ts) : Concrete(ty)
    /\ \A f \in DOMAIN P.fns :
          P.fns[f].tps = <<>> /\ Concrete(TFn(ParamTypes(P.fns[f]), P.fns[f].ret))

\* A specialised program has no type parameters, its types are names alone
\* (monomorphize.rs:12, 70), and it is well typed as it stands: what two call
\* sites say of a type is one type, under one name (monomorphize.rs:73).  A
\* program is refused for a stated limit only.
SpecialisesAccepted ==
    /\ stage = "specialised" => Monomorphic(specialised.program)
    /\ stage = "specialised" => Accepts(specialised.program, Verdicts(specialised.program))
    /\ stage = "not compiled" => specialised.err \in Limits

\* Each function of a specialised program does what the function it was made from
\* does in the source: names, records and method calls keep their meaning.
SpecialisedAgrees ==
    \A r \in compiled : r[3] = InSource(CallFunction(r[1], r[2], 0, program), program)
=============================================================================
