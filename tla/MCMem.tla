-------------------------------- MODULE MCMem --------------------------------
(* Programs for AriaMem: all well-typed programs of a few operations over one  *)
(* data type D = L | N(D) | P(D, D), and the functions D -> D; programs that   *)
(* recur; and programs that bind a name again.                                 *)
EXTENDS AriaMem

Name(i) == <<"a", "b", "c", "d", "e", "g", "h">>[i]
VarsOf(ctx, ty) == {Name(i) : i \in {j \in DOMAIN ctx : ctx[j] = ty}}

\* Gen(n, ctx, forms): the expressions of type D with n operations, of these
\* forms, whose free names are typed by ctx ("D", "F" for a function, "-" for a
\* name not in scope).
RECURSIVE Gen(_, _, _)
Gen(n, ctx, forms) ==
    LET x == Name(Len(ctx) + 1)
        y == Name(Len(ctx) + 2)
        E(k) == Gen(k, ctx, forms)
        D(k) == Gen(k, Append(ctx, "D"), forms)
        D2(k) == Gen(k, ctx \o <<"D", "D">>, forms)
        InLambda(k) == Gen(k, ctx \o <<"-", "D">>, forms)
        F(k) == Gen(k, Append(ctx, "F"), forms)
        ds == VarsOf(ctx, "D")
        Of(form, S) == IF form \in forms THEN S ELSE {}
        splits == {<<i, n - 1 - i>> : i \in 0..(n - 1)}
        Split(A(_), B(_)) == UNION {A(s[1]) \X B(s[2]) : s \in splits}
    IN
    IF n = 0 THEN {Var(v) : v \in ds}
    ELSE UNION {
        Of("L", IF n = 1 THEN {Ctor("L", <<>>)} ELSE {}),
        Of("N", {Ctor("N", <<e>>) : e \in E(n - 1)}),
        Of("P", {Ctor("P", p) : p \in Split(E, E)}),
        Of("call", {Call("f", <<e>>) : e \in E(n - 1)}),
        Of("let", {Block(<<Let(x, p[1])>>, p[2]) : p \in Split(E, D)}),
        Of("lambda",
           {Block(<<Let(x, Lambda(<<y>>, p[1]))>>, p[2]) : p \in Split(InLambda, F)}
           \cup {Block(<<Let(x, Var("f"))>>, e) : e \in F(n - 1)}
           \cup {Call(g, <<e>>) : g \in VarsOf(ctx, "F"), e \in E(n - 1)}),
        Of("if", {If(Equal(Var(v), Var(w)), p[1], p[2]) :
                     v \in ds, w \in ds, p \in Split(E, E)}),
        Of("N", {Match(Var(v), <<Arm("N", <<x>>, p[1]), Arm(CatchAll, <<x>>, p[2])>>) :
                     v \in ds, p \in Split(D, D)}),
        Of("P", {Match(Var(v), <<Arm("P", <<x, y>>, p[1]), Arm(CatchAll, <<x>>, p[2])>>) :
                     v \in ds, p \in Split(D2, D)})}

A == Var("a")
B == Var("b")
C == Var("c")
L == Ctor("L", <<>>)
N(e) == Ctor("N", <<e>>)
P(e, f) == Ctor("P", <<e, f>>)

Inputs == {L, N(L), P(L, N(L))}
Bodies == {A, N(A), L,
           Match(A, <<Arm("P", <<"b", "c">>, P(C, B)), Arm(CatchAll, <<"b">>, N(B))>>)}

Program(input, e, f) ==
    "main" :> Fn(<<>>, Block(<<Let("a", input)>>, e)) @@ "f" :> Fn(<<"a">>, f)

\* Everything of one or two operations, and of three around match, let and
\* lambda.
Small ==
    {Program(i, e, f) : i \in Inputs, f \in Bodies,
        e \in Gen(1, <<"D">>, {"L", "N", "P", "call", "let", "lambda", "if"})}
    \cup {Program(i, e, N(A)) : i \in {N(L), P(L, N(L))},
        e \in Gen(2, <<"D">>, {"L", "N", "P", "call", "let", "lambda", "if"})}
Chains ==
    {Program(N(N(L)), e, A) : e \in Gen(3, <<"D">>, {"N", "let"})
                                  \cup Gen(3, <<"D">>, {"let", "lambda"})}

\* P(x, rest) is a list here.  f reverses it on an accumulator, in a tail call
\* of an arm; and maps over it, which is no tail call.
List == P(L, P(N(L), P(L, L)))
Recursive(f) == "main" :> Fn(<<>>, Block(<<Let("a", List)>>, P(Call("f", <<A, L>>), A)))
                @@ "f" :> Fn(<<"a", "b">>, f)
Rebuilding(end) == Match(A, <<Arm("P", <<"c", "d">>, Call("f", <<Var("d"), P(C, B)>>)),
                              Arm(CatchAll, <<"c">>, end)>>)
Loops ==
    {Recursive(Rebuilding(B)), Recursive(Rebuilding(P(C, B))),
     Recursive(Match(A, <<Arm("P", <<"c", "d">>, P(N(C), Call("f", <<Var("d"), B>>))),
                          Arm(CatchAll, <<"c">>, N(B))>>)),
     Recursive(Match(A, <<Arm("P", <<"c", "d">>,
                              If(Equal(C, B), Call("f", <<Var("d"), N(C)>>),
                                              Call("f", <<Var("d"), B>>))),
                          Arm(CatchAll, <<"c">>, P(A, B))>>)),
     Recursive(Block(<<Let("g", Lambda(<<"c">>, P(C, B)))>>,
                 Match(A, <<Arm("P", <<"c", "d">>, Call("f", <<Var("d"), Call("g", <<C>>)>>)),
                            Arm(CatchAll, <<"c">>, Call("g", <<C>>))>>)))}

\* Written names, temporaries, parameters and results of wrappers.
MCNames == {Name(i) : i \in 1..7} \cup {"$t" \o ToString(i) : i \in 0..19} \cup {"$a1"} \cup {"$w" \o ToString(i) : i \in 0..3}

MCPrograms == Small \cup Loops \cup Chains

\* A name that a nested block binds again.
InBlock ==
    {Program(N(L), Block(<<Let(x, Block(<<Let("a", L)>>, y))>>, z), A) :
        x \in {"a", "b"}, y \in {A, N(A)}, z \in {A, P(A, A)}}
=============================================================================
