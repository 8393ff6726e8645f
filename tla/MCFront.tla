------------------------------- MODULE MCFront -------------------------------
\* Instances of AriaFront: programs over a small library of generic functions.
EXTENDS AriaFront

T == TVar("T")
A == TVar("A")
B == TVar("B")
TBox(t) == TNamed("Box", <<t>>)
TOpt(t) == TNamed("Opt", <<t>>)
TPair(a, b) == TNamed("Pair", <<a, b>>)
TList(t) == TNamed("List", <<t>>)
TR(t) == TNamed("R", <<t>>)
TColor == TNamed("Color", <<>>)
TW == TNamed("W", <<>>)

Types_ ==
    [Box |-> Type(<<"T">>, <<Variant("MkBox", <<T>>)>>),
     Opt |-> Type(<<"T">>, <<Variant("None", <<>>), Variant("Some", <<T>>)>>),
     Pair |-> Type(<<"A", "B">>, <<Variant("MkPair", <<A, B>>)>>),
     List |-> Type(<<"T">>, <<Variant("Nil", <<>>), Variant("Cons", <<T, TList(T)>>)>>),
     R |-> Type(<<"T">>, <<RecordOf("R", <<"val", "tag">>, <<T, TInt>>)>>),
     Color |-> Type(<<>>, <<Variant("Red", <<>>), Variant("Green", <<>>)>>),
     W |-> Type(<<>>, <<Variant("MkW", <<TBox(TInt)>>)>>)]

V(n) == Var(n)
C0(c) == Ctor(c, <<>>)
C1(c, e) == Ctor(c, <<e>>)
C2(c, a, b) == Ctor(c, <<a, b>>)
F1(f, e) == Call(f, <<e>>)
F2(f, a, b) == Call(f, <<a, b>>)
P1(c, p) == PCtor(c, <<p>>)
P2(c, p, q) == PCtor(c, <<p, q>>)

Library ==
    [id |-> Fn(<<"T">>, <<Param("x", T)>>, T, V("x")),
     pick |-> Fn(<<"A">>, <<Param("c", TBool), Param("x", A), Param("y", A)>>, A,
                 If(V("c"), V("x"), V("y"))),
     unbox |-> Fn(<<"T">>, <<Param("b", TBox(T))>>, T,
                  Match(V("b"), <<Arm(P1("MkBox", PVar("v")), V("v"))>>)),
     or_else |-> Fn(<<"T">>, <<Param("o", TOpt(T)), Param("d", T)>>, T,
                    Match(V("o"), <<Arm(P1("Some", PVar("v")), V("v")), Arm(PWild, V("d"))>>)),
     swap |-> Fn(<<"A", "B">>, <<Param("p", TPair(A, B))>>, TPair(B, A),
                 Match(V("p"), <<Arm(P2("MkPair", PVar("a"), PVar("b")),
                                     C2("MkPair", V("b"), V("a")))>>)),
     apply |-> Fn(<<"A", "B">>, <<Param("x", A), Param("f", TFn(<<A>>, B))>>, B, F1("f", V("x"))),
     map |-> Fn(<<"A", "B">>, <<Param("xs", TList(A)), Param("f", TFn(<<A>>, B))>>, TList(B),
                Match(V("xs"),
                      <<Arm(PCtor("Nil", <<>>), C0("Nil")),
                        Arm(P2("Cons", PVar("h"), PVar("t")),
                            C2("Cons", F1("f", V("h")), F2("map", V("t"), V("f"))))>>)),
     nest |-> Fn(<<"T">>, <<Param("x", T), Param("n", TInt)>>, TInt,
                 Match(V("n"), <<Arm(PNum(0), Num(0)),
                                 Arm(PWild, F2("nest", C2("MkPair", V("x"), V("x")),
                                               Plus(V("n"), Num(1))))>>)),
     inc |-> Fn(<<>>, <<Param("n", TInt)>>, TInt, Plus(V("n"), Num(1))),
     wbox |-> Fn(<<>>, <<Param("w", TW)>>, TBox(TInt),
                 Match(V("w"), <<Arm(P1("MkW", PVar("b")), V("b"))>>)),
     size |-> Bounded(Fn(<<"T">>, <<Param("x", T)>>, TInt, F1("measure", V("x"))),
                      "T" :> "Sized")]

Sized == Interface("measure", "S", <<Param("self", TVar("S"))>>, TInt)
Impl(t, e) == Fn(<<>>, <<Param("self", t)>>, TInt, e)
Impls ==
    [Sized |-> [heads |-> <<"Color", "W">>,
                fn |-> [Color |-> Impl(TColor, Match(V("self"),
                                                 <<Arm(PCtor("Red", <<>>), Num(0)), Arm(PWild, Num(1))>>)),
                        W |-> Impl(TW, F1("unbox", F1("wbox", V("self"))))]]]

Common == WithTraits(Types_, Library, [Sized |-> Sized], Impls)
Of(fns) == [Common EXCEPT !.fns = [f \in DOMAIN fns |-> [fns[f] EXCEPT !.from = f]] @@ @]
\* Every program makes a Color: a type that is only mentioned is not emitted.
Main(ret, e) == [main |-> Fn(<<>>, <<>>, ret, Block(<<Let("seen", NoTy, C0("Red"))>>, e))]

-----------------------------------------------------------------------------
(* Expressions that should be well typed, by their type                    *)

Ts == {TInt, TBool, TColor, TW, TOpt(TInt), TOpt(TColor), TBox(TInt), TBox(TColor),
       TPair(TInt, TColor), TPair(TColor, TInt), TList(TInt), TList(TColor), TR(TInt), TR(TColor)}

\* A lambda whose parameter is hole h.
Lam(h, e) == Lambda(<<Param("x", Hole(h))>>, e)

\* The type of e is seen from e alone: a lambda over a type with parameters is only
\* applied to such (AriaMono's SynthTy).
Evident(e, t) == t.k # "named" \/ t.as = <<>> \/ (e.k = "ctor" /\ e.as # <<>>)

Least(t) ==
    CASE t = TInt -> {Num(1)}
      [] t = TBool -> {Truth(TRUE)}
      [] t = TColor -> {C0("Red")}
      [] t.n = "Opt" -> {C0("None")}
      [] t.n = "List" -> {C0("Nil")}
      [] OTHER -> {}

\* The expressions of type t that take one step from those of g; k numbers the holes.
Larger(t, g, k) ==
    LET Sub(u) == IF u \in Ts THEN g[u] ELSE {}
        a == t.as[1]
        b == t.as[2]
        Made ==
            CASE t = TInt ->
                   UNION {{F1("size", e), F1("measure", e)} : e \in g[TColor] \cup g[TW]}
                   \cup {F1("inc", e) : e \in g[t]} \cup {Field(e, "tag") : e \in g[TR(TColor)]}
              [] t = TBool -> {Equal(e, e) : e \in UNION {g[u] : u \in Ts}}
              [] t = TColor -> {}
              [] t = TW -> {C1("MkW", e) : e \in g[TBox(TInt)]}
              [] t.n = "Opt" -> {C1("Some", e) : e \in g[a]}
              [] t.n = "Box" -> {C1("MkBox", e) : e \in g[a]}
                                \cup {F1("wbox", e) : e \in IF a = TInt THEN g[TW] ELSE {}}
              [] t.n = "Pair" -> {C2("MkPair", e, f) : e \in g[a], f \in g[b]}
                                 \cup {F1("swap", e) : e \in g[TPair(b, a)]}
              [] t.n = "List" -> {C2("Cons", e, f) : e \in g[a], f \in g[t]}
                                 \cup {F2("map", e, Lam(k, V("x"))) : e \in g[t]}
              [] t.n = "R" -> {Record("R", <<At("tag", f), At("val", e)>>) : e \in g[a], f \in g[TInt]}
                              \cup {Update(e, <<At("val", f)>>) : e \in g[t], f \in g[a]}
                              \cup {Update(e, <<At("tag", f)>>) : e \in g[t], f \in g[TInt]}
    IN  Made
        \cup UNION {{F1("id", e), Block(<<Let("y", NoTy, e)>>, V("y")),
                     Block(<<Let("y", t, e)>>, V("y"))} : e \in g[t]}
        \cup {F1("unbox", e) : e \in Sub(TBox(t))}
        \cup {Field(e, "val") : e \in Sub(TR(t))}
        \cup {F2("or_else", e, f) : e \in Sub(TOpt(t)), f \in Least(t)}
        \cup {Call("pick", <<Truth(TRUE), e, f>>) : e \in g[t], f \in Least(t)}
        \cup {If(c, e, f) : c \in g[TBool], e \in Least(t), f \in Least(t)}
        \cup {If(Truth(FALSE), e, f) : e \in Least(t), f \in g[t]}
        \cup {F2("apply", e, Lam(k, V("x"))) : e \in {f \in g[t] : Evident(f, t)}}
        \cup {F2("apply", e, Lam(k, f)) : e \in {Num(1), C0("Red")}, f \in IF k = 1 THEN g[t] ELSE {}}

Expr0 == [t \in Ts |-> Least(t)]
Expr1 == [t \in Ts |-> Least(t) \cup Larger(t, Expr0, 0)]
Expr2 == [t \in Ts |-> Least(t) \cup Larger(t, Expr1, 1)]

Calls == UNION {{Main(t, e) : e \in Expr2[t]} : t \in Ts}

-----------------------------------------------------------------------------
(* Matches, complete or not                                                *)

\* All the sequences of one to n of ps.
Rows(ps, n) == UNION {[1..k -> ps] : k \in 1..n}

\* f maps a value of type t to the number of the arm that takes it; main tries v.
Matching(t, rows, v) ==
    Main(TInt, F1("f", v))
    @@ [f |-> Fn(<<>>, <<Param("v", t)>>, TInt,
                 Match(V("v"), [i \in DOMAIN rows |-> Arm(rows[i], Num(i))]))]

PNone == PCtor("None", <<>>)
PSome(p) == PCtor("Some", <<p>>)
Bools == {PWild, PTruth(TRUE), PTruth(FALSE)}
OptBools == {PWild, PNone, PSome(PWild), PSome(PTruth(TRUE))}
OptOpts == {PVar("x"), PNone, PSome(PVar("x")), PSome(PNone)}
           \cup {PSome(PSome(p)) : p \in Bools}
OptInts == {PWild, PNone, PSome(PWild), PSome(PNum(0)), PSome(PNum(1))}
Pairs == {PVar("x")} \cup {P2("MkPair", p, q) : p \in Bools, q \in OptBools}
Lists == {PWild, PCtor("Nil", <<>>), P2("Cons", PWild, PWild), P2("Cons", PNum(0), PCtor("Nil", <<>>)),
          P2("Cons", PVar("x"), PVar("y")), P2("Cons", PVar("x"), P2("Cons", PVar("y"), PWild))}
Records == {PRecord("R", fs) : fs \in {<<>>, <<At("tag", PNum(0))>>, <<At("val", PTruth(TRUE))>>,
                                       <<At("tag", PVar("x")), At("val", PTruth(FALSE))>>}}

Matches ==
    {Matching(TOpt(TOpt(TBool)), rows, C1("Some", C1("Some", Truth(TRUE)))) : rows \in Rows(OptOpts, 3)}
    \cup {Matching(TPair(TBool, TOpt(TBool)), rows, C2("MkPair", Truth(TRUE), C1("Some", Truth(TRUE))))
          : rows \in Rows(Pairs, 2)}
    \cup {Matching(TOpt(TInt), rows, C1("Some", Num(1))) : rows \in Rows(OptInts, 3)}
    \cup {Matching(TList(TInt), rows, C2("Cons", Num(0), C0("Nil"))) : rows \in Rows(Lists, 2)}
    \cup {Matching(TR(TBool), rows, Record("R", <<At("val", Truth(TRUE)), At("tag", Num(1))>>))
          : rows \in Rows(Records, 3)}

-----------------------------------------------------------------------------
(* Generic bodies, well typed or not                                       *)

Bodies ==
    {V("x"), V("o"), Num(1), F1("id", V("x")), F1("unbox", V("x")), F2("or_else", V("o"), V("x")),
     F2("or_else", V("o"), Num(1)), C1("Some", V("x")), C1("Some", V("o")), Equal(V("x"), V("x")),
     Equal(V("x"), V("o")), F1("size", V("x")), F1("measure", V("x")), F1("size", V("o")),
     Match(V("o"), <<Arm(PSome(PVar("v")), V("v")), Arm(PNone, V("x"))>>),
     Match(V("o"), <<Arm(PSome(PVar("v")), V("o")), Arm(PNone, V("x"))>>),
     Match(V("o"), <<Arm(PSome(PVar("v")), V("v"))>>),
     Match(V("x"), <<Arm(PVar("v"), C1("Some", V("v")))>>),
     Field(Record("R", <<At("tag", Num(1)), At("val", V("x"))>>), "val"),
     Field(Record("R", <<At("tag", Num(1)), At("val", V("o"))>>), "tag"),
     F2("apply", V("x"), Lam(0, C1("Some", V("x")))),
     Block(<<Let("y", T, V("x"))>>, V("y")), Block(<<Let("y", TInt, V("x"))>>, V("y"))}
GenericRets == {T, TOpt(T), TInt, TBool}

Generic(ret, e, t, v) ==
    [main |-> Fn(<<>>, <<>>, ApplyMap(ret, "T" :> t), F2("g", v, C1("Some", v))),
     g |-> IF t = TInt THEN Fn(<<"T">>, <<Param("x", T), Param("o", TOpt(T))>>, ret, e)
           ELSE Bounded(Fn(<<"T">>, <<Param("x", T), Param("o", TOpt(T))>>, ret, e), "T" :> "Sized")]
Generics ==
    {Generic(ret, e, TInt, Num(1)) : ret \in GenericRets, e \in Bodies}
    \cup {Generic(ret, e, TColor, C0("Red")) : ret \in GenericRets, e \in Bodies}

-----------------------------------------------------------------------------
(* Function values, and what is not specialised                            *)

Functions_ ==
    {Main(TInt, e) : e \in
        {Block(<<Let("f", NoTy, Lam(0, Plus(V("x"), Num(1))))>>, F1("f", Num(1))),
         Block(<<Let("f", NoTy, Lam(0, V("x")))>>, F1("f", Num(1))),
         Block(<<Let("f", NoTy, V("inc"))>>, F1("f", Num(1))),
         Block(<<Let("f", NoTy, Lam(0, V("x")))>>, Num(1)),
         Block(<<Let("f", NoTy, Num(1))>>, F1("f", Num(1))),
         Apply(Lam(0, Plus(V("x"), Num(1))), <<Num(1)>>),
         Apply(If(Truth(TRUE), V("inc"), Lam(0, V("x"))), <<Num(1)>>),
         Apply(Num(1), <<Num(1)>>),
         F2("apply", Num(1), V("inc")), F2("apply", Num(1), V("id")), F2("apply", V("inc"), V("id")),
         F2("nest", Num(1), Num(0)), F2("nest", Num(1), Truth(TRUE)),
         If(Equal(C0("None"), C0("None")), Num(1), Num(2))}}

-----------------------------------------------------------------------------
(* What no program should do                                               *)

AnR == Record("R", <<At("val", Num(1)), At("tag", Num(1))>>)
IllFormed ==
    {Main(TInt, e) : e \in
        {V("x"), F1("inc", Truth(TRUE)), F2("inc", Num(1), Num(1)), F1("no", Num(1)),
         C0("No"), C0("Some"), Plus(Num(1), Truth(TRUE)), If(Num(1), Num(1), Num(1)),
         If(Truth(TRUE), Num(1), Truth(TRUE)), Equal(Num(1), Truth(TRUE)),
         Field(Num(1), "tag"), Field(C0("Red"), "tag"), Field(AnR, "no"),
         Field(Update(Num(1), <<At("tag", Num(1))>>), "tag"),
         Field(Update(AnR, <<At("tag", Num(1)), At("tag", Num(2))>>), "tag"),
         Field(Update(AnR, <<At("no", Num(1))>>), "tag"),
         Field(Update(AnR, <<At("val", Truth(TRUE))>>), "tag"),
         Field(Record("R", <<At("val", Num(1))>>), "tag"),
         Field(Record("R", <<At("val", Num(1)), At("tag", Num(1)), At("tag", Num(2))>>), "tag"),
         Field(Record("R", <<At("val", Num(1)), At("tag", Num(1)), At("no", Num(2))>>), "tag"),
         Field(Record("Red", <<>>), "tag"), Field(Record("No", <<>>), "tag"),
         Block(<<Let("f", NoTy, Lam(0, F1("x", V("x"))))>>, Num(1)),
         Block(<<Let("f", NoTy, Lam(0, Plus(V("x"), V("x"))))>>, Num(1)),
         Block(<<Let("y", TBool, Num(1))>>, Num(1)),
         F2("apply", Num(1), Num(1)), F2("apply", Num(1), Lambda(<<>>, Num(1))),
         F1("measure", Num(1)), Call("measure", <<C0("Red"), C0("Red")>>)}}
    \cup {Matching(t, <<p, PWild>>, v) :
            t \in {TR(TInt)}, v \in {AnR},
            p \in {PNum(0), PTruth(TRUE), PNone, PCtor("R", <<PWild>>), PCtor("No", <<>>),
                  PRecord("R", <<At("no", PWild)>>), PRecord("Red", <<>>),
                  PRecord("R", <<At("val", PTruth(TRUE))>>), P2("R", PNum(1), PNum(1))}}
    \cup {[main |-> Fn(<<>>, <<>>, t, Num(1))] : t \in {TNamed("No", <<>>), TBox(TBox(T)), T}}
    \cup {Main(TInt, Num(1)) @@ [g |-> Fn(<<"T">>, <<>>, TInt, Num(1))]}

MCProgramsBound == {Of(Main(TInt, F1("size", Num(1)))), Of(Main(TInt, F1("size", C0("Red"))))}
MCPrograms == {Of(fns) : fns \in Calls \cup Matches \cup Generics \cup Functions_ \cup IllFormed}
=============================================================================
