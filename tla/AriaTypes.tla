------------------------------ MODULE AriaTypes ------------------------------
(***************************************************************************)
(* Aria's typed surface language: types, expressions, nested patterns,     *)
(* records, and the interfaces that are lowered to ordinary functions      *)
(* (src/src/ast.rs and src/src/traits.rs).                                 *)
(*                                                                         *)
(* Int and Bool stand for the types without parameters that are built in.  *)
(* Arrays, maps and sets have a model of their own (AriaStatic).           *)
(***************************************************************************)
EXTENDS Naturals, Sequences, FiniteSets, TLC, SequencesExt

-----------------------------------------------------------------------------
(* Types                                                                   *)

TInt == [k |-> "int"]
TBool == [k |-> "bool"]
TUnit == [k |-> "unit"]
TNamed(n, as) == [k |-> "named", n |-> n, as |-> as]
TFn(ps, r) == [k |-> "fn", ps |-> ps, r |-> r]
TVar(n) == [k |-> "var", n |-> n]      \* a declared parameter: rigid
Meta(i) == [k |-> "meta", i |-> i]     \* an unknown of the checker
Hole(i) == [k |-> "hole", i |-> i]     \* the type of an unannotated parameter
NoTy == [k |-> "none"]
Indices(s) == [i \in DOMAIN s |-> i]

\* x, and then F of it.
Then(x, F(_)) == F(x)

\* ApplyMap(t, map): the declared parameters of t replaced.
RECURSIVE ApplyMap(_, _)
ApplyMap(t, map) ==
    LET All(ts) == [i \in DOMAIN ts |-> ApplyMap(ts[i], map)]
    IN  CASE t.k = "var" -> IF t.n \in DOMAIN map THEN map[t.n] ELSE t
          [] t.k = "named" -> TNamed(t.n, All(t.as))
          [] t.k = "fn" -> TFn(All(t.ps), ApplyMap(t.r, map))
          [] OTHER -> t

Bindings(names, ts) ==
    [n \in Range(names) |-> ts[CHOOSE i \in DOMAIN names : names[i] = n]]

RECURSIVE TypeVars(_)
TypeVars(t) ==
    LET All(ts) == UNION {TypeVars(ts[i]) : i \in DOMAIN ts}
    IN  CASE t.k \in {"var", "meta", "hole"} -> {t}
          [] t.k = "named" -> All(t.as)
          [] t.k = "fn" -> All(t.ps) \cup TypeVars(t.r)
          [] OTHER -> {}

-----------------------------------------------------------------------------
(* Expressions and patterns                                                *)

Num(i) == [k |-> "num", i |-> i]
Truth(b) == [k |-> "truth", b |-> b]
Var(n) == [k |-> "var", n |-> n]
Ctor(c, as) == [k |-> "ctor", n |-> c, as |-> as]
Call(f, as) == [k |-> "call", n |-> f, as |-> as]
Apply(e, as) == [k |-> "apply", e |-> e, as |-> as]
Lambda(ps, e) == [k |-> "lambda", ps |-> ps, e |-> e]
Param(n, t) == [n |-> n, t |-> t]
Equal(l, r) == [k |-> "equal", as |-> <<l, r>>]
Plus(l, r) == [k |-> "plus", as |-> <<l, r>>]
If(c, th, el) == [k |-> "if", c |-> c, th |-> th, el |-> el]
Match(e, arms) == [k |-> "match", e |-> e, arms |-> arms]
Arm(p, e) == [p |-> p, e |-> e]
Block(ls, e) == [k |-> "block", ls |-> ls, e |-> e]
Let(x, t, e) == [x |-> x, t |-> t, e |-> e]
\* fs: the named fields, in the order they are written
Record(c, fs) == [k |-> "record", n |-> c, fs |-> fs]
Field(e, f) == [k |-> "field", e |-> e, f |-> f]
Update(e, fs) == [k |-> "update", e |-> e, fs |-> fs]
At(f, e) == [f |-> f, e |-> e]

PWild == [k |-> "wild"]
PVar(x) == [k |-> "pvar", n |-> x]
PNum(i) == [k |-> "pnum", i |-> i]
PTruth(b) == [k |-> "ptruth", b |-> b]
PCtor(c, ps) == [k |-> "pctor", n |-> c, ps |-> ps]
PRecord(c, fs) == [k |-> "precord", n |-> c, fs |-> fs]

RECURSIVE PatternVars(_)
PatternVars(p) ==
    CASE p.k = "pvar" -> {p.n}
      [] p.k = "pctor" -> UNION {PatternVars(p.ps[i]) : i \in DOMAIN p.ps}
      [] p.k = "precord" -> UNION {PatternVars(p.fs[i].e) : i \in DOMAIN p.fs}
      [] OTHER -> {}

FieldIndex(names, f) == CHOOSE i \in DOMAIN names : names[i] = f

\* The sub-patterns of a record pattern in the declared order of the fields.
Positional(p, names) ==
    [i \in DOMAIN names |->
        IF \E j \in DOMAIN p.fs : p.fs[j].f = names[i]
        THEN p.fs[CHOOSE j \in DOMAIN p.fs :
                    p.fs[j].f = names[i] /\ \A l \in 1..(j - 1) : p.fs[l].f # names[i]].e
        ELSE PWild]

-----------------------------------------------------------------------------
(* Programs                                                                *)

\* from: the constructor, and the function, of the source that a specialised one
\* stands for
Variant(c, ts) == [n |-> c, ts |-> ts, names |-> <<>>, from |-> c]
RecordOf(c, names, ts) == [n |-> c, ts |-> ts, names |-> names, from |-> c]
Type(params, variants) == [params |-> params, variants |-> variants]
Fn(tps, ps, ret, e) ==
    [tps |-> tps, bounds |-> <<>>, ps |-> ps, ret |-> ret, e |-> e, from |-> ""]
Bounded(fn, bounds) == [fn EXCEPT !.bounds = bounds]

\* The signature of each constructor.
CtorSigs(types) ==
    LET sites == UNION {{<<t, i>> : i \in DOMAIN types[t].variants} : t \in DOMAIN types}
        V(s) == types[s[1]].variants[s[2]]
    IN  [c \in {V(s).n : s \in sites} |->
            LET s == CHOOSE s \in sites : V(s).n = c
            IN  [ty |-> s[1], tps |-> types[s[1]].params,
                 ts |-> V(s).ts, names |-> V(s).names]]

NoTraits == [methods |-> <<>>, impls |-> {}]
Program(types, fns, traits) ==
    [types |-> types, traits |-> traits,
     fns |-> [f \in DOMAIN fns |-> IF fns[f].from = "" THEN [fns[f] EXCEPT !.from = f] ELSE fns[f]],
     ctors |-> CtorSigs(types)]

-----------------------------------------------------------------------------
(* Interfaces                                                              *)

ImplName(m, trait, head) == m \o "$" \o trait \o "$" \o head

\* An interface has one method here: m, with the parameters ps and the result
\* ret, the receiver first, of type TVar(self).
Interface(m, self, ps, ret) == [m |-> m, self |-> self, ps |-> ps, ret |-> ret]

\* The dispatcher of a method: it finds the implementation by the constructor of
\* its receiver, and hands its arguments on.
Dispatcher(trait, itf, heads, types) ==
    LET args == [i \in DOMAIN itf.ps |-> Var(itf.ps[i].n)]
        ArmsOf(h) ==
            [i \in DOMAIN types[h].variants |->
                LET v == types[h].variants[i]
                IN  Arm(PCtor(v.n, [j \in DOMAIN v.ts |-> PWild]),
                        Call(ImplName(itf.m, trait, h), args))]
        arms == FoldLeft(LAMBDA acc, h : acc \o ArmsOf(h), <<>>, heads)
    IN  Bounded(Fn(<<itf.self>>, itf.ps, itf.ret, Match(args[1], arms)),
                itf.self :> trait)

\* itfs: interface by trait; impls: for each trait, its heads in order and the
\* function of each.  A trait without an implementation leaves no dispatcher.
WithTraits(types, fns, itfs, impls) ==
    LET used == {tr \in DOMAIN itfs : impls[tr].heads # <<>>}
        pairs == UNION {{<<tr, h>> : h \in Range(impls[tr].heads)} : tr \in used}
        Of(m) == CHOOSE tr \in used : itfs[tr].m = m
        methods == {itfs[tr].m : tr \in used}
        Impl(x) == ImplName(itfs[x[1]].m, x[1], x[2])
    IN  Program(types,
          [m \in methods |-> Dispatcher(Of(m), itfs[Of(m)], impls[Of(m)].heads, types)]
          @@ [n \in {Impl(x) : x \in pairs} |->
                LET x == CHOOSE x \in pairs : Impl(x) = n IN impls[x[1]].fn[x[2]]]
          @@ fns,
          [impls |-> pairs,
           methods |-> [m \in methods |->
              LET itf == itfs[Of(m)]
              IN  [trait |-> Of(m), ps |-> [i \in DOMAIN itf.ps |-> itf.ps[i].t],
                   ret |-> itf.ret, self |-> itf.self]]])

IsMethod(P, f) == f \in DOMAIN P.traits.methods
HasImpl(P, trait, head) == <<trait, head>> \in P.traits.impls
=============================================================================
