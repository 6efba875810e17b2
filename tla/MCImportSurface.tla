--------------------------- MODULE MCImportSurface ---------------------------
EXTENDS ImportSurface

Sel(e, f) == [k |-> "sel", e |-> e, f |-> <<f>>]
Two(e, g) == [k |-> "two", e |-> e, g |-> g]
Call(f, as) == [k |-> "call", e |-> f, as |-> as]
Lit(t, f, e) == [k |-> "lit", t |-> t, f |-> <<f>>, e |-> e]
N(n) == Id(<<n>>)

Stmt(k, n, e, g, b) == [k |-> k, n |-> n, e |-> e, g |-> g, b |-> b]
Var(n, e) == Stmt("var", <<n>>, e, Number, <<>>)
Short(n, e) == Stmt("short", <<n>>, e, Number, <<>>)
Use(e) == Stmt("use", <<>>, e, Number, <<>>)
If(e, b) == Stmt("if", <<>>, e, Number, b)
Switch(e, g, b) == Stmt("switch", <<>>, e, g, b)
For(n, e, g, b) == Stmt("for", <<n>>, e, g, b)
In(n, e, b) == Stmt("in", <<n>>, e, Number, b)

Decl(k, n, pub, ps, e, b) ==
    [k |-> k, n |-> n, pub |-> pub, any |-> FALSE, body |-> k = "fn", ps |-> ps, e |-> e, b |-> b]
Fn(n, pub, ps, b) == Decl("fn", n, pub, ps, Number, b)
Generic(n, ps, b) == [Fn(n, TRUE, ps, b) EXCEPT !.any = TRUE]
Const(n, pub, e) == Decl("const", n, pub, <<>>, e, <<>>)
Struct(n, pub, fs) == Decl("struct", n, pub, fs, Number, <<>>)
P(n, t) == [n |-> <<n>>, t |-> t]

Imp(to, bind, ss) == [to |-> to, seg |-> to, bind |-> bind, syms |-> ss]
As(src, local) == [src |-> src, local |-> local]
Package(imps, decls) == [imps |-> imps, decls |-> decls]

\* A base package b; another of its last name; a package over b; a package over both.
X == Const("x", TRUE, Number)
T == Struct("T", TRUE, <<P("v", Number)>>)
FT == Fn("f", TRUE, <<P("t", N("T"))>>, <<Use(Sel(N("t"), "v"))>>)
Hidden == Const("k", FALSE, Number)

Bases == {
    <<X, T, FT>>,
    <<X, Struct("T", TRUE, <<P("v", Number), P("x", Number)>>), FT>>,
    <<Hidden, Const("x", TRUE, N("k")), T>>,
    <<Hidden, Const("x", TRUE, N("k")), T, FT>>,
    <<Hidden, X, T, FT, Generic("k1", <<P("q", Number)>>, <<Use(N("k"))>>)>>,
    <<X, T, FT, Fn("f", TRUE, <<P("i", Number)>>, <<>>),
      Fn("h", FALSE, <<P("t", N("T")), P("x", Number)>>, <<Use(N("x"))>>)>> }

Rival == <<X, Struct("U", TRUE, <<P("v", Number)>>), Fn("f", TRUE, <<P("u", N("U"))>>, <<>>)>>

ByName == <<As("x", "y"), As("T", "T"), As("f", "f")>>
Forms == {
    [imp |-> Imp("b", "b", <<>>), x |-> Sel(N("b"), "x"), t |-> Sel(N("b"), "T"), f |-> Sel(N("b"), "f")],
    [imp |-> Imp("b", "c", <<>>), x |-> Sel(N("c"), "x"), t |-> Sel(N("c"), "T"), f |-> Sel(N("c"), "f")],
    [imp |-> Imp("b", "", ByName), x |-> N("y"), t |-> N("T"), f |-> N("f")] }

\* What a package over b may hold.
Overs(form) == {
    <<Fn("g", TRUE, <<P("t", form.t)>>, <<Use(Call(form.f, <<N("t")>>))>>)>>,
    <<Const("z", TRUE, form.x)>>,
    <<Fn("g", TRUE, <<>>, <<Use(Call(N("p"), <<>>))>>),
      Fn("p", FALSE, <<>>, <<Use(Call(form.f, <<Lit(form.t, "v", Number)>>)), Use(form.x)>>)>> }

\* What the main package may do with a reference, a type and a function.
Bodies(form) ==
    LET l == Lit(form.t, "v", Number)
    IN  { <<Use(Two(form.x, Call(form.f, <<l>>)))>>,
          <<Var("y", Number), Use(N("y"))>>,
          <<If(form.x, <<Var("y", Number), Use(N("y"))>>), Use(form.x)>>,
          <<Short("y", form.x), Use(N("y"))>>,
          <<Short("y", Number), Use(N("y"))>>,
          <<Short("w", Number), Use(form.x)>>,
          <<Var("b", Lit(N("Q"), "x", Number)), Use(Sel(N("b"), "x"))>>,
          <<Var("w", Lit(N("Q"), "x", form.x)), Use(Sel(N("w"), "x"))>>,
          <<For("y", Number, N("y"), <<Use(N("y"))>>), Use(form.x)>>,
          <<In("y", form.x, <<Use(N("y"))>>)>>,
          <<Switch(form.x, Number, <<Use(form.x)>>)>>,
          <<Switch(Number, form.x, <<>>)>>,
          <<Var("t", l), Use(Call(Sel(N("t"), "f"), <<>>)), Use(Sel(N("t"), "v"))>>,
          <<Var("t", l), Use(Call(Sel(N("t"), "h"), <<Number>>))>>,
          <<Var("t", l), Use(Sel(N("t"), "x"))>> }

Q == Struct("Q", FALSE, <<P("x", Number)>>)
Mains(form) ==
    {<<Q, Fn("m", FALSE, <<P(n, Number)>>, b)>> : n \in {"u", "y"}, b \in Bodies(form)}
    \cup {<<Const("w", FALSE, form.x)>>, <<Decl("var", "w", FALSE, <<>>, form.x, <<>>)>>,
          <<Fn("m", FALSE, <<>>, <<Use(Call(Sel(N("a"), "g"), <<Lit(form.t, "v", Number)>>))>>)>>,
          <<Fn("m", FALSE, <<>>, <<Use(Sel(N("a"), "z"))>>)>>}

\* A package over a, and what main does with it.
Uppers == {
    <<Fn("e", TRUE, <<P("w", Sel(N("a"), "W"))>>, <<Use(Call(Sel(N("a"), "g"), <<N("w")>>))>>)>>,
    <<Fn("e", TRUE, <<>>, <<Use(Call(N("p"), <<>>))>>),
      Fn("p", FALSE, <<>>, <<Use(Call(Sel(N("a"), "g"), <<Lit(Sel(N("a"), "W"), "i", Number)>>))>>)>>,
    <<Const("z", TRUE, Sel(N("a"), "z"))>> }
Lowers(form) == {
    <<Struct("W", TRUE, <<P("i", Number)>>), Fn("g", TRUE, <<P("w", N("W"))>>, <<Use(form.x)>>),
      Const("z", TRUE, Number)>>,
    <<Struct("W", TRUE, <<P("i", Number), P("t", form.t)>>),
      Fn("g", TRUE, <<P("w", N("W"))>>, <<>>), Const("z", TRUE, form.x)>> }
Tops == { <<Fn("m", FALSE, <<>>, <<Use(Sel(N("c"), "z"))>>)>>,
          <<Fn("m", FALSE, <<>>, <<Use(Sel(N("c"), "e"))>>)>>, <<Q>> }

Loaded(i) == CASE i.to = "a" -> <<"b", "a">> [] i.to = "c" -> <<"b", "a", "c">> [] OTHER -> <<i.to>>

\* What main imports is loaded, in order.
Workspace(b, a, c, m) ==
    LET first == Loaded(Head(m.imps))
        second == IF Len(m.imps) = 1 THEN <<>>
                  ELSE SelectSeq(Loaded(m.imps[2]), LAMBDA q : q \notin ToSet(first))
        order == first \o second \o <<"main">>
    IN  [order |-> order,
         pkgs |-> [q \in ToSet(order) |->
                     CASE q = "b" -> Package(<<>>, b) [] q = "r" -> Package(<<>>, Rival)
                       [] q = "a" -> a [] q = "c" -> c [] q = "main" -> m]]
None == Package(<<>>, <<>>)
A == Imp("a", "a", <<>>)
R == [Imp("r", "b", <<>>) EXCEPT !.seg = "b"]
R2 == [Imp("r", "", <<As("f", "f")>>) EXCEPT !.seg = "b"]
ListsOver(i) == {<<A, i>>, <<i, A>>, <<A, R>>}
Lists(i) == {<<i>>, <<i, R2>>}

\* Sources with an error that is found before anything is combined.
Main(imp, decls) == Workspace(<<X, T, FT>>, None, None, Package(<<imp>>, decls))
Invalid == {
    Main(Imp("b", "", <<As("none", "n")>>), <<Q>>),
    Main(Imp("b", "", <<As("f", "m")>>), <<Fn("m", FALSE, <<>>, <<>>)>>),
    Main(Imp("b", "b", <<As("x", "b")>>), <<Q>>),
    Main(Imp("b", "b", <<>>), <<Const("w", FALSE, Sel(N("b"), "none"))>>),
    Main(Imp("b", "b", <<>>), <<Q, Fn("m", TRUE, <<P("q", N("Q"))>>, <<>>)>>) }

OverBase(f) ==
    UNION {{Workspace(b, None, None, Package(imps, m)) : imps \in Lists(f.imp), m \in Mains(f)} :
             b \in Bases}
OverA(fa, fm) ==
    UNION {{Workspace(b, Package(<<fa.imp>>, a), None, Package(imps, m)) :
              a \in Overs(fa), imps \in ListsOver(fm.imp), m \in Mains(fm)} : b \in Bases}
Chains(f) ==
    {Workspace(b, Package(<<f.imp>>, a), Package(<<A>>, c), Package(<<Imp("c", "c", <<>>)>>, m)) :
       b \in Bases, a \in Lowers(f), c \in Uppers, m \in Tops}

MCFamilies ==
    {Invalid} \cup {OverBase(f) : f \in Forms} \cup {Chains(f) : f \in Forms}
    \cup {OverA(fa, fm) : fa \in Forms, fm \in Forms}
=============================================================================
