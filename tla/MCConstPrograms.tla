-------------------------- MODULE MCConstPrograms --------------------------
(* Programs of two or three constants X, Y, Z, declared together or alone,  *)
(* functions f and g that return them, and two checked functions, in every *)
(* combination.                                                            *)
EXTENDS ConstSource

X == Name("X")
Y == Name("Y")
Z == Name("Z")
f == Call("f", << >>)
P == Call("P", << >>)
g(e) == Call("g", <<e>>)

Together(x, z) == [names |-> <<"X", "Z">>, inits |-> <<x, z>>]
Alone(n, e)    == [names |-> <<n>>, inits |-> <<e>>]
Alias          == Alone("P", Name("f"))

Fn(n, params, local, ret) == [name |-> n, params |-> params, local |-> local, ret |-> ret]
Local(n, v, inner) == <<[name |-> n, init |-> Lit(v), inner |-> inner]>>

Const(n, e) == [kind |-> "const", name |-> n, init |-> e]
Var(n, e)   == [kind |-> "var", name |-> n, init |-> e]
Size(e)     == [kind |-> "size", name |-> "", init |-> e]

Program(consts, fns, checks) == [consts |-> consts, fns |-> fns, checks |-> checks]
NoProgram == Program(<< >>, << >>, << >>)

F(locals, rets) == { Fn("f", << >>, l, r) : l \in locals, r \in rets }
G == { Fn("g", <<"n">>, << >>, e) : e \in {Name("n"), Y} } \cup { Fn("g", <<"X">>, << >>, e) : e \in {X, Y} }

\* Constants that need one another, functions with and without a hiding local.
NeedEachOther ==
    { Program(c, <<fn, gn>>, <<check>>) :
        c \in { <<Together(x, z), Alone("Y", y), Alias>> :
                  x \in {Lit(1), Y, f}, z \in {Lit(2), X, f}, y \in {Lit(3), X, f, g(X), P} }
              \cup { <<Alone("X", x), Alone("Z", Lit(2)), Alone("Y", y), Alias>> :
                       x \in {Lit(1), X, Y, f}, y \in {Lit(3), X, f, g(X), P} },
        fn \in F({<< >>, Local("X", 5, TRUE), Local("Y", 6, FALSE)}, {X, Y, g(Y)}),
        gn \in G,
        check \in { <<Size(e), Size(u)>> : e \in {Y, P}, u \in {X, Z, f, g(Lit(8))} } }

\* Two checked functions whose locals hide constants and functions.
CheckedApart ==
    { Program(c, <<fn, gn>>, checks) :
        c \in { <<Together(Lit(1), z), Alone("Y", X), Alias>> : z \in {Lit(2), f} }
              \cup { <<Alone("X", Lit(1)), Alone("Z", z), Alone("Y", X), Alias>> : z \in {Lit(2), f} },
        fn \in F({<< >>, Local("n", 5, TRUE)}, {X, Y}),
        gn \in G,
        checks \in { <<hide \o <<Size(e)>>, <<Size(u)>>>> :
                       hide \in { <<Const(n, v)>> : n \in {"X", "Y", "n"}, v \in {Lit(7), Y} }
                                \cup { <<Const("n", Y), Const("X", Lit(7))>>, <<Var("X", Lit(7))>>,
                                       <<Var("n", Y)>>, <<Const("f", Lit(7))>> },
                       e \in {X, Y, g(Lit(8))}, u \in {X, Y, f, g(Y)} } }

\* Functions of one name told apart by the number of their parameters, and a
\* local constant that is a function.
SameName ==
    { Program(<<Together(Lit(1), x), Alone("Y", y)>>, <<fn, Fn("f", <<"n">>, << >>, r), gn>>, <<checks>>) :
        x \in {Lit(2), f}, y \in {X, f, Call("f", <<X>>)},
        fn \in F({<< >>}, {Z, g(Y), Lit(4)}), r \in {Name("n"), Y}, gn \in G,
        checks \in { <<Const("m", Name("g")), Size(Call("m", <<e>>)), Size(f)>> : e \in {Y, f, Call("f", <<Z>>)} } }

MCPrograms == NeedEachOther \cup CheckedApart \cup SameName
=============================================================================
