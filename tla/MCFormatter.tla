---------------------------- MODULE MCFormatter -----------------------------
(* Formatter for TLC: small statements and expressions with three operators. *)
EXTENDS Formatter, FiniteSets

MCParams == <<[name |-> "x", type |-> "i64"]>>

Ones == {Lit, Name("x"), Cast(Lit, "i64")}
Simple ==
    {Var("y", T, e) : T \in {NoType, "i64", "?i64"}, e \in Ones}
       \cup {Var("x", NoType, Lit), Var("x", "?i64", Name("x")), Const("x", NoType, Lit), Short("x", Lit), Short("y", Lit),
            Short("y", Name("x")), Var("y", "i64", Sum(Name("x"), Cast(Lit, "i64"))),
            Assign("y", Sum(Name("y"), Cast(Lit, "i64")))}
\* Sums of casts, in a context that fixes the type and in one that does not.
Ten == Cast(Lit, "i64")
Twice == Sum(Ten, Ten)
Summed ==
    {Var("z", NoType, e) : e \in {Twice, Sum(Ten, Lit), Sum(Twice, Ten), Sum(Twice, Name("x"))}}
       \cup {Var("z", T, Twice) : T \in {"i64", "?i64"}}
       \cup {Const("z", NoType, Twice), Short("z", Twice), Assign("x", Twice), Var("y", "i64", Name("z"))}
MCStatements ==
    Simple \cup Summed \cup {Block(<<s>>) : s \in {Var("x", "?i64", Lit), Var("y", NoType, Lit), Short("y", Lit), Assign("y", Cast(Lit, "i64"))}}
           \cup {Block(<<Var("x", "?i64", Lit), Var("z", "?i64", Name("x"))>>)}
           \cup {ForIn(x, <<s>>) : x \in {"i", "y"}, s \in {Var("y", NoType, Lit), Var("z", "i64", Name("y"))}}

-----------------------------------------------------------------------------
Grown(as, bs, unary, infix) ==
    LET one == {Node("unary", o, <<t>>) : o \in unary, t \in as}
               \cup {Node("cast", "T", <<t>>) : t \in as}
               \cup {Node("unwrap", "", <<t>>) : t \in as}
        two == {Node("binary", o, <<s, t>>) : o \in infix, s \in as, t \in bs}
               \cup {Node("tuple", "", <<s, t>>) : s \in as, t \in bs}
               \cup {Node("call", "", <<s, t>>) : s \in as, t \in bs}
    IN  one \cup two \cup {Paren(t) : t \in one \cup two}

A == {Ident("a")}
Wide(as, bs)   == Grown(as, bs, {"-", "!", "*", "&"}, {"=", "&&", "==", "+", "*", "/", "&"})
Narrow(as, bs) == Grown(as, bs, {"*", "&"}, {"+", "/", "="})
One   == Wide(A, A)
Two   == Wide(One, A) \cup Wide(A, One)
Three == LET one == Narrow(A, A)
             two == Narrow(one, A) \cup Narrow(A, one)
         IN  Narrow(two, A) \cup Narrow(A, two)
MCReturns == {Spread(t) : t \in {u \in A \cup One \cup Two \cup Three :
                                   LET p == Parse(Spread(u)) IN p.ok /\ p.t = u}}
=============================================================================
