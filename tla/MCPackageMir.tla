---------------------------- MODULE MCPackageMir ----------------------------
(***************************************************************************)
(* Small functions for PackageMir: a call, or an allocation, straight on,  *)
(* in an if, in a loop, before and after other code.                       *)
(***************************************************************************)
EXTENDS PackageMir

Declared(pkg, n, kind, params, fn) ==
    [pkg |-> pkg, name |-> n, kind |-> kind, params |-> params, fn |-> fn]

\* gp holds uno, but one is the first function of its type; m.f has three overloads.
MCDecls == <<Declared("", "one", "fn", <<"i">>, 0), Declared("", "two", "fn", <<"i", "j">>, 0),
             Declared("", "add", "fn", <<"p", "i">>, 0), Declared("", "gp", "value", << >>, 5),
             Declared("", "uno", "fn", <<"i">>, 0), Declared("m", "f", "fn", <<"i">>, 0),
             Declared("m", "f", "fn", <<"i", "j">>, 0), Declared("m", "v", "value", << >>, 0),
             Declared("", "y", "value", << >>, 0), Declared("", "three", "fn", <<"i", "j", "k">>, 0),
             Declared("m", "f", "fn", <<"k">>, 0)>>

Expr(k, n, f, args, fn) == [k |-> k, n |-> n, f |-> f, args |-> args, fn |-> fn]
Labelled(es, labels) == [i \in DOMAIN es |-> [label |-> labels[i], e |-> es[i]]]
Unlabelled(es) == Labelled(es, [i \in DOMAIN es |-> ""])
Lit(n) == Expr("int", n, "", << >>, 0)
Nm(n) == Expr("name", n, "", << >>, 0)
Fn(n, id) == Expr("fn", n, "", << >>, id)
Fld(n, f) == Expr("field", n, f, << >>, 0)
Add(a, b) == Expr("add", "", "", Unlabelled(<<a, b>>), 0)
And(a, b) == Expr("and", "", "", Unlabelled(<<a, b>>), 0)
CallOf(n, id, es) == Expr("call", n, "", Unlabelled(es), id)
Dot(n, f, id, es) == Expr("dot", n, f, Unlabelled(es), id)
CallThree(labels, es) == Expr("call", "three", "", Labelled(es, labels), 10)

Stmt(k, n, decl, e, body) == [k |-> k, n |-> n, decl |-> decl, e |-> e, count |-> << >>,
                              in |-> << >>, init |-> << >>, body |-> body]
Set(n, decl, e) == Stmt("set", n, decl, e, << >>)
Alloc(n, decl, count, in, init) ==
    [Stmt("alloc", n, decl, Lit("0"), << >>) EXCEPT !.count = count, !.in = in, !.init = init]
To(f, e) == [f |-> f, e |-> e]

\* A statement's surroundings: c is a parameter, w the variable of a loop.
Around(st) == { <<st>>,
                <<Stmt("if", "c", FALSE, Lit("0"), <<st>>)>>,
                <<Set("w", TRUE, Nm("c")), Stmt("again", "w", FALSE, Lit("0"), <<st>>)>>,
                <<Stmt("if", "c", FALSE, Lit("0"), <<Set("x", TRUE, Dot("m", "f", 6, <<Nm("a")>>)), st>>)>> }

Field(n, default) == [name |-> n, default |-> default]
Function(c, body, value, fields, same) ==
    [params |-> <<[name |-> "c", arg |-> IF c THEN True ELSE False], [name |-> "a", arg |-> <<"a">>],
                [name |-> "d", arg |-> True]>>,
     body |-> body, value |-> value, fields |-> fields, same |-> same]

-----------------------------------------------------------------------------
Simple == { Nm("a"), Nm("y"), Fld("m", "v"), CallOf("one", 1, <<Nm("a")>>),
            Dot("m", "f", 6, <<Nm("a")>>), And(Nm("c"), Nm("d")) }

Called == UNION { { CallOf("uno", 5, <<s>>), Dot("m", "f", 6, <<s>>),
                    Dot("m", "f", 7, <<Lit("2"), s>>), Dot("r", "op", 0, <<s>>),
                    Dot("r", "add", 3, <<s>>), Add(s, Dot("m", "f", 6, <<Lit("2")>>)),
                    CallOf("two", 2, <<s, Dot("r", "add", 3, <<Fld("m", "v")>>)>>),
                    CallThree(<<"", "j", "k">>, <<Nm("a"), Lit("2"), s>>),
                    CallThree(<<"", "k", "j">>, <<Nm("a"), s, Lit("2")>>),
                    Dot("m", "f", 6, <<Dot("r", "op", 0, <<s>>)>>),
                    Dot("m", "f", 7, <<And(And(Nm("c"), Nm("d")), Nm("c")), s>>) } : s \in Simple }
          \cup { CallOf("gp", 5, <<Nm("a")>>), Dot("m", "f", 11, <<Nm("a")>>), Dot("r", "op", 0, << >>) }

CallPrograms ==
    { Function(c, <<Set("g", TRUE, Fn("one", 1)), Alloc("r", TRUE, << >>, << >>, <<To("op", Nm("g"))>>),
                    Set("x", TRUE, Nm("y"))>> \o body, value, fields, FALSE) :
        c \in BOOLEAN, body \in UNION { Around(Set("x", FALSE, e)) : e \in Called },
        value \in { Nm("x"), CallOf("two", 2, <<Nm("x"), Fld("m", "v")>>) },
        fields \in { <<Field("op", << >>)>>, <<Field("op", << >>), Field("add", << >>)>> } }

-----------------------------------------------------------------------------
Structs == { <<Field("x", << >>), Field("b", << >>)>>,
             <<Field("x", <<Lit("7")>>), Field("b", <<Nm("x")>>)>>,
             <<Field("x", << >>), Field("a", << >>), Field("b", <<Add(Nm("x"), Nm("a"))>>)>>,
             <<Field("x", << >>), Field("b", << >>), Field("y", << >>)>>,
             <<Field("x", << >>), Field("b", <<CallOf("one", 1, <<Lit("1")>>)>>)>> }

\* The first allocation gives x a value, unless b has a default that is lost.
FirstGiven(fields) == IF fields[2].default # << >> /\ fields[2].default[1].k = "call" THEN << >>
                      ELSE <<To("x", Lit("1"))>>

Values == { Lit("3"), Nm("n"), Nm("y"), Add(Nm("n"), Nm("a")), Fld("p", "x"), CallOf("one", 1, <<Nm("a")>>) }

Allocated ==
    { Alloc(IF decl THEN "q" ELSE "p", decl, << >>, in, init) :
        decl \in BOOLEAN, in \in { << >>, <<Nm("n")>> },
        init \in { << >> }
                 \cup { <<To("b", v), To("x", Nm("n"))>> : v \in Values } }
    \cup { Alloc("s", TRUE, <<v>>, in, << >>) : v \in Values, in \in { << >>, <<Nm("n")>>, <<Nm("y")>>, <<Dot("m", "f", 6, <<Nm("a")>>)>> } }

\* A block before n, or after it, has an n of its own.
AllocPrograms ==
    { Function(c, around[1] \o <<Set("n", TRUE, Dot("m", "f", 6, <<Nm("a")>>))>> \o around[2]
                  \o <<Alloc("p", TRUE, << >>, << >>, FirstGiven(fields))>> \o body,
               Nm("p"), fields, same) :
        c \in BOOLEAN,
        around \in LET own == <<Stmt("block", "", FALSE, Lit("0"), <<Set("n", TRUE, Lit("5"))>>)>>
                   IN  { <<own, << >>>>, <<<< >>, own>> },
        body \in UNION { Around(st) : st \in Allocated },
        fields \in Structs, same \in BOOLEAN }

MCPrograms == CallPrograms \cup AllocPrograms
=============================================================================
