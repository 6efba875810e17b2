---------------------------- MODULE MCNarrowing -----------------------------
(* Narrowing for TLC: bodies with a test, or a switch, between, around and *)
(* inside other statements.                                                *)
EXTENDS Narrowing

MCInputs(b) ==
    IF \E s \in Within(b) : s.kind = "switch"
    THEN { [x |-> Nothing, y |-> Nothing, e |-> v] : v \in Variants }
    ELSE { [x |-> v, y |-> w, e |-> "C"] :
           v \in {Nothing, Number(0), Number(3)}, w \in {Nothing, Number(3)} }

Is(x)    == Test("is", FALSE, Read(x))
Eq(x)    == Test("eq", FALSE, Read(x))
Ne(x)    == Test("ne", FALSE, Read(x))
NotEq(x) == Test("eq", TRUE, Read(x))
Cond     == Test("call", FALSE, Null)
OfX      == {Is("x"), Eq("x"), Ne("x"), NotEq("x")}

\* Statements on optionals.
Uses  == { Need(Read("x")), Opt(Read("x")), Set("x", Num(3)), Set("x", Null),
           Set("x", Read("y")), Set("y", Read("x")), Poke("x") }
Ends  == { Return, Opt(Read("y")), Opt(Read("x")) }
Elses == { << >> } \cup { <<Block(<<s>>)>> : s \in Uses }
Hides == { Var("y", TRUE, Read("x")), Var("x", TRUE, Read("y")) }
Later == { Set("x", Null), Opt(Read("x")), Set("y", Read("x")),
           If(Ne("x"), <<Need(Read("x"))>>, << >>) }

\* An if, its test, and what is behind it.
Ifs == { If(t, <<s, r>>, f) : t \in OfX, s \in Uses \cup Hides, r \in Ends, f \in Elses }
Leaving == { If(t, <<Return>>, << >>) : t \in OfX }
      \cup { If(t, <<Set("y", Read("x")), Return>>, << >>) : t \in {Eq("x"), Ne("x")} }
Nested == { If(t, <<If(u, <<s, r>>, f)>>, << >>) :
            t \in {Ne("x"), Eq("x"), Cond}, u \in {Ne("y"), Eq("y"), Ne("x"), Cond},
            s \in Uses, r \in Ends, f \in { << >>, <<Block(<<Need(Read("x"))>>)>> } }
Plain(ifs) == { <<i, s, Opt(Read("x"))>> :
                i \in ifs, s \in {Opt(Read("x")), Set("x", Null), Need(Read("x"))} }
Behind ==
    { <<g, Var("z", FALSE, Read("x")), s, Opt(Read("y"))>> :
      g \in Leaving, s \in Uses \cup {Need(Read("z"))} }
    \cup
    { <<g, Block(<<If(t, <<Return>>, << >>), s>>), Need(Read("x"))>> :
      g \in Leaving, t \in {Eq("y"), Cond, Ne("y")}, s \in Uses }
    \cup
    { <<Block(<<g, s>>), t>> : g \in Leaving, s \in Uses, t \in Uses }
    \cup
    { <<If(Eq("x"), <<Set("x", Null), If(Cond, <<Return>>, << >>)>>,
           <<If(Ne("y"), <<s>>, << >>)>>), t>> : s \in Uses, t \in Uses }

\* The jumps of loops, and deferred statements.
Loops ==
    { <<Loop(<<If(t, <<j>>, << >>), s, Opt(Read("x"))>>), r>> :
      t \in OfX, j \in {Break, Continue}, s \in Uses, r \in Uses }
    \cup
    { <<Loop(<<If(t, <<s, j>>, << >>), r>>)>> :
      t \in OfX, j \in {Break, Continue, Opt(Read("y"))}, s \in Uses, r \in Uses }
Defers ==
    { <<Defer(d), If(t, <<s, r>>, << >>), Opt(Read("x"))>> :
      d \in Later, t \in OfX, s \in Uses, r \in Ends }
    \cup
    { <<g, Defer(d), s, Opt(Read("x"))>> :
      g \in Leaving, d \in Later \cup {Need(Read("x"))}, s \in Uses }
    \cup
    { <<If(t, <<Defer(d), s, r>>, << >>)>> :
      t \in OfX, d \in Later \cup {Need(Read("x"))}, s \in Uses, r \in Ends }

\* Statements on enums.
One(v, b) == Clause(<<v>>, << >>, b)
As(v, a, b) == Clause(<<v>>, <<[x |-> a, v |-> v]>>, b)
EnumUses == { Field("e", "A"), Field("e", "B"), Become("e", "B"), Become("e", "C"),
              Field("a", "A") }
Heads(b) == { One("A", b), As("A", "a", b), As("A", "e", b), Clause(<<"A", "B">>, << >>, b),
              Clause(<<"B", "A">>, <<[x |-> "b", v |-> "B"], [x |-> "a", v |-> "A"]>>, b) }
Rests == { << << >>, <<Block(<< >>)>> >>,
           << <<One("B", <<Field("e", "B")>>)>>, <<Block(<<Return>>)>> >>,
           << <<One("B", <<Break>>), One("C", <<Become("e", "A")>>)>>, << >> >> }
Switches(bodies) == { Switch("e", <<h>> \o r[1], r[2]) :
                      h \in UNION { Heads(b) : b \in bodies }, r \in Rests }
Twos   == { <<s, t>> : s \in EnumUses, t \in EnumUses }
Small  == Switches({ <<s>> : s \in EnumUses })
Inner == { Switch(x, <<One("B", <<s>>)>>, <<Block(<<t>>)>>) :
           x \in {"e", "f"}, s \in {Field("f", "B"), Field("e", "B"), Return},
           t \in {Field("a", "A"), Return} }
InnerHeads == UNION { Heads(<<i, t>>) : i \in Inner, t \in EnumUses }
DeferHeads == UNION { Heads(<<Defer(s), i, t>>) : s \in {Field("e", "A"), Field("a", "A")},
                      i \in Inner \cup {If(Cond, <<Return>>, << >>)}, t \in EnumUses }
MCFamilies ==
    { Plain(Ifs), Plain(Nested), Behind, Loops, Defers,
      { <<s>> : s \in Switches(Twos) },
      { <<Loop(<<s, t>>)>> : s \in Small, t \in EnumUses },
      { <<Switch("e", <<h>>, <<Block(<< >>)>>)>> : h \in DeferHeads },
      { <<Var("f", FALSE, Read("e")), Switch("e", <<h>>, <<Block(<< >>)>>)>> :
          h \in InnerHeads },
      { <<If(Cond, <<Var("f", FALSE, Read("e")), i, j>>, << >>), s>> :
          i \in Inner, j \in Inner \cup {Become("e", "B")}, s \in Small } }
=============================================================================
