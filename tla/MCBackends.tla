----------------------------- MODULE MCBackends ------------------------------
(* Every way of leaving a block, loop or switch nested in a loop; names,   *)
(* anytype packs, deferred blocks and the lowering's fixed tables; and      *)
(* bodies whose pointers are assigned on some of their paths only.         *)
EXTENDS Backends

\* The statements of a list, tagged with their place.
Leaf(p) == { Act("a" \o p, ""), Break, Continue, Return("r" \o p, ""),
             Defer(Act("d" \o p, "")) }
Lists == { <<s>> : s \in Leaf("1") } \cup { <<s, t>> : s \in Leaf("1"), t \in Leaf("2") }

Nested(b) ==
    { Block(b), If(Block(b), << >>), If(Block(<<Act("then", "")>>), <<Block(b)>>),
      For(<< >>, TRUE, <<Act("post", "")>>, b),
      For(<< >>, FALSE, << >>, <<Act("in", "")>> \o b), ForIn(FALSE, "v", "v", "", b), ForIn(TRUE, "v", "v", "", b),
      Switch(TRUE, <<Clause(2, "", "", b), Clause(1, "", "", <<Act("other", "")>>)>>,
             <<Block(<<Act("default", "")>>)>>),
      Switch(FALSE, <<Clause(1, "", "", <<Act("first", "")>>)>>, <<Block(b)>>) }

Outer(s) ==
    { <<Defer(Act("last", "")), For(<< >>, TRUE, << >>, <<Defer(Act("d", "")), s, Act("e", "")>>)>>,
      <<For(<<Act("init", "")>>, TRUE, <<Act("step", "")>>, <<s, Act("e", "")>>), Act("end", "")>> }

ExitBodies == UNION { Outer(s) : s \in UNION { Nested(b) : b \in Lists } }

A(a) == Act(a, "")
Loop(b) == For(<< >>, TRUE, << >>, b)
When(b) == If(Block(b), << >>)

\* Declarations, short assignments and uses in nested scopes.
Names == {
    << Var("x1", "x", "i1", ""), Defer(Act("d", "x")),
       Block(<<Var("y1", "y", "i2", "x"), Short("y2", "y", "s"), Act("u", "y")>>),
       Short("y3", "y", "s2"), Act("v", "y"), When(<<Return("r", "y")>>), Act("w", "x") >>,
    << For(<<Var("i", "i", "init", "i0")>>, TRUE, <<Act("inc", "i")>>,
           << When(<<Short("t", "t", "s"), Act("u", "t"), Continue>>), Act("v", "t") >>),
       Act("w", "i") >>,
    << Var("x1", "x", "i1", ""), ForIn(FALSE, "v", "x", "x", <<Act("u", "x"), When(<<Break>>)>>),
       Act("w", "x") >>,
    << Var("x1", "x", "i1", ""),
       Switch(TRUE, <<Clause(2, "x2", "x", <<Act("u", "x")>>), Clause(1, "", "", <<Act("v", "x")>>)>>,
              <<Block(<<Defer(Act("d", "x")), When(<<Break>>), Act("w", "x")>>)>>), Act("z", "x") >> }

\* A name of a deferred statement declared again in a block that is left at its
\* end, by a jump of a loop inside, by a return, by a jump, or in the same block;
\* and initialisers and sources that have the name they declare.
X(d, init) == Var(d, "x", "i", init)
UseX == Act("u", "x")
Shadows ==
    { << X("x1", ""), Defer(Act("d", "x")), Block(<<X("x2", ""), UseX>>), When(s), UseX >> :
        s \in {<<Return("r", "x")>>, <<A("a")>>} }
    \cup
    { << X("x1", ""), Defer(Act("d", "x")), b, Act("w", "x") >> :
        b \in { Loop(<<X("x2", ""), Defer(Act("e", "x")), When(<<Break>>), When(<<Continue>>), UseX>>),
                Block(<<X("x2", ""), When(<<Return("r", "x")>>), UseX>>),
                ForIn(FALSE, "x2", "x", "x", <<When(<<Return("r", "x")>>)>>),
                X("x2", "") } }
    \cup
    { << Loop(<<X("x1", ""), Defer(Act("d", "x")), Block(<<X("x2", ""), When(<<s>>), UseX>>)>>) >> :
        s \in {Break, Continue, A("a")} }
    \cup
    { << X("x1", ""), Block(<<X("x2", "x"), UseX>>), UseX >>,
      << X("x1", ""), ForIn(TRUE, "v", "x", "x", <<UseX>>), UseX >> }

\* Loops over an anytype pack, conditions decided by the element's type, and
\* iterations that end in a return.
Packs == {
    << PackFor(<<A("a"), PackIf({0}, Block(<<A("first")>>), <<Block(<<A("other")>>)>>)>>), A("end") >>,
    << Loop(<<PackFor(<<Defer(A("d")), PackIf({1}, Block(<<A("a"), Return("r", "")>>), << >>)>>)>>), A("end") >>,
    << Loop(<<When(<<Break>>), PackFor(<<Loop(<<When(<<Continue>>), A("a"), Break>>)>>)>>), A("end") >>,
    << PackFor(<<PackFor(<<A("a"), PackIf({1}, Block(<<A("b")>>), << >>)>>), When(<<A("c")>>)>>) >> }

\* Deferred blocks with loops of their own, jumps across several blocks.
Defers == {
    << Defer(Block(<<Var("k", "k", "i", ""), Loop(<<Act("u", "k")>>)>>)), Defer(A("d2")),
       When(<<Return("r", "")>>), A("a") >>,
    << Loop(<<Defer(A("d1")), Block(<<Defer(A("d2")), Switch(FALSE,
          <<Clause(1, "", "", <<Defer(A("d3")), When(<<Continue>>), Break>>)>>, << >>), A("a")>>)>>) >>,
    << Loop(<<Defer(A("d1")), Loop(<<Defer(A("d2")), When(<<Break>>), When(<<Return("r", "")>>)>>),
              A("a")>>), A("end") >> }

\* What the lowering refuses: jumps out of a deferred statement or of no loop,
\* and bodies that need one more control, block, deferred statement, jump or
\* label than its tables hold.
Refused == {
    << Defer(When(<<Return("r", "")>>)), A("a") >>,
    << A("a"), Break >>,
    << Switch(FALSE, <<Clause(1, "", "", <<Continue>>)>>, << >>) >>,
    << Loop(<<Loop(<<Loop(<<Loop(<<A("a")>>)>>)>>)>>) >>,
    << Block(<<Block(<<Block(<<Block(<<Block(<<Block(<<A("a")>>)>>)>>)>>)>>)>>) >>,
    << Defer(A("d1")), Defer(A("d2")), Defer(A("d3")), Defer(A("d4")), Defer(A("d5")) >>,
    << Loop(<<When(<<Break>>), When(<<Break>>), When(<<Break>>), When(<<Break>>), Break>>) >>,
    << Switch(TRUE, <<Clause(3, "", "", <<A("a")>>)>>, << >>) >> }

MCBodies == ExitBodies \cup Names \cup Shadows \cup Packs \cup Defers \cup Refused

\* A pointer p, assigned or used at one or two places of a nested structure.
Pointer == Var("p", "p", Undef("p"), "")
Set == Act("set", "p")
Use == Act("use", "p")
FlowLeaf == { Set, Use, Break, Continue, Return("use", "p"), When(<<Set>>),
              If(Block(<<Set>>), <<Block(<<Return("r", "")>>)>>) }
FlowLists == { <<s>> : s \in FlowLeaf } \cup { <<s, t>> : s \in FlowLeaf, t \in FlowLeaf }

FlowNested(b) ==
    { If(Block(b), <<Block(<<Set>>)>>), Loop(b),
      For(<< >>, TRUE, <<Use>>, b), ForIn(TRUE, "v", "v", "", b),
      Switch(TRUE, <<Clause(1, "", "", b), Clause(1, "", "", <<Set>>)>>, <<Block(<<Set>>)>>),
      Switch(FALSE, <<Clause(1, "", "", <<Set, Break>>)>>, <<Block(b)>>) }

FlowBodies ==
    UNION { { <<Pointer, Loop(<<s, Defer(Act("end", "")), Use>>)>>, <<Pointer, s, Use>>,
              <<Loop(<<Pointer, s, Defer(Use)>>)>> } :
            s \in UNION { FlowNested(b) : b \in FlowLists } }

MCAllBodies == MCBodies \cup FlowBodies

\* A body with a jump out of two blocks with deferred statements.
CrossingBreak ==
    { << Loop(<<Defer(A("d1")), A("a"), When(<<Break>>), A("b")>>), A("end") >> }
=============================================================================
