----------------------------- MODULE MCChecker -----------------------------
(* The two questions the type checker settles by name and asks again later: *)
(* which function a call means, and which value a constant has.  A program *)
(* is a call of two or three overloads over a dozen types, in every order, *)
(* or constants of MCConstPrograms.                                        *)
EXTENDS CallTypes, FiniteSets, TLC

CONSTANT MaxDepth

MCInteger == {"int", "i64"}
MCAliasTarget == "T" :> "i64"
MCEmbedded == ("B" :> "A") @@ ("C" :> "B")

IntT == Named("int")
I64T == Named("i64")
T == Alias("T")
Structs == { Struct(n) : n \in {"A", "B", "C"} }
Scalars == {IntT, I64T, T} \cup Structs
Refs == { Ref(t) : t \in Structs \cup {I64T, T} } \cup { Ptr(t) : t \in {I64T, Struct("A"), Struct("B")} }
Opts == { Opt(t) : t \in {IntT, I64T, T, Struct("A"), Ref(Struct("A"))} }

Fn(params, variadic) == [params |-> params, variadic |-> variadic]
Param(n, low, t) == [name |-> n, low |-> low, type |-> t]
Arg(t, explicit, implicit) == [type |-> t, explicit |-> explicit, implicit |-> implicit]

Plainly(t) == Arg(t, NoName, NoName)

\* A program declares a function once.
Declarable(lists) == { l \in lists : \A f, g \in DOMAIN l : f # g => l[f] # l[g] }

\* Three functions of one parameter.
One(t, variadic) == Fn(<<Param("x", FALSE, t)>>, variadic)
Types == Scalars \cup Refs \cup Opts
OneParam ==
    [funcs |-> Declarable({ [i \in 1 .. 3 |-> One(t[i], FALSE)] : t \in [1 .. 3 -> Types] }),
     args  |-> { <<Plainly(t)>> : t \in Types \cup {Untyped} }]

\* Two functions of two parameters given by position.
Two(p) == Fn(<<Param("x", FALSE, p[1]), Param("_y", TRUE, p[2])>>, FALSE)
TwoParams ==
    LET types == {IntT, I64T, T, Struct("A"), Struct("B"), Opt(IntT)}
        args  == {IntT, T, Struct("B"), Struct("C"), Untyped}
    IN  [funcs |-> Declarable({ <<Two(f), Two(g)>> : f \in types \X types, g \in types \X types }),
         args  |-> { <<Plainly(t), Plainly(u)>> : t \in args, u \in args }]

\* Two functions, variadic or not, of one parameter or two.
Variadics ==
    LET fns == { One(t, v) : t \in Scalars, v \in BOOLEAN }
               \cup { Fn(<<Param("x", FALSE, t), Param("_y", TRUE, IntT)>>, TRUE) : t \in Scalars }
    IN  [funcs |-> Declarable({ <<f, g>> : f \in fns, g \in fns }),
         args  |-> { << >> } \cup { <<Plainly(t)>> : t \in Scalars }
                   \cup { <<Arg(t, n, NoName), Arg(IntT, m, NoName)>> :
                            t \in Scalars, n \in {NoName, "x"}, m \in {NoName, "_y"} }]

\* A function of three int parameters and every way to name the arguments.
Three(n, low) ==
    Fn(<<Param("x", FALSE, IntT), Param(n, low, IntT), Param("z", FALSE, IntT)>>, FALSE)
Named3 ==
    [funcs |-> { <<f, One(IntT, FALSE)>> : f \in {Three("y", FALSE), Three("_y", TRUE)} },
     args  |-> { [i \in 1 .. 3 |-> Arg(IntT, e[i], m[i])] :
                   e \in [1 .. 3 -> {NoName, "x", "y", "_y", "z"}], m \in [1 .. 3 -> {NoName, "y", "z"}] }]

\* Two functions told apart by the name of their parameter as well.
FirstNames ==
    LET types == {I64T, T, Struct("A"), Struct("B"), Opt(Struct("A"))}
    IN  [funcs |-> { <<Fn(<<Param(n, FALSE, f)>>, FALSE), Fn(<<Param(m, FALSE, g)>>, FALSE)>> :
                       n \in {"x", "y"}, m \in {"x", "y"}, f \in types, g \in types }
                   \ { <<Fn(<<Param(n, FALSE, t)>>, FALSE), Fn(<<Param(m, FALSE, t)>>, FALSE)>> :
                       n \in {"x", "y"}, m \in {"x", "y"}, t \in types },
         args  |-> { <<Arg(t, n, NoName)>> : t \in types \cup {Untyped}, n \in {NoName, "x", "y"} }]

MCFamilies == {OneParam, TwoParams, Variadics, Named3, FirstNames}

VARIABLES program, check, item, locals, nodes, answers, refused

constVars == <<program, check, item, locals, nodes, answers, refused>>

ConstPrograms == INSTANCE MCConstPrograms
Constants == INSTANCE ConstEval WITH Programs <- ConstPrograms!MCPrograms

ACall ==
    /\ Init
    /\ program = ConstPrograms!NoProgram /\ Constants!Unchecked

NoCall ==
    /\ call = [funcs |-> << >>, args |-> << >>] /\ stage = "end" /\ scan = Start
    /\ checked = NoAnswer /\ again = NoAnswer

MCInit == ACall \/ (Constants!Init /\ NoCall)

MCNext ==
    \/ Next /\ UNCHANGED constVars
    \/ Constants!Next /\ UNCHANGED vars

MCSpec == MCInit /\ [][MCNext]_<<vars, constVars>>

\* See ConstEval: array lengths are the values their expressions have where they are
\* written, and nothing is refused without cause (consteval.c:974).
EvaluatedAsWritten == Constants!EvaluatedAsWritten
=============================================================================
