----------------------------- MODULE Narrowing ------------------------------
(***************************************************************************)
(* A function body whose locals are narrowed: it is type checked           *)
(* (NarrowCheck), written as C (NarrowC), and both the source and the C    *)
(* are run with the same arguments and the same decisions (NarrowStmts).   *)
(***************************************************************************)
EXTENDS NarrowC

CONSTANTS
    Families,      \* the bodies, in sets
    Inputs(_),     \* the arguments x, y and e a body is run with
    MaxChoices     \* bound: decisions of cond() in a run

VARIABLES
    body,      \* the statements of the body
    phase,     \* "parsed" | "checked" | "rejected" | "running"
    emitted,   \* its C, and whether a C compiler takes it
    args,      \* the arguments
    choices    \* the decisions so far

vars == <<body, phase, emitted, args, choices>>

NoArgs == [x |-> Nothing, y |-> Nothing, e |-> ""]

Init ==
    /\ \E family \in Families : body \in family
    /\ phase = "parsed" /\ emitted = [ok |-> FALSE, out |-> << >>]
    /\ args = NoArgs /\ choices = << >>

TypeCheck ==
    /\ phase = "parsed"
    /\ phase' = IF Accepted(body) THEN "checked" ELSE "rejected"
    /\ UNCHANGED <<body, emitted, args, choices>>

\* The C is written, and the function is called.
EmitAndCall ==
    /\ phase = "checked" /\ phase' = "running"
    /\ LET c == CEmitFunctionBody(body) IN emitted' = [ok |-> c.ok, out |-> c.out]
    /\ args' \in Inputs(body)
    /\ UNCHANGED <<body, choices>>

\* What the source does, and what the C does.
Source == RunOf("hop", body, args, choices)
Compiled == RunOf("c", emitted.out, args, choices)

\* The body calls cond().
Decide ==
    /\ phase = "running" /\ Source.exit = "wait" /\ Len(choices) < MaxChoices
    /\ \E taken \in BOOLEAN : choices' = Append(choices, taken)
    /\ UNCHANGED <<body, phase, emitted, args>>

Next == TypeCheck \/ EmitAndCall \/ Decide

Spec == Init /\ [][Next]_vars

-----------------------------------------------------------------------------
(* Bodies with what the checker or the C back end is known to get wrong    *)
(* (README, "Known disagreements").                                        *)

RECURSIVE Lists(_)
RECURSIVE Within(_)
\* The lists of statements in a list, itself included, and the statements.
ListsOf(s) ==
    CASE s.kind \in {"block", "loop"} -> Lists(s.body)
      [] s.kind = "defer"  -> Lists(<<s.stmt>>)
      [] s.kind = "if"     -> Lists(s.then) \cup Lists(s.else)
      [] s.kind = "switch" -> Lists(s.default) \cup
                              UNION { Lists(s.clauses[j].body) : j \in DOMAIN s.clauses }
      [] OTHER             -> {}
Lists(stmts) == {stmts} \cup UNION { ListsOf(stmts[i]) : i \in DOMAIN stmts }
Within(stmts) == UNION { ToSet(list) : list \in Lists(stmts) }

\* A statement that reads x as it is, tests it, or assigns it.
Reads(s, x)  == s.kind \in {"need", "opt", "set", "var"} /\ s.e = Read(x)
Tests(s, x)  == s.kind = "if" /\ s.test.k # "call" /\ s.test.e.x = x
Assigns(s, x) == s.kind = "set" /\ s.x = x

\* Where a test says that a local has a value: in one of its branches, or
\* behind an if that is left otherwise.
Branches ==
    { <<s.test.e.x, IF ThenIsSome(s.test) THEN s.then ELSE s.else>> :
      s \in { t \in Within(body) : t.kind = "if" /\ t.test.k # "call" } }
Continuations ==
    UNION { { <<list[i].test.e.x, SubSeq(list, i + 1, Len(list))>> :
              i \in { j \in DOMAIN list :
                        /\ list[j].kind = "if" /\ list[j].test.k # "call"
                        /\ ~ThenIsSome(list[j].test) /\ list[j].else = << >>
                        /\ BlockTerminates(list[j].then) } } :
            list \in Lists(body) }

\* A case that narrows the local switched on.
Cases(stmts) ==
    UNION { { <<s.x, s.clauses[j].body>> :
              j \in { k \in DOMAIN s.clauses : Len(s.clauses[k].labels) = 1 } } :
            s \in { t \in Within(stmts) : t.kind = "switch" } }

\* A closure sets a local to null where it has a value.
Poked ==
    \E r \in Branches \cup Continuations : Poke(r[1]) \in Within(r[2])
\* There is a closure: the C back end does not write those that assign.
Closures == \E s \in Within(body) : s.kind = "poke"
\* An enum becomes another variant in a case that narrows it.
Reassigned ==
    \E r \in Cases(body) : \E s \in Within(r[2]) : s.kind = "become" /\ s.x = r[1]
\* A case with several labels has aliases.
SharedAlias ==
    \E s \in Within(body) : s.kind = "switch" /\
        \E j \in DOMAIN s.clauses :
            Len(s.clauses[j].labels) > 1 /\ s.clauses[j].binds # << >>

\* A value is used behind the if that left if there was none.
UsedBehindGuard ==
    \E r \in Continuations : \E s \in Within(r[2]) :
        s.kind \in {"need", "set", "var"} /\ Reads(s, r[1])
\* A local with a value is used in a branch in which another one has one, too.
TwoActive ==
    \E r \in Branches, q \in Branches :
        /\ \E s \in Within(r[2]) :
              Tests(s, q[1]) /\ q[2] = IF ThenIsSome(s.test) THEN s.then ELSE s.else
        /\ r[1] # q[1]
        /\ \E s \in Within(q[2]) : Reads(s, r[1]) \/ Assigns(s, r[1])
\* A deferred statement that tests or assigns a local is replayed where the
\* local has a value.
ReplayedInside ==
    \E r \in Branches : Return \in Within(r[2]) /\
        \E d \in Within(body) : d.kind = "defer" /\
            \E s \in Within(<<d.stmt>>) :
                Tests(s, r[1]) \/ Assigns(s, r[1]) \/ Reads(s, r[1])
\* A case of a local has a switch on the same local.
SwitchedAgain ==
    \E r \in Cases(body), q \in Cases(body) : q \in Cases(r[2]) /\ r[1] = q[1]
\* A block switches on a local of its own, and then on another one.
StaleVariant ==
    \E list \in Lists(body) \ {body} : \E i, j \in DOMAIN list :
        /\ list[i].kind = "var"
        /\ \E k \in i + 1 .. j - 1 : \E r \in Cases(<<list[k]>>) : r[1] = list[i].x
        /\ \E r \in Cases(<<list[j]>>) : r[1] # list[i].x

-----------------------------------------------------------------------------
(* Properties.                                                             *)

\* docs/language.md:384 "`?T -> T` is not implicit; unwrap or narrowing is
\* required", and :608 "Payload field selection requires a narrowed value":
\* wherever the branches, loops, jumps and deferred statements of an accepted
\* body lead, what is used as a T is not null, and the payload that is read is
\* that of the variant the enum has.
NarrowedHolds ==
    phase = "running" =>
        \/ Source.exit # "fault" /\ ~Source.misread
        \/ Poked \/ Reassigned \/ SharedAlias

\* The C back end narrows the locals of an accepted body as the checker did,
\* although it does so again and in other places: the C compiles, and reads,
\* tests and assigns what the source does.
CReadsAsChecked ==
    phase = "running" =>
        \/ emitted.ok /\ Compiled.ev = Source.ev
        \/ Closures \/ Reassigned \/ SharedAlias
        \/ UsedBehindGuard \/ TwoActive \/ ReplayedInside \/ SwitchedAgain \/ StaleVariant
=============================================================================
