------------------------------- MODULE Stmts --------------------------------
(***************************************************************************)
(* The statements of a function body, and what they mean                   *)
(* (docs/language.md, section 7).  Every translation of a body - to MIR    *)
(* (StmtLower), to structured Wasm (WasmControl), to C (CStmts) - and the  *)
(* type checker's flow analysis (FlowCheck) is compared with Meaning.      *)
(*                                                                         *)
(* An expression is one visible action with the declaration its name was   *)
(* resolved to; its value is abstracted.                                   *)
(***************************************************************************)
EXTENDS Naturals, Sequences, SequencesExt, FiniteSetsExt

CONSTANTS
    PackSize,    \* options->activePackParamCount
    MaxEvents    \* bound: a run is followed for that many actions

ASSUME RunAssumption == {PackSize, MaxEvents} \subseteq Nat

-----------------------------------------------------------------------------
(* Statements.  Names are "x", "y", ...; "" is no name.                    *)

Act(a, x)               == [kind |-> "act", a |-> a, x |-> x]
Var(d, x, a, init)      == [kind |-> "var", d |-> d, x |-> x, a |-> a, init |-> init]
Short(d, x, a)          == [kind |-> "short", d |-> d, x |-> x, a |-> a]
Defer(s)                == [kind |-> "defer", stmt |-> s]
Block(b)                == [kind |-> "block", body |-> b]
If(then, else)          == [kind |-> "if", then |-> then, else |-> else]
PackIf(on, then, else)  == [kind |-> "packif", on |-> on, then |-> then, else |-> else]
For(init, cond, post, b) ==
    [kind |-> "for", init |-> init, cond |-> cond, post |-> post, body |-> b]
PackFor(b)              == [kind |-> "packfor", body |-> b]
ForIn(indexed, d, x, source, b) ==
    [kind |-> "forin", indexed |-> indexed, d |-> d, x |-> x, source |-> source,
     body |-> b]
Clause(labels, d, x, b) == [labels |-> labels, d |-> d, x |-> x, body |-> b]
Switch(subject, clauses, default) ==
    [kind |-> "switch", subject |-> subject, clauses |-> clauses, default |-> default]
Break    == [kind |-> "break"]
Continue == [kind |-> "continue"]
Return(a, x) == [kind |-> "return", a |-> a, x |-> x]

\* Two statements of C only: "do { b } while (0)", and a declaration whose name
\* is in scope in its own initialiser.
Once(b)             == [kind |-> "once", body |-> b]
CVar(d, x, a, init) == [kind |-> "cvar", d |-> d, x |-> x, a |-> a, init |-> init]

\* The innermost of the locals of that name.
FindLocal(locals, x) ==
    LET hits == { i \in DOMAIN locals : locals[i].x = x }
    IN  IF x = "" \/ hits = {} THEN "outer" ELSE locals[Max(hits)].d

-----------------------------------------------------------------------------
(* The meaning of a body (docs/language.md, section 7): what its structured *)
(* execution does when its conditions are decided as in "ch".               *)

Start(ch) == [ev |-> << >>, ch |-> ch, env |-> << >>, pack |-> 0, exit |-> "go",
              value |-> << >>]

\* A step whose decision is not yet known, or that exceeds the bound, waits.
Do(m, a, d) ==
    IF Len(m.ev) = MaxEvents THEN [m EXCEPT !.exit = "wait"]
    ELSE [m EXCEPT !.ev = Append(@, [a |-> a, d |-> d])]
DoNamed(m, a, x) == Do(m, a, FindLocal(m.env, x))
Decides(m) == m.exit = "go" /\ m.ch # << >>
Decided(m) == [m EXCEPT !.ch = Tail(@)]
Wait(m) == IF m.exit = "go" THEN [m EXCEPT !.exit = "wait"] ELSE m
Declare(m, x, d) == [m EXCEPT !.env = Append(@, [x |-> x, d |-> d])]
Back(m, env) == [m EXCEPT !.env = env]

RECURSIVE Mean(_, _)
RECURSIVE MeanAll(_, _)
MeanAll(m, stmts) ==
    IF stmts = << >> THEN m ELSE MeanAll(Mean(m, Head(stmts)), Tail(stmts))

\* Leaving a block in any way runs its deferred statements, last first, each
\* with the names visible where it was deferred.
LeavesBy(m, exit) == IF m.exit = "wait" THEN m ELSE [m EXCEPT !.exit = exit]
RunDeferred(m, d) ==
    LeavesBy(Mean([m EXCEPT !.exit = "go", !.env = d.env], d.stmt), m.exit)
RECURSIVE Unwind(_, _)
Unwind(m, defers) ==
    IF m.exit = "wait" \/ defers = << >> THEN m
    ELSE Unwind(RunDeferred(m, Last(defers)), Front(defers))

RECURSIVE MeanList(_, _, _)
MeanList(m, stmts, defers) ==
    IF m.exit # "go" \/ stmts = << >> THEN Unwind(m, defers)
    ELSE IF Head(stmts).kind = "defer"
    THEN MeanList(m, Tail(stmts), Append(defers, [stmt |-> Head(stmts).stmt, env |-> m.env]))
    ELSE MeanList(Mean(m, Head(stmts)), Tail(stmts), defers)

MeanBlock(m, stmts) == Back(MeanList(m, stmts, << >>), m.env)

MeanIf(m, s) ==
    IF ~Decides(m) THEN Wait(m)
    ELSE IF Head(m.ch) THEN Mean(Decided(m), s.then) ELSE MeanAll(Decided(m), s.else)

\* What follows an iteration: a loop ends at break, goes on at continue.
Ended(m)  == m.exit \in {"break", "return", "wait"}
GoesOn(m) == IF m.exit = "continue" THEN [m EXCEPT !.exit = "go"] ELSE m
Loops(m)  == IF m.exit = "break" THEN [m EXCEPT !.exit = "go"] ELSE m

RECURSIVE MeanLoop(_, _, _, _)
NextRound(m, cond, b, post) ==
    IF Ended(m) THEN Loops(m) ELSE MeanLoop(MeanAll(GoesOn(m), post), cond, b, post)
MeanLoop(m, cond, b, post) ==
    IF m.exit # "go" \/ (cond /\ ~Decides(m)) THEN Wait(m)
    ELSE IF cond /\ ~Head(m.ch) THEN Decided(m)
    ELSE NextRound(MeanBlock(IF cond THEN Decided(m) ELSE m, b), cond, b, post)

RECURSIVE MeanPack(_, _, _)
NextElement(m, i, b) == IF Ended(m) THEN Loops(m) ELSE MeanPack(GoesOn(m), i, b)
MeanPack(m, i, b) ==
    IF m.exit # "go" \/ i = PackSize THEN m
    ELSE NextElement(MeanBlock([m EXCEPT !.pack = i], b), i + 1, b)

\* The n labels of a clause are tested in order until one matches; "test" has
\* just been done for the first.
RECURSIVE MeanClauses(_, _, _)
RECURSIVE MeanLabels(_, _, _, _)
MeanLabels(m, n, clauses, default) ==
    IF ~Decides(m) THEN Wait(m)
    ELSE IF Head(m.ch)
    THEN MeanBlock(Declare(Decided(m), Head(clauses).x, Head(clauses).d), Head(clauses).body)
    ELSE IF n = 1 THEN MeanClauses(Decided(m), Tail(clauses), default)
    ELSE MeanLabels(DoNamed(Decided(m), "test", ""), n - 1, clauses, default)
MeanClauses(m, clauses, default) ==
    IF clauses = << >> \/ m.exit # "go" THEN MeanAll(m, default)
    ELSE MeanLabels(DoNamed(m, "test", ""), Head(clauses).labels, clauses, default)

MeanSwitch(m, s) ==
    Back(Loops(MeanClauses(IF s.subject THEN DoNamed(m, "subject", "") ELSE m,
                           s.clauses, s.default)), m.env)

MeanCVar(m, s) ==
    LET declared == Declare(m, s.x, s.d)
    IN  IF s.a = "" THEN declared ELSE DoNamed(declared, s.a, s.init)

Mean(m, s) ==
    IF m.exit # "go" THEN m
    ELSE CASE s.kind = "act"    -> DoNamed(m, s.a, s.x)
           [] s.kind = "var"    -> Declare(DoNamed(m, s.a, s.init), s.x, s.d)
           [] s.kind = "short"  ->
                LET at == IF FindLocal(m.env, s.x) # "outer" THEN m ELSE Declare(m, s.x, s.d)
                IN  DoNamed(at, s.a, s.x)
           [] s.kind = "cvar"   -> MeanCVar(m, s)
           [] s.kind = "once"   -> Loops(GoesOn(MeanBlock(m, s.body)))
           [] s.kind = "block"  -> MeanBlock(m, s.body)
           [] s.kind = "if"     -> MeanIf(m, s)
           [] s.kind = "packif" -> IF m.pack \in s.on THEN Mean(m, s.then) ELSE MeanAll(m, s.else)
           [] s.kind = "for"    ->
                Back(MeanLoop(MeanAll(m, s.init), s.cond, s.body, s.post), m.env)
           [] s.kind = "packfor" -> [MeanPack(m, 0, s.body) EXCEPT !.pack = m.pack]
           [] s.kind = "forin"  ->
                LET source == Declare(DoNamed(m, "source", s.source), s.x, s.d)
                    post   == IF s.indexed THEN <<Act("bump", "")>> ELSE << >>
                IN  Back(MeanLoop(source, TRUE, s.body, post), m.env)
           [] s.kind = "switch" -> MeanSwitch(m, s)
           [] s.kind = "return" ->
                [m EXCEPT !.exit = "return", !.value = <<s.a, FindLocal(m.env, s.x)>>]
           [] OTHER             -> [m EXCEPT !.exit = s.kind]

\* The returned value is evaluated after every deferred statement
\* (tests/mir_defer_runtime_ok.hop).
ThenReturns(m) == IF m.exit = "return" THEN Do(m, m.value[1], m.value[2]) ELSE m
Meaning(stmts, ch) == ThenReturns(MeanBlock(Start(ch), stmts))

=============================================================================
