------------------------------ MODULE Backends -------------------------------
(***************************************************************************)
(* The ways a checked function body is run: its MIR by the executor        *)
(* (StmtLower), its MIR as structured Wasm (WasmControl), its statements   *)
(* as C (CStmts), after the type checker's flow analysis (FlowCheck).  All *)
(* are compared with the meaning of the statements.                        *)
(***************************************************************************)
EXTENDS StmtLower, WasmControl, CStmts, FlowCheck

CONSTANT Targets0    \* the targets built for, of "mir", "wasm" and "c"

VARIABLES
    target,   \* the target the body is built for
    prog      \* the emitted program, and whether it could be emitted

allVars == <<body, code, phase, pc, events, choices, target, prog>>

NoProg == [done |-> FALSE, ok |-> FALSE, out |-> << >>]
Prog(ok, out) == [done |-> TRUE, ok |-> ok, out |-> out]

\* What the emitted program does when its conditions are decided as in ch.
RunOf(p, ch) ==
    IF target = "wasm" THEN WasmMeaning(p.out, ch) ELSE Meaning(p.out, ch)

BuildInit == Init /\ target \in Targets0 /\ prog = NoProg

\* The executor runs the lowered code.
RunMir ==
    /\ target = "mir"
    /\ DoAct \/ DoJump \/ DoBranch \/ DoReturn
    /\ UNCHANGED <<target, prog>>

LowerBodyStep ==
    /\ target # "c"
    /\ Lower
    /\ UNCHANGED <<target, prog>>

Emits(p) ==
    /\ prog' = p
    /\ events' = IF p.ok THEN RunOf(p, choices).ev ELSE << >>
    /\ UNCHANGED <<body, code, phase, pc, choices, target>>

\* The direct Wasm back end takes the MIR of the function.
EmitWasm ==
    /\ target = "wasm" /\ phase = "running" /\ ~prog.done
    /\ LET r == WasmEmitFunctionBody(code) IN Emits(Prog(r.ok, r.out))

\* The C back end takes its statements.
EmitC ==
    /\ target = "c" /\ ~prog.done
    /\ LET c == CEmitFunctionBody(body) IN Emits(Prog(c.ends, c.out))

\* The emitted program runs to its next condition, which is decided.
RunEmitted ==
    /\ prog.ok /\ Len(choices) < MaxChoices
    /\ RunOf(prog, choices).exit = "wait" /\ Len(events) < MaxEvents
    /\ \E taken \in BOOLEAN :
          /\ choices' = Append(choices, taken)
          /\ events' = RunOf(prog, Append(choices, taken)).ev
    /\ UNCHANGED <<body, code, phase, pc, target, prog>>

BuildStopped ==
    /\ \/ target = "mir" /\ Stopped
       \/ phase = "unsupported"
       \/ prog.done /\ (~prog.ok \/ Len(choices) = MaxChoices \/ Len(events) = MaxEvents
                        \/ RunOf(prog, choices).exit # "wait")
    /\ UNCHANGED allVars

BuildNext ==
    LowerBodyStep \/ RunMir \/ EmitWasm \/ EmitC \/ RunEmitted \/ BuildStopped

BuildSpec == BuildInit /\ [][BuildNext]_allVars

-----------------------------------------------------------------------------
(* Properties.                                                             *)

\* The emitted program has done what the statements do, with the names they
\* mean unless a name is shadowed where it is written.
EmittedAgrees ==
    LET m == Meaning(body, choices)
        r == RunOf(prog, choices)
        Seen(evs) == IF PlainNames(body) THEN evs ELSE Actions(evs)
    IN  IF r.exit = "wait" THEN IsPrefix(Seen(r.ev), Seen(m.ev))
        ELSE Seen(r.ev) = Seen(m.ev) /\ m.exit # "wait"

\* docs/wasm.md: "Unsupported or irreducible shapes fail explicitly instead of
\* producing incorrect Wasm."  Whatever nesting of loops, ifs, breaks and continues
\* the back end recognises in the jumps, the structured code it emits does what
\* the statements say.
WasmAsWritten == target = "wasm" /\ prog.ok => EmittedAgrees

\* In a list of statements, "crossed" says that a block between it and the
\* control it is in has deferred statements, "sw" that the control is a switch.
Deferring(stmts) == \E i \in DOMAIN stmts : stmts[i].kind = "defer"
RECURSIVE JumpsClear(_, _, _)
JumpsClear(stmts, crossed, sw) ==
    \A i \in DOMAIN stmts :
        LET s    == stmts[i]
            here == crossed \/ Deferring(stmts)
        IN  CASE s.kind = "break"    -> ~crossed
              [] s.kind = "continue" -> ~crossed /\ ~sw
              [] s.kind = "block"    -> JumpsClear(s.body, here, sw)
              [] s.kind \in {"if", "packif"} ->
                    JumpsClear(<<s.then>>, here, sw) /\ JumpsClear(s.else, here, sw)
              [] s.kind \in {"for", "forin"} -> JumpsClear(s.body, FALSE, FALSE)
              [] s.kind = "packfor"  -> FALSE
              [] s.kind = "switch"   ->
                    /\ \A j \in DOMAIN s.clauses : JumpsClear(s.clauses[j].body, FALSE, TRUE)
                    /\ JumpsClear(s.default, FALSE, TRUE)
              [] OTHER               -> TRUE

Lowered(stmts) == LowerBody(stmts).ok

\* The C text does what the statements say, with the names they mean (except as
\* in NamesAsWritten; expr.c:14453), in every body whose breaks and continues leave the deferred statements of one block
\* only and whose continues are not in a switch: replays on return, nested
\* loops, iterators and do { } while (0) keep the order of the statements.
CKeepsControl ==
    target = "c" /\ prog.done /\ Lowered(body) /\ JumpsClear(body, FALSE, FALSE)
        => prog.ok /\ EmittedAgrees

\* docs/language.md:614 "Defers are guaranteed on structured scope exits (normal
\* fallthrough, `return`, `break`, `continue`)": the same of every body.
CAsWritten == target = "c" /\ prog.ok => EmittedAgrees

\* Every break out of a switch is the last statement of its clause, and no
\* deferred statement assigns.
RECURSIVE BreaksLast(_, _, _)
BreaksLast(stmts, sw, last) ==
    \A i \in DOMAIN stmts :
        LET s  == stmts[i]
            at == last /\ i = Len(stmts)
        IN  CASE s.kind = "break"  -> sw => at
              [] s.kind = "block"  -> BreaksLast(s.body, sw, at)
              [] s.kind = "defer"  -> s.stmt.kind # "act" \/ s.stmt.a # "set"
              [] s.kind = "if"     ->
                    BreaksLast(<<s.then>>, sw, FALSE) /\ BreaksLast(s.else, sw, FALSE)
              [] s.kind \in {"for", "forin"} -> BreaksLast(s.body, FALSE, FALSE)
              [] s.kind = "switch" ->
                    /\ \A j \in DOMAIN s.clauses : BreaksLast(s.clauses[j].body, TRUE, TRUE)
                    /\ BreaksLast(s.default, TRUE, TRUE)
              [] OTHER             -> TRUE

\* docs/language.md:415 "uninitialized until assigned and cannot be read ... or
\* otherwise used before definite assignment": in every accepted body without
\* an early break out of a switch, on every path, a pointer is assigned between
\* its declaration and its use, however branches, loops and jumps merge.
FlowSound ==
    target = "mir" /\ BreaksLast(body, FALSE, FALSE) /\ TypeFunctionBody(body)
        => AssignedBeforeUse(events)

=============================================================================
