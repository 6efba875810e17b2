----------------------------- MODULE StmtLower -----------------------------
(***************************************************************************)
(* Statement lowering (src/src/mir_lower_stmt.c): the one-pass translation *)
(* of a function body into MIR jumps, with its stack of breakable controls,*)
(* its lists of jumps to patch, its stack of deferred statements that is   *)
(* replayed at every way out, and its stack of named locals.               *)
(*                                                                         *)
(* The model lowers a body, runs the code with every choice its conditions *)
(* can make, and compares what it does with the structured meaning of the  *)
(* same body (operator Meaning).  An expression is one visible action with *)
(* the declaration its name was resolved to; its value is abstracted.      *)
(***************************************************************************)
EXTENDS Stmts

CONSTANTS
    Bodies,      \* the function bodies lowered, sequences of statements
    MaxControls, \* the length of controls[]
    MaxScopes,   \* the length of blockScopes[]
    MaxDefers,   \* the length of deferredStmtNodes[]
    MaxJumps,    \* the length of breakJumps[] and of continueJumps[]
    MaxLabels,   \* the length of bodyJumps[] in a switch clause
    MaxChoices   \* bound: a run is followed for that many decisions

ASSUME BoundsAssumption ==
    {MaxControls, MaxScopes, MaxDefers, MaxJumps, MaxLabels, MaxChoices} \subseteq Nat

VARIABLES
    body,    \* the body of the function being lowered
    code,    \* its instructions
    phase,   \* "source", "running", "returned" or "unsupported"
    pc,      \* the instruction to run
    events,  \* the actions done so far
    choices  \* the decisions taken so far

vars == <<body, code, phase, pc, events, choices>>

-----------------------------------------------------------------------------
(* The lowering context H2MirStmtLower, a record threaded through it.      *)

Context0 == [code |-> << >>, locals |-> << >>, brk |-> << >>, cont |-> << >>,
             controls |-> << >>, defers |-> << >>, scopes |-> << >>,
             deferred |-> FALSE, pack |-> 0, ok |-> TRUE]

NoTarget == 0      \* an operand still to be patched (UINT32_MAX)
FirstInst == 1     \* instruction 0 of the code

Pc(c) == Len(c.code) + 1
Unsupported(c) == [c EXCEPT !.ok = FALSE]
Emit(c, op, to) == [c EXCEPT !.code = Append(@, [op |-> op, to |-> to])]
PushLocal(c, x, d) == [c EXCEPT !.locals = Append(@, [x |-> x, d |-> d])]
PopLocals(c, mark) == [c EXCEPT !.locals = SubSeq(@, 1, mark)]

EmitAct(c, a, x) ==
    [c EXCEPT !.code = Append(@, [op |-> "act", a |-> a, d |-> FindLocal(c.locals, x)])]

Patch(c, jumps, to) ==
    [c EXCEPT !.code = [i \in DOMAIN c.code |->
        IF i \in jumps THEN [c.code[i] EXCEPT !.to = to] ELSE c.code[i]]]

JumpsFrom(jumps, start) == { jumps[i] : i \in start + 1 .. Len(jumps) }

PushControl(c, hasContinue, target) ==
    IF Len(c.controls) >= MaxControls THEN Unsupported(c)
    ELSE [c EXCEPT !.controls = Append(@,
            [brk |-> Len(c.brk), cont |-> Len(c.cont), depth |-> Len(c.scopes),
             target |-> target, hasContinue |-> hasContinue])]

FinishControl(c, continueTo, breakTo) ==
    LET control == Last(c.controls)
        continued ==
            IF control.hasContinue
            THEN [Patch(c, JumpsFrom(c.cont, control.cont), continueTo)
                    EXCEPT !.cont = SubSeq(@, 1, control.cont)]
            ELSE c
        patched == Patch(continued, JumpsFrom(c.brk, control.brk), breakTo)
    IN  [patched EXCEPT !.brk = SubSeq(@, 1, control.brk), !.controls = Front(@)]

RecordBreak(c, at) ==
    IF Len(c.brk) >= MaxJumps THEN Unsupported(c) ELSE [c EXCEPT !.brk = Append(@, at)]
RecordContinue(c, at) ==
    IF Len(c.cont) >= MaxJumps THEN Unsupported(c) ELSE [c EXCEPT !.cont = Append(@, at)]

\* The index of the nearest loop in the stack of controls, or 0.
CurrentContinuable(c) ==
    Max({0} \cup { i \in DOMAIN c.controls : c.controls[i].hasContinue })

LastInstIsReturn(c) == c.code # << >> /\ Last(c.code).op = "return"

-----------------------------------------------------------------------------
RECURSIVE LowerStmt(_, _)

RECURSIVE LowerAll(_, _)
LowerAll(c, stmts) ==
    IF stmts = << >> THEN c ELSE LowerAll(LowerStmt(c, Head(stmts)), Tail(stmts))

\* Replays the deferred statements above start, last registered first.
EmitDeferredRange(c, start) ==
    [LowerAll([c EXCEPT !.deferred = TRUE],
              Reverse(SubSeq(c.defers, start + 1, Len(c.defers))))
        EXCEPT !.deferred = c.deferred]

\* Variant: a jump out of several blocks replays those of the innermost only.
EmitDeferredForControl_Innermost(c, control) ==
    IF Len(c.scopes) > control.depth THEN EmitDeferredRange(c, Last(c.scopes)) ELSE c

\* A jump to a control leaves the blocks opened inside it: the loop over
\* blockScopes replays consecutive ranges, innermost first.
EmitDeferredForControl(c, control) ==
    IF Len(c.scopes) > control.depth
    THEN EmitDeferredRange(c, c.scopes[control.depth + 1]) ELSE c

RECURSIVE LowerList(_, _)
LowerList(c, stmts) ==
    IF stmts = << >> \/ ~c.ok THEN c
    ELSE LET s == Head(stmts) IN
         IF s.kind = "defer"
         THEN IF c.deferred \/ Len(c.defers) >= MaxDefers THEN Unsupported(c)
              ELSE LowerList([c EXCEPT !.defers = Append(@, s.stmt)], Tail(stmts))
         ELSE LET after == LowerStmt(c, s) IN
              IF s.kind = "return" /\ LastInstIsReturn(after) THEN after
              ELSE LowerList(after, Tail(stmts))

\* Variant: the names declared in a block stay visible after it.
LowerBlock_KeepsLocals(c, stmts) ==
    IF Len(c.scopes) >= MaxScopes THEN Unsupported(c)
    ELSE LET inner == LowerList([c EXCEPT !.scopes = Append(@, Len(c.defers))], stmts)
             left  == EmitDeferredRange(inner, Len(c.defers))
         IN  [left EXCEPT !.defers = c.defers, !.scopes = c.scopes]

\* A block: its statements, then the statements it deferred.
LowerBlock(c, stmts) ==
    IF Len(c.scopes) >= MaxScopes THEN Unsupported(c)
    ELSE LET inner == LowerList([c EXCEPT !.scopes = Append(@, Len(c.defers))], stmts)
             left  == EmitDeferredRange(inner, Len(c.defers))
         IN  [left EXCEPT !.defers = c.defers, !.scopes = c.scopes, !.locals = c.locals]

LowerIf(c, s) ==
    LET then == LowerStmt(Emit(c, "branch", NoTarget), s.then)
        over == IF s.else = << >> THEN then ELSE Emit(then, "jump", NoTarget)
        skip == Patch(over, {Pc(c)}, Pc(over))
    IN  IF s.else = << >> THEN skip
        ELSE LET else == LowerAll(skip, s.else)
             IN  Patch(else, {Pc(then)}, Pc(else))

\* H2MirStmtLowerTryEvalActivePackBool decides the condition: one branch.
LowerPackIf(c, s) ==
    IF c.pack \in s.on THEN LowerStmt(c, s.then) ELSE LowerAll(c, s.else)

LowerFor(c, s) ==
    LET init  == LowerAll(c, s.init)
        open  == PushControl(init, TRUE, Pc(init))
        test  == IF s.cond THEN Emit(open, "branch", NoTarget) ELSE open
        inner == LowerBlock(test, s.body)
        post  == LowerAll(inner, s.post)
        back  == Emit(post, "jump", Pc(init))
        exit  == IF s.cond THEN Patch(back, {Pc(open)}, Pc(back)) ELSE back
    IN  IF ~back.ok THEN Unsupported(c)
        ELSE PopLocals(FinishControl(exit, IF s.post = << >> THEN Pc(init) ELSE Pc(inner),
                                     Pc(back)), Len(c.locals))

\* The loop over an anytype pack is unrolled, without a control of its own,
\* until the pack or an iteration that ends in a return ends it.
RECURSIVE Unroll(_, _, _)
Unroll(c, i, b) ==
    IF i = PackSize \/ ~c.ok THEN c
    ELSE LET once == LowerBlock([c EXCEPT !.pack = i], b)
         IN  IF LastInstIsReturn(once) THEN once ELSE Unroll(once, i + 1, b)

LowerPackFor(c, s) ==
    [Unroll(c, 0, s.body) EXCEPT !.pack = c.pack, !.locals = c.locals]

\* Both forms of for-in: an index over a sequence, whose value is declared
\* before the source is evaluated, or an iterator; "bump" increments the index.
LowerForIn(c, s) ==
    LET source == IF s.indexed THEN EmitAct(PushLocal(c, s.x, s.d), "source", s.source)
                               ELSE PushLocal(EmitAct(c, "source", s.source), s.x, s.d)
        open   == PushControl(source, TRUE, Pc(source))
        test   == Emit(open, "branch", NoTarget)
        inner  == LowerBlock(test, s.body)
        post   == IF s.indexed THEN EmitAct(inner, "bump", "") ELSE inner
        back   == Emit(post, "jump", Pc(source))
    IN  IF ~back.ok THEN Unsupported(c)
        ELSE PopLocals(FinishControl(Patch(back, {Pc(open)}, Pc(back)),
                                     Pc(inner), Pc(back)), Len(c.locals))

\* The labels of a clause: a test, a branch to the next label, a jump to the
\* body.  The branch of the last label, at the returned code's last but one
\* instruction, goes to the next clause.
RECURSIVE LowerLabels(_, _)
LowerLabels(c, n) ==
    LET test == Emit(Emit(EmitAct(c, "test", ""), "branch", NoTarget), "jump", NoTarget)
    IN  IF n = 1 THEN test
        ELSE LowerLabels(Patch(test, {Pc(test) - 2}, Pc(test)), n - 1)

\* One clause; "pending" is the branch that skips the clauses before it.
LowerClause(c, pending, clause) ==
    LET here   == Patch(c, pending, Pc(c))
        tests  == LowerLabels(here, clause.labels)
        bodies == { i \in Pc(here) .. Len(tests.code) : tests.code[i].op = "jump" }
        named  == PushLocal(Patch(tests, bodies, Pc(tests)), clause.x, clause.d)
        inner  == LowerBlock(named, clause.body)
        left   == PopLocals(Emit(inner, "jump", NoTarget), Len(c.locals))
    IN  IF clause.labels > MaxLabels THEN Unsupported(c)
        ELSE RecordBreak(left, Pc(inner))

\* The branch a clause lowered after c leaves pending.
PendingOf(c, clause) == {Pc(c) + 3 * clause.labels - 2}

RECURSIVE LowerClauses(_, _, _, _)
LowerClauses(c, pending, clauses, default) ==
    IF ~c.ok THEN c
    ELSE IF clauses # << >>
    THEN LowerClauses(LowerClause(c, pending, Head(clauses)),
                      PendingOf(c, Head(clauses)), Tail(clauses), default)
    ELSE IF default = << >> THEN Patch(c, pending, Pc(c))
    ELSE LowerAll(Patch(c, pending, Pc(c)), default)

LowerSwitch(c, s) ==
    LET subject == IF s.subject THEN EmitAct(c, "subject", "") ELSE c
        inner   == LowerClauses(PushControl(subject, FALSE, FirstInst), {}, s.clauses, s.default)
    IN  IF ~inner.ok THEN Unsupported(c)
        ELSE PopLocals(FinishControl(inner, FirstInst, Pc(inner)), Len(c.locals))

\* Break leaves the innermost control, continue goes on with the nearest loop.
LowerJump(c, isContinue) ==
    LET target == IF isContinue THEN CurrentContinuable(c) ELSE Len(c.controls)
        left   == IF target = 0 THEN c ELSE EmitDeferredForControl(c, c.controls[target])
        jump   == Emit(left, "jump", IF isContinue THEN c.controls[target].target ELSE NoTarget)
    IN  IF c.deferred \/ target = 0 \/ ~left.ok THEN Unsupported(c)
        ELSE IF isContinue THEN RecordContinue(jump, Pc(left)) ELSE RecordBreak(jump, Pc(left))

\* Every deferred statement of the function, then the value, then the return.
LowerReturn(c, s) ==
    IF c.deferred THEN Unsupported(c)
    ELSE Emit(EmitAct(EmitDeferredRange(c, 0), s.a, s.x), "return", NoTarget)

\* A short assignment stores to a visible local of that name, or declares one.
LowerShort(c, s) ==
    IF FindLocal(c.locals, s.x) # "outer" THEN EmitAct(c, s.a, s.x)
    ELSE EmitAct(PushLocal(c, s.x, s.d), s.a, s.x)

LowerStmt(c, s) ==
    IF ~c.ok THEN c
    ELSE CASE s.kind = "act"      -> EmitAct(c, s.a, s.x)
           [] s.kind = "var"      -> EmitAct(PushLocal(c, s.x, s.d), s.a, s.init)
           [] s.kind = "short"    -> LowerShort(c, s)
           [] s.kind = "block"    -> LowerBlock(c, s.body)
           [] s.kind = "if"       -> LowerIf(c, s)
           [] s.kind = "packif"   -> LowerPackIf(c, s)
           [] s.kind = "for"      -> LowerFor(c, s)
           [] s.kind = "packfor"  -> LowerPackFor(c, s)
           [] s.kind = "forin"    -> LowerForIn(c, s)
           [] s.kind = "switch"   -> LowerSwitch(c, s)
           [] s.kind = "break"    -> LowerJump(c, FALSE)
           [] s.kind = "continue" -> LowerJump(c, TRUE)
           [] s.kind = "return"   -> LowerReturn(c, s)
           [] OTHER               -> Unsupported(c)

\* H2MirLowerAppendSimpleFunctionWithOptions
LowerBody(stmts) == Emit(LowerBlock(Context0, stmts), "return", NoTarget)

-----------------------------------------------------------------------------
(* Running the code.                                                       *)

Finish(c) == IF c.ok THEN code' = c.code /\ phase' = "running"
                     ELSE UNCHANGED code /\ phase' = "unsupported"

Lower ==
    /\ phase = "source"
    /\ Finish(LowerBody(body))
    /\ UNCHANGED <<body, pc, events, choices>>

At(op) == phase = "running" /\ pc \in DOMAIN code /\ code[pc].op = op

DoAct ==
    /\ At("act") /\ Len(events) < MaxEvents
    /\ events' = Append(events, [a |-> code[pc].a, d |-> code[pc].d])
    /\ pc' = pc + 1
    /\ UNCHANGED <<body, code, phase, choices>>

DoJump ==
    /\ At("jump")
    /\ pc' = code[pc].to
    /\ UNCHANGED <<body, code, phase, events, choices>>

DoBranch ==
    /\ At("branch") /\ Len(choices) < MaxChoices
    /\ \E taken \in BOOLEAN :
          /\ choices' = Append(choices, taken)
          /\ pc' = IF taken THEN pc + 1 ELSE code[pc].to
    /\ UNCHANGED <<body, code, phase, events>>

DoReturn ==
    /\ At("return")
    /\ phase' = "returned"
    /\ UNCHANGED <<body, code, pc, events, choices>>

\* The function has returned or was not lowered, or the bounds are reached.
Stopped ==
    /\ \/ phase \in {"returned", "unsupported"}
       \/ At("act") /\ Len(events) = MaxEvents
       \/ At("branch") /\ Len(choices) = MaxChoices
    /\ UNCHANGED vars

Init ==
    /\ body \in Bodies
    /\ code = << >> /\ phase = "source" /\ pc = 1
    /\ events = << >> /\ choices = << >>

Next == Lower \/ DoAct \/ DoJump \/ DoBranch \/ DoReturn \/ Stopped

Spec == Init /\ [][Next]_vars

-----------------------------------------------------------------------------
(* Properties.                                                             *)

Actions(evs) == [i \in DOMAIN evs |-> evs[i].a]

ControlAgrees(m) ==
    /\ phase = "running" => pc \in DOMAIN code /\ IsPrefix(Actions(events), Actions(m.ev))
    /\ phase = "returned" => Actions(events) = Actions(m.ev) /\ m.exit # "wait"

\* The lowered code does what the statements say, in their order: loops,
\* switches, break, continue and return reach the right place, and deferred
\* statements run once, last first, on every way out of their block.
ControlAsWritten == ControlAgrees(Meaning(body, choices))

NamesAgree(m) ==
    \A i \in DOMAIN events \cap DOMAIN m.ev :
        SubSeq(Actions(events), 1, i) = SubSeq(Actions(m.ev), 1, i)
            => events[i].d = m.ev[i].d

\* The scopes a statement opens, as the lists of statements lowered in them.
Scopes(s) ==
    CASE s.kind \in {"block", "packfor"} -> {s.body}
      [] s.kind \in {"if", "packif"} -> {<<s.then>>, s.else}
      [] s.kind = "for"    -> {s.init \o <<Block(s.body)>> \o s.post}
      [] s.kind = "forin"  ->
            {IF s.indexed THEN <<Var(s.d, s.x, "source", s.source), Block(s.body)>>
             ELSE <<Act("source", s.source), Var(s.d, s.x, "", ""), Block(s.body)>>}
      [] s.kind = "switch" ->
            {s.default} \cup { <<Var(s.clauses[j].d, s.clauses[j].x, "", ""),
                                 Block(s.clauses[j].body)>> : j \in DOMAIN s.clauses }
      [] s.kind = "defer"  -> {<<s.stmt>>}
      [] OTHER             -> {}

\* The names a statement uses, itself or inside.
RECURSIVE NamesUsed(_)
NamesUsed(s) ==
    (CASE s.kind \in {"act", "short", "return"} -> {s.x}
       [] s.kind = "var" -> {s.init}
       [] OTHER          -> {}) \cup
    UNION UNION { { NamesUsed(l[i]) : i \in DOMAIN l } : l \in Scopes(s) }

\* The statements deferred in a list before its element i use these names.
DeferredNames(stmts, i) ==
    UNION { NamesUsed(stmts[j].stmt) : j \in { k \in 1 .. i - 1 : stmts[k].kind = "defer" } }
\* A short assignment may declare and counts as if it did.
Declares(s, names) == s.kind \in {"var", "short"} /\ s.x # "" /\ s.x \in names

\* A statement of a list from i on leaves the function, or the control around.
RECURSIVE ReturnsFrom(_, _)
ReturnsFrom(stmts, i) ==
    \E j \in i .. Len(stmts) :
        stmts[j].kind = "return" \/ \E l \in Scopes(stmts[j]) : ReturnsFrom(l, 1)
IsLoop(s) == s.kind \in {"for", "forin", "packfor"}
RECURSIVE JumpsFromOn(_, _)
JumpsFromOn(stmts, i) ==
    \E j \in i .. Len(stmts) :
        \/ stmts[j].kind \in {"break", "continue"}
        \/ ~IsLoop(stmts[j]) /\ \E l \in Scopes(stmts[j]) : JumpsFromOn(l, 1)

\* A deferred statement is replayed where a name it uses has been declared again
\* since: later in its own block, or in a block inside that is left by a return
\* or by a jump.  "returned" and "left" are the names of the enclosing deferred
\* statements that a return, or a jump of the innermost loop, replays.
RECURSIVE ReplaysShadowed(_, _, _)
ReplaysShadowed(stmts, returned, left) ==
    \E i \in DOMAIN stmts :
        LET s   == stmts[i]
            own == DeferredNames(stmts, i)
        IN  \/ Declares(s, own)
            \/ Declares(s, returned) /\ ReturnsFrom(stmts, i)
            \/ Declares(s, left) /\ JumpsFromOn(stmts, i)
            \/ \E l \in Scopes(s) :
                  ReplaysShadowed(l, returned \cup own, IF IsLoop(s) THEN {} ELSE left \cup own)

\* The initialiser of a local, or the source of an indexed for-in, has its name.
RECURSIVE InitialiserNamesItself(_)
InitialiserNamesItself(stmts) ==
    \E i \in DOMAIN stmts :
        \/ stmts[i].kind = "var" /\ stmts[i].x # "" /\ stmts[i].init = stmts[i].x
        \/ \E l \in Scopes(stmts[i]) : InitialiserNamesItself(l)

PlainNames(stmts) == ~ReplaysShadowed(stmts, {}, {}) /\ ~InitialiserNamesItself(stmts)

\* docs/language.md:286 "Scope is lexical by block; nearest declaration wins":
\* an action of the code uses the declaration its statement names, also in a
\* deferred statement that is lowered again at each exit of its block and where
\* blocks that declare the name anew were entered and left before.  Excepted are
\* bodies that replay a deferred statement where its name is shadowed
\* (mir_lower_stmt.c:2729) or whose initialiser has the local's own name (:5023).
NamesAsWritten == PlainNames(body) => NamesAgree(Meaning(body, choices))

=============================================================================
