---------------------------- MODULE WasmControl ----------------------------
(***************************************************************************)
(* The control flow of the direct Wasm back end (src/src/codegen_wasm.c):  *)
(* the jumps of a MIR function are turned back into blocks, loops and ifs. *)
(* A range of the code is emitted with the targets its jumps may have; a   *)
(* jump to any other place is refused.                                     *)
(***************************************************************************)
EXTENDS Stmts

-----------------------------------------------------------------------------
(* The targets a range may jump to and how many labels lie between: its    *)
(* enclosing loop's continue and break.  0 is no target.                   *)

NoTargets == [cont |-> 0, contDepth |-> 0, brk |-> 0, brkDepth |-> 0]
Targets(cont, contDepth, brk, brkDepth) ==
    [cont |-> cont, contDepth |-> contDepth, brk |-> brk, brkDepth |-> brkDepth]

\* The depth of the label a jump goes to, as a set of at most one.
WasmBranchDepthForJump(targets, to) ==
    IF targets.cont = to THEN {targets.contDepth}
    ELSE IF targets.brk = to THEN {targets.brkDepth} ELSE {}

\* Variant: inside an if a break keeps the depth it had outside.
WasmNestedBranchTargets_KeepsBreak(targets) ==
    [targets EXCEPT !.contDepth = @ + 1]
WasmNestedBranchTargets(targets) ==
    [targets EXCEPT !.contDepth = @ + 1, !.brkDepth = @ + 1]

Is(code, i, op) == code[i].op = op
JumpsTo(code, i, to) == Is(code, i, "jump") /\ code[i].to = to

\* The condition's branch of a loop that starts at "start": it skips to just
\* behind a jump back.
CondBranches(code, start, end) ==
    { b \in start .. end - 1 :
        /\ Is(code, b, "branch")
        /\ code[b].to \in b + 3 .. end
        /\ JumpsTo(code, code[b].to - 1, start) }

\* The farthest place a jump in the body goes forward to: where its tail starts.
TailStart(code, from, exit) ==
    LET ahead == { code[i].to : i \in { j \in from .. exit - 2 :
                       Is(code, j, "jump") /\ code[j].to \in j + 1 .. exit - 1 } }
    IN  IF ahead = {} THEN exit - 1 ELSE Max(ahead)

\* The regions found at a place, as a set of at most one.
WasmFindLoopRegion(code, start, end) ==
    LET found == CondBranches(code, start, end)
    IN  IF found = {} THEN {}
        ELSE LET branch == Min(found)
                 exit   == code[branch].to
             IN  {[branch |-> branch, back |-> exit - 1, exit |-> exit,
                   tail |-> TailStart(code, branch + 1, exit)]}

\* No instruction of start .. back jumps elsewhere than to the loop's start, to
\* its exit or ahead inside it.
Closed(code, start, back) ==
    \A i \in start .. back - 1 :
        /\ Is(code, i, "jump") => code[i].to \in {start, back + 1} \cup (i + 1 .. back)
        /\ Is(code, i, "branch") => code[i].to \in i + 1 .. back + 1

WasmFindUnconditionalLoopRegion(code, start, end) ==
    LET found == { e \in start + 1 .. end - 1 : JumpsTo(code, e, start) /\ Closed(code, start, e) }
    IN  IF found = {} THEN {} ELSE {[back |-> Max(found), exit |-> Max(found) + 1]}

-----------------------------------------------------------------------------
(* Emission.  A result is the structured code and whether all of it could   *)
(* be expressed.                                                            *)

WAct(a, d) == [op |-> "act", a |-> a, d |-> d]
WBlock(b)  == [op |-> "block", body |-> b]
WLoop(b)   == [op |-> "loop", body |-> b]
WIf(t, e)  == [op |-> "if", then |-> t, else |-> e]
Br(n)      == [op |-> "br", depth |-> n]
BrUnless(n) == [op |-> "br_unless", depth |-> n]
WReturn    == [op |-> "return"]

Emitted(out) == [ok |-> TRUE, out |-> out]
Refuse == [ok |-> FALSE, out |-> << >>]
Then(first, second) ==
    [ok |-> first.ok /\ second.ok, out |-> first.out \o second.out]

RECURSIVE WasmEmitFunctionRange(_, _, _, _)

\* The condition, then the body, which continues at the tail, then the tail.
EmitLoop(code, start, loop) ==
    LET hasTail == loop.tail < loop.back
        cond == WasmEmitFunctionRange(code, NoTargets, start, loop.branch)
        body == WasmEmitFunctionRange(code,
                    Targets(IF hasTail THEN loop.tail ELSE start, IF hasTail THEN 0 ELSE 1,
                            loop.exit, 2),
                    loop.branch + 1, loop.tail)
        tail == WasmEmitFunctionRange(code, Targets(start, 0, loop.exit, 1), loop.tail, loop.back)
    IN  [ok  |-> cond.ok /\ body.ok /\ tail.ok,
         out |-> <<WBlock(<<WLoop(cond.out \o <<BrUnless(1), WBlock(body.out)>>
                                  \o tail.out \o <<Br(0)>>)>>)>>]

EmitUnconditionalLoop(code, start, loop) ==
    LET body == WasmEmitFunctionRange(code, Targets(start, 0, loop.exit, 1), start, loop.back)
    IN  [ok |-> body.ok, out |-> <<WBlock(<<WLoop(body.out \o <<Br(0)>>)>>)>>]

\* A branch is an if; the jump that ends its first part, if it is not one of
\* the loop's, goes to the end of an else part.
WasmEmitIf(code, targets, pc, end) ==
    LET skip   == code[pc].to
        nested == WasmNestedBranchTargets(targets)
        last   == code[skip - 1]
        over   == last.op = "jump" /\ WasmBranchDepthForJump(targets, last.to) = {}
        else   == over /\ last.to > skip
        then   == WasmEmitFunctionRange(code, nested, pc + 1, IF else THEN skip - 1 ELSE skip)
        other  == WasmEmitFunctionRange(code, nested, skip, last.to)
    IN  IF skip \notin pc + 2 .. end \/ (over /\ last.to > end) THEN Refuse
        ELSE IF ~else
        THEN Then([then EXCEPT !.out = <<WIf(@, << >>)>>],
                  WasmEmitFunctionRange(code, targets, skip, end))
        ELSE Then([ok |-> then.ok /\ other.ok, out |-> <<WIf(then.out, other.out)>>],
                  WasmEmitFunctionRange(code, targets, last.to, end))

WasmEmitJump(targets, to) ==
    LET depths == WasmBranchDepthForJump(targets, to)
    IN  IF depths = {} THEN Refuse ELSE Emitted(<<Br(CHOOSE n \in depths : TRUE)>>)

WasmEmitInst(targets, inst) ==
    CASE inst.op = "act"    -> Emitted(<<WAct(inst.a, inst.d)>>)
      [] inst.op = "jump"   -> WasmEmitJump(targets, inst.to)
      [] inst.op = "return" -> Emitted(<<WReturn>>)

\* Loops are not looked for at the place a range continues at.
WasmEmitFunctionRange(code, targets, pc, end) ==
    LET loops   == IF targets.cont = pc THEN {} ELSE WasmFindLoopRegion(code, pc, end)
        forever == IF targets.cont = pc \/ loops # {} THEN {}
                   ELSE WasmFindUnconditionalLoopRegion(code, pc, end)
    IN  IF pc >= end THEN Emitted(<< >>)
        ELSE IF loops # {}
        THEN LET loop == CHOOSE l \in loops : TRUE
             IN  Then(EmitLoop(code, pc, loop), WasmEmitFunctionRange(code, targets, loop.exit, end))
        ELSE IF forever # {}
        THEN LET loop == CHOOSE l \in forever : TRUE
             IN  Then(EmitUnconditionalLoop(code, pc, loop),
                      WasmEmitFunctionRange(code, targets, loop.exit, end))
        ELSE IF Is(code, pc, "branch") THEN WasmEmitIf(code, targets, pc, end)
        ELSE Then(WasmEmitInst(targets, code[pc]), WasmEmitFunctionRange(code, targets, pc + 1, end))

WasmEmitFunctionBody(code) == WasmEmitFunctionRange(code, NoTargets, 1, Len(code) + 1)

-----------------------------------------------------------------------------
(* What structured Wasm does.                                              *)

WasmStart(ch) == [ev |-> << >>, ch |-> ch, exit |-> "go", depth |-> 0]

\* A branch to the innermost label ends here, any other goes on outwards.
AtLabel(m) ==
    IF m.exit # "br" THEN m
    ELSE IF m.depth = 0 THEN [m EXCEPT !.exit = "go"] ELSE [m EXCEPT !.depth = @ - 1]
Branches(m, n) == [m EXCEPT !.exit = "br", !.depth = n]

RECURSIVE WasmOp(_, _)
RECURSIVE WasmRun(_, _)
WasmRun(m, ops) ==
    IF m.exit # "go" \/ ops = << >> THEN m ELSE WasmRun(WasmOp(m, Head(ops)), Tail(ops))
WasmOp(m, o) ==
    CASE o.op = "act"    -> Do(m, o.a, o.d)
      [] o.op = "block"  -> AtLabel(WasmRun(m, o.body))
      [] o.op = "loop"   ->
            LET once == WasmRun(m, o.body)
            IN  IF once.exit = "br" /\ once.depth = 0 THEN WasmOp(AtLabel(once), o) ELSE AtLabel(once)
      [] o.op = "if"     ->
            IF ~Decides(m) THEN Wait(m)
            ELSE AtLabel(WasmRun(Decided(m), IF Head(m.ch) THEN o.then ELSE o.else))
      [] o.op = "br"     -> Branches(m, o.depth)
      [] o.op = "br_unless" ->
            IF ~Decides(m) THEN Wait(m)
            ELSE IF Head(m.ch) THEN Decided(m) ELSE Branches(Decided(m), o.depth)
      [] o.op = "return" -> [m EXCEPT !.exit = "return"]

WasmMeaning(out, ch) == WasmRun(WasmStart(ch), out)

=============================================================================
