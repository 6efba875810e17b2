------------------------------ MODULE FlowCheck ------------------------------
(***************************************************************************)
(* The type checker's analysis of definite assignment                      *)
(* (src/src/typecheck/stmt.c): a pointer local declared without a value    *)
(* may be used only where every way there has assigned it.  One pass over  *)
(* the statements, with the states before a branch saved, restored and     *)
(* merged behind it.                                                       *)
(***************************************************************************)
EXTENDS Stmts

-----------------------------------------------------------------------------
(* In the bodies a pointer local d is declared by the action Undef(d); "set" *)
(* assigns the local it names and "use" reads it.                          *)

Undef(d) == "undef " \o d

\* A local's state: "init", "uninit" or "maybe".
FlowStart == [locals |-> << >>, ok |-> TRUE]
FlowFail(f) == [f EXCEPT !.ok = FALSE]

LocalAdd(f, x, d, state) == [f EXCEPT !.locals = Append(@, [x |-> x, d |-> d, init |-> state])]
LocalFind(f, x) ==
    IF x = "" THEN 0 ELSE Max({0} \cup { i \in DOMAIN f.locals : f.locals[i].x = x })

MarkLocalInitialized(f, i) ==
    IF i = 0 THEN f ELSE [f EXCEPT !.locals[i].init = "init"]
CheckLocalInitialized(f, i) ==
    IF i # 0 /\ f.locals[i].init # "init" THEN FlowFail(f) ELSE f

\* The states of the first locals of f are those they have in "saved".
RestoreLocalInitStates(f, saved) ==
    [f EXCEPT !.locals = [i \in DOMAIN @ |->
        IF i \in DOMAIN saved.locals THEN [@[i] EXCEPT !.init = saved.locals[i].init] ELSE @[i]]]
LeaveScope(f, outer) == [f EXCEPT !.locals = SubSeq(@, 1, Len(outer.locals))]

MergeLocalInitState(a, b) == IF a = b THEN a ELSE "maybe"
MergeLocalInitStates(f, g) ==
    [f EXCEPT !.locals = [i \in DOMAIN @ |->
        IF i \in DOMAIN g.locals
        THEN [@[i] EXCEPT !.init = MergeLocalInitState(@, g.locals[i].init)] ELSE @[i]]]

Exits(stmts, kinds) == stmts # << >> /\ Last(stmts).kind \in kinds
StmtTerminates(s) ==
    LET kinds == {"return", "break", "continue"}
    IN  s.kind \in kinds \/ (s.kind = "block" /\ Exits(s.body, kinds))
\* A clause that ends in a return or a continue, in nested blocks too.
RECURSIVE ExitsSwitch(_)
ExitsSwitch(stmts) ==
    \/ Exits(stmts, {"return", "continue"})
    \/ Exits(stmts, {"block"}) /\ ExitsSwitch(Last(stmts).body)

-----------------------------------------------------------------------------
RECURSIVE TypeStmt(_, _, _)
RECURSIVE TypeAll(_, _, _)
\* "in" is the set of what encloses a statement: "loop", "switch".
TypeAll(f, stmts, in) ==
    IF stmts = << >> \/ ~f.ok THEN f ELSE TypeAll(TypeStmt(f, Head(stmts), in), Tail(stmts), in)

TypeBlock(f, stmts, in) == LeaveScope(TypeAll(f, stmts, in), f)

TypeExpr(f, a, x) ==
    CASE a = "set" -> MarkLocalInitialized(f, LocalFind(f, x))
      [] a = "use" -> CheckLocalInitialized(f, LocalFind(f, x))
      [] OTHER     -> f

TypeVar(f, s) == LocalAdd(f, s.x, s.d, IF s.a = Undef(s.d) THEN "uninit" ELSE "init")

TypeShort(f, s) ==
    LET i == LocalFind(f, s.x)
    IN  IF i = 0 THEN LocalAdd(f, s.x, s.d, "init") ELSE MarkLocalInitialized(f, i)

\* What goes on behind two branches.
Behind(f, then, thenGoesOn, else, elseGoesOn) ==
    IF thenGoesOn /\ elseGoesOn THEN MergeLocalInitStates(then, else)
    ELSE IF thenGoesOn THEN then ELSE IF elseGoesOn THEN else ELSE f

TypeIf(f, s, in) ==
    LET then == TypeStmt(f, s.then, in)
        else == TypeAll(RestoreLocalInitStates(then, f), s.else, in)
    IN  IF ~(then.ok /\ else.ok) THEN FlowFail(f)
        ELSE Behind(f, then, ~StmtTerminates(s.then), else,
                    s.else = << >> \/ ~StmtTerminates(Head(s.else)))

\* A loop's body may not be run: what it assigns is forgotten behind it.
\* Variant: it is kept.
TypeLoop_Keeps(f, body, post, in) ==
    LET inner == TypeBlock(f, body, in \cup {"loop"})
    IN  IF inner.ok THEN TypeAll(inner, post, in) ELSE FlowFail(f)
TypeLoop(f, body, post, in) ==
    LET inner == TypeBlock(f, body, in \cup {"loop"})
        left  == TypeAll(RestoreLocalInitStates(inner, f), post, in)
    IN  IF inner.ok /\ left.ok THEN RestoreLocalInitStates(left, f) ELSE FlowFail(f)

TypeFor(f, s, in) ==
    LET init == TypeAll(f, s.init, in)
    IN  IF init.ok THEN LeaveScope(TypeLoop(init, s.body, s.post, in), f) ELSE FlowFail(f)

TypeForIn(f, s, in) ==
    LeaveScope(TypeLoop(LocalAdd(f, s.x, s.d, "init"), s.body, << >>, in), f)

\* Each clause starts with the states before the switch; those that go on
\* behind it are merged, with the states before it when none need be taken.
TypeClause(f, x, d, stmts, in) ==
    LeaveScope(TypeBlock(LocalAdd(f, x, d, "init"), stmts, in \cup {"switch"}), f)
TypeSwitch(f, s, in) ==
    LET bodies == [i \in DOMAIN s.clauses |-> s.clauses[i].body] \o
                  (IF s.default = << >> THEN << >> ELSE <<s.default>>)
        ends   == [i \in DOMAIN bodies |->
                     IF i \in DOMAIN s.clauses
                     THEN TypeClause(f, s.clauses[i].x, s.clauses[i].d, bodies[i], in)
                     ELSE TypeClause(f, "", "", bodies[i], in)]
        goOn   == { ends[i] : i \in { j \in DOMAIN bodies : ~ExitsSwitch(bodies[j]) } }
                  \cup (IF s.default = << >> THEN {f} ELSE {})
    IN  IF \E i \in DOMAIN ends : ~ends[i].ok THEN FlowFail(f)
        ELSE IF goOn = {} THEN f
        ELSE FoldSet(MergeLocalInitStates, CHOOSE g \in goOn : TRUE, goOn)

TypeStmt(f, s, in) ==
    IF ~f.ok THEN f
    ELSE CASE s.kind = "act"    -> TypeExpr(f, s.a, s.x)
           [] s.kind = "var"    -> TypeVar(f, s)
           [] s.kind = "short"  -> TypeShort(f, s)
           [] s.kind = "defer"  -> TypeStmt(f, s.stmt, in)
           [] s.kind = "block"  -> TypeBlock(f, s.body, in)
           [] s.kind = "if"     -> TypeIf(f, s, in)
           [] s.kind = "for"    -> TypeFor(f, s, in)
           [] s.kind = "forin"  -> TypeForIn(f, s, in)
           [] s.kind = "switch" -> TypeSwitch(f, s, in)
           [] s.kind = "break"  -> IF in = {} THEN FlowFail(f) ELSE f
           [] s.kind = "continue" -> IF "loop" \in in THEN f ELSE FlowFail(f)
           [] s.kind = "return" -> TypeExpr(f, s.a, s.x)
           [] OTHER             -> FlowFail(f)    \* template instances are not followed

\* The body is accepted.
TypeFunctionBody(stmts) == TypeBlock(FlowStart, stmts, {}).ok

-----------------------------------------------------------------------------
\* What the language promises of an accepted body (docs/language.md:415): a
\* pointer local is assigned after its declaration before it is used.
AssignedBeforeUse(ev) ==
    \A j \in DOMAIN ev :
        ev[j].a = "use" =>
            \E i \in 1 .. j - 1 :
                /\ ev[i].a = "set" /\ ev[i].d = ev[j].d
                /\ \A k \in i .. j - 1 : ev[k].a # Undef(ev[j].d)

=============================================================================
