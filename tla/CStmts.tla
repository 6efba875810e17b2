------------------------------- MODULE CStmts --------------------------------
(***************************************************************************)
(* The statements the C back end writes for a function body                *)
(* (src/src/codegen_c/expr.c).  A body is translated to a body of C        *)
(* statements, which Stmts gives their meaning: C's "defer" is code        *)
(* written again at every way out, its names are found where it is written.*)
(***************************************************************************)
EXTENDS Stmts

-----------------------------------------------------------------------------
(* The emitter's state H2CBackendC, threaded with the statements written.   *)

CContext0 == [locals |-> << >>, defers |-> << >>, scopes |-> << >>,
              replay |-> 0, ends |-> TRUE, out |-> << >>]

Write(c, s) == [c EXCEPT !.out = Append(@, s)]
AddLocal(c, x, d) == [c EXCEPT !.locals = Append(@, [x |-> x, d |-> d])]
AddDeferredStmt(c, s) == [c EXCEPT !.defers = Append(@, s)]
PushDeferScope(c) == [c EXCEPT !.scopes = Append(@, Len(c.defers))]

\* What is written between braces, and the names and deferred statements after.
Inside(c) == [c EXCEPT !.out = << >>]
PopScopes(c, inner) ==
    [c EXCEPT !.ends = inner.ends]

RECURSIVE CEmitStmt(_, _)
RECURSIVE CEmitAll(_, _)
CEmitAll(c, stmts) ==
    IF stmts = << >> \/ ~c.ends THEN c ELSE CEmitAll(CEmitStmt(c, Head(stmts)), Tail(stmts))

\* The deferred statements above start, last registered first; they stay
\* registered while they are written.
CEmitDeferredRange(c, start) ==
    [CEmitAll([c EXCEPT !.replay = Len(c.scopes)],
              Reverse(SubSeq(c.defers, start + 1, Len(c.defers))))
        EXCEPT !.replay = c.replay]

\* Variant: nothing is replayed where a block ends.
CEmitBlock_NoReplay(c, stmts) ==
    LET inner == CEmitAll(PushDeferScope(Inside(c)), stmts)
    IN  Write(PopScopes(c, inner), Block(inner.out))

CEmitBlock(c, stmts) ==
    LET inner == CEmitAll(PushDeferScope(Inside(c)), stmts)
        left  == CEmitDeferredRange(inner, Len(c.defers))
    IN  Write(PopScopes(c, left), Block(left.out))

\* A block written alone, as the body of another statement.
Alone(c, stmts) == CEmitBlock(Inside(c), stmts)
\* Braces of the emitter's own, with what "emit" writes into them.
Braces(c, inner) == Write(PopScopes(c, inner), Block(inner.out))

CEmitShort(c, s) ==
    IF FindLocal(c.locals, s.x) # "outer" THEN Write(c, Act(s.a, s.x))
    ELSE AddLocal(Write(c, CVar(s.d, s.x, s.a, s.x)), s.x, s.d)

\* A condition known at compile time leaves one branch, the rest is an if.
CEmitIf(c, s) ==
    LET then == CEmitStmt(Inside(c), s.then)
        else == CEmitAll(Inside(c), s.else)
    IN  Write([c EXCEPT !.ends = then.ends /\ else.ends], If(Block(then.out), else.out))
CEmitPackIf(c, s) == IF 0 \in s.on THEN CEmitStmt(c, s.then) ELSE CEmitAll(c, s.else)

CEmitFor(c, s) ==
    LET init == CEmitAll(Inside(c), s.init)
        body == Alone(init, s.body)
        loop == For(<< >>, s.cond, s.post, body.out)
    IN  IF s.init = << >> THEN Write([c EXCEPT !.ends = body.ends], loop)
        ELSE Braces(c, Write([init EXCEPT !.ends = body.ends], loop))

\* for ... in: the source in a temporary, then a loop that declares the value.
CEmitForIn(c, s) ==
    LET body == Alone(AddLocal(c, s.x, s.d), s.body)
        post == IF s.indexed THEN <<Act("bump", "")>> ELSE << >>
        loop == For(<< >>, TRUE, post, <<CVar(s.d, s.x, "", "")>> \o body.out)
    IN  Write([c EXCEPT !.ends = body.ends], Block(<<Act("source", s.source), loop>>))

\* A switch is a chain of ifs inside do { } while (0).
CEmitClause(c, clause) ==
    Alone(IF clause.x = "" THEN c ELSE AddLocal(c, clause.x, clause.d), clause.body)
CEmitSwitch(c, s) ==
    LET clauses == [i \in DOMAIN s.clauses |-> CEmitClause(c, s.clauses[i])]
        default == CEmitAll(Inside(c), s.default)
        chain   == Switch(s.subject,
                          [i \in DOMAIN s.clauses |-> [s.clauses[i] EXCEPT !.body = clauses[i].out]],
                          default.out)
    IN  Write([c EXCEPT !.ends = default.ends /\ \A i \in DOMAIN clauses : clauses[i].ends],
              Once(<<chain>>))

\* Break and continue replay what the innermost block deferred.  In a deferred
\* statement of that very block the emitter writes the same statement again
\* and never ends.
CEmitJump(c, s) ==
    IF c.replay = Len(c.scopes) THEN [c EXCEPT !.ends = FALSE]
    ELSE Write(CEmitDeferredRange(c, Last(c.scopes)), s)

\* Return replays all the function's deferred statements, then has the value.
CEmitReturn(c, s) ==
    IF c.replay # 0 THEN [c EXCEPT !.ends = FALSE]
    ELSE Write(CEmitDeferredRange(c, 0), Return(s.a, s.x))

CEmitStmt(c, s) ==
    CASE s.kind = "act"    -> Write(c, Act(s.a, s.x))
      [] s.kind = "var"    -> AddLocal(Write(c, CVar(s.d, s.x, s.a, s.init)), s.x, s.d)
      [] s.kind = "short"  -> CEmitShort(c, s)
      [] s.kind = "defer"  -> AddDeferredStmt(c, s.stmt)
      [] s.kind = "block"  -> CEmitBlock(c, s.body)
      [] s.kind = "if"     -> CEmitIf(c, s)
      [] s.kind = "packif" -> CEmitPackIf(c, s)
      [] s.kind = "for"    -> CEmitFor(c, s)
      [] s.kind = "forin"  -> CEmitForIn(c, s)
      [] s.kind = "switch" -> CEmitSwitch(c, s)
      [] s.kind \in {"break", "continue"} -> CEmitJump(c, s)
      [] s.kind = "return" -> CEmitReturn(c, s)
      [] OTHER             -> [c EXCEPT !.ends = FALSE]    \* loops over a pack are not followed

CEmitFunctionBody(stmts) == CEmitBlock(CContext0, stmts)

=============================================================================
