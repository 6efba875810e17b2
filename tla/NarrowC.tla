------------------------------ MODULE NarrowC -------------------------------
(***************************************************************************)
(* Narrowed locals in the C that is written for a function body            *)
(* (src/src/codegen_c/expr.c, base.c).  The emitter looks at the tests     *)
(* again, without the types the checker found: it views an optional as its *)
(* value in a branch, and keeps a list of the enums that are narrowed.     *)
(***************************************************************************)
EXTENDS NarrowCheck

-----------------------------------------------------------------------------
(* The emitter's state.  A local has the type the emitter takes it for     *)
(* (view) and the one it was declared with in C (ct): "opt", "int", "enum" *)
(* or the variant of a payload.  "active" is the local read as its value.  *)

CLocal(x, t) == [x |-> x, view |-> t, ct |-> t]
CStart ==
    [locals |-> <<CLocal("x", "opt"), CLocal("y", "opt"), CLocal("e", "enum")>>,
     active |-> 0, variants |-> << >>, defers |-> << >>, scopes |-> << >>,
     ok |-> TRUE, out |-> << >>]

Write(c, s)      == [c EXCEPT !.out = Append(@, s)]
Compiles(c, ok)  == [c EXCEPT !.ok = @ /\ ok]
AddLocal(c, x, t) == [c EXCEPT !.locals = Append(@, CLocal(x, t))]
View(c, x)       == c.locals[Find(c.locals, x)].view

AddVariantNarrow(c, i, v) == [c EXCEPT !.variants = Append(@, [i |-> i, v |-> v])]
FindVariantNarrow(c, i) ==
    LET hits == { k \in DOMAIN c.variants : c.variants[k].i = i }
    IN  IF hits = {} THEN "" ELSE c.variants[Max(hits)].v
\* Only those at the end of the list are taken off with their local.
RECURSIVE TrimVariantNarrows(_, _)
TrimVariantNarrows(variants, n) ==
    IF variants = << >> \/ Last(variants).i <= n THEN variants
    ELSE TrimVariantNarrows(Front(variants), n)

\* Behind what "inner" wrote between braces.
Inside(c) == [c EXCEPT !.out = << >>]
PopScope(c, inner) ==
    [c EXCEPT !.ok = inner.ok,
              !.variants = TrimVariantNarrows(inner.variants, Len(c.locals))]

-----------------------------------------------------------------------------
(* Expressions, and the types C finds for them.                            *)

CEmitIdent(c, x) == IF Find(c.locals, x) = c.active THEN Value(x) ELSE Read(x)

CEmitCoerced(c, e, to) ==
    CASE e.f = "read" -> LET p == CEmitIdent(c, e.x)
                         IN  IF to = "opt" /\ View(c, e.x) = "int" THEN Some(p) ELSE p
      [] e.f = "num"  -> IF to = "opt" THEN Some(e) ELSE e
      [] e.f = "null" -> IF to = "opt" THEN e ELSE Zero

RECURSIVE CTypeOf(_, _)
CTypeOf(c, e) ==
    CASE e.f = "read"  -> c.locals[Find(c.locals, e.x)].ct
      [] e.f \in {"value", "num"} -> "int"
      [] e.f = "some"  -> IF CTypeOf(c, e.e) = "int" THEN "opt" ELSE "error"
      [] e.f = "null"  -> "opt"
      [] e.f = "zero"  -> "pointer"
CConverts(to, t) == t = to \/ (to = "int" /\ t = "pointer")

\* A test of what is viewed as a number compares the number with NULL.
CEmitTest(c, t) ==
    IF t.k = "call" \/ View(c, t.e.x) = "opt" THEN t
    ELSE Test(IF t.k = "eq" THEN "zero" ELSE "nonzero", t.neg, CEmitIdent(c, t.e.x))
CTestCompiles(c, t) ==
    t.k = "call" \/ CTypeOf(c, t.e) = (IF t.k \in {"zero", "nonzero"} THEN "int" ELSE "opt")

-----------------------------------------------------------------------------
(* Statements.                                                             *)

RECURSIVE CEmitStmt(_, _)
CEmitAll(c, stmts) == FoldLeft(CEmitStmt, c, stmts)

\* The deferred statements above start, last registered first, as they are
\* written at the place they are replayed.
CEmitDeferredRange(c, start) ==
    CEmitAll(c, Reverse(SubSeq(c.defers, start + 1, Len(c.defers))))

CEmitBlock(c, stmts) ==
    LET inner == CEmitAll([Inside(c) EXCEPT !.scopes = Append(@, Len(c.defers))], stmts)
        left  == CEmitDeferredRange(inner, Len(c.defers))
    IN  [PopScope(c, left) EXCEPT !.out = left.out]

CEmitArg(c, s, to) ==
    LET e == CEmitCoerced(c, s.e, to)
    IN  Compiles(Write(c, [s EXCEPT !.e = e]), CConverts(to, CTypeOf(c, e)))

CEmitAssign(c, s) ==
    LET lhs == CEmitIdent(c, s.x)
        e   == CEmitCoerced(c, s.e, View(c, s.x))
    IN  Compiles(Write(c, IF lhs.f = "value" THEN SetValue(s.x, e) ELSE Set(s.x, e)),
                 CConverts(CTypeOf(c, lhs), CTypeOf(c, e)))

\* A local without a written type has that of its value, as it is viewed.
CEmitVar(c, s) ==
    LET t == IF s.opt THEN "opt" ELSE IF s.e.f = "read" THEN View(c, s.e.x) ELSE "int"
        e == IF s.opt THEN CEmitCoerced(c, s.e, "opt")
             ELSE IF s.e.f = "read" THEN CEmitIdent(c, s.e.x) ELSE s.e
    IN  Compiles(AddLocal(Write(c, Var(s.x, s.opt, e)), s.x, t),
                 CConverts(t, CTypeOf(c, e)))

\* A branch in which an optional has a value, by this test, has its value active.
CInBranch(c, t, holds) ==
    IF t.k = "call" \/ ~SaysSome(t, holds) \/ View(c, t.e.x) # "opt" THEN c
    ELSE [c EXCEPT !.locals[Find(c.locals, t.e.x)].view = "int",
                   !.active = Find(c.locals, t.e.x)]
\* Variant: the local that was active is not active again behind the branch.
CEmitIf_Forgets(c, s) ==
    LET test == CEmitTest(c, s.test)
        then == CEmitBlock(CInBranch(Inside(c), s.test, TRUE), s.then)
        mid  == PopScope(c, then)
        else == CEmitAll(CInBranch(Inside(mid), s.test, FALSE), s.else)
    IN  Write(Compiles([PopScope(mid, else) EXCEPT !.active = then.active],
                       CTestCompiles(c, test)), If(test, then.out, else.out))
CEmitIf(c, s) ==
    LET test == CEmitTest(c, s.test)
        then == CEmitBlock(CInBranch(Inside(c), s.test, TRUE), s.then)
        mid  == PopScope(c, then)
        else == CEmitAll(CInBranch(Inside(mid), s.test, FALSE), s.else)
    IN  Write(Compiles(PopScope(mid, else), CTestCompiles(c, test)),
              If(test, then.out, else.out))

\* One case: its aliases, the narrowing, and the body.
CEmitClause(c, x, clause) ==
    LET bound == FoldLeft(LAMBDA d, b : AddLocal(d, b.x, b.v), Inside(c), clause.binds)
        inner == IF Len(clause.labels) = 1
                 THEN AddVariantNarrow(bound, Find(c.locals, x), clause.labels[1])
                 ELSE bound
        body  == CEmitBlock(inner, clause.body)
    IN  [PopScope(c, body) EXCEPT !.out = Append(@, [clause EXCEPT !.body = body.out])]
CEmitSwitch(c, s) ==
    LET Case(d, clause) == CEmitClause(d, s.x, clause)
        cases   == FoldLeft(Case, Inside(c), s.clauses)
        default == CEmitAll(Inside(cases), s.default)
    IN  Write(PopScope(c, default), Switch(s.x, cases.out, default.out))

\* The latest narrowing of the local, if its variant has the field.
CEmitField(c, s) ==
    LET i == Find(c.locals, s.x)
        v == FindVariantNarrow(c, i)
        w == IF v \in Payload THEN v ELSE ""
    IN  Compiles(Write(c, Field(s.x, w)), (w # "") = (c.locals[i].ct = "enum"))

CEmitStmt(c, s) ==
    CASE s.kind = "need"   -> CEmitArg(c, s, "int")
      [] s.kind = "opt"    -> CEmitArg(c, s, "opt")
      [] s.kind = "set"    -> CEmitAssign(c, s)
      [] s.kind = "var"    -> CEmitVar(c, s)
      [] s.kind = "become" -> Write(c, s)
      [] s.kind = "field"  -> CEmitField(c, s)
      [] s.kind = "defer"  -> [c EXCEPT !.defers = Append(@, s.stmt)]
      [] s.kind = "block"  -> LET b == CEmitBlock(c, s.body)
                              IN  Write(PopScope(c, b), Block(b.out))
      [] s.kind = "loop"   -> LET b == CEmitBlock(c, s.body)
                              IN  Write(PopScope(c, b), Loop(b.out))
      [] s.kind = "if"     -> CEmitIf(c, s)
      [] s.kind = "switch" -> CEmitSwitch(c, s)
      [] s.kind = "return" -> Write(CEmitDeferredRange(c, 0), s)
      [] s.kind \in {"break", "continue"} -> Write(CEmitDeferredRange(c, Last(c.scopes)), s)
      [] OTHER             -> Compiles(c, FALSE)    \* the closures of poke are not emitted

CEmitFunctionBody(stmts) == CEmitBlock(CStart, stmts)
=============================================================================
