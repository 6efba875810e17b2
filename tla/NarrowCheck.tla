---------------------------- MODULE NarrowCheck -----------------------------
(***************************************************************************)
(* Flow narrowing in the type checker (src/src/typecheck/stmt.c, expr.c,   *)
(* decls.c): a local of type ?T is a T, or null, where a test of it has    *)
(* said so, and an enum local is one of its variants in a case.            *)
(***************************************************************************)
EXTENDS NarrowStmts

CONSTANT MaxNarrows    \* narrowings behind the ifs of one block (H2TCTypeBlock: 8)

ASSUME NarrowsAssumption == MaxNarrows \in Nat

-----------------------------------------------------------------------------
(* A local is typed "opt" (?T), "T", "null", "enum", or by the variant     *)
(* whose payload it aliases.                                               *)

Local(x, t) == [x |-> x, t |-> t]
TypeStart ==
    [locals |-> <<Local("x", "opt"), Local("y", "opt"), Local("e", "enum")>>,
     variants |-> << >>, ok |-> TRUE]

Typed(f, ok)      == [f EXCEPT !.ok = @ /\ ok]
LocalAdd(f, x, t) == [f EXCEPT !.locals = Append(@, Local(x, t))]
Retype(f, x, t)   == [f EXCEPT !.locals[Find(f.locals, x)].t = t]
TypeOf(f, x)      == IF Find(f.locals, x) = 0 THEN "" ELSE f.locals[Find(f.locals, x)].t

VariantNarrowPush(f, i, v) == [f EXCEPT !.variants = Append(@, [i |-> i, v |-> v])]
VariantNarrowFind(f, i) ==
    LET hits == { k \in DOMAIN f.variants : f.variants[k].i = i }
    IN  IF hits = {} THEN "" ELSE f.variants[Max(hits)].v

TypeExpr(f, e) ==
    CASE e.f = "read" -> TypeOf(f, e.x) [] e.f = "num" -> "T" [] e.f = "null" -> "null"
CanAssign(to, t) == t = to \/ (to = "opt" /\ t \in {"T", "null"})

\* An optional alone is a test, `!` takes a bool, and null is compared with what
\* may be null.
TypeTest(f, t) ==
    CASE t.k = "call" -> TRUE
      [] t.k = "is"   -> TypeOf(f, t.e.x) = "opt" /\ ~t.neg
      [] OTHER        -> TypeOf(f, t.e.x) \in {"opt", "null"}

\* What a test says of its local in the branch where it holds, or does not.
OptionalCondNarrow(f, t) == t.k # "call" /\ TypeOf(f, t.e.x) = "opt"
ThenIsSome(t) == (t.k # "eq") # t.neg
SaysSome(t, holds) == ThenIsSome(t) = holds
InBranch(f, t, holds) ==
    IF ~OptionalCondNarrow(f, t) THEN f
    ELSE Retype(f, t.e.x, IF SaysSome(t, holds) THEN "T" ELSE "null")

BlockTerminates(stmts) ==
    stmts # << >> /\ Last(stmts).kind \in {"return", "break", "continue"}

RECURSIVE TypeStmt(_, _)
RECURSIVE TypeStmts(_, _, _)

\* The statements of a block, of whose ifs n have narrowed what follows them.
Guards(f, s, n) ==
    /\ s.kind = "if" /\ s.else = << >> /\ BlockTerminates(s.then)
    /\ OptionalCondNarrow(f, s.test) /\ n < MaxNarrows
TypeStmts(f, stmts, n) ==
    IF stmts = << >> \/ ~f.ok THEN f
    ELSE LET s == Head(stmts)
             g == TypeStmt(f, s)
         IN  IF g.ok /\ Tail(stmts) # << >> /\ Guards(g, s, n)
             THEN TypeStmts(InBranch(g, s.test, FALSE), Tail(stmts), n + 1)
             ELSE TypeStmts(g, Tail(stmts), n)

\* What was declared and narrowed in a block is undone at its end.
TypeBlock(f, stmts) ==
    [TypeStmts(f, stmts, 0) EXCEPT !.locals = f.locals, !.variants = f.variants]

\* Each branch with what the test says there; behind it the type is as before.
\* Variant: the else branch starts with what the then branch was told.
TypeIf_Stale(f, s) ==
    LET then == TypeBlock(InBranch(f, s.test, TRUE), s.then)
        else == TypeStmts(InBranch(f, s.test, TRUE), s.else, 0)
    IN  Typed(f, TypeTest(f, s.test) /\ then.ok /\ else.ok)
TypeIf(f, s) ==
    LET then == TypeBlock(InBranch(f, s.test, TRUE), s.then)
        else == TypeStmts(InBranch(f, s.test, FALSE), s.else, 0)
    IN  Typed(f, TypeTest(f, s.test) /\ then.ok /\ else.ok)

\* A case with one label narrows the local that is switched on.
AddAliases(f, binds) ==
    FoldLeft(LAMBDA g, b : Typed(LocalAdd(g, b.x, b.v), b.v \in Payload), f, binds)
TypeClause(f, x, c) ==
    LET bound == AddAliases(f, c.binds)
        inner == IF Len(c.labels) = 1
                 THEN VariantNarrowPush(bound, Find(f.locals, x), c.labels[1]) ELSE bound
    IN  TypeBlock(inner, c.body).ok
TypeSwitch(f, s) ==
    LET covered == UNION { ToSet(s.clauses[j].labels) : j \in DOMAIN s.clauses }
    IN  Typed(f, /\ TypeOf(f, s.x) = "enum"
                 /\ \A j \in DOMAIN s.clauses : TypeClause(f, s.x, s.clauses[j])
                 /\ TypeBlock(f, s.default).ok
                 /\ s.default # << >> \/ covered = Variants)

\* A field of a payload is that of the variant the local is narrowed to; s.v is
\* the variant the statement is written for.
TypeField(f, s) ==
    LET i == Find(f.locals, s.x)
        v == IF TypeOf(f, s.x) = "enum" THEN VariantNarrowFind(f, i) ELSE TypeOf(f, s.x)
    IN  Typed(f, v \in Payload /\ v = s.v)

TypeVar(f, s) ==
    LET t == TypeExpr(f, s.e)
    IN  IF s.opt THEN Typed(LocalAdd(f, s.x, "opt"), CanAssign("opt", t))
        ELSE Typed(LocalAdd(f, s.x, t), t \in {"opt", "T", "enum"})
TypeAssign(f, s) ==
    Typed(f, /\ TypeOf(f, s.x) \in {"opt", "T", "null"}
             /\ CanAssign(TypeOf(f, s.x), TypeExpr(f, s.e)))

TypeStmt(f, s) ==
    CASE s.kind = "need"   -> Typed(f, CanAssign("T", TypeExpr(f, s.e)))
      [] s.kind = "opt"    -> Typed(f, CanAssign("opt", TypeExpr(f, s.e)))
      [] s.kind = "var"    -> TypeVar(f, s)
      [] s.kind = "set"    -> TypeAssign(f, s)
      [] s.kind = "become" -> Typed(f, TypeOf(f, s.x) = "enum")
      [] s.kind = "field"  -> TypeField(f, s)
      [] s.kind = "defer"  -> TypeStmt(f, s.stmt)
      [] s.kind \in {"block", "loop"} -> TypeBlock(f, s.body)
      [] s.kind = "if"     -> TypeIf(f, s)
      [] s.kind = "switch" -> TypeSwitch(f, s)
      [] OTHER             -> f    \* a jump; a closure, whose body is typed apart

\* The body is accepted.
Accepted(stmts) == TypeBlock(TypeStart, stmts).ok
=============================================================================
