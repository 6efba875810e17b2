---------------------------- MODULE NarrowStmts -----------------------------
(***************************************************************************)
(* Statements over locals that may be null and locals that are one of the  *)
(* variants of an enum, and what running them does: the statements of the  *)
(* source, as lowered to MIR and executed (src/src/mir_lower_stmt.c), and  *)
(* those of C, where an optional is a tag and a value and a payload is a   *)
(* member of a union (src/src/codegen_c/base.c, expr.c).                   *)
(***************************************************************************)
EXTENDS Naturals, Sequences, SequencesExt, FiniteSetsExt

CONSTANTS
    Variants,   \* the variants of the enum
    Payload     \* those that have a payload, with a field of the same name

ASSUME PayloadAssumption == Payload \subseteq Variants

-----------------------------------------------------------------------------
(* Expressions of an optional or a number; C takes the value of an         *)
(* optional without its tag, makes an optional of a number, and has a NULL *)
(* that is the number 0.                                                   *)

Read(x)  == [f |-> "read", x |-> x]
Num(n)   == [f |-> "num", n |-> n]
Null     == [f |-> "null"]
Value(x) == [f |-> "value", x |-> x]
Some(e)  == [f |-> "some", e |-> e]
Zero     == [f |-> "zero"]

\* Tests: k says of e "is" (there is a value), "eq" or "ne" (to null), "call"
\* (decided elsewhere), and in C "nonzero" or "zero".
Test(k, neg, e) == [k |-> k, neg |-> neg, e |-> e]

\* need takes a T, opt a ?T, field reads the payload field of v ("" if whichever
\* there is), poke is a closure that sets x to null.
Need(e)              == [kind |-> "need", e |-> e]
Opt(e)               == [kind |-> "opt", e |-> e]
Var(x, opt, e)       == [kind |-> "var", x |-> x, opt |-> opt, e |-> e]
Set(x, e)            == [kind |-> "set", x |-> x, e |-> e]
SetValue(x, e)       == [kind |-> "setvalue", x |-> x, e |-> e]
Become(x, v)         == [kind |-> "become", x |-> x, v |-> v]
Field(x, v)          == [kind |-> "field", x |-> x, v |-> v]
Poke(x)              == [kind |-> "poke", x |-> x]
Defer(s)             == [kind |-> "defer", stmt |-> s]
Block(b)             == [kind |-> "block", body |-> b]
If(t, then, else)    == [kind |-> "if", test |-> t, then |-> then, else |-> else]
Loop(b)              == [kind |-> "loop", body |-> b]
Clause(ls, binds, b) == [labels |-> ls, binds |-> binds, body |-> b]
Switch(x, cs, def)   == [kind |-> "switch", x |-> x, clauses |-> cs, default |-> def]
Break    == [kind |-> "break"]
Continue == [kind |-> "continue"]
Return   == [kind |-> "return"]

\* The innermost of the locals of that name, 0 if there is none.
Find(locals, x) == Max({0} \cup { i \in DOMAIN locals : locals[i].x = x })

-----------------------------------------------------------------------------
(* A run: the locals with their values, what was done, the decisions of    *)
(* tests to come, whether a payload was read as that of another variant.   *)
(* An optional or a number is [some, n], an enum [tag].                    *)

Number(n) == [some |-> TRUE, n |-> n]
Nothing   == [some |-> FALSE, n |-> 0]
Start(lang, in, ch) ==
    [lang |-> lang, ch |-> ch, ev |-> << >>, exit |-> "go", misread |-> FALSE,
     locals |-> <<[x |-> "x", val |-> in.x], [x |-> "y", val |-> in.y],
                  [x |-> "e", val |-> [tag |-> in.e]]>>]

Fault(m)         == [m EXCEPT !.exit = "fault", !.ev = Append(@, <<"fault">>)]
Event(m, ev)     == [m EXCEPT !.ev = Append(@, ev)]
Declare(m, x, v) == [m EXCEPT !.locals = Append(@, [x |-> x, val |-> v])]
ValOf(m, x)      == m.locals[Find(m.locals, x)].val
Assign(m, x, v)  == [m EXCEPT !.locals[Find(m.locals, x)].val = v]
Back(m, n)       == [m EXCEPT !.locals = SubSeq(@, 1, n)]

RECURSIVE Eval(_, _)
Eval(m, e) ==
    CASE e.f = "read"  -> ValOf(m, e.x)
      [] e.f = "value" -> Number(ValOf(m, e.x).n)
      [] e.f = "some"  -> Number(Eval(m, e.e).n)
      [] e.f = "num"   -> Number(e.n)
      [] e.f = "zero"  -> Number(0)
      [] e.f = "null"  -> Nothing

Decides(m, t) ==
    LET v == Eval(m, t.e)
        r == CASE t.k \in {"is", "ne"} -> v.some
               [] t.k = "eq"           -> ~v.some
               [] t.k = "nonzero"      -> v.n # 0
               [] t.k = "zero"         -> v.n = 0
    IN  r # t.neg

\* What the payload of v looks like in an enum that holds "tag".
PayloadOf(v, tag) == IF tag = v THEN v ELSE "garbage"

RECURSIVE Exec(_, _)
RECURSIVE ExecList(_, _, _)

\* A list of statements; leaving it runs what it deferred, last first, with the
\* names visible where it was deferred.
LeavesBy(m, exit) == IF m.exit # "go" THEN m ELSE [m EXCEPT !.exit = exit]
RECURSIVE Unwind(_, _)
Unwind(m, defers) ==
    IF m.exit \in {"wait", "fault"} \/ defers = << >> THEN m
    ELSE LET d == Last(defers)
         IN  Unwind(LeavesBy(Exec([Back(m, d.n) EXCEPT !.exit = "go"], d.stmt), m.exit),
                    Front(defers))
ExecList(m, stmts, defers) ==
    IF m.exit # "go" \/ stmts = << >> THEN Unwind(m, defers)
    ELSE IF Head(stmts).kind = "defer"
    THEN ExecList(m, Tail(stmts),
                  Append(defers, [stmt |-> Head(stmts).stmt, n |-> Len(m.locals)]))
    ELSE ExecList(Exec(m, Head(stmts)), Tail(stmts), defers)
ExecBlock(m, stmts) == Back(ExecList(m, stmts, << >>), Len(m.locals))

ExecIf(m, s) ==
    IF s.test.k # "call"
    THEN IF Decides(m, s.test) THEN ExecBlock(m, s.then) ELSE ExecList(m, s.else, << >>)
    ELSE IF m.ch = << >> THEN [m EXCEPT !.exit = "wait"]
    ELSE LET decided == [m EXCEPT !.ch = Tail(@)]
         IN  IF Head(m.ch) # s.test.neg THEN ExecBlock(decided, s.then)
             ELSE ExecList(decided, s.else, << >>)

\* Behind a statement that ends breaks (and continues).
Stops(m, jumps) == IF m.exit \in jumps THEN [m EXCEPT !.exit = "go"] ELSE m

\* Loops while cond() says so.
RECURSIVE ExecLoop(_, _)
ExecLoop(m, b) ==
    IF m.ch = << >> THEN [m EXCEPT !.exit = "wait"]
    ELSE IF ~Head(m.ch) THEN [m EXCEPT !.ch = Tail(@)]
    ELSE LET round == Stops(ExecBlock([m EXCEPT !.ch = Tail(@)], b), {"continue"})
         IN  IF round.exit = "go" THEN ExecLoop(round, b) ELSE Stops(round, {"break"})

\* The executor binds the last alias of a case, to the enum itself; C binds
\* them all, to the payloads.
Bind(m, c, tag) ==
    IF c.binds = << >> THEN m
    ELSE IF m.lang = "c"
    THEN FoldLeft(LAMBDA r, b : Declare(r, b.x, [tag |-> PayloadOf(b.v, tag)]), m, c.binds)
    ELSE Declare(m, Last(c.binds).x, [tag |-> tag])
ExecSwitch(m, s) ==
    LET tag  == ValOf(m, s.x).tag
        hits == { j \in DOMAIN s.clauses : tag \in ToSet(s.clauses[j].labels) }
        done == IF hits = {} THEN ExecList(m, s.default, << >>)
                ELSE LET c == s.clauses[Min(hits)] IN ExecBlock(Bind(m, c, tag), c.body)
    IN  Stops(Back(done, Len(m.locals)), {"break"})

ExecNeed(m, v)  == IF v.some THEN Event(m, <<"need", v.n>>) ELSE Fault(m)
ExecOpt(m, v)   == Event(m, <<"opt", IF v.some THEN <<v.n>> ELSE << >> >>)
ExecField(m, s) ==
    IF Find(m.locals, s.x) = 0 THEN Fault(m)
    ELSE LET tag  == ValOf(m, s.x).tag
             read == IF m.lang = "c" /\ s.v # "" THEN PayloadOf(s.v, tag) ELSE tag
         IN  IF read \notin Payload \cup {"garbage"} THEN Fault(m)
             ELSE [Event(m, <<"field", read>>) EXCEPT !.misread = @ \/ read # s.v]

Exec(m, s) ==
    IF m.exit # "go" THEN m
    ELSE CASE s.kind = "need"     -> ExecNeed(m, Eval(m, s.e))
           [] s.kind = "opt"      -> ExecOpt(m, Eval(m, s.e))
           [] s.kind = "var"      -> Declare(m, s.x, Eval(m, s.e))
           [] s.kind = "set"      -> Assign(m, s.x, Eval(m, s.e))
           [] s.kind = "setvalue" ->
                Assign(m, s.x, [ValOf(m, s.x) EXCEPT !.n = Eval(m, s.e).n])
           [] s.kind = "become"   -> Assign(m, s.x, [tag |-> s.v])
           [] s.kind = "poke"     -> Assign(m, s.x, Nothing)
           [] s.kind = "field"    -> ExecField(m, s)
           [] s.kind = "block"    -> ExecBlock(m, s.body)
           [] s.kind = "if"       -> ExecIf(m, s)
           [] s.kind = "loop"     -> ExecLoop(m, s.body)
           [] s.kind = "switch"   -> ExecSwitch(m, s)
           [] OTHER               -> [m EXCEPT !.exit = s.kind]

\* The body with the parameters "in", its tests decided as in ch.
RunOf(lang, stmts, in, ch) == ExecBlock(Start(lang, in, ch), stmts)
=============================================================================
