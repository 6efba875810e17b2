---------------------------- MODULE PackageSource ----------------------------
(***************************************************************************)
(* Functions of a package as the whole-program MIR sees them: calls of its *)
(* own and of imported declarations, allocations with initialisers, field  *)
(* defaults; what they mean, and the MIR that mir_lower*.c makes of them   *)
(* before src/src/hop_mir.c rewrites it.                                   *)
(*                                                                         *)
(* Values are terms, sequences of words: <<"1">>, the call of a function   *)
(* on its arguments, or a pointer, which is as many "@" as its number.     *)
(***************************************************************************)
EXTENDS Integers, Sequences, SequencesExt, FiniteSets, TLC

CONSTANT
    Decls   \* the package-level declarations in the program's order: package ("" is
            \* the function's own), name, kind "fn" or "value", parameters, and for a
            \* value that holds a function the number of that function, else 0

Some(S) == CHOOSE x \in S : TRUE
Lowest(S) == CHOOSE x \in S : \A y \in S : x <= y

-----------------------------------------------------------------------------
(* Names and terms.                                                        *)

Nil == <<"0">>
True == <<"true">>
False == <<"false">>
FnTerm(id) == <<"fn", ToString(id)>>
CallTerm(callee, args) == <<"(">> \o callee \o FlattenSeq(args) \o <<")">>
Ptr(i) == [k \in 1 .. i |-> "@"]
IsPtr(term, heap) == term \in { Ptr(i) : i \in DOMAIN heap }

\* An environment is a sequence of names and what they stand for, latest first.
Bound(n, env) == \E i \in DOMAIN env : env[i][1] = n
Place(n, env) == Lowest({ i \in DOMAIN env : env[i][1] = n })
Lookup(n, env) == env[Place(n, env)][2]
Outer(inner, env) == SubSeq(inner, Len(inner) - Len(env) + 1, Len(inner))

Named(pkg, n, kind) == { d \in DOMAIN Decls : Decls[d].pkg = pkg /\ Decls[d].name = n
                                              /\ Decls[d].kind = kind }
IsAlias(n) == \E d \in DOMAIN Decls : Decls[d].pkg = n /\ n # ""
ValueTerm(d) == IF Decls[d].fn # 0 THEN FnTerm(Decls[d].fn) ELSE <<Decls[d].pkg, Decls[d].name>>

-----------------------------------------------------------------------------
(* What a function means.  An argument has the label of a parameter or "". *)

Arranged(args, vals, params) ==
    [i \in DOMAIN args |->
        LET labelled == { j \in DOMAIN args : args[j].label = params[i] }
        IN  IF labelled = {} THEN vals[i] ELSE vals[Some(labelled)]]

RECURSIVE Val(_, _)
Val(e, s) ==
    LET vals == [i \in DOMAIN e.args |-> Val(e.args[i].e, s)]
        base == IF Bound(e.n, s.env) THEN Lookup(e.n, s.env) ELSE Nil
    IN  CASE e.k = "int"   -> <<e.n>>
          [] e.k = "name"  -> IF Bound(e.n, s.env) THEN base
                              ELSE ValueTerm(Some(Named("", e.n, "value")))
          [] e.k = "fn"    -> FnTerm(e.fn)
          [] e.k = "field" -> IF Bound(e.n, s.env) THEN s.heap[Len(base)].fields[e.f]
                              ELSE ValueTerm(Some(Named(e.n, e.f, "value")))
          [] e.k = "add"   -> <<"+">> \o vals[1] \o vals[2]
          [] e.k = "and"   -> IF vals[1] = True THEN vals[2] ELSE False
          [] e.k = "call" \/ (e.k = "dot" /\ ~Bound(e.n, s.env))
               -> CallTerm(FnTerm(e.fn), Arranged(e.args, vals, Decls[e.fn].params))
          [] e.k = "dot" /\ Bound(e.n, s.env)
               -> IF e.fn = 0 THEN CallTerm(s.heap[Len(base)].fields[e.f], vals)
                  ELSE CallTerm(FnTerm(e.fn), <<base>> \o vals)

\* A default is evaluated where the struct is declared: it sees the fields
\* before its own and the package's declarations.
DefaultVal(e, fields, declared) ==
    Val(e, [env |-> [i \in DOMAIN declared |-> <<declared[i].name, fields[declared[i].name]>>],
            heap |-> << >>])

Given(st, f) == \E i \in DOMAIN st.init : st.init[i].f = f

RECURSIVE Filled(_, _, _, _)
Filled(st, declared, i, fields) ==
    IF i > Len(declared) THEN fields
    ELSE LET d == declared[i]
         IN  Filled(st, declared, i + 1,
                 IF d.default = << >> \/ Given(st, d.name) THEN fields
                 ELSE [fields EXCEPT ![d.name] =
                           DefaultVal(d.default[1], fields, SubSeq(declared, 1, i - 1))])

NewObject(p, st, s) ==
    LET names == IF st.count # << >> THEN {} ELSE { p.fields[i].name : i \in DOMAIN p.fields }
        given == [f \in names |->
                     LET at == { i \in DOMAIN st.init : st.init[i].f = f }
                     IN  IF at = {} THEN Nil ELSE Val(st.init[Some(at)].e, s)]
    IN  [fields |-> Filled(st, IF names = {} THEN << >> ELSE p.fields, 1, given),
         count  |-> IF st.count = << >> THEN Nil ELSE Val(st.count[1], s),
         in     |-> IF st.in = << >> THEN Nil ELSE Val(st.in[1], s)]

Bind(st, v, s) == IF st.decl THEN [s EXCEPT !.env = <<<<st.n, v>>>> \o @]
                  ELSE [s EXCEPT !.env[Place(st.n, s.env)] = <<st.n, v>>]

RECURSIVE DoAll(_, _, _)
Do(p, st, s) ==
    LET after == [DoAll(p, st.body, s) EXCEPT !.env = Outer(@, s.env)]
    IN  CASE st.k = "set"   -> Bind(st, Val(st.e, s), s)
          [] st.k = "alloc" -> Bind(st, Ptr(Len(s.heap) + 1),
                                    [s EXCEPT !.heap = Append(@, NewObject(p, st, s))])
          [] st.k = "block" -> after
          [] st.k = "if"    -> IF Lookup(st.n, s.env) = True THEN after ELSE s
          [] st.k = "again" -> IF Lookup(st.n, after.env) # True THEN after
                               ELSE DoAll(p, <<st>>, Bind([st EXCEPT !.decl = FALSE], False, after))
DoAll(p, body, s) == IF body = << >> THEN s ELSE DoAll(p, Tail(body), Do(p, Head(body), s))

Arguments(p) == [i \in DOMAIN p.params |-> <<p.params[i].name, p.params[i].arg>>]
Meaning(p) == LET s == DoAll(p, p.body, [env |-> Arguments(p), heap |-> << >>])
              IN  [heap |-> s.heap, value |-> Val(p.value, s)]

-----------------------------------------------------------------------------
(* The expressions of a function.                                          *)

RECURSIVE SubExprs(_)
SubExprs(e) == {e} \cup UNION { SubExprs(e.args[i].e) : i \in DOMAIN e.args }

AllocExprs(st) == ToSet(st.count) \cup ToSet(st.in) \cup { st.init[i].e : i \in DOMAIN st.init }

RECURSIVE StmtsExprs(_)
StmtsExprs(body) ==
    UNION { CASE body[i].k = "set" -> {body[i].e}
              [] body[i].k = "alloc" -> AllocExprs(body[i])
              [] OTHER -> StmtsExprs(body[i].body) : i \in DOMAIN body }

-----------------------------------------------------------------------------
(* The MIR before it is rewritten.  Jumps go to places of the function.    *)

Inst(op) == [op |-> op, n |-> "", val |-> << >>, num |-> 0, argc |-> 0, recv |-> FALSE,
             flags |-> {}, ast |-> << >>, env |-> << >>]
Push(term) == [Inst("PUSH_CONST") EXCEPT !.val = term]
Load(slot) == [Inst("LOCAL_LOAD") EXCEPT !.num = slot]
Store(slot) == [Inst("LOCAL_STORE") EXCEPT !.num = slot]
Get(f) == [Inst("AGG_GET") EXCEPT !.n = f]
Jump(to) == [Inst("JUMP") EXCEPT !.num = to]
Branch(to) == [Inst("JUMP_IF_FALSE") EXCEPT !.num = to]
Call(n, argc, recv, target) ==
    [Inst("CALL") EXCEPT !.n = n, !.argc = argc, !.recv = recv, !.num = target]
CallFn(id, argc) == [Inst("CALL_FN") EXCEPT !.num = id, !.argc = argc]
AllocNew(st, env) ==
    [Inst("ALLOC_NEW") EXCEPT !.ast = <<st>>, !.env = env,
        !.flags = (IF st.count = << >> THEN {} ELSE {"count"})
                  \cup (IF st.in = << >> THEN {} ELSE {"in"})
                  \cup (IF st.init = << >> THEN {} ELSE {"init"})]

\* The call target the checker records: the function, or for a call of a
\* function value the first function of its type.
RecordedTarget(e) ==
    LET alike == { d \in DOMAIN Decls : Decls[d].pkg = "" /\ Decls[d].kind = "fn"
                                        /\ Len(Decls[d].params) = Len(e.args) }
    IN  IF e.fn # 0 /\ Named("", e.n, "value") = {} THEN e.fn
        ELSE IF alike = {} THEN 0 ELSE Lowest(alike)

Base(n, env) == IF Bound(n, env) THEN Load(Lookup(n, env)) ELSE [Inst("LOAD_IDENT") EXCEPT !.n = n]

RECURSIVE LowerExpr(_, _, _)
RECURSIVE LowerArgs(_, _, _)
LowerArgs(args, env, at) ==
    IF args = << >> THEN << >>
    ELSE LET first == LowerExpr(Head(args).e, env, at)
         IN  first \o LowerArgs(Tail(args), env, at + Len(first))

LowerAnd(args, env, at) ==
    LET left   == LowerExpr(args[1].e, env, at)
        right  == LowerExpr(args[2].e, env, at + Len(left) + 1)
        failed == at + Len(left) + Len(right) + 4
    IN  left \o <<Branch(failed)>> \o right
        \o <<Branch(failed), Push(True), Jump(failed + 1), Push(False)>>

LowerExpr(e, env, at) ==
    CASE e.k = "int"   -> <<Push(<<e.n>>)>>
      [] e.k \in {"name", "fn"} -> <<Base(e.n, env)>>
      [] e.k = "field" -> <<Base(e.n, env), Get(e.f)>>
      [] e.k = "add"   -> LowerArgs(e.args, env, at) \o <<Inst("BINARY")>>
      [] e.k = "and"   -> LowerAnd(e.args, env, at)
      [] e.k = "call"  -> LowerArgs(e.args, env, at)
                          \o <<Call(e.n, Len(e.args), FALSE, RecordedTarget(e))>>
      [] e.k = "dot"   -> <<Base(e.n, env)>> \o LowerArgs(e.args, env, at + 1)
                          \o <<Call(e.f, Len(e.args) + 1, TRUE, RecordedTarget(e))>>

\* The value on the stack goes to the statement's variable.
Stored(st, o) ==
    IF st.decl THEN [code   |-> Append(o.code, Store(Len(o.locals) + 1)),
                     locals |-> Append(o.locals, st.n),
                     env    |-> <<<<st.n, Len(o.locals) + 1>>>> \o o.env]
    ELSE [o EXCEPT !.code = Append(@, Store(Lookup(st.n, o.env)))]

RECURSIVE LowerAll(_, _)
LowerIf(st, o, at) ==
    LET b == LowerAll(st.body, [o EXCEPT !.code = @ \o <<Base(st.n, o.env), Branch(0)>>])
    IN  [b EXCEPT !.env = o.env, !.code[at + 1] = Branch(Len(b.code) + 1)]
LowerAgain(st, o, at) ==
    LET b == LowerAll(st.body, o)
        slot == Lookup(st.n, o.env)
    IN  [b EXCEPT !.env = o.env,
                  !.code = @ \o <<Load(slot), Branch(Len(@) + 6), Push(False), Store(slot), Jump(at)>>]
LowerStmt(st, o) ==
    LET at == Len(o.code) + 1
    IN  CASE st.k = "set"   -> Stored(st, [o EXCEPT !.code = @ \o LowerExpr(st.e, o.env, at)])
          [] st.k = "alloc" -> Stored(st, [o EXCEPT !.code = Append(@, AllocNew(st, o.env))])
          [] st.k = "block" -> [LowerAll(st.body, o) EXCEPT !.env = o.env]
          [] st.k = "if"    -> LowerIf(st, o, at)
          [] st.k = "again" -> LowerAgain(st, o, at)
LowerAll(body, o) == IF body = << >> THEN o ELSE LowerAll(Tail(body), LowerStmt(Head(body), o))

\* The function with its locals, parameters first.
Lowered(p) ==
    LET names == [i \in DOMAIN p.params |-> p.params[i].name]
        o == LowerAll(p.body, [code |-> << >>, locals |-> names,
                               env |-> [i \in DOMAIN names |-> <<names[i], i>>]])
    IN  [code |-> o.code \o LowerExpr(p.value, o.env, Len(o.code) + 1) \o <<Inst("RETURN")>>,
         locals |-> o.locals]
=============================================================================
