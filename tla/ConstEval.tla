------------------------------ MODULE ConstEval ------------------------------
(***************************************************************************)
(* Constant evaluation.  While functions are checked in the order of the   *)
(* text, array lengths and the initialisers of local constants are         *)
(* evaluated; afterwards every constant of the top level is.  What an      *)
(* expression names is looked up when it is evaluated: in the parameters   *)
(* of the innermost call, in the bound frame, in the locals of the         *)
(* function being checked, and then among the declarations.  Functions and *)
(* constants declared alone run as MIR, where local names are slots and    *)
(* names of the top level are resolved when the code is lowered.           *)
(***************************************************************************)
EXTENDS ConstSource

CONSTANTS Programs,     \* the programs to check
          MaxDepth      \* H2TC_CONST_CALL_MAX_DEPTH

VARIABLES check,        \* the function being checked; past the last one, the constants
          item,         \* its item, or the constant, that is next
          locals,       \* c->locals: [name, isConst, init, isFn]
          nodes,        \* constEvalState and constEvalValues
          answers,      \* the lengths evaluated: [check, item, value]
          refused       \* what the program was refused for, if anything

vars == <<program, check, item, locals, nodes, answers, refused>>

Unset  == [is |-> "unset", of |-> 0]    \* H2CTFEValue_INVALID, a slot not yet stored
Error  == [is |-> "error", of |-> 0]    \* a return of -1

Give(value, ns) == [value |-> value, nodes |-> ns]
IsConst(a)      == a.value.is \notin {"not const", "error"}

\* H2TCConstEvalCtx: parameters of the innermost call, bound frame and how many
\* are, calls in progress, and the local constants being evaluated; of the MIR
\* under way, the slots that are in scope and the constant it is the code of.
Fresh == [params |-> Empty, frame |-> << >>, depth |-> 0, calls |-> {}, busy |-> {},
          mir |-> FALSE, slots |-> [n \in {} |-> 0], root |-> 0]

\* Outside of MIR names are not lowered, but the last frame stays bound.
Direct(c) == [c EXCEPT !.mir = FALSE, !.slots = [n \in {} |-> 0], !.root = 0]

-----------------------------------------------------------------------------
(* Lowering: which functions and constants a piece of MIR takes with it.   *)

FnTarget(f)    == [fn |-> f, const |-> 0]
ConstTarget(i) == [fn |-> 0, const |-> i]

\* H2TCMirConstResolveTopConstIdentTarget: a constant declared alone, not its own.
LoneConst(n, root) == { i \in ConstOf(n) : ~Grouped(i) /\ i # root }

\* H2TCMirConstResolveSimpleTopConstAliasCallTarget.
AliasOf(n) ==
    UNION { PlainFn(InitOf(i, 1).name) : i \in { j \in LoneConst(n, 0) : InitOf(j, 1).kind = "name" } }

AsSeq(set) == [x \in 1 .. Cardinality(set) |-> The(set)]    \* of at most one member

\* What H2TCMirConstRewriteDirectCalls finds in the code of e, in its order.
RECURSIVE Targets(_, _, _)
Targets(e, hidden, root) ==
    CASE e.kind = "lit" -> << >>
      [] e.kind = "name" ->
           IF e.name \in hidden THEN << >>
           ELSE LET lone == LoneConst(e.name, root)
                IN  AsSeq({ ConstTarget(i) : i \in lone }
                          \cup IF lone = {} THEN { FnTarget(f) : f \in PlainFn(e.name) } ELSE {})
      [] e.kind = "call" ->
           FlattenSeq([i \in DOMAIN e.args |-> Targets(e.args[i], hidden, root)])
           \o AsSeq({ FnTarget(f) : f \in AliasOf(e.name) \ IF e.name \in hidden THEN Fns ELSE {} })

TargetsOf(t) ==
    IF t.fn = 0 THEN Targets(InitOf(t.const, 1), {}, t.const)
    ELSE LET fn     == program.fns[t.fn]
             params == ToSet(fn.params)
         IN  IF fn.local = << >> THEN Targets(fn.ret, params, 0)
             ELSE Targets(fn.local[1].init, params \cup {fn.local[1].name}, 0)
                  \o Targets(fn.ret, params \cup IF fn.local[1].inner THEN {} ELSE {fn.local[1].name}, 0)

\* H2TCMirConstLowerFunction, H2TCMirConstLowerTopConstNode: what is lowered so far
\* with t and all it takes along.  A function is entered in the map before its code
\* is rewritten but is not found there until it is done, a constant is found at once.
Unsupported == {FnTarget(0)}
RECURSIVE Lowered(_, _, _)
Lowered(t, done, busy) ==
    IF t \in busy THEN Unsupported
    ELSE IF t \in done THEN done
    ELSE FoldLeft(LAMBDA sofar, u : IF sofar = Unsupported THEN sofar
                                    ELSE Lowered(u, sofar, IF t.fn = 0 THEN busy ELSE busy \cup {t}),
                  done \cup {t}, TargetsOf(t))

Lowers(t) == Lowered(t, {}, {}) # Unsupported

-----------------------------------------------------------------------------
(* Evaluation.  Every operator returns a value and the state of the        *)
(* constants after it.                                                     *)

LastLocal(n) == { l \in DOMAIN locals : locals[l].name = n
                                        /\ \A m \in DOMAIN locals : locals[m].name = n => m <= l }

\* H2TCConstLookupMirLocalValue: the last slot of the name that holds a value.
Held(c, n) ==
    LET held == { s \in DOMAIN c.frame : c.frame[s].name = n /\ c.frame[s].value # Unset }
    IN  { s \in held : \A t \in held : t <= s }

RECURSIVE Eval(_, _, _)
RECURSIVE Lookup(_, _, _)
RECURSIVE EvalTop(_, _, _, _)

\* H2TCMirConstRunFunction, and a CALL_FN: a frame is bound around the code.
RunConst(i, c, ns) ==
    IF c.depth >= MaxDepth THEN Give(Error, ns)
    ELSE Eval(InitOf(i, 1),
              [c EXCEPT !.frame = << >>, !.depth = @ + 1, !.mir = TRUE, !.slots = Fresh.slots, !.root = i], ns)

RunFn(f, args, c, ns) ==
    LET fn     == program.fns[f]
        slot(n, v) == [name |-> n, value |-> v]
        params == [p \in DOMAIN fn.params |-> slot(fn.params[p], args[p])]
        scope  == [n \in ToSet(fn.params) |-> 1]
        l      == Len(params) + 1
        inside(locs, sc) == [c EXCEPT !.frame = params \o locs, !.depth = @ + 1, !.mir = TRUE,
                                      !.slots = sc, !.root = 0]
    IN  IF c.depth >= MaxDepth THEN Give(Error, ns)
        ELSE IF fn.local = << >> THEN Eval(fn.ret, inside(<< >>, scope), ns)
        ELSE LET local == fn.local[1]
                 own   == (local.name :> l) @@ scope
                 init  == Eval(local.init, inside(<<slot(local.name, Unset)>>, own), ns)
             IN  IF ~IsConst(init) THEN init
                 ELSE Eval(fn.ret, inside(<<slot(local.name, init.value)>>,
                                          IF local.inner THEN scope ELSE own), init.nodes)

\* H2TCInvokeConstFunctionByIndex: only calls made by a name are recorded and have
\* their parameters looked up by name.
Invoke(f, args, c, ns) ==
    LET fn == program.fns[f]
    IN  IF \/ f \in c.calls \/ Cardinality(c.calls) >= MaxDepth
           \/ Len(fn.params) # Len(args) \/ ~Lowers(FnTarget(f))
        THEN Give(NotConst, ns)
        ELSE LET a == RunFn(f, args, [c EXCEPT !.params = [n \in ToSet(fn.params) |-> args[1]],
                                               !.calls = @ \cup {f}], ns)
             IN  IF a.value = Unset THEN Give(NotConst, a.nodes) ELSE a

\* H2TCResolveConstCallMir, H2TCConstEvalDirectCall.
CallByName(n, args, c, ns) ==
    LET callee == Lookup(n, c, ns)
        named  == ByArity(n, Len(args))
    IN  CASE callee.value = Error      -> callee
          [] callee.value.is = "fn"    -> Invoke(callee.value.of, args, c, callee.nodes)
          [] OTHER -> IF Cardinality(named) = 1 THEN Invoke(The(named), args, c, callee.nodes)
                      ELSE Give(NotConst, callee.nodes)

\* The call itself, its arguments being values.  A slot is no function to MIR.
EvalCall(n, args, c, ns) ==
    IF n \in DOMAIN c.slots THEN Give(NotConst, ns)
    ELSE IF c.mir /\ AliasOf(n) # {} THEN RunFn(The(AliasOf(n)), args, c, ns)
    ELSE CallByName(n, args, c, ns)

\* H2TCEvalConstExprNode, or the code of e.
Eval(e, c, ns) ==
    CASE e.kind = "lit" -> Give(IntOf(e.value), ns)
      [] e.kind = "name" ->
           LET lone  == LoneConst(e.name, c.root)
               plain == PlainFn(e.name)
           IN  IF e.name \in DOMAIN c.slots THEN Give(c.frame[c.slots[e.name]].value, ns)
               ELSE IF c.mir /\ lone # {} THEN RunConst(The(lone), c, ns)
               ELSE IF c.mir /\ plain # {} THEN Give(FnRef(The(plain)), ns)
               ELSE Lookup(e.name, c, ns)
      [] e.kind = "call" ->
           IF e.args = << >> THEN EvalCall(e.name, << >>, c, ns)
           ELSE LET arg == Eval(e.args[1], c, ns)
                IN  IF IsConst(arg) THEN EvalCall(e.name, <<arg.value>>, c, arg.nodes) ELSE arg

\* H2TCResolveConstIdent.
Lookup(n, c, ns) ==
    LET l == LastLocal(n)
        k == The(l)
    IN  IF n \in DOMAIN c.params THEN Give(c.params[n], ns)
        ELSE IF Held(c, n) # {} THEN Give(c.frame[The(Held(c, n))].value, ns)
        ELSE IF l # {} /\ locals[k].isConst
             THEN IF k \in c.busy THEN Give(NotConst, ns)
                  ELSE Eval(locals[k].init, Direct([c EXCEPT !.busy = @ \cup {k}]), ns)
        ELSE IF PlainFn(n) # {} THEN Give(FnRef(The(PlainFn(n))), ns)
        ELSE IF ConstOf(n) = {} THEN Give(NotConst, ns)
        ELSE EvalTop(The(ConstOf(n)), PlaceIn(n, The(ConstOf(n))), c, ns)

Ready(a)   == [state |-> "ready", value |-> a.value]
Marked(s)  == [state |-> s, value |-> NotConst]
\* Variant: the value of one of several names is kept for all of them.
Settled_KeepsGrouped(i, a) ==
    IF IsConst(a) THEN Ready(a) ELSE Marked(IF a.value = Error THEN "unseen" ELSE "nonconst")

\* Variant: declarations of several names stay marked.
Settled_StillVisiting(i, a) ==
    CASE a.value = Error         -> Marked("unseen")
      [] a.value = NotConst      -> Marked("nonconst")
      [] IsConst(a) /\ Grouped(i) -> a.nodes[i]
      [] OTHER                   -> Ready(a)

\* The state is that of the declaration: only the value of a constant declared
\* alone is kept.
Settled(i, a) ==
    CASE a.value = Error           -> Marked("unseen")
      [] a.value = NotConst        -> Marked("nonconst")
      [] IsConst(a) /\ Grouped(i)  -> Marked("unseen")
      [] IsConst(a) /\ ~Grouped(i) -> Ready(a)

\* H2TCEvalTopLevelConstNodeAt.
EvalTop(i, k, c, ns) ==
    LET busy == [ns EXCEPT ![i].state = "visiting"]
        a    == IF ~Grouped(i) /\ Lowers(ConstTarget(i)) THEN RunConst(i, c, busy)
                ELSE Eval(InitOf(i, k), Direct(c), busy)
    IN  CASE ns[i].state = "ready"  -> Give(ns[i].value, ns)
          [] ns[i].state = "unseen" -> [a EXCEPT !.nodes[i] = Settled(i, a)]
          [] OTHER                  -> Give(NotConst, ns)

-----------------------------------------------------------------------------
(* Checking.                                                               *)

Items == program.checks[check]
Next1 == Items[item]

\* An initialiser that names a function is not evaluated.
NamesFn(e) ==
    /\ e.kind = "name"
    /\ IF LastLocal(e.name) # {} THEN locals[The(LastLocal(e.name))].isFn
       ELSE PlainFn(e.name) # {} \/ AliasOf(e.name) # {}

Unchecked ==
    /\ check = 1 /\ item = 1
    /\ locals = << >>
    /\ nodes = [i \in Consts |-> Marked("unseen")]
    /\ answers = << >>
    /\ refused = {}

Init == program \in Programs /\ Unchecked

Checking == refused = {} /\ check <= Len(program.checks) /\ item <= Len(Items)

Declare(isConst) ==
    locals' = Append(locals, [name |-> Next1.name, isConst |-> isConst, init |-> Next1.init,
                              isFn |-> NamesFn(Next1.init)])

Proceed(a) ==
    /\ nodes' = a.nodes
    /\ IF IsConst(a) THEN item' = item + 1 /\ UNCHANGED refused
       ELSE refused' = {[value |-> a.value]} /\ UNCHANGED item

\* H2TCValidateLocalConstVarLikeInitializers, then the local is added.
CheckConst ==
    /\ Checking /\ Next1.kind = "const"
    /\ Proceed(IF NamesFn(Next1.init) THEN Give(IntOf(0), nodes) ELSE Eval(Next1.init, Fresh, nodes))
    /\ IF refused' = {} THEN Declare(TRUE) ELSE UNCHANGED locals
    /\ UNCHANGED <<program, check, answers>>

CheckVar ==
    /\ Checking /\ Next1.kind = "var"
    /\ Declare(FALSE)
    /\ item' = item + 1
    /\ UNCHANGED <<program, check, nodes, answers, refused>>

\* The length of an array, by H2TCConstIntExpr.
CheckSize ==
    /\ Checking /\ Next1.kind = "size"
    /\ LET a == Eval(Next1.init, Fresh, nodes)
           n == IF a.value.is = "int" \/ a.value = Error THEN a ELSE Give(NotConst, a.nodes)
       IN  /\ Proceed(n)
           /\ answers' = Append(answers, [check |-> check, item |-> item, value |-> n.value])
    /\ UNCHANGED <<program, check, locals>>

\* The locals of a function are gone with it.
NextFunction ==
    /\ refused = {} /\ check <= Len(program.checks) /\ item > Len(Items)
    /\ check' = check + 1 /\ item' = 1 /\ locals' = << >>
    /\ UNCHANGED <<program, nodes, answers, refused>>

\* H2TCValidateTopLevelConstEvaluable, one declaration.
ValidateTop ==
    /\ refused = {} /\ check > Len(program.checks) /\ item \in Consts
    /\ IF Grouped(item)
       THEN LET each[k \in 0 .. Len(program.consts[item].inits)] ==
                    IF k = 0 THEN Give(IntOf(0), nodes)
                    ELSE IF ~IsConst(each[k - 1]) THEN each[k - 1]
                    ELSE Eval(InitOf(item, k), Fresh, each[k - 1].nodes)
            IN  Proceed(each[Len(program.consts[item].inits)])
       ELSE IF NamesFn(InitOf(item, 1)) THEN Proceed(Give(IntOf(0), nodes))
       ELSE Proceed(EvalTop(item, 1, Fresh, nodes))
    /\ UNCHANGED <<program, check, locals, answers>>

Finished == refused # {} \/ (check > Len(program.checks) /\ item \notin Consts)
Done == Finished /\ UNCHANGED vars

Next == CheckConst \/ CheckVar \/ CheckSize \/ NextFunction \/ ValidateTop \/ Done

Spec == Init /\ [][Next]_vars

-----------------------------------------------------------------------------
(* Properties.                                                             *)

WrittenAt(c, i) == Meaning(program.checks[c][i].init, EnvBefore(program.checks[c], i), {})

Lengths == { answers[x] : x \in { y \in DOMAIN answers : answers[y].value.is = "int" } }

\* docs/language.md:286: "Scope is lexical by block; nearest declaration wins."
\* Every array length is the value its expression has where it is written.
LexicalScope == \A a \in Lengths : a.value = WrittenAt(a.check, a.item)

\* A declaration of several constants whose initialisers lead back to it.
Entangled ==
    LET Inside(n) == UNION { NamesIn(program.fns[f].ret)
                             \cup UNION { NamesIn(program.fns[f].local[l].init) : l \in DOMAIN program.fns[f].local } :
                             f \in { g \in Fns : program.fns[g].name = n } }
                     \cup UNION { InitNames(i) : i \in ConstOf(n) }
        RECURSIVE From(_)
        From(names) == LET more == names \cup UNION { Inside(n) : n \in names }
                       IN  IF more = names THEN names ELSE From(more)
    IN  \E i \in Consts : Grouped(i) /\ From(InitNames(i)) \cap NamesOf(i) # {}

\* Only an expression without a constant value is refused.
RefusedForCause ==
    refused # {} /\ ~Entangled =>
        IF check <= Len(program.checks) THEN WrittenAt(check, item) = NotConst
        ELSE \E k \in DOMAIN program.consts[item].inits : Meaning(InitOf(item, k), Empty, {}) = NotConst

\* Whatever is looked up late (consteval.c:974), in programs whose parameters and
\* locals hide no name that is, every length is right and nothing is refused without
\* cause: the order in which functions are checked, which constant is worked out
\* first and what is left of that (values kept, constants marked as visited, calls
\* in progress, the local being evaluated) do not matter, nor does it that one
\* declaration has one state for all its names.
EvaluatedAsWritten == Captures \/ (LexicalScope /\ RefusedForCause)
=============================================================================
