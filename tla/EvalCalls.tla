----------------------------- MODULE EvalCalls -----------------------------
(***************************************************************************)
(* The calls of the evaluator (evaluator.c, evaluator_mir.c): how a call   *)
(* enters and leaves the state the whole evaluator shares, whichever of    *)
(* its roads it takes, and how the lazy initialisation of top-level        *)
(* variables and constants is interleaved with them.                       *)
(*                                                                         *)
(* HOPEvalProgram holds one callStack, one current file, execution         *)
(* context, MIR execution context and template binding.  Each is saved     *)
(* somewhere else: in the C frame of HOPEvalInvokeFunction, of its caller, *)
(* of HOPEvalEvalTopVar, or in the arrays of the HOPEvalMirExecCtx of the  *)
(* program that runs.  What a function computes is left out: it calls, it  *)
(* reads and writes globals, it ends with a value, without one (not const) *)
(* or with an error.  currentContext is left out too: every caller of      *)
(* HOPEvalInvokeFunction passes the context that is current.               *)
(***************************************************************************)
EXTENDS Naturals, Sequences, FiniteSets

CONSTANTS
    Functions,  \* the functions of the program (HOPEvalFunction)
    Anonymous,  \* functions only MIR knows: mirToEval is UINT32_MAX for them
    Globals,    \* top-level variables and constants
    Consts,     \* those that are constants
    FileOf,     \* the file each of them is written in
    Main,       \* the entry point
    MaxDepth,   \* H2_EVAL_CALL_MAX_DEPTH, the length of every table
    MaxActs,    \* bound on the activations at one time (the C stack)
    None

ASSUME CallsAssumption ==
    /\ Main \in Functions /\ Consts \subseteq Globals
    /\ MaxDepth \in Nat \ {0} /\ MaxActs \in Nat
    /\ DOMAIN FileOf = Functions \cup Anonymous \cup Globals
    /\ None \notin DOMAIN FileOf

VARIABLES
    callStack,          \* callStack[0 .. callDepth)
    currentFile,        \* currentFile; None outside every call
    currentExecCtx,     \* the activation whose C frame holds the context, 0 for none
    currentMirExecCtx,  \* the HOPEvalMirExecCtx in force, 0 for none
    template,           \* the function whose template parameter is bound
    ctxs,               \* the HOPEvalMirExecCtx in use, oldest first
    acts,               \* the C activations in progress, oldest first
    topState,           \* state of each top-level variable or constant
    mode,               \* what the youngest activation is about to do
    failed              \* history: some activation has ended with an error

host == <<callStack, currentFile, currentExecCtx, currentMirExecCtx, template>>
vars == <<host, ctxs, acts, topState, mode, failed>>

Callables == Functions \cup Anonymous
\* A saved binding is a sequence of one, or NoSave when there is nothing to restore.
NoSave == <<>>

\* Variant: the saved binding is not given back.
Restored_Never(saved, now) == now
Restored(saved, now) == IF saved = NoSave THEN now ELSE saved[1]

(***************************************************************************)
(* Activations.  "invoke" is HOPEvalInvokeFunction with the caller that    *)
(* restores the template binding, "init" is HOPEvalEvalTopVar or Const,    *)
(* "mir" is H2MirEvalFunctionInternal: direct when CALL_FN made it, else   *)
(* through H2MirEvalFunction.  bound is the binding the call made.         *)
(***************************************************************************)
Act(kind, what, saved, bound) ==
    [kind |-> kind, what |-> what, file |-> currentFile, exec |-> currentExecCtx,
     saved |-> saved, bound |-> bound]
MirAct(what, k, direct, bound) ==
    [kind |-> "mir", what |-> what, ctx |-> k, direct |-> direct,
     framed |-> FALSE, bound |-> bound]

Depth == Len(acts)
TopAct == acts[Depth]
BelowAct == acts[Depth - 1]
HasRoom == Depth < MaxActs
InMir == Depth > 0 /\ TopAct.kind = "mir"
Running == mode = "run" /\ InMir
Unwinding == mode \in {"value", "nonconst", "fail"}
Fails(m) == failed' = (failed \/ m = "fail")

Push(act) == acts' = Append(acts, act)
Pop == acts' = SubSeq(acts, 1, Depth - 1)

----------------------------------------------------------------------------
(***************************************************************************)
(* HOPEvalMirEnterFunction for function f in context k of cs: it refuses a *)
(* full table, records f unless it is the root (whose caller recorded it)  *)
(* or has no evaluator index, and saves what HOPEvalMirLeaveFunction       *)
(* restores; pending is the binding adjustCallArgs replaced.               *)
(***************************************************************************)
\* Variant: the root is recorded again.
Pushes_Root(c, f) == f \in Functions
Pushes(c, f) == f # c.root /\ f \in Functions

EnterRefused(c, f) ==
    \/ Len(c.saved) >= MaxDepth
    \/ Pushes(c, f) /\ Len(callStack) >= MaxDepth

EnterFunction(cs, k, f, pending) ==
    LET frame == [ctx |-> currentMirExecCtx, file |-> currentFile,
                  pushed |-> Pushes(cs[k], f), template |-> pending]
    IN /\ ctxs' = [cs EXCEPT ![k].saved = Append(@, frame)]
       /\ callStack' = IF frame.pushed THEN Append(callStack, f) ELSE callStack
       /\ currentMirExecCtx' = k
       /\ currentFile' = FileOf[f]

\* H2MirInitRun and HOPEvalMirBindFrame, after the function was entered.
BindFrame ==
    /\ mode = "entered"
    /\ \E ok \in BOOLEAN :
         LET k == TopAct.ctx
             binds == ok /\ ctxs[k].frames < MaxDepth
         IN /\ mode' = IF binds THEN "run" ELSE "fail"
            /\ acts' = [acts EXCEPT ![Depth].framed = binds]
            /\ ctxs' = [ctxs EXCEPT ![k].frames = IF binds THEN @ + 1 ELSE @]
            /\ Fails(mode')
    /\ UNCHANGED <<host, topState>>

\* HOPEvalMirUnbindFrame and HOPEvalMirLeaveFunction on context c.
\* Variant: the frame stays bound.
Unbind_Never(c, framed) == c
Unbind(c, framed) == IF framed THEN [c EXCEPT !.frames = @ - 1] ELSE c
Leave(c) == [c EXCEPT !.saved = SubSeq(@, 1, Len(@) - 1)]

----------------------------------------------------------------------------
(***************************************************************************)
(* Calls.                                                                  *)
(***************************************************************************)
\* HOPEvalInvokeFunction up to the call of HOPEvalTryMirInvokeFunction.
InvokeFunction(f, saved, bound) ==
    /\ HasRoom
    /\ Push(Act("invoke", f, saved, bound))
    /\ currentFile' = FileOf[f]
    /\ currentExecCtx' = Depth + 1
    /\ callStack' = Append(callStack, f)
    /\ mode' = "enter"
    /\ UNCHANGED <<currentMirExecCtx, ctxs, topState, failed>>

\* The evaluator starts the entry point.
StartMain ==
    /\ mode = "start"
    /\ InvokeFunction(Main, NoSave, None)
    /\ UNCHANGED template

\* HOPEvalTryMirInvokeFunction and HOPEvalTryMirEvalTopInit: lower into a new
\* context, whose root is the function or the initialiser, and enter the root.
RunRoot ==
    /\ mode = "enter" /\ HasRoom
    /\ LET new == [root |-> TopAct.what, saved |-> <<>>, frames |-> 0]
           k == Len(ctxs) + 1
       IN /\ EnterFunction(Append(ctxs, new), k, TopAct.what, NoSave)
          /\ Push(MirAct(TopAct.what, k, FALSE, None))
    /\ mode' = "entered"
    /\ UNCHANGED <<currentExecCtx, template, topState, failed>>

\* Nothing is run: the code cannot be lowered (not const), an error occurs, or
\* the initialiser of a constant is a type.
NotLowered ==
    /\ mode = "enter"
    /\ mode' \in {"nonconst", "fail"} \cup (IF TopAct.kind = "init" THEN {"value"} ELSE {})
    /\ Fails(mode')
    /\ UNCHANGED <<host, ctxs, acts, topState>>

\* CALL_FN and CALL_INDIRECT on a function of the program that runs:
\* adjustCallArgs binds a template only when the arguments fit, then the function
\* is entered.  An error of the entry leaves the binding as it is.
CallFn(f, fits, binds) ==
    LET k == TopAct.ctx
        bound == IF binds THEN f ELSE None
    IN /\ Running /\ HasRoom
       /\ binds => f \in Functions /\ fits
       /\ template' = IF binds THEN f ELSE template
       /\ UNCHANGED <<currentExecCtx, topState>>
       /\ IF ~fits \/ EnterRefused(ctxs[k], f)
          THEN /\ mode' = IF fits THEN "fail" ELSE "nonconst"
               /\ Fails(mode')
               /\ UNCHANGED <<callStack, currentFile, currentMirExecCtx, ctxs, acts>>
          ELSE /\ EnterFunction(ctxs, k, f, IF binds THEN <<template>> ELSE NoSave)
               /\ Push(MirAct(f, k, TRUE, bound))
               /\ mode' = "entered"
               /\ UNCHANGED failed

\* HOPEvalMirRewriteTopInitCalls turns the names of globals in an initialiser into
\* a CALL_FN of their initialisers, and HOPEvalMirLowerFunction those of constants
\* in a function; a constant's initialiser reads no variable.
CallInit(g) ==
    /\ Running
    /\ g \in Consts \/ TopAct.what \in Globals \ Consts
    /\ CallFn(g, TRUE, FALSE)

\* HOPEvalResolveCallMir: refused at the depth limit and for a function that is
\* being called already; the caller saves and restores the binding.
CallAllowed(f) ==
    /\ Len(callStack) < MaxDepth
    /\ \A i \in 1 .. Len(callStack) : callStack[i] # f

CallDynamic(f, binds) ==
    /\ Running
    /\ IF CallAllowed(f)
       THEN /\ InvokeFunction(f, <<template>>, IF binds THEN f ELSE None)
            /\ template' = IF binds THEN f ELSE template
       ELSE mode' = "nonconst" /\ UNCHANGED <<host, ctxs, acts, topState, failed>>

\* __order, __equal, __iterator and next_value: the hook is invoked at once.
CallHook(f) ==
    /\ Running
    /\ InvokeFunction(f, NoSave, None)
    /\ UNCHANGED template

\* HOPEvalInvokeFunctionRef on a function of the evaluator.
CallFunctionRef(f, binds) ==
    /\ Running
    /\ InvokeFunction(f, <<template>>, IF binds THEN f ELSE None)
    /\ template' = IF binds THEN f ELSE template

\* HOPEvalInvokeFunctionRef on a MIR function: it runs in the current context,
\* through H2MirEvalFunction.
CallMirRef(f) ==
    /\ Running /\ HasRoom
    /\ UNCHANGED <<currentExecCtx, template, topState>>
    /\ IF EnterRefused(ctxs[currentMirExecCtx], f)
       THEN /\ mode' = "fail" /\ failed' = TRUE
            /\ UNCHANGED <<callStack, currentFile, currentMirExecCtx, ctxs, acts>>
       ELSE /\ EnterFunction(ctxs, currentMirExecCtx, f, NoSave)
            /\ Push(MirAct(f, currentMirExecCtx, FALSE, None))
            /\ mode' = "entered"
            /\ UNCHANGED failed

\* HOPEvalEvalTopVar, HOPEvalEvalTopConst: a global is initialised when it is
\* first read; while that goes on, and after it failed, it has no value.
\* Variant: a failed initialiser is tried again.
NeedsInit_Failed(g) == topState[g] \in {"unseen", "failed"}
NeedsInit(g) == topState[g] = "unseen"

ReadTop(g) ==
    /\ Running
    /\ \/ /\ NeedsInit(g) /\ HasRoom
          /\ Push(Act("init", g, NoSave, None))
          /\ topState' = [topState EXCEPT ![g] = "visiting"]
          /\ currentFile' = FileOf[g]
          /\ currentExecCtx' = Depth + 1
          /\ mode' = "enter"
          /\ UNCHANGED <<callStack, currentMirExecCtx, template, ctxs, failed>>
       \/ /\ ~NeedsInit(g) /\ topState[g] # "ready"
          /\ mode' = "nonconst"
          /\ UNCHANGED <<host, ctxs, acts, topState, failed>>

\* HOPEvalMirAssignIdent: an assignment makes the variable ready, whatever it was.
AssignTop(g) ==
    /\ Running /\ g \notin Consts /\ topState[g] # "ready"
    /\ topState' = [topState EXCEPT ![g] = "ready"]
    /\ UNCHANGED <<host, ctxs, acts, mode, failed>>

\* The code of the function ends: H2MirRunLoop returns.
EndRun ==
    /\ Running
    /\ mode' \in {"value", "nonconst", "fail"}
    /\ Fails(mode')
    /\ UNCHANGED <<host, ctxs, acts, topState>>

----------------------------------------------------------------------------
(***************************************************************************)
(* Returns.                                                                *)
(***************************************************************************)
\* The end of H2MirEvalFunctionInternal, and of HOPEvalTryMirInvokeFunction when
\* it was the root: the context goes with its frame.  A value may be one that
\* HOPEvalMirAdaptOutValue refuses.
LeaveFunction ==
    LET k == TopAct.ctx
        c == ctxs[k]
        frame == c.saved[Len(c.saved)]
        isRoot == BelowAct.kind # "mir"
    IN /\ Unwinding /\ InMir
       /\ callStack' = IF frame.pushed THEN SubSeq(callStack, 1, Len(callStack) - 1)
                       ELSE callStack
       /\ currentFile' = frame.file
       /\ currentMirExecCtx' = frame.ctx
       /\ template' = Restored(frame.template, template)
       /\ ctxs' = IF isRoot THEN SubSeq(ctxs, 1, Len(ctxs) - 1)
                  ELSE [ctxs EXCEPT ![k] = Leave(Unbind(@, TopAct.framed))]
       /\ mode' \in IF mode # "value" THEN {mode}
                    ELSE {IF isRoot THEN "value" ELSE "run"}
                           \cup (IF TopAct.direct THEN {} ELSE {"nonconst"})
       /\ Pop
       /\ UNCHANGED <<currentExecCtx, topState, failed>>

\* The end of HOPEvalInvokeFunction and of its caller: a result that is not const
\* is reported as an error; the value may not fit the type of the result, or there
\* may be none.
ReturnFromInvoke ==
    /\ Unwinding /\ Depth > 0 /\ TopAct.kind = "invoke"
    /\ callStack' = SubSeq(callStack, 1, Len(callStack) - 1)
    /\ currentFile' = TopAct.file
    /\ currentExecCtx' = TopAct.exec
    /\ template' = Restored(TopAct.saved, template)
    /\ mode' \in IF Depth = 1 THEN {"done"}
                 ELSE IF mode = "value" THEN {"run", "nonconst", "fail"} ELSE {"fail"}
    /\ Fails(mode')
    /\ Pop
    /\ UNCHANGED <<currentMirExecCtx, ctxs, topState>>

\* How the reader of a global goes on: one without a value may have another
\* reading of its expression, and taking the address of a global ignores the error.
\* Variant: the reader goes on whatever happened.
AfterInit_Ignored(m) == {"run"}
AfterInit(m) == CASE m = "value" -> {"run"}
                  [] m = "nonconst" -> {"run", "nonconst"}
                  [] OTHER -> {"fail", "nonconst"}

\* The end of HOPEvalEvalTopVar: without a value the global has failed for good.
FinishInit ==
    /\ Unwinding /\ Depth > 0 /\ TopAct.kind = "init"
    /\ currentFile' = TopAct.file
    /\ currentExecCtx' = TopAct.exec
    /\ topState' = [topState EXCEPT ![TopAct.what] =
                       IF mode = "value" THEN "ready" ELSE "failed"]
    /\ mode' \in AfterInit(mode)
    /\ Pop
    /\ UNCHANGED <<callStack, currentMirExecCtx, template, ctxs, failed>>

Finished == mode = "done" /\ UNCHANGED vars

----------------------------------------------------------------------------
Init ==
    /\ callStack = <<>> /\ currentFile = None
    /\ currentExecCtx = 0 /\ currentMirExecCtx = 0
    /\ template = None
    /\ ctxs = <<>> /\ acts = <<>>
    /\ topState = [g \in Globals |-> "unseen"]
    /\ mode = "start"
    /\ failed = FALSE

Call ==
    \/ \E f \in Callables, fits, binds \in BOOLEAN : CallFn(f, fits, binds)
    \/ \E g \in Globals : CallInit(g)
    \/ \E f \in Functions, binds \in BOOLEAN :
         CallDynamic(f, binds) \/ CallFunctionRef(f, binds)
    \/ \E f \in Functions : CallHook(f)
    \/ \E f \in Callables : CallMirRef(f)

Unwind == LeaveFunction \/ ReturnFromInvoke \/ FinishInit

Next ==
    \/ StartMain \/ RunRoot \/ NotLowered \/ BindFrame
    \/ Call
    \/ \E g \in Globals : ReadTop(g) \/ AssignTop(g)
    \/ EndRun
    \/ Unwind
    \/ Finished

\* The evaluator is one thread that is never preempted by anything of its own.
Spec == Init /\ [][Next]_vars /\ WF_vars(Next)

----------------------------------------------------------------------------
(***************************************************************************)
(* Properties.                                                             *)
(***************************************************************************)
\* What the shared state should be, read off the activations alone.
Recorded(a) ==
    \/ a.kind = "invoke"
    \/ a.kind = "mir" /\ a.what \in Functions /\ a.what # ctxs[a.ctx].root
RecordedActs == {i \in 1 .. Depth : Recorded(acts[i])}
\* The place of activation i among those.
Rank(i) == Cardinality({j \in RecordedActs : j <= i})
Youngest(S) == CHOOSE i \in S \cup {0} : \A j \in S : j <= i
YoungestOf(kinds) == Youngest({i \in 1 .. Depth : acts[i].kind \in kinds})

\* However calls were nested and however they ended, the shared state is the one of
\* the youngest activation: the call stack lists the calls in progress in their
\* order, and no pointer to a file, a context or a C frame outlives the call that
\* set it.  Every save of HOPEvalInvokeFunction, EvalTopVar and EnterFunction has
\* its restore on every path.
HostMatchesCalls ==
    /\ Len(callStack) = Cardinality(RecordedActs)
    /\ \A i \in RecordedActs : callStack[Rank(i)] = acts[i].what
    /\ currentFile = IF Depth = 0 THEN None ELSE FileOf[TopAct.what]
    /\ currentExecCtx = YoungestOf({"invoke", "init"})
    /\ LET m == YoungestOf({"mir"})
       IN currentMirExecCtx = IF m = 0 THEN 0 ELSE acts[m].ctx

\* The template binding in force is the one made by the youngest call that made
\* one, until an error: a callee's binding never leaks into its caller and a
\* binding taken over by EnterFunction is given back by LeaveFunction.
TemplateMatches ==
    ~failed =>
       template = LET i == Youngest({j \in 1 .. Depth : acts[j].bound # None})
                  IN IF i = 0 THEN None ELSE acts[i].bound

\* HOPEvalEvalTopVar initialises a global once: no step starts it again, also
\* after it failed and when an assignment came before or in between.
InitOnce ==
    [][\A g \in Globals : 
          topState[g] # "unseen" =>
             /\ topState'[g] # "unseen"
             /\ topState'[g] = "visiting" => topState[g] = "visiting"]_vars

\* An error ends every call it passes through and reaches the end of the program or
\* an initialiser; it is never left half unwound.
ErrorsUnwind == mode = "fail" ~> mode \in {"done", "nonconst"}
=============================================================================
