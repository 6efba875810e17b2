------------------------------ MODULE MirExec ------------------------------
(***************************************************************************)
(* The MIR executor (src/src/mir_exec.c): H2MirEvalFunction validates a    *)
(* program, then H2MirEvalFunctionInternal opens one frame per call and    *)
(* H2MirRunLoop interprets its instructions on an operand stack.           *)
(*                                                                         *)
(* Operand values are abstracted to the HEIGHT of the stack; the one value *)
(* whose content decides a height, the has-item flag that ITER_NEXT leaves *)
(* on top, is kept.  Whatever depends on other data (a cast that fails, a  *)
(* host hook that answers "not const" or fails) is a free choice between   *)
(* the three results the C code can return: go on, not const (return 0     *)
(* with *outIsConst = 0) and error (return -1).                            *)
(***************************************************************************)
EXTENDS Naturals, Sequences

CONSTANTS
    Programs,           \* the programs H2MirEvalFunction is called with
    EntryArgs,          \* the argument counts it is called with
    BackwardJumpLimit,  \* env->backwardJumpLimit; 0 means unlimited
    HookDepth,          \* depth at which enterFunction and bindFrame refuse
    HasEnterHook        \* the evaluator installs enterFunction/leaveFunction,
                        \* the type checker does not

VARIABLES
    prog,     \* the program evaluated
    frames,   \* the H2MirExecRun of every active call, innermost last
    rc,       \* what the innermost call is doing, or has answered
    why,      \* the reason of a "notconst" or "error" answer
    entered,  \* the embedder's call stack (enterFunction/leaveFunction)
    bound     \* the embedder's frame stack (bindFrame/unbindFrame)

vars == <<prog, frames, rc, why, entered, bound>>

-----------------------------------------------------------------------------
(* Programs.                                                               *)

LiteralOps == {"PUSH_CONST", "PUSH_INT", "PUSH_NULL"}
LoadOps    == {"LOCAL_LOAD", "LOCAL_ADDR", "CAPTURE_ADDR", "CAPTURE_LOAD", "LOAD_IDENT"}
AggOps     == {"AGG_MAKE", "AGG_ZERO"}
ContextOps == {"ALLOC_NEW", "CTX_GET", "CTX_ADDR", "CTX_SET"}
PushOps == LiteralOps \cup LoadOps \cup AggOps \cup ContextOps

FieldOps   == {"AGG_GET", "AGG_ADDR"}
ConvertOps == {"CAST", "COERCE", "OPTIONAL_WRAP", "OPTIONAL_UNWRAP"}
LengthOps  == {"SEQ_LEN", "STR_CSTR"}
MapOps == FieldOps \cup ConvertOps \cup LengthOps
          \cup {"UNARY", "ADDR_OF", "DEREF_LOAD", "ITER_INIT"}

PairOps  == {"BINARY", "INDEX", "ARRAY_ADDR", "AGG_SET"}
StoreOps == {"LOCAL_STORE", "CAPTURE_STORE", "STORE_IDENT", "DROP", "ASSERT"}
HostOps  == {"CALL", "CALL_HOST"}
CountOps == HostOps \cup {"TUPLE_MAKE", "MAKE_CLOSURE", "SLICE_MAKE"}
StraightOps == PushOps \cup MapOps \cup PairOps \cup StoreOps \cup CountOps
               \cup {"DEREF_STORE", "LOCAL_ZERO"}
ControlOps  == {"JUMP", "JUMP_IF_FALSE", "ITER_NEXT", "CALL_FN",
                "CALL_INDIRECT", "RETURN", "RETURN_VOID"}

\* One instruction.  "argc" is the operand count packed in ins->tok (call
\* arguments, tuple elements, captures, slice bounds; for ITER_NEXT the key
\* and value it pushes); "drop" is H2MirCallArgFlag_RECEIVER_ARG0; "pre" says
\* that the embedder's resolveCallPre answers this CALL itself.
Inst == { ins \in [op : StraightOps \cup ControlOps, aux : Nat, argc : Nat,
                   drop : BOOLEAN, pre : BOOLEAN] :
            ins.op = "ITER_NEXT" => ins.argc <= 2 }

\* One function: the fields of H2MirFunction the executor reads, and the
\* height of the operand stack its lowering intends before each instruction.
\* A typeRef is the set of the type it names: {} for UINT32_MAX.
Function == [paramCount : Nat, localStart : Nat, localCount : Nat,
             captureCount : Nat, typeRef : SUBSET Nat,
             variadic : BOOLEAN, entry : BOOLEAN, insts : Seq(Inst),
             height : Seq(Nat)]

\* One program: its functions, the typeRefs of its locals and the lengths of
\* its other tables; "fnConsts" are the constants of kind H2MirConst_FUNCTION.
Program == [funcs : Seq(Function), locals : Seq(SUBSET Nat),
            constLen : Nat, fnConsts : SUBSET Nat,
            symbolLen : Nat, typeLen : Nat, hostLen : Nat, fieldLen : Nat]

ASSUME ProgramsAssumption == Programs \subseteq Program
ASSUME LimitsAssumption ==
    /\ EntryArgs \subseteq Nat
    /\ BackwardJumpLimit \in Nat
    /\ HookDepth \in Nat \ {0}
    /\ HasEnterHook \in BOOLEAN

FunctionIndex(p) == 0 .. Len(p.funcs) - 1
Fn(p, f) == p.funcs[f + 1]
CodeLen(p, f) == Len(Fn(p, f).insts)
InstAt(p, f, pc) == Fn(p, f).insts[pc + 1]

LocalOps   == {"LOCAL_ZERO", "LOCAL_LOAD", "LOCAL_STORE", "LOCAL_ADDR"}
CaptureOps == {"CAPTURE_LOAD", "CAPTURE_STORE", "CAPTURE_ADDR"}
JumpOps    == {"JUMP", "JUMP_IF_FALSE"}
NoType(p, typeRef) == \E t \in typeRef : t >= p.typeLen

\* What H2MirValidateProgram tests of an instruction.
ValidInst(p, fn, ins) ==
    /\ ins.op = "PUSH_CONST" => ins.aux < p.constLen
    /\ ins.op \in {"LOAD_IDENT", "STORE_IDENT", "CALL"} => ins.aux < p.symbolLen
    /\ ins.op \in {"CAST", "COERCE"} => ins.aux < p.typeLen
    /\ ins.op = "CALL_HOST" => ins.aux < p.hostLen
    /\ ins.op \in FieldOps => ins.aux < p.fieldLen
    /\ ins.op \in LocalOps => ins.aux < fn.localCount
    /\ ins.op \in JumpOps => ins.aux < Len(fn.insts)
    /\ ins.op = "CALL_FN" => ins.aux < Len(p.funcs)
    /\ ins.op = "MAKE_CLOSURE" => ins.aux < p.constLen /\ ins.aux \in p.fnConsts
    /\ ins.op \in CaptureOps => ins.aux < fn.captureCount

\* Variant: the types of locals are not validated.
ValidLocals_Untyped(p, fn) ==
    fn.localStart + fn.localCount <= Len(p.locals) /\ fn.localCount >= fn.paramCount

\* What it tests of a function's part of the table of locals.
ValidLocals(p, fn) ==
    /\ fn.localStart + fn.localCount <= Len(p.locals)
    /\ fn.localCount >= fn.paramCount
    /\ \A i \in 1 .. fn.localCount : ~NoType(p, p.locals[fn.localStart + i])

\* H2MirValidateProgram, run once, before the outermost call.
ValidateProgram(p) ==
    \A i \in 1 .. Len(p.funcs) :
        LET fn == p.funcs[i] IN
        /\ ValidLocals(p, fn)
        /\ \A j \in 1 .. Len(fn.insts) : ValidInst(p, fn, fn.insts[j])

\* H2MirGetLocalMeta: the typeRef of a local, none for one the table has not.
LocalMeta(p, fn, slot) ==
    IF slot < fn.localCount /\ fn.localStart + slot < Len(p.locals)
    THEN p.locals[(fn.localStart + slot) + 1] ELSE {}

\* The executor's own tests of an index, made when the instruction runs ...
RejectsAux(p, f, ins) ==
    LET fn == Fn(p, f) IN
    \/ ins.op = "PUSH_CONST" /\ ins.aux >= p.constLen
    \/ ins.op = "MAKE_CLOSURE" /\ (ins.aux >= p.constLen \/ ins.aux \notin p.fnConsts)
    \/ ins.op \in LocalOps /\ ins.aux >= fn.localCount
    \/ ins.op = "LOCAL_ZERO" /\ NoType(p, LocalMeta(p, fn, ins.aux))
    \/ ins.op \in CaptureOps /\ ins.aux >= fn.captureCount
    \/ ins.op \in JumpOps /\ ins.aux >= Len(fn.insts)
    \/ ins.op = "CALL_FN" /\ ins.aux >= Len(p.funcs)
    \/ ins.op = "AGG_ZERO" /\ ins.aux >= p.typeLen

\* ... and when the operand it popped is converted (H2MirCoerceValueForType).
RejectsType(p, f, ins) ==
    \/ ins.op \in {"CAST", "COERCE"} /\ ins.aux >= p.typeLen
    \/ ins.op = "LOCAL_STORE" /\ NoType(p, LocalMeta(p, Fn(p, f), ins.aux))
    \/ ins.op = "RETURN" /\ NoType(p, Fn(p, f).typeRef)

\* The prologue of a variadic call takes its last parameter from the table of locals,
\* and that local's type from the table of types, without a test.
StrayPack(p, fn) ==
    LET i == fn.localStart + fn.paramCount IN
    i > Len(p.locals) \/ NoType(p, p.locals[i])

-----------------------------------------------------------------------------
(* The operand stack.                                                      *)

\* How many operands a straight-line instruction pops.
Pops(ins) ==
    IF ins.op \in PushOps \cup {"LOCAL_ZERO"} THEN 0
    ELSE IF ins.op \in MapOps \cup StoreOps THEN 1
    ELSE IF ins.op \in PairOps \cup {"DEREF_STORE"} THEN 2
    ELSE IF ins.op = "CALL" /\ ins.pre THEN 0
    ELSE IF ins.op = "SLICE_MAKE" THEN ins.argc + 1
    ELSE ins.argc

\* How many results it pushes when it succeeds.
Pushes(ins) ==
    IF ins.op \in StoreOps \cup {"DEREF_STORE", "LOCAL_ZERO"} THEN 0 ELSE 1

\* Instructions that neither ask the embedder nor look at a value.
Infallible == {"DROP", "LOCAL_LOAD", "LOCAL_ADDR", "PUSH_NULL"}

\* A variadic function receives its fixed arguments; the pack is stored later.
BoundArgs(fn) == IF fn.variadic THEN fn.paramCount - 1 ELSE fn.paramCount

\* Variant: the operand stack is sized from the arguments alone.
StackCap_ArgsOnly(p, f) == BoundArgs(Fn(p, f)) + 1

\* run->stackCap = chunk.len + argCount + 1
StackCap(p, f) == CodeLen(p, f) + BoundArgs(Fn(p, f)) + 1

\* What is known of the top operand: nothing, or that it is the flag of an
\* ITER_NEXT that did ("item") or did not ("end") produce an element.
TopValue == {"any", "item", "end"}

Frame == [fn : Nat, pc : Nat, sp : Nat, top : TopValue, back : Nat,
          bound : BOOLEAN]

NewFrame(f) == [fn |-> f, pc |-> 0, sp |-> 0, top |-> "any", back |-> 0,
                bound |-> FALSE]

\* The frame fr at another place, with another stack.
Moved(fr, pc, sp, top) == [fr EXCEPT !.pc = pc, !.sp = sp, !.top = top]

Depth == Len(frames)
Top == frames[Depth]
Callers == SubSeq(frames, 1, Depth - 1)
SetTop(fr) == [frames EXCEPT ![Depth] = fr]

Answers == {"const", "notconst", "error"}
Reasons == {"none", "invalid", "range", "stray", "underflow", "overflow", "return stack",
            "end of code", "jump limit", "args", "value", "hook"}
-----------------------------------------------------------------------------
(* Calls.                                                                  *)

\* How many arguments reach the parameter check: a function-value entry
\* without captures accepts a missing hidden closure argument.
EffectiveArgs(fn, argc) ==
    IF fn.entry /\ argc + 1 = fn.paramCount /\ fn.captureCount = 0
    THEN argc + 1 ELSE argc

ArgsAccepted(fn, argc) ==
    LET n == EffectiveArgs(fn, argc) IN
    /\ fn.localCount >= fn.paramCount
    /\ IF fn.variadic THEN fn.paramCount > 0 /\ n + 1 >= fn.paramCount
                      ELSE n = fn.paramCount

\* The prologue of H2MirEvalFunctionInternal up to enterFunction, for a call
\* made with the frames "outer" below it: the arguments are refused, the
\* variadic pack or the hook fails, or the callee gets its frame.  A read
\* behind the end of a table can have any outcome; the first one tells it.
OpenCall(f, argc, outer) ==
    \/ /\ ArgsAccepted(Fn(prog, f), argc)
       /\ Fn(prog, f).variadic /\ StrayPack(prog, Fn(prog, f))
       /\ frames' = outer /\ rc' = "error" /\ why' = "stray"
       /\ UNCHANGED <<prog, entered, bound>>
    \/ /\ \/ ~ArgsAccepted(Fn(prog, f), argc)
          \/ Fn(prog, f).variadic
       /\ frames' = outer /\ rc' = "notconst" /\ why' = "args"
       /\ UNCHANGED <<prog, entered, bound>>
    \/ /\ ArgsAccepted(Fn(prog, f), argc)
       /\ HasEnterHook \/ Fn(prog, f).variadic
       /\ frames' = outer /\ rc' = "error" /\ why' = "hook"
       /\ UNCHANGED <<prog, entered, bound>>
    \/ /\ ArgsAccepted(Fn(prog, f), argc)
       /\ HasEnterHook => Len(entered) < HookDepth
       /\ frames' = Append(outer, NewFrame(f))
       /\ rc' = "run"
       /\ entered' = IF HasEnterHook THEN Append(entered, f) ELSE entered
       /\ UNCHANGED <<prog, why, bound>>

\* H2MirEvalFunction: validation, then the outermost call.
EvalFunction ==
    /\ rc = "idle"
    /\ IF ValidateProgram(prog)
       THEN \E f \in FunctionIndex(prog), argc \in EntryArgs : OpenCall(f, argc, << >>)
       ELSE /\ rc' = "error" /\ why' = "invalid"
            /\ UNCHANGED <<prog, frames, entered, bound>>

\* Variant: a failing bindFrame returns at once instead of going to "end".
BindFrame_SkipsLeave ==
    /\ rc = "run" /\ frames # << >> /\ ~Top.bound
    /\ \/ /\ Len(bound) < HookDepth
          /\ frames' = SetTop([Top EXCEPT !.bound = TRUE])
          /\ bound' = Append(bound, Top.fn)
          /\ UNCHANGED <<prog, rc, why, entered>>
       \/ /\ rc' = "error" /\ why' = "hook" /\ frames' = Callers
          /\ UNCHANGED <<prog, entered, bound>>

\* H2MirInitRun and bindFrame, between enterFunction and the run loop.
BindFrame ==
    /\ rc = "run" /\ frames # << >> /\ ~Top.bound
    /\ \/ /\ Len(bound) < HookDepth
          /\ frames' = SetTop([Top EXCEPT !.bound = TRUE])
          /\ bound' = Append(bound, Top.fn)
          /\ UNCHANGED <<prog, rc, why, entered>>
       \/ /\ rc' = "error" /\ why' = "hook"
          /\ UNCHANGED <<prog, frames, entered, bound>>

\* Variant: unbindFrame is not called when the call failed.
UnbindFrame_OnlyOnSuccess ==
    /\ rc \in Answers /\ frames # << >> /\ Top.bound
    /\ frames' = SetTop([Top EXCEPT !.bound = FALSE])
    /\ bound' = IF rc = "const" THEN SubSeq(bound, 1, Len(bound) - 1) ELSE bound
    /\ UNCHANGED <<prog, rc, why, entered>>

\* The epilogue (label "end"): unbind what was bound ...
UnbindFrame ==
    /\ rc \in Answers /\ frames # << >> /\ Top.bound
    /\ frames' = SetTop([Top EXCEPT !.bound = FALSE])
    /\ bound' = SubSeq(bound, 1, Len(bound) - 1)
    /\ UNCHANGED <<prog, rc, why, entered>>

\* Back in the caller: a constant result is pushed and the caller goes on;
\* any other answer becomes the caller's own.
Deliver ==
    IF rc # "const" \/ Depth = 1
    THEN frames' = Callers /\ UNCHANGED <<rc, why>>
    ELSE LET caller == frames[Depth - 1] IN
         IF caller.sp < StackCap(prog, caller.fn)
         THEN /\ frames' = [Callers EXCEPT ![Depth - 1] =
                               Moved(caller, caller.pc, caller.sp + 1, "any")]
              /\ rc' = "run" /\ UNCHANGED why
         ELSE frames' = Callers /\ rc' = "error" /\ why' = "overflow"

\* Variant: leaveFunction runs before unbindFrame.
LeaveFunction_BeforeUnbind ==
    /\ rc \in Answers /\ frames # << >>
    /\ entered' = IF HasEnterHook THEN SubSeq(entered, 1, Len(entered) - 1) ELSE entered
    /\ Deliver
    /\ UNCHANGED <<prog, bound>>

\* ... then leave what was entered, and return to the caller.
LeaveFunction ==
    /\ rc \in Answers /\ frames # << >> /\ ~Top.bound
    /\ entered' = IF HasEnterHook THEN SubSeq(entered, 1, Len(entered) - 1) ELSE entered
    /\ Deliver
    /\ UNCHANGED <<prog, bound>>

-----------------------------------------------------------------------------
(* Instructions.                                                           *)

\* The run loop stops with an answer; the epilogue follows.
Stop(answer, reason) ==
    /\ rc' = answer /\ why' = reason
    /\ UNCHANGED <<prog, frames, entered, bound>>

GoOn(fr) ==
    /\ frames' = SetTop(fr)
    /\ UNCHANGED <<prog, rc, why, entered, bound>>

\* The run loop is at an instruction with one of these opcodes.
At(ops) ==
    /\ rc = "run" /\ frames # << >> /\ Top.bound
    /\ Top.pc < CodeLen(prog, Top.fn)
    /\ InstAt(prog, Top.fn, Top.pc).op \in ops

Ins == InstAt(prog, Top.fn, Top.pc)

Straight ==
    /\ At(StraightOps)
    /\ LET left == Top.sp - Pops(Ins)
           high == left + Pushes(Ins)
           kept == Pops(Ins) = 0 /\ Pushes(Ins) = 0
       IN  \/ RejectsAux(prog, Top.fn, Ins) /\ Stop("notconst", "range")
           \/ /\ ~RejectsAux(prog, Top.fn, Ins)
              /\ \/ Pops(Ins) > Top.sp /\ Stop("notconst", "underflow")
                 \/ /\ Pops(Ins) <= Top.sp /\ RejectsType(prog, Top.fn, Ins)
                    /\ Stop("notconst", "range")
                 \/ /\ Ins.op \notin Infallible
                    /\ \E answer \in {"notconst", "error"} : Stop(answer, "value")
                 \/ /\ Pops(Ins) <= Top.sp /\ ~RejectsType(prog, Top.fn, Ins)
                    /\ Pushes(Ins) = 1 /\ left >= StackCap(prog, Top.fn)
                    /\ Stop("error", "overflow")
                 \/ /\ Pops(Ins) <= Top.sp /\ ~RejectsType(prog, Top.fn, Ins)
                    /\ Pushes(Ins) = 1 => left < StackCap(prog, Top.fn)
                    /\ GoOn(Moved(Top, Top.pc + 1, high, IF kept THEN Top.top ELSE "any"))

\* ITER_NEXT pops the iterator; with an element it pushes the key and the
\* value the flags ask for (Ins.argc of them) below the flag, else the flag.
IterNext ==
    /\ At({"ITER_NEXT"})
    /\ \/ Top.sp = 0 /\ Stop("notconst", "underflow")
       \/ /\ Top.sp > 0
          /\ \/ \E answer \in {"notconst", "error"} : Stop(answer, "value")
             \/ \E flag \in {"item", "end"} :
                   LET high == Top.sp + (IF flag = "item" THEN Ins.argc ELSE 0) IN
                   IF high > StackCap(prog, Top.fn)
                   THEN Stop("error", "overflow")
                   ELSE GoOn(Moved(Top, Top.pc + 1, high, flag))

\* Variant: a jump to itself is not counted as a backward jump.
TakeJump_SelfJumpIsFree(sp, top) ==
    LET backward == BackwardJumpLimit # 0 /\ Ins.aux < Top.pc
        back     == IF backward THEN Top.back + 1 ELSE Top.back
    IN  IF backward /\ back > BackwardJumpLimit
        THEN Stop("notconst", "jump limit")
        ELSE GoOn([Moved(Top, Ins.aux, sp, top) EXCEPT !.back = back])
TakeJump(sp, top) ==
    LET backward == BackwardJumpLimit # 0 /\ Ins.aux < Top.pc + 1
        back     == IF backward THEN Top.back + 1 ELSE Top.back
    IN  IF backward /\ back > BackwardJumpLimit
        THEN Stop("notconst", "jump limit")
        ELSE GoOn([Moved(Top, Ins.aux, sp, top) EXCEPT !.back = back])

Jump ==
    /\ At({"JUMP"})
    /\ IF RejectsAux(prog, Top.fn, Ins) THEN Stop("notconst", "range")
                                        ELSE TakeJump(Top.sp, Top.top)

JumpIfFalse ==
    /\ At({"JUMP_IF_FALSE"})
    /\ \/ RejectsAux(prog, Top.fn, Ins) /\ Stop("notconst", "range")
       \/ ~RejectsAux(prog, Top.fn, Ins) /\ Top.sp = 0 /\ Stop("notconst", "underflow")
       \/ /\ ~RejectsAux(prog, Top.fn, Ins) /\ Top.sp > 0
          /\ \/ Top.top = "any" /\ Stop("notconst", "value")
             \/ Top.top # "item" /\ TakeJump(Top.sp - 1, "any")
             \/ /\ Top.top # "end"
                /\ GoOn(Moved(Top, Top.pc + 1, Top.sp - 1, "any"))

\* Variants: a dropped receiver is left on the stack; it is popped twice.
Call_KeepsReceiver(f, pops, argc) ==
    OpenCall(f, argc, SetTop(Moved(Top, Top.pc + 1, Top.sp - argc, "any")))
Call_PopsTwice(f, pops, argc) ==
    OpenCall(f, argc, SetTop(Moved(Top, Top.pc + 1, Top.sp - pops - 1, "any")))

\* Both calls leave the caller after the call, its arguments popped.
Call(f, pops, argc) ==
    OpenCall(f, argc, SetTop(Moved(Top, Top.pc + 1, Top.sp - pops, "any")))

CallFn ==
    /\ At({"CALL_FN"})
    /\ \/ RejectsAux(prog, Top.fn, Ins) /\ Stop("notconst", "range")
       \/ /\ ~RejectsAux(prog, Top.fn, Ins)
          /\ \/ Ins.argc > Top.sp /\ Stop("notconst", "underflow")
             \/ Ins.drop /\ Ins.argc = 0 /\ Stop("notconst", "args")
             \/ /\ Ins.argc <= Top.sp
                /\ ~(Ins.drop /\ Ins.argc = 0)
                /\ \/ \E answer \in {"notconst", "error"} : Stop(answer, "value")
                   \/ Call(Ins.aux, Ins.argc,
                           IF Ins.drop THEN Ins.argc - 1 ELSE Ins.argc)

\* The callee of an indirect call is a value: the embedder's indirectCall
\* may answer for it, or it is any function of the program, whose hidden
\* closure argument is added when it is a function-value entry.
CallIndirect ==
    /\ At({"CALL_INDIRECT"})
    /\ \/ Ins.argc + 1 > Top.sp /\ Stop("notconst", "underflow")
       \/ /\ Ins.argc + 1 <= Top.sp
          /\ \/ \E answer \in {"notconst", "error"} : Stop(answer, "value")
             \/ GoOn(Moved(Top, Top.pc + 1, Top.sp - Ins.argc, "any"))
             \/ \E f \in FunctionIndex(prog) :
                   Call(f, Ins.argc + 1,
                        IF Fn(prog, f).entry THEN Ins.argc + 1 ELSE Ins.argc)

Return ==
    /\ At({"RETURN"})
    /\ \/ Top.sp # 1 /\ Stop("notconst", "return stack")
       \/ Top.sp = 1 /\ RejectsType(prog, Top.fn, Ins) /\ Stop("notconst", "range")
       \/ /\ Top.sp = 1 /\ ~RejectsType(prog, Top.fn, Ins)
          /\ \/ Stop("const", "none")
             \/ \E answer \in {"notconst", "error"} : Stop(answer, "value")

ReturnVoid == At({"RETURN_VOID"}) /\ Stop("const", "none")

\* The run loop leaves its while without a return.
EndOfCode ==
    /\ rc = "run" /\ frames # << >> /\ Top.bound
    /\ Top.pc >= CodeLen(prog, Top.fn)
    /\ Stop("notconst", "end of code")

\* H2MirEvalFunction has returned to the embedder.
Finished == rc \in Answers /\ frames = << >> /\ UNCHANGED vars

-----------------------------------------------------------------------------
Init ==
    /\ prog \in Programs
    /\ frames = << >> /\ rc = "idle" /\ why = "none"
    /\ entered = << >> /\ bound = << >>

Next ==
    \/ EvalFunction \/ BindFrame \/ UnbindFrame \/ LeaveFunction
    \/ Straight \/ IterNext \/ Jump \/ JumpIfFalse
    \/ CallFn \/ CallIndirect \/ Return \/ ReturnVoid \/ EndOfCode
    \/ Finished

Spec == Init /\ [][Next]_vars

\* The executor is sequential code: while it has a step, it takes it.
FairSpec == Spec /\ WF_vars(Next)
-----------------------------------------------------------------------------
(* Stack maps: what a lowering must establish about the heights it intends *)
(* for the run loop never to meet an operand that is not there.            *)

AfterIterNext(fn, pc) == pc > 0 /\ fn.insts[pc].op = "ITER_NEXT"

\* Control may arrive at pc with h operands and no pending flag.
Reaches(fn, pc, h) ==
    pc < Len(fn.insts) /\ ~AfterIterNext(fn, pc) /\ fn.height[pc + 1] = h

\* The operands an ITER_NEXT just before pc left below a raised flag.
ElementAt(fn, pc) == IF AfterIterNext(fn, pc) THEN fn.insts[pc].argc ELSE 0

StackMapAt(fn, pc) ==
    LET ins == fn.insts[pc + 1]
        h   == fn.height[pc + 1]
    IN  /\ ins.op \in StraightOps =>
              Pops(ins) <= h /\ Reaches(fn, pc + 1, (h - Pops(ins)) + Pushes(ins))
        /\ ins.op = "JUMP" => Reaches(fn, ins.aux, h)
        /\ ins.op = "JUMP_IF_FALSE" =>
              /\ h > 0
              /\ Reaches(fn, ins.aux, h - 1)
              /\ Reaches(fn, pc + 1, (h - 1) + ElementAt(fn, pc))
        /\ ins.op = "ITER_NEXT" =>
              /\ h > 0
              /\ pc + 1 < Len(fn.insts)
              /\ fn.insts[pc + 2].op = "JUMP_IF_FALSE"
              /\ fn.height[pc + 2] = h
        /\ ins.op = "CALL_FN" =>
              ins.argc <= h /\ Reaches(fn, pc + 1, (h - ins.argc) + 1)
        /\ ins.op = "CALL_INDIRECT" =>
              ins.argc < h /\ Reaches(fn, pc + 1, h - ins.argc)
        /\ ins.op = "RETURN" => h = 1

WellStackedFn(fn) ==
    /\ Len(fn.height) = Len(fn.insts)
    /\ Reaches(fn, 0, 0)
    /\ \A pc \in 0 .. Len(fn.insts) - 1 : StackMapAt(fn, pc)

WellStacked(p) == \A i \in 1 .. Len(p.funcs) : WellStackedFn(p.funcs[i])

-----------------------------------------------------------------------------
(* Properties.                                                             *)

\* TYPE: the executor's state; every frame runs a function of the program.
FramesOK(fs, p) ==
    fs \in Seq(Frame) /\ \A i \in 1 .. Len(fs) : fs[i].fn \in FunctionIndex(p)

TypeOK ==
    /\ prog \in Programs
    /\ FramesOK(frames, prog)
    /\ rc \in Answers \cup {"idle", "run"}
    /\ why \in Reasons
    /\ entered \in Seq(Nat)
    /\ bound \in Seq(Nat)

Published == IF frames = << >> \/ Top.bound THEN Depth ELSE Depth - 1

\* Whatever way calls end (a constant, a failing hook, an exhausted jump
\* budget, a bad instruction), enterFunction/leaveFunction and
\* bindFrame/unbindFrame stay paired: the embedder's two saved stacks list
\* exactly the active calls, and only the innermost one may be unbound.
HooksMatchFrames ==
    /\ Len(entered) = IF HasEnterHook THEN Depth ELSE 0
    /\ \A i \in 1 .. Len(entered) : entered[i] = frames[i].fn
    /\ Len(bound) = Published
    /\ \A i \in 1 .. Len(bound) : bound[i] = frames[i].fn
    /\ \A i \in 1 .. Depth - 1 : frames[i].bound

\* A program whose lowering kept a consistent stack map never makes the run
\* loop pop an operand that is not there, return with a stack that is not
\* one value, or run past its last instruction, although the height after
\* ITER_NEXT depends on the data and nested calls pop and push across frames.
StackNeverMisused ==
    WellStacked(prog) => why \notin {"underflow", "return stack", "end of code"}

\* The operand stack H2MirInitRun sizes from the code length and the argument
\* count alone is large enough for such a program.
StackCapSuffices == WellStacked(prog) => why # "overflow"

\* The operands whose index the run loop tests and H2MirValidateProgram does not: the
\* type of an AGG_ZERO and the type of the function's own result.
Unvalidated == {"AGG_ZERO", "RETURN"}

\* H2MirValidateProgram runs once, at the outermost call.  In every function called
\* later, directly or through a value, the prologue of a variadic call finds its
\* local and that local's type, which it reads without a test, and the run loop
\* stops at an index only where the validator has not looked.
IndexFound ==
    /\ why' # "stray"
    /\ why' = "range" /\ why # "range" => Ins.op \in Unvalidated
IndicesValidated == [][IndexFound]_why

\* With a jump limit and a hook depth every evaluation ends, with every hook
\* released, whatever the program does.
Terminates == <>(rc \in Answers /\ frames = << >> /\ entered = << >> /\ bound = << >>)

\* The embedder sees brackets: the executor implements FrameHooks.
Hooks == INSTANCE FrameHooks WITH
            Function <- UNION { FunctionIndex(p) : p \in Programs },
            calls <- [i \in 1 .. Depth |->
                        [fn |-> frames[i].fn, published |-> i <= Len(bound)]]
HooksAreBrackets == Hooks!Spec
=============================================================================
