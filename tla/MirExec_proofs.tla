--------------------------- MODULE MirExec_proofs ---------------------------
(* Theorems about the MIR executor, for every program, limit and depth.     *)
EXTENDS MirExec, Integers, TLAPS

-----------------------------------------------------------------------------
(* Lemmas about the data the executor is built from.                       *)

\* Every function a program has is a function, every instruction an instruction.
LEMMA ProgramParts ==
    ASSUME NEW p \in Programs, NEW f \in FunctionIndex(p)
    PROVE  /\ p \in Program
           /\ Fn(p, f) \in Function
           /\ \A pc \in Nat : pc < CodeLen(p, f) => InstAt(p, f, pc) \in Inst
<1>1. p \in Program
  BY ProgramsAssumption
<1>2. p.funcs \in Seq(Function) /\ f + 1 \in 1 .. Len(p.funcs)
  BY <1>1 DEF Program, FunctionIndex
<1>3. Fn(p, f) \in Function
  BY <1>2 DEF Fn
<1>4. Fn(p, f).insts \in Seq(Inst)
  BY <1>3 DEF Function
<1>5. \A pc \in Nat : pc < CodeLen(p, f) => InstAt(p, f, pc) \in Inst
  BY <1>4 DEF CodeLen, InstAt
<1> QED BY <1>1, <1>3, <1>5

\* An instruction pops a natural number of operands and pushes at most one.
LEMMA OperandCounts ==
    ASSUME NEW ins \in Inst
    PROVE  Pops(ins) \in Nat /\ Pushes(ins) \in 0 .. 1
<1>1. ins.argc \in Nat
  BY DEF Inst
<1> QED BY <1>1 DEF Pops, Pushes

\* The three ways the frame stack changes keep it a stack of frames.
LEMMA ReplaceTop ==
    ASSUME NEW p, NEW fs, FramesOK(fs, p), fs # << >>,
           NEW fr \in Frame, fr.fn \in FunctionIndex(p)
    PROVE  LET new == [fs EXCEPT ![Len(fs)] = fr] IN
           /\ FramesOK(new, p) /\ Len(new) = Len(fs) /\ new # << >>
           /\ \A i \in 1 .. Len(fs) : new[i] = IF i = Len(fs) THEN fr ELSE fs[i]
BY DEF FramesOK

LEMMA DropTop ==
    ASSUME NEW p, NEW fs, FramesOK(fs, p), fs # << >>
    PROVE  LET new == SubSeq(fs, 1, Len(fs) - 1) IN
           /\ FramesOK(new, p) /\ Len(new) = Len(fs) - 1
           /\ \A i \in 1 .. Len(fs) - 1 : new[i] = fs[i]
BY DEF FramesOK

LEMMA PushTop ==
    ASSUME NEW p, NEW fs, FramesOK(fs, p),
           NEW fr \in Frame, fr.fn \in FunctionIndex(p)
    PROVE  LET new == Append(fs, fr) IN
           /\ FramesOK(new, p) /\ Len(new) = Len(fs) + 1 /\ new # << >>
           /\ \A i \in 1 .. Len(fs) + 1 : new[i] = IF i = Len(fs) + 1 THEN fr ELSE fs[i]
BY DEF FramesOK

LEMMA NewFrameType ==
    ASSUME NEW f \in Nat
    PROVE  NewFrame(f) \in Frame /\ NewFrame(f).fn = f
BY DEF NewFrame, Frame, TopValue

LEMMA MovedType ==
    ASSUME NEW fr \in Frame, NEW pc \in Nat, NEW sp \in Nat, NEW top \in TopValue
    PROVE  /\ Moved(fr, pc, sp, top) \in Frame
           /\ Moved(fr, pc, sp, top).fn = fr.fn
           /\ Moved(fr, pc, sp, top).bound = fr.bound
           /\ Moved(fr, pc, sp, top).back = fr.back
           /\ Moved(fr, pc, sp, top).pc = pc
           /\ Moved(fr, pc, sp, top).sp = sp
           /\ Moved(fr, pc, sp, top).top = top
BY DEF Moved, Frame

\* The innermost frame, when there is one.
LEMMA TopFrame ==
    ASSUME TypeOK, frames # << >>
    PROVE  /\ Depth \in Nat \ {0} /\ Top = frames[Depth]
           /\ Top \in Frame /\ Top.fn \in FunctionIndex(prog)
BY DEF TypeOK, FramesOK, Depth, Top
-----------------------------------------------------------------------------
(* Instructions change the frames in three ways only: the run loop stops,  *)
(* goes on in the same frame, or opens a call.                             *)

InstructionStep ==
    \/ Straight \/ IterNext \/ Jump \/ JumpIfFalse \/ CallFn \/ CallIndirect
    \/ Return \/ ReturnVoid \/ EndOfCode

Stops == \E answer \in Answers, reason \in Reasons : Stop(answer, reason)
GoesOn == \E fr \in Frame : fr.fn = Top.fn /\ fr.bound = Top.bound /\ GoOn(fr)
Calls == \E f \in FunctionIndex(prog) : \E fr \in Frame : \E argc \in Int :
            fr.fn = Top.fn /\ fr.bound = Top.bound /\ OpenCall(f, argc, SetTop(fr))

\* What an instruction step may rely on.
LEMMA AtInstruction ==
    ASSUME TypeOK, NEW ops, At(ops)
    PROVE  /\ frames # << >> /\ Top.bound /\ rc = "run"
           /\ Top \in Frame /\ Top.fn \in FunctionIndex(prog)
           /\ Ins \in Inst /\ Ins.op \in ops
           /\ Top.sp \in Nat /\ Top.pc \in Nat /\ Top.back \in Nat /\ Top.top \in TopValue
           /\ Ins.argc \in Nat /\ Ins.aux \in Nat
<1>1. frames # << >> /\ Top \in Frame /\ Top.fn \in FunctionIndex(prog)
  BY TopFrame DEF At
<1>2. Ins \in Inst
  BY <1>1, ProgramParts DEF At, Ins, TypeOK, Frame
<1> QED BY <1>1, <1>2 DEF At, Ins, Frame, Inst

LEMMA MoveGoesOn ==
    ASSUME Top \in Frame, NEW pc \in Nat, NEW sp \in Nat, NEW top \in TopValue,
           GoOn(Moved(Top, pc, sp, top))
    PROVE  GoesOn
BY MovedType DEF GoesOn

LEMMA JumpShape ==
    ASSUME TypeOK, At({"JUMP", "JUMP_IF_FALSE"}), NEW sp \in Nat, NEW top \in TopValue,
           TakeJump(sp, top)
    PROVE  Stops \/ GoesOn
<1>1. Top \in Frame /\ Ins.aux \in Nat /\ Top.back \in Nat
  BY AtInstruction
<1> DEFINE backward == BackwardJumpLimit # 0 /\ Ins.aux < Top.pc + 1
           back     == IF backward THEN Top.back + 1 ELSE Top.back
           moved    == Moved(Top, Ins.aux, sp, top)
           fr       == [moved EXCEPT !.back = back]
<1>2. fr \in Frame /\ fr.fn = Top.fn /\ fr.bound = Top.bound
  <2>1. moved \in Frame /\ moved.fn = Top.fn /\ moved.bound = Top.bound
    <3> HIDE DEF moved
    <3>1. /\ moved = Moved(Top, Ins.aux, sp, top)
          /\ Top \in Frame /\ Ins.aux \in Nat /\ sp \in Nat /\ top \in TopValue
      BY <1>1 DEF moved
    <3> QED BY ONLY <3>1, MovedType
  <2>2. back \in Nat
    BY <1>1
  <2> HIDE DEF moved, back
  <2> QED BY <2>1, <2>2 DEF Frame
<1>3. Stop("notconst", "jump limit") \/ GoOn(fr)
  BY DEF TakeJump
<1> HIDE DEF fr
<1> QED BY <1>2, <1>3 DEF Stops, GoesOn, Answers, Reasons

LEMMA CallShape ==
    ASSUME Top \in Frame, NEW f \in FunctionIndex(prog), NEW argc \in Int,
           NEW pops \in Nat, pops <= Top.sp, Call(f, pops, argc)
    PROVE  Calls
<1>1. Top.pc \in Nat /\ Top.sp \in Nat
  BY DEF Frame
<1>2. Top.sp - pops \in Nat
  BY <1>1
<1>3. Top.pc + 1 \in Nat /\ "any" \in TopValue
  BY <1>1 DEF TopValue
<1>4. \A pc, sp \in Nat, top \in TopValue :
         /\ Moved(Top, pc, sp, top) \in Frame
         /\ Moved(Top, pc, sp, top).fn = Top.fn
         /\ Moved(Top, pc, sp, top).bound = Top.bound
  BY MovedType
<1> DEFINE left == Moved(Top, Top.pc + 1, Top.sp - pops, "any")
<1>5. left \in Frame /\ left.fn = Top.fn /\ left.bound = Top.bound
  BY <1>2, <1>3, <1>4
<1>6. OpenCall(f, argc, SetTop(left))
  BY DEF Call
<1> HIDE DEF left
<1> QED BY <1>5, <1>6 DEF Calls

LEMMA InstructionShape ==
    ASSUME TypeOK, InstructionStep
    PROVE  frames # << >> /\ Top.bound /\ rc = "run" /\ (Stops \/ GoesOn \/ Calls)
<1>1. frames # << >> /\ Top.bound /\ rc = "run"
  BY DEF InstructionStep, Straight, IterNext, Jump, JumpIfFalse, CallFn, CallIndirect,
         Return, ReturnVoid, EndOfCode, At
<1>2. CASE Straight
  <2>1. At(StraightOps)
    BY <1>2 DEF Straight
  <2>2. /\ Pops(Ins) \in Nat /\ Pushes(Ins) \in 0 .. 1
        /\ Top \in Frame /\ Top.sp \in Nat /\ Top.pc \in Nat /\ Top.top \in TopValue
    BY <2>1, AtInstruction, OperandCounts
  <2> DEFINE next == Top.pc + 1
             high == Top.sp - Pops(Ins) + Pushes(Ins)
             top == IF Pops(Ins) = 0 /\ Pushes(Ins) = 0 THEN Top.top ELSE "any"
  <2>3. Stops \/ (Pops(Ins) <= Top.sp /\ GoOn(Moved(Top, next, high, top)))
    BY <1>2 DEF Straight, Stops, Answers, Reasons
  <2>4. CASE Pops(Ins) <= Top.sp /\ GoOn(Moved(Top, next, high, top))
    <3>1. next \in Nat /\ high \in Nat
      BY <2>2, <2>4
    <3>2. top \in TopValue
      BY <2>2 DEF TopValue
    <3>3. \A pc, sp \in Nat, t \in TopValue : GoOn(Moved(Top, pc, sp, t)) => GoesOn
      BY <2>2, MoveGoesOn
    <3> HIDE DEF next, high, top
    <3> QED BY <1>1, <2>4, <3>1, <3>2, <3>3
  <2> QED BY <1>1, <2>3, <2>4
<1>3. CASE IterNext
  <2>1. At({"ITER_NEXT"})
    BY <1>3 DEF IterNext
  <2>2. Top \in Frame /\ Top.sp \in Nat /\ Top.pc \in Nat /\ Ins.argc \in Nat
    BY <2>1, AtInstruction
  <2> DEFINE High(flag) == Top.sp + (IF flag = "item" THEN Ins.argc ELSE 0)
  <2>3. ASSUME NEW flag \in {"item", "end"}, GoOn(Moved(Top, Top.pc + 1, High(flag), flag))
        PROVE  GoesOn
    <3>1. Top.pc + 1 \in Nat /\ High(flag) \in Nat /\ flag \in TopValue
      BY <2>2 DEF TopValue
    <3> HIDE DEF High
    <3> QED BY <2>2, <2>3, <3>1, MoveGoesOn
  <2>4. Stops \/ \E flag \in {"item", "end"} : GoOn(Moved(Top, Top.pc + 1, High(flag), flag))
    BY <1>3 DEF IterNext, Stops, Answers, Reasons
  <2> QED BY <1>1, <2>3, <2>4
<1>4. CASE Jump
  <2>1. At({"JUMP", "JUMP_IF_FALSE"})
    BY <1>4 DEF Jump, At
  <2>2. Top.sp \in Nat /\ Top.top \in TopValue
    BY <2>1, AtInstruction
  <2>3. Stop("notconst", "range") \/ TakeJump(Top.sp, Top.top)
    BY <1>4 DEF Jump
  <2> QED BY <1>1, <2>1, <2>2, <2>3, JumpShape DEF Stops, Answers, Reasons
<1>5. CASE JumpIfFalse
  <2>1. At({"JUMP", "JUMP_IF_FALSE"})
    BY <1>5 DEF JumpIfFalse, At
  <2>2. Top \in Frame /\ Top.sp \in Nat /\ Top.pc \in Nat
    BY <2>1, AtInstruction
  <2>3. \/ Stops
        \/ Top.sp > 0 /\ TakeJump(Top.sp - 1, "any")
        \/ Top.sp > 0 /\ GoOn(Moved(Top, Top.pc + 1, Top.sp - 1, "any"))
    BY <1>5 DEF JumpIfFalse, Stops, Answers, Reasons
  <2>4. Top.pc + 1 \in Nat /\ "any" \in TopValue
    BY <2>2 DEF TopValue
  <2>5. Top.sp > 0 => Top.sp - 1 \in Nat
    BY <2>2
  <2> QED BY <1>1, <2>1, <2>2, <2>3, <2>4, <2>5, JumpShape, MoveGoesOn
<1>6. CASE CallFn
  <2>1. At({"CALL_FN"})
    BY <1>6 DEF CallFn
  <2>2. Top \in Frame /\ Ins.op = "CALL_FN" /\ Ins.argc \in Nat /\ Ins.aux \in Nat
    BY <2>1, AtInstruction
  <2>3. \/ Stops
        \/ /\ ~RejectsAux(prog, Top.fn, Ins) /\ Ins.argc <= Top.sp
           /\ Call(Ins.aux, Ins.argc, IF Ins.drop THEN Ins.argc - 1 ELSE Ins.argc)
    BY <1>6 DEF CallFn, Stops, Answers, Reasons
  <2>4. ~RejectsAux(prog, Top.fn, Ins) => Ins.aux \in FunctionIndex(prog)
    BY <2>2 DEF RejectsAux, FunctionIndex
  <2>5. (IF Ins.drop THEN Ins.argc - 1 ELSE Ins.argc) \in Int
    BY <2>2
  <2> QED BY <1>1, <2>2, <2>3, <2>4, <2>5, CallShape
<1>7. CASE CallIndirect
  <2>1. At({"CALL_INDIRECT"})
    BY <1>7 DEF CallIndirect
  <2>2. Top \in Frame /\ Ins.argc \in Nat /\ Top.sp \in Nat /\ Top.pc \in Nat
    BY <2>1, AtInstruction
  <2>3. \/ Stops
        \/ Ins.argc + 1 <= Top.sp /\ GoOn(Moved(Top, Top.pc + 1, Top.sp - Ins.argc, "any"))
        \/ /\ Ins.argc + 1 <= Top.sp
           /\ \E f \in FunctionIndex(prog) :
                 Call(f, Ins.argc + 1, IF Fn(prog, f).entry THEN Ins.argc + 1 ELSE Ins.argc)
    BY <1>7 DEF CallIndirect, Stops, Answers, Reasons
  <2>4. Top.pc + 1 \in Nat /\ "any" \in TopValue
    BY <2>2 DEF TopValue
  <2>5. Ins.argc + 1 <= Top.sp => Top.sp - Ins.argc \in Nat /\ Ins.argc + 1 \in Nat
    BY <2>2
  <2>6. ASSUME NEW f \in FunctionIndex(prog), Ins.argc + 1 <= Top.sp,
               Call(f, Ins.argc + 1, IF Fn(prog, f).entry THEN Ins.argc + 1 ELSE Ins.argc)
        PROVE  Calls
    <3> DEFINE argc == IF Fn(prog, f).entry THEN Ins.argc + 1 ELSE Ins.argc
               pops == Ins.argc + 1
    <3>1. argc \in Int /\ pops \in Nat /\ pops <= Top.sp
      BY <2>2, <2>6
    <3>2. Call(f, pops, argc)
      BY <2>6
    <3> HIDE DEF argc, pops
    <3> QED BY <2>2, <3>1, <3>2, CallShape
  <2> QED BY <1>1, <2>2, <2>3, <2>4, <2>5, <2>6, MoveGoesOn
<1>8. CASE Return \/ ReturnVoid \/ EndOfCode
  BY <1>1, <1>8 DEF Return, ReturnVoid, EndOfCode, Stops, Answers, Reasons
<1> QED BY <1>2, <1>3, <1>4, <1>5, <1>6, <1>7, <1>8 DEF InstructionStep

-----------------------------------------------------------------------------
(* Type correctness.                                                       *)

LEMMA StopType ==
    ASSUME TypeOK, NEW answer \in Answers, NEW reason \in Reasons, Stop(answer, reason)
    PROVE  TypeOK'
BY DEF TypeOK, Stop, Answers

LEMMA GoOnType ==
    ASSUME TypeOK, frames # << >>, NEW fr \in Frame, fr.fn \in FunctionIndex(prog), GoOn(fr)
    PROVE  TypeOK'
<1>1. FramesOK(SetTop(fr), prog)
  BY ReplaceTop DEF TypeOK, SetTop, Depth
<1> QED BY <1>1 DEF TypeOK, GoOn

LEMMA OpenCallType ==
    ASSUME TypeOK, NEW f \in FunctionIndex(prog), NEW argc, NEW outer,
           FramesOK(outer, prog), OpenCall(f, argc, outer)
    PROVE  TypeOK'
<1>1. f \in Nat
  BY DEF FunctionIndex
<1>2. FramesOK(Append(outer, NewFrame(f)), prog)
  BY <1>1, NewFrameType, PushTop
<1>3. entered' \in Seq(Nat)
  <2>1. entered' = entered \/ entered' = Append(entered, f)
    BY DEF OpenCall
  <2>2. entered \in Seq(Nat)
    BY DEF TypeOK
  <2>3. Append(entered, f) \in Seq(Nat)
    BY <1>1, <2>2
  <2> QED BY <2>1, <2>2, <2>3
<1>4. prog' = prog /\ bound' = bound /\ FramesOK(frames', prog)
  BY <1>2 DEF OpenCall
<1>5. rc' \in Answers \cup {"idle", "run"} /\ why' \in Reasons
  BY DEF OpenCall, TypeOK, Answers, Reasons
<1> QED BY <1>3, <1>4, <1>5 DEF TypeOK

\* Every step keeps the executor's state well typed.
LEMMA TypeStep ==
    ASSUME TypeOK, [Next]_vars
    PROVE  TypeOK'
<1>1. CASE EvalFunction
  <2>1. CASE ValidateProgram(prog)
    <3>1. FramesOK(<< >>, prog)
      BY DEF FramesOK
    <3> QED BY <1>1, <2>1, <3>1, OpenCallType DEF EvalFunction
  <2>2. CASE ~ValidateProgram(prog)
    BY <1>1, <2>2 DEF EvalFunction, TypeOK, Answers, Reasons
  <2> QED BY <2>1, <2>2
<1>2. CASE BindFrame
  <2>1. frames # << >> /\ Top \in Frame /\ Top.fn \in FunctionIndex(prog)
    BY <1>2, TopFrame DEF BindFrame
  <2> DEFINE fr == [Top EXCEPT !.bound = TRUE]
  <2>2. fr \in Frame /\ fr.fn = Top.fn /\ Top.fn \in Nat
    BY <2>1 DEF Frame
  <2>3. FramesOK(SetTop(fr), prog)
    BY <2>1, <2>2, ReplaceTop DEF TypeOK, SetTop, Depth
  <2>4. Append(bound, Top.fn) \in Seq(Nat)
    BY <2>2 DEF TypeOK
  <2> QED BY <1>2, <2>3, <2>4 DEF BindFrame, TypeOK, Answers, Reasons
<1>3. CASE UnbindFrame
  <2>1. frames # << >> /\ Top \in Frame /\ Top.fn \in FunctionIndex(prog)
    BY <1>3, TopFrame DEF UnbindFrame
  <2> DEFINE fr == [Top EXCEPT !.bound = FALSE]
  <2>2. fr \in Frame /\ fr.fn = Top.fn
    BY <2>1 DEF Frame
  <2>3. FramesOK(SetTop(fr), prog)
    BY <2>1, <2>2, ReplaceTop DEF TypeOK, SetTop, Depth
  <2>4. SubSeq(bound, 1, Len(bound) - 1) \in Seq(Nat)
    BY DEF TypeOK
  <2> QED BY <1>3, <2>3, <2>4 DEF UnbindFrame, TypeOK
<1>4. CASE LeaveFunction
  <2>1. FramesOK(Callers, prog) /\ Depth \in Nat \ {0} /\ Len(Callers) = Depth - 1
        /\ \A i \in 1 .. Depth - 1 : Callers[i] = frames[i]
    BY <1>4, DropTop, TopFrame DEF LeaveFunction, TypeOK, Callers, Depth
  <2>2. entered' \in Seq(Nat)
    BY <1>4 DEF LeaveFunction, TypeOK
  <2>3. FramesOK(frames', prog) /\ rc' \in Answers \cup {"idle", "run"} /\ why' \in Reasons
    <3>1. CASE rc # "const" \/ Depth = 1
      BY <1>4, <2>1, <3>1 DEF LeaveFunction, Deliver, TypeOK
    <3>2. CASE ~(rc # "const" \/ Depth = 1)
      <4> DEFINE caller == frames[Depth - 1]
                 high == caller.sp + 1
                 fr == Moved(caller, caller.pc, high, "any")
      <4>1. caller \in Frame /\ caller.fn \in FunctionIndex(prog)
        BY <2>1, <3>2 DEF TypeOK, FramesOK, Depth
      <4>2. fr \in Frame /\ fr.fn = caller.fn
        <5>1. caller.pc \in Nat /\ high \in Nat /\ "any" \in TopValue
          BY <4>1 DEF Frame, TopValue
        <5> HIDE DEF caller, high
        <5> QED BY <4>1, <5>1, MovedType
      <4> HIDE DEF fr
      <4>3. Callers # << >>
        BY <2>1, <3>2
      <4>4. FramesOK([Callers EXCEPT ![Depth - 1] = fr], prog)
        BY <2>1, <4>1, <4>2, <4>3, ReplaceTop
      <4>5. \/ frames' = [Callers EXCEPT ![Depth - 1] = fr] /\ rc' = "run" /\ why' = why
            \/ frames' = Callers /\ rc' = "error" /\ why' = "overflow"
        BY <1>4, <3>2 DEF LeaveFunction, Deliver, fr
      <4> QED BY <2>1, <4>4, <4>5 DEF TypeOK, Answers, Reasons
    <3> QED BY <3>1, <3>2
  <2> QED BY <1>4, <2>2, <2>3 DEF LeaveFunction, TypeOK
<1>5. CASE InstructionStep
  <2>1. CASE Stops
    BY <2>1, StopType DEF Stops
  <2>2. CASE GoesOn
    BY <1>5, <2>2, GoOnType, InstructionShape, TopFrame DEF GoesOn
  <2>3. ASSUME NEW f \in FunctionIndex(prog), NEW fr \in Frame, NEW argc,
               fr.fn = Top.fn, OpenCall(f, argc, SetTop(fr))
        PROVE  TypeOK'
    <3>1. frames # << >> /\ fr.fn \in FunctionIndex(prog)
      BY <1>5, <2>3, InstructionShape, TopFrame
    <3>2. FramesOK(SetTop(fr), prog)
      BY <3>1, ReplaceTop DEF TypeOK, SetTop, Depth
    <3> QED BY <2>3, <3>2, OpenCallType
  <2> QED BY <1>5, <2>1, <2>2, <2>3, InstructionShape DEF Calls
<1>6. CASE UNCHANGED vars
  BY <1>6 DEF TypeOK, vars
<1> QED BY <1>1, <1>2, <1>3, <1>4, <1>5, <1>6 DEF Next, Finished, InstructionStep

\* The executor's state is well typed for every program, jump limit and depth.
THEOREM TypeCorrect == Spec => []TypeOK
<1>1. Init => TypeOK
  BY DEF Init, TypeOK, FramesOK, Reasons
<1>2. TypeOK /\ [Next]_vars => TypeOK'
  BY TypeStep
<1> QED BY <1>1, <1>2, PTL DEF Spec
-----------------------------------------------------------------------------
(* Hook discipline.  What is needed besides the property itself: before     *)
(* the outermost call there is no frame.                                    *)
HookInv == TypeOK /\ HooksMatchFrames /\ (rc = "idle" => frames = << >>)

LEMMA StopHooks ==
    ASSUME HookInv, NEW answer \in Answers, NEW reason, Stop(answer, reason)
    PROVE  HooksMatchFrames' /\ rc' # "idle"
BY DEF HookInv, HooksMatchFrames, Stop, Answers, Published, Depth, Top

LEMMA GoOnHooks ==
    ASSUME HookInv, frames # << >>, rc = "run",
           NEW fr \in Frame, fr.fn = Top.fn, fr.bound = Top.bound, GoOn(fr)
    PROVE  HooksMatchFrames' /\ rc' # "idle"
<1>1. /\ Depth \in Nat \ {0} /\ Top = frames[Depth] /\ Top.fn \in FunctionIndex(prog)
      /\ FramesOK(frames, prog)
  BY TopFrame DEF HookInv, TypeOK
<1>2. /\ Len(frames') = Depth /\ frames' # << >>
      /\ \A i \in 1 .. Depth : frames'[i] = IF i = Depth THEN fr ELSE frames[i]
  BY <1>1, ReplaceTop DEF GoOn, SetTop, Depth
<1>3. \A i \in 1 .. Depth : frames'[i].fn = frames[i].fn /\ frames'[i].bound = frames[i].bound
  BY <1>1, <1>2
<1>4. Depth' = Depth /\ Published' = Published /\ Published \in 0 .. Depth
  BY <1>1, <1>2, <1>3 DEF Depth, Top, Published
<1>5. entered' = entered /\ bound' = bound /\ rc' = "run"
  BY DEF GoOn
<1>6. Len(entered) <= Depth /\ Len(bound) <= Depth /\ Len(entered) \in Nat /\ Len(bound) \in Nat
  BY <1>1, <1>4 DEF HookInv, HooksMatchFrames, TypeOK
<1> QED BY <1>1, <1>3, <1>4, <1>5, <1>6 DEF HookInv, HooksMatchFrames

\* A call made from frames that are all published.
LEMMA OpenCallHooks ==
    ASSUME HookInv, frames = << >> \/ Top.bound,
           NEW f \in FunctionIndex(prog), NEW argc, NEW outer,
           FramesOK(outer, prog), Len(outer) = Depth,
           \A i \in 1 .. Depth : outer[i].fn = frames[i].fn /\ outer[i].bound = frames[i].bound,
           OpenCall(f, argc, outer)
    PROVE  HooksMatchFrames' /\ rc' # "idle"
<1>1. Depth \in Nat /\ Len(bound) = Depth /\ Published = Depth
  BY DEF HookInv, TypeOK, FramesOK, Depth, HooksMatchFrames, Published
<1>2. \A i \in 1 .. Depth : frames[i].bound
  BY <1>1 DEF HookInv, HooksMatchFrames, Top, Depth, TypeOK, FramesOK
<1>3. f \in Nat
  BY DEF FunctionIndex
<1>4. CASE frames' = outer /\ entered' = entered /\ bound' = bound /\ rc' # "idle"
  <2>1. Depth' = Depth
    BY <1>4 DEF Depth
  <2>2. Published' = Depth
    BY <1>1, <1>2, <1>4, <2>1 DEF Published, Top, Depth, FramesOK
  <2> QED BY <1>1, <1>2, <1>4, <2>1, <2>2 DEF HookInv, HooksMatchFrames
<1>5. CASE /\ frames' = Append(outer, NewFrame(f)) /\ rc' = "run" /\ bound' = bound
           /\ entered' = IF HasEnterHook THEN Append(entered, f) ELSE entered
  <2>1. /\ Len(frames') = Depth + 1
        /\ \A i \in 1 .. Depth + 1 :
              frames'[i] = IF i = Depth + 1 THEN NewFrame(f) ELSE outer[i]
    BY <1>3, <1>5, PushTop, NewFrameType
  <2>2. NewFrame(f).fn = f /\ NewFrame(f).bound = FALSE
    BY DEF NewFrame
  <2>3. Depth' = Depth + 1 /\ Published' = Depth
    BY <1>1, <2>1, <2>2 DEF Published, Top, Depth
  <2>4. /\ Len(bound') = Published'
        /\ \A i \in 1 .. Len(bound') : bound'[i] = frames'[i].fn
        /\ \A i \in 1 .. Depth' - 1 : frames'[i].bound
    BY <1>1, <1>2, <1>5, <2>1, <2>3 DEF HookInv, HooksMatchFrames
  <2>5. /\ Len(entered') = IF HasEnterHook THEN Depth' ELSE 0
        /\ \A i \in 1 .. Len(entered') : entered'[i] = frames'[i].fn
    <3>1. CASE HasEnterHook
      <4>1. entered \in Seq(Nat) /\ Len(entered) = Depth
        BY <3>1 DEF HookInv, HooksMatchFrames, TypeOK
      <4>2. /\ Len(Append(entered, f)) = Depth + 1
            /\ \A i \in 1 .. Depth + 1 :
                  Append(entered, f)[i] = IF i = Depth + 1 THEN f ELSE entered[i]
        BY <1>1, <4>1
      <4> QED BY <1>1, <1>5, <2>1, <2>2, <2>3, <3>1, <4>1, <4>2 DEF HookInv, HooksMatchFrames
    <3>2. CASE ~HasEnterHook
      <4>1. entered' = entered /\ Len(entered) = 0
        BY <1>5, <3>2 DEF HookInv, HooksMatchFrames
      <4> QED BY <3>2, <4>1
    <3> QED BY <3>1, <3>2
  <2> QED BY <1>5, <2>4, <2>5 DEF HooksMatchFrames
<1> QED BY <1>4, <1>5 DEF OpenCall

\* The end of a call takes the innermost frame away and leaves the others what they run.
LEMMA LeaveKeepsFrames ==
    ASSUME TypeOK, LeaveFunction
    PROVE  /\ Len(frames') = Depth - 1
           /\ \A i \in 1 .. Depth - 1 :
                 frames'[i].fn = frames[i].fn /\ frames'[i].bound = frames[i].bound
<1>1. Depth \in Nat \ {0} /\ Top = frames[Depth]
  BY TopFrame DEF LeaveFunction
<1>2. /\ FramesOK(Callers, prog) /\ Len(Callers) = Depth - 1
      /\ \A i \in 1 .. Depth - 1 : Callers[i] = frames[i]
  BY DropTop DEF LeaveFunction, TypeOK, Callers, Depth
<1>3. CASE frames' = Callers
  BY <1>2, <1>3
<1>4. CASE ~(rc # "const" \/ Depth = 1)
  <2> DEFINE caller == frames[Depth - 1]
             high == caller.sp + 1
             fr == Moved(caller, caller.pc, high, "any")
  <2>1. caller \in Frame /\ caller.fn \in FunctionIndex(prog)
    <3>1. Depth - 1 \in 1 .. Depth
      BY <1>1, <1>4
    <3>2. \A i \in 1 .. Depth : frames[i] \in Frame /\ frames[i].fn \in FunctionIndex(prog)
      BY DEF TypeOK, FramesOK, Depth
    <3> QED BY <3>1, <3>2
  <2>2. fr \in Frame /\ fr.fn = caller.fn /\ fr.bound = caller.bound
    <3>1. caller.pc \in Nat /\ high \in Nat /\ "any" \in TopValue
      BY <2>1 DEF Frame, TopValue
    <3>2. \A pc, sp \in Nat, top \in TopValue :
             /\ Moved(caller, pc, sp, top) \in Frame
             /\ Moved(caller, pc, sp, top).fn = caller.fn
             /\ Moved(caller, pc, sp, top).bound = caller.bound
      BY <2>1, MovedType
    <3> HIDE DEF caller, high
    <3> QED BY <3>1, <3>2
  <2>3. frames' = Callers \/ frames' = [Callers EXCEPT ![Depth - 1] = fr]
    BY <1>4 DEF LeaveFunction, Deliver
  <2> HIDE DEF fr
  <2>4. Callers # << >>
    BY <1>1, <1>2, <1>4
  <2>5. CASE frames' = [Callers EXCEPT ![Depth - 1] = fr]
    <3>1. /\ Len(frames') = Depth - 1
          /\ \A i \in 1 .. Depth - 1 :
                frames'[i] = IF i = Depth - 1 THEN fr ELSE Callers[i]
      BY <1>1, <1>2, <2>1, <2>2, <2>4, <2>5, ReplaceTop
    <3> QED BY <1>1, <1>2, <2>2, <3>1
  <2> QED BY <1>3, <2>3, <2>5
<1> QED BY <1>3, <1>4 DEF LeaveFunction, Deliver

\* Every step keeps the hooks paired.
LEMMA HookStep ==
    ASSUME HookInv, [Next]_vars
    PROVE  HookInv'
<1> USE DEF HookInv
<1>1. TypeOK'
  BY TypeStep
<1>2. CASE EvalFunction
  <2>1. frames = << >> /\ Depth = 0
    BY <1>2 DEF EvalFunction, Depth
  <2>2. CASE ~ValidateProgram(prog)
    BY <1>1, <1>2, <2>1, <2>2 DEF EvalFunction, HooksMatchFrames, Published, Depth, Top
  <2>3. CASE ValidateProgram(prog)
    <3>1. FramesOK(<< >>, prog) /\ Len(<< >>) = Depth
      BY <2>1 DEF FramesOK
    <3> QED BY <1>1, <1>2, <2>1, <2>3, <3>1, OpenCallHooks DEF EvalFunction
  <2> QED BY <1>1, <2>2, <2>3
<1>3. CASE InstructionStep
  <2>1. frames # << >> /\ Top.bound /\ rc = "run" /\ Depth \in Nat \ {0}
        /\ Top = frames[Depth] /\ Top.fn \in FunctionIndex(prog)
    BY <1>3, InstructionShape, TopFrame
  <2>2. CASE Stops
    BY <1>1, <2>2, StopHooks DEF Stops
  <2>3. CASE GoesOn
    BY <1>1, <2>1, <2>3, GoOnHooks DEF GoesOn
  <2>4. ASSUME NEW f \in FunctionIndex(prog), NEW fr \in Frame, NEW argc \in Int,
               fr.fn = Top.fn, fr.bound = Top.bound, OpenCall(f, argc, SetTop(fr))
        PROVE  HookInv'
    <3>1. /\ FramesOK(SetTop(fr), prog) /\ Len(SetTop(fr)) = Depth
          /\ \A i \in 1 .. Depth : SetTop(fr)[i] = IF i = Depth THEN fr ELSE frames[i]
      BY <2>1, <2>4, ReplaceTop DEF TypeOK, SetTop, Depth
    <3>2. \A i \in 1 .. Depth : /\ SetTop(fr)[i].fn = frames[i].fn
                                /\ SetTop(fr)[i].bound = frames[i].bound
      BY <2>1, <2>4, <3>1
    <3> QED BY <1>1, <2>1, <2>4, <3>1, <3>2, OpenCallHooks
  <2> QED BY <1>3, <2>2, <2>3, <2>4, InstructionShape DEF Calls
<1>4. CASE BindFrame
  <2>1. frames # << >> /\ Depth \in Nat \ {0} /\ Top = frames[Depth] /\ Top \in Frame
        /\ Top.fn \in FunctionIndex(prog) /\ Top.fn \in Nat
    BY <1>4, TopFrame DEF BindFrame, Frame
  <2>2. CASE UNCHANGED <<frames, entered, bound>> /\ rc' = "error"
    BY <1>1, <2>1, <2>2 DEF HooksMatchFrames, Published, Depth, Top
  <2> DEFINE fr == [Top EXCEPT !.bound = TRUE]
  <2>3. CASE frames' = SetTop(fr) /\ bound' = Append(bound, Top.fn) /\ UNCHANGED <<rc, entered>>
    <3>1. fr \in Frame /\ fr.fn = Top.fn /\ fr.bound
      BY <2>1 DEF Frame
    <3> HIDE DEF fr
    <3>2. /\ Len(frames') = Depth /\ frames' # << >>
          /\ \A i \in 1 .. Depth : frames'[i] = IF i = Depth THEN fr ELSE frames[i]
      BY <2>1, <2>3, <3>1, ReplaceTop DEF TypeOK, SetTop, Depth
    <3>3. Depth' = Depth /\ Published' = Depth /\ Published = Depth - 1
      BY <1>4, <2>1, <3>1, <3>2 DEF BindFrame, Depth, Published, Top
    <3>4. bound \in Seq(Nat) /\ Len(bound) = Depth - 1
      BY <3>3 DEF HooksMatchFrames, TypeOK
    <3>5. /\ Len(bound') = Depth
          /\ \A i \in 1 .. Depth : bound'[i] = IF i = Depth THEN Top.fn ELSE bound[i]
      BY <2>1, <2>3, <3>4
    <3>6. \A i \in 1 .. Depth : frames'[i].fn = frames[i].fn
      BY <2>1, <3>1, <3>2
    <3>7. \A i \in 1 .. Len(bound') : bound'[i] = frames'[i].fn
      BY <2>1, <3>4, <3>5, <3>6 DEF HooksMatchFrames
    <3>8. \A i \in 1 .. Depth - 1 : frames'[i].bound
      BY <2>1, <3>2 DEF HooksMatchFrames
    <3>9. /\ Len(entered') = IF HasEnterHook THEN Depth ELSE 0
          /\ \A i \in 1 .. Len(entered') : entered'[i] = frames'[i].fn
      BY <2>1, <2>3, <3>6 DEF HooksMatchFrames
    <3> QED BY <1>1, <1>4, <2>3, <3>3, <3>5, <3>7, <3>8, <3>9 DEF HooksMatchFrames, BindFrame
  <2> QED BY <1>4, <2>2, <2>3 DEF BindFrame
<1>5. CASE UnbindFrame
  <2>1. frames # << >> /\ Depth \in Nat \ {0} /\ Top = frames[Depth] /\ Top \in Frame
        /\ Top.fn \in FunctionIndex(prog)
    BY <1>5, TopFrame DEF UnbindFrame
  <2> DEFINE fr == [Top EXCEPT !.bound = FALSE]
  <2>2. fr \in Frame /\ fr.fn = Top.fn /\ fr.bound = FALSE
    BY <2>1 DEF Frame
  <2>3. frames' = SetTop(fr) /\ bound' = SubSeq(bound, 1, Len(bound) - 1)
        /\ UNCHANGED <<rc, entered>> /\ rc # "idle"
    BY <1>5 DEF UnbindFrame, Answers
  <2> HIDE DEF fr
  <2>4. /\ Len(frames') = Depth /\ frames' # << >>
        /\ \A i \in 1 .. Depth : frames'[i] = IF i = Depth THEN fr ELSE frames[i]
    BY <2>1, <2>2, <2>3, ReplaceTop DEF TypeOK, SetTop, Depth
  <2>5. Depth' = Depth /\ Published' = Depth - 1 /\ Published = Depth
    <3>1. Depth' = Depth /\ frames'[Depth'] = fr
      BY <2>1, <2>4 DEF Depth
    <3>2. Published' = Depth - 1
      BY <2>2, <2>4, <3>1 DEF Published, Top
    <3> QED BY <1>5, <3>1, <3>2 DEF UnbindFrame, Published
  <2>6. bound \in Seq(Nat) /\ Len(bound) = Depth
    BY <2>5 DEF HooksMatchFrames, TypeOK
  <2>7. /\ Len(bound') = Depth - 1
        /\ \A i \in 1 .. Depth - 1 : bound'[i] = bound[i]
    BY <2>1, <2>3, <2>6
  <2>8. \A i \in 1 .. Depth : frames'[i].fn = frames[i].fn
    BY <2>1, <2>2, <2>4
  <2>9. /\ \A i \in 1 .. Len(bound') : bound'[i] = frames'[i].fn
        /\ \A i \in 1 .. Depth - 1 : frames'[i].bound
    BY <2>1, <2>4, <2>6, <2>7, <2>8 DEF HooksMatchFrames
  <2>10. /\ Len(entered') = IF HasEnterHook THEN Depth ELSE 0
         /\ \A i \in 1 .. Len(entered') : entered'[i] = frames'[i].fn
    BY <2>1, <2>3, <2>8 DEF HooksMatchFrames
  <2> QED BY <1>1, <2>3, <2>5, <2>7, <2>9, <2>10 DEF HooksMatchFrames
<1>6. CASE LeaveFunction
  <2>1. frames # << >> /\ Depth \in Nat \ {0} /\ Top = frames[Depth]
        /\ ~Top.bound /\ Published = Depth - 1
    BY <1>6, TopFrame DEF LeaveFunction, Published
  <2>2. /\ FramesOK(Callers, prog) /\ Len(Callers) = Depth - 1
        /\ \A i \in 1 .. Depth - 1 : Callers[i] = frames[i]
    BY <2>1, DropTop DEF TypeOK, Callers, Depth
  <2>3. /\ Len(frames') = Depth - 1
        /\ \A i \in 1 .. Depth - 1 :
              frames'[i].fn = frames[i].fn /\ frames'[i].bound = frames[i].bound
    BY <1>6, LeaveKeepsFrames
  <2>4. \A i \in 1 .. Depth - 1 : frames[i].bound
    BY DEF HooksMatchFrames
  <2>5. Depth' = Depth - 1 /\ Published' = Depth - 1
    BY <2>1, <2>3, <2>4 DEF Depth, Published, Top
  <2>6. bound' = bound /\ Len(bound) = Depth - 1
    BY <1>6, <2>1 DEF LeaveFunction, HooksMatchFrames
  <2>7. /\ \A i \in 1 .. Len(bound') : bound'[i] = frames'[i].fn
        /\ \A i \in 1 .. Depth' - 1 : frames'[i].bound
    BY <2>1, <2>3, <2>4, <2>5, <2>6 DEF HooksMatchFrames
  <2>8. /\ Len(entered') = IF HasEnterHook THEN Depth' ELSE 0
        /\ \A i \in 1 .. Len(entered') : entered'[i] = frames'[i].fn
    <3>1. CASE HasEnterHook
      <4>1. entered \in Seq(Nat) /\ Len(entered) = Depth
            /\ entered' = SubSeq(entered, 1, Len(entered) - 1)
        BY <1>6, <3>1 DEF LeaveFunction, HooksMatchFrames, TypeOK
      <4>2. Len(entered') = Depth - 1 /\ \A i \in 1 .. Depth - 1 : entered'[i] = entered[i]
        BY <2>1, <4>1
      <4> QED BY <2>1, <2>3, <2>5, <3>1, <4>1, <4>2 DEF HooksMatchFrames
    <3>2. CASE ~HasEnterHook
      BY <1>6, <3>2 DEF LeaveFunction, HooksMatchFrames
    <3> QED BY <3>1, <3>2
  <2>9. rc' # "idle"
    BY <1>6 DEF LeaveFunction, Deliver, Answers
  <2> QED BY <1>1, <2>5, <2>6, <2>7, <2>8, <2>9 DEF HooksMatchFrames
<1>7. CASE UNCHANGED vars
  BY <1>1, <1>7 DEF vars, HooksMatchFrames, Published, Depth, Top
<1> QED BY <1>2, <1>3, <1>4, <1>5, <1>6, <1>7 DEF Next, Finished, InstructionStep

\* However calls end, the embedder's saved call and frame stacks list exactly
\* the active calls (H2MirEvalFunctionInternal's "end" label).
THEOREM HooksPaired == Spec => []HooksMatchFrames
<1>1. Init => HookInv
  BY DEF Init, HookInv, TypeOK, FramesOK, HooksMatchFrames, Published, Depth, Reasons
<1>2. HookInv /\ [Next]_vars => HookInv'
  BY HookStep
<1>3. HookInv => HooksMatchFrames
  BY DEF HookInv
<1> QED BY <1>1, <1>2, <1>3, PTL DEF Spec
-----------------------------------------------------------------------------
(* Refinement: every step of the executor is a step of FrameHooks, or none. *)

\* The calls the embedder sees, outermost first.
Seen == [i \in 1 .. Depth |-> [fn |-> frames[i].fn, published |-> i <= Len(bound)]]

\* Two lists of calls that agree call by call are the same.
LEMMA SameCalls ==
    ASSUME NEW s \in Seq(Hooks!Call), NEW t \in Seq(Hooks!Call), Len(s) = Len(t),
           \A i \in 1 .. Len(s) : s[i].fn = t[i].fn /\ (s[i].published <=> t[i].published)
    PROVE  s = t
<1>1. ASSUME NEW x \in Hooks!Call, NEW y \in Hooks!Call, x.fn = y.fn, x.published <=> y.published
      PROVE  x = y
  BY <1>1 DEF Hooks!Call
<1>2. \A i \in 1 .. Len(s) : s[i] \in Hooks!Call /\ t[i] \in Hooks!Call
  OBVIOUS
<1>3. \A i \in 1 .. Len(s) : s[i] = t[i]
  BY <1>1, <1>2
<1> QED BY <1>3

\* One call is published or withdrawn.
LEMMA OnePublished ==
    ASSUME NEW s \in Seq(Hooks!Call), NEW i \in 1 .. Len(s), NEW b \in BOOLEAN
    PROVE  LET t == [s EXCEPT ![i].published = b] IN
           /\ t \in Seq(Hooks!Call) /\ Len(t) = Len(s)
           /\ t[i].fn = s[i].fn /\ (t[i].published <=> b)
           /\ \A j \in 1 .. Len(s) : j # i => t[j] = s[j]
<1>1. s[i] \in Hooks!Call
  OBVIOUS
<1> DEFINE x == [s[i] EXCEPT !.published = b]
<1>2. x \in Hooks!Call /\ x.fn = s[i].fn /\ (x.published <=> b)
  BY <1>1 DEF Hooks!Call
<1> HIDE DEF x
<1>3. /\ [s EXCEPT ![i] = x] \in Seq(Hooks!Call) /\ Len([s EXCEPT ![i] = x]) = Len(s)
      /\ [s EXCEPT ![i] = x][i] = x
      /\ \A j \in 1 .. Len(s) : j # i => [s EXCEPT ![i] = x][j] = s[j]
  BY <1>2
<1> QED BY <1>2, <1>3 DEF x

\* The embedder sees one call for each frame, all published but perhaps the last.
SeenIs ==
    /\ Depth \in Nat /\ (frames = << >> <=> Depth = 0)
    /\ Seen \in Seq(Hooks!Call) /\ Len(Seen) = Depth
    /\ \A i \in 1 .. Depth : Seen[i].fn = frames[i].fn /\ (Seen[i].published <=> i <= Len(bound))
    /\ Len(bound) = IF frames = << >> \/ Top.bound THEN Depth ELSE Depth - 1

LEMMA SeenFits == HookInv => SeenIs
<1> SUFFICES ASSUME HookInv PROVE SeenIs
  OBVIOUS
<1>1. Depth \in Nat /\ Len(bound) = Published /\ (frames = << >> <=> Depth = 0)
  BY DEF HookInv, TypeOK, FramesOK, Depth, HooksMatchFrames
<1>2. \A i \in 1 .. Depth : frames[i].fn \in UNION { FunctionIndex(p) : p \in Programs }
  BY DEF HookInv, TypeOK, FramesOK, Depth
<1>3. \A i \in 1 .. Depth : Seen[i] \in Hooks!Call
  BY <1>1, <1>2 DEF Seen, Hooks!Call
<1>4. Seen \in [1 .. Depth -> Hooks!Call]
  BY <1>3 DEF Seen
<1>5. Seen \in Seq(Hooks!Call) /\ Len(Seen) = Depth
  BY <1>1, <1>4
<1>6. \A i \in 1 .. Depth : Seen[i].fn = frames[i].fn /\ (Seen[i].published <=> i <= Len(bound))
  BY DEF Seen
<1> QED BY <1>1, <1>5, <1>6 DEF SeenIs, Published

\* What the embedder sees depends on the functions of the frames and how many are bound.
LEMMA SeenSame ==
    ASSUME Depth' = Depth, Len(bound') = Len(bound),
           \A i \in 1 .. Depth : frames'[i].fn = frames[i].fn
    PROVE  Seen' = Seen
BY DEF Seen

\* A call opened on frames that are all published.
LEMMA OpenCallSeen ==
    ASSUME SeenIs, SeenIs', prog \in Programs, frames = << >> \/ Top.bound,
           NEW f \in FunctionIndex(prog), NEW argc, NEW outer,
           FramesOK(outer, prog), Len(outer) = Depth,
           \A i \in 1 .. Depth : outer[i].fn = frames[i].fn,
           OpenCall(f, argc, outer)
    PROVE  Seen' = Seen \/ Hooks!Next
<1>1. Depth \in Nat /\ Len(bound) = Depth /\ bound' = bound
  BY DEF OpenCall, SeenIs
<1>2. CASE frames' = outer
  <2>1. Depth' = Depth
    BY <1>2 DEF Depth
  <2> QED BY <1>1, <1>2, <2>1, SeenSame
<1>3. CASE frames' = Append(outer, NewFrame(f))
  <2>1. f \in Nat /\ f \in UNION { FunctionIndex(p) : p \in Programs }
    BY DEF FunctionIndex
  <2>2. /\ Len(frames') = Depth + 1
        /\ \A i \in 1 .. Depth + 1 :
              frames'[i] = IF i = Depth + 1 THEN NewFrame(f) ELSE outer[i]
    BY <1>3, <2>1, PushTop, NewFrameType
  <2>3. Len(frames') = Depth' /\ Depth' = Depth + 1 /\ NewFrame(f).fn = f
    BY <2>2 DEF Depth, NewFrame
  <2> DEFINE call == [fn |-> f, published |-> FALSE]
  <2>4. call \in Hooks!Call /\ call.fn = f /\ ~call.published
    BY <2>1 DEF Hooks!Call
  <2> HIDE DEF call
  <2>5. /\ Append(Seen, call) \in Seq(Hooks!Call)
        /\ Len(Append(Seen, call)) = Depth + 1
        /\ \A i \in 1 .. Depth : Append(Seen, call)[i] = Seen[i]
        /\ Append(Seen, call)[Depth + 1] = call
    BY <2>4 DEF SeenIs
  <2>6. /\ Seen' \in Seq(Hooks!Call) /\ Len(Seen') = Depth + 1
        /\ \A i \in 1 .. Depth + 1 : /\ Seen'[i].fn = frames'[i].fn
                                     /\ Seen'[i].published <=> i <= Depth
    BY <1>1, <2>3 DEF SeenIs
  <2>7. ASSUME NEW i \in 1 .. Depth + 1
        PROVE  /\ Seen'[i].fn = Append(Seen, call)[i].fn
               /\ Seen'[i].published <=> Append(Seen, call)[i].published
    <3>1. CASE i = Depth + 1
      <4>1. ~(i <= Depth)
        BY <1>1, <3>1
      <4> QED BY <2>2, <2>3, <2>4, <2>5, <2>6, <3>1, <4>1
    <3>2. CASE i \in 1 .. Depth
      <4>1. Seen[i].fn = frames[i].fn /\ (Seen[i].published <=> i <= Depth)
        BY <1>1, <3>2 DEF SeenIs
      <4>2. frames'[i].fn = frames[i].fn
        BY <1>1, <2>2, <3>2
      <4> QED BY <2>5, <2>6, <3>2, <4>1, <4>2
    <3>3. i = Depth + 1 \/ i \in 1 .. Depth
      BY <1>1
    <3> QED BY <3>1, <3>2, <3>3
  <2>8. Seen' = Append(Seen, call)
    BY <2>5, <2>6, <2>7, SameCalls
  <2>9. Seen # << >> => Seen[Len(Seen)].published
    BY <1>1 DEF SeenIs
  <2>10. Hooks!Enter(f)
    BY <2>8, <2>9 DEF Hooks!Enter, Hooks!Innermost, Seen, call
  <2> QED BY <2>1, <2>10 DEF Hooks!Next
<1> QED BY <1>2, <1>3 DEF OpenCall

\* The innermost call is published or withdrawn.
LEMMA PublishSeen ==
    ASSUME SeenIs, SeenIs', Depth > 0, Depth' = Depth, NEW b \in BOOLEAN,
           \A i \in 1 .. Depth : frames'[i].fn = frames[i].fn,
           Len(bound) = IF b THEN Depth - 1 ELSE Depth,
           Len(bound') = IF b THEN Depth ELSE Depth - 1
    PROVE  /\ Seen # << >> /\ (Seen[Len(Seen)].published <=> ~b)
           /\ Seen' = [Seen EXCEPT ![Len(Seen)].published = b]
<1>1. Depth \in Nat /\ Depth \in 1 .. Depth /\ Len(Seen) = Depth /\ Seen \in Seq(Hooks!Call)
  BY DEF SeenIs
<1>2. Seen # << >> /\ (Seen[Depth].published <=> ~b)
  BY <1>1 DEF SeenIs
<1> DEFINE t == [Seen EXCEPT ![Depth].published = b]
<1>3. /\ t \in Seq(Hooks!Call) /\ Len(t) = Depth
      /\ t[Depth].fn = Seen[Depth].fn /\ (t[Depth].published <=> b)
      /\ \A j \in 1 .. Depth : j # Depth => t[j] = Seen[j]
  BY <1>1, OnePublished
<1> HIDE DEF t
<1>4. /\ Seen' \in Seq(Hooks!Call) /\ Len(Seen') = Depth
      /\ \A i \in 1 .. Depth : Seen'[i].fn = frames'[i].fn /\ (Seen'[i].published <=> i <= Len(bound'))
  BY <1>1 DEF SeenIs
<1>5. ASSUME NEW i \in 1 .. Depth
      PROVE  Seen'[i].fn = t[i].fn /\ (Seen'[i].published <=> t[i].published)
  <2>1. Seen[i].fn = frames[i].fn /\ (Seen[i].published <=> i <= Len(bound))
    BY DEF SeenIs
  <2>2. CASE i = Depth
    <3>1. i <= Len(bound') <=> b
      BY <1>1, <2>2
    <3> QED BY <1>3, <1>4, <2>1, <2>2, <3>1
  <2>3. CASE i # Depth
    <3>1. i <= Len(bound') /\ i <= Len(bound)
      BY <1>1, <2>3
    <3> QED BY <1>3, <1>4, <2>1, <2>3, <3>1
  <2> QED BY <2>2, <2>3
<1>6. Seen' = t
  BY <1>3, <1>4, <1>5, SameCalls
<1> QED BY <1>1, <1>2, <1>6 DEF t

\* Every step of the executor is seen as a bracket, or not at all.
LEMMA HookSeen == HookInv /\ HookInv' /\ SeenIs /\ SeenIs' /\ [Next]_vars => [Hooks!Next]_Seen
<1> SUFFICES ASSUME HookInv, HookInv', SeenIs, SeenIs', [Next]_vars
             PROVE  Seen' = Seen \/ Hooks!Next
  BY DEF Seen
<1>0. TypeOK /\ TypeOK' /\ prog \in Programs
  BY DEF HookInv, TypeOK
<1>1. CASE EvalFunction
  <2>1. frames = << >> /\ Depth = 0
    BY <1>1 DEF EvalFunction, Depth, HookInv
  <2>2. CASE ~ValidateProgram(prog)
    BY <1>1, <2>2 DEF EvalFunction, Seen, Depth
  <2>3. CASE ValidateProgram(prog)
    <3>1. FramesOK(<< >>, prog) /\ Len(<< >>) = Depth
      BY <2>1 DEF FramesOK
    <3> QED BY <1>0, <1>1, <2>1, <2>3, <3>1, OpenCallSeen DEF EvalFunction
  <2> QED BY <2>2, <2>3
<1>2. CASE InstructionStep
  <2>1. frames # << >> /\ Top.bound /\ Depth \in Nat \ {0} /\ Top = frames[Depth]
        /\ Top.fn \in FunctionIndex(prog)
    BY <1>0, <1>2, InstructionShape, TopFrame
  <2>2. ASSUME NEW fr \in Frame, fr.fn = Top.fn
        PROVE  /\ FramesOK(SetTop(fr), prog) /\ Len(SetTop(fr)) = Depth
               /\ \A i \in 1 .. Depth : SetTop(fr)[i].fn = frames[i].fn
    <3>1. /\ FramesOK(SetTop(fr), prog) /\ Len(SetTop(fr)) = Depth
          /\ \A i \in 1 .. Depth : SetTop(fr)[i] = IF i = Depth THEN fr ELSE frames[i]
      BY <1>0, <2>1, <2>2, ReplaceTop DEF TypeOK, SetTop, Depth
    <3> QED BY <2>1, <2>2, <3>1
  <2>3. CASE Stops
    BY <2>3 DEF Stops, Stop, Seen, Depth
  <2>4. CASE GoesOn
    <3>1. PICK fr \in Frame : fr.fn = Top.fn /\ GoOn(fr)
      BY <2>4 DEF GoesOn
    <3>2. frames' = SetTop(fr) /\ bound' = bound
      BY <3>1 DEF GoOn
    <3> QED BY <2>2, <3>1, <3>2, SeenSame DEF Depth
  <2>5. CASE Calls
    <3>1. PICK f \in FunctionIndex(prog), fr \in Frame, argc \in Int :
             fr.fn = Top.fn /\ OpenCall(f, argc, SetTop(fr))
      BY <2>5 DEF Calls
    <3> QED BY <1>0, <2>1, <2>2, <3>1, OpenCallSeen
  <2> QED BY <1>0, <1>2, <2>3, <2>4, <2>5, InstructionShape
<1>3. CASE BindFrame
  <2>1. frames # << >> /\ Depth \in Nat \ {0} /\ Top = frames[Depth] /\ Top \in Frame /\ ~Top.bound
        /\ Top.fn \in FunctionIndex(prog)
    BY <1>0, <1>3, TopFrame DEF BindFrame
  <2>2. CASE UNCHANGED <<frames, bound>>
    BY <2>2 DEF Seen, Depth
  <2> DEFINE fr == [Top EXCEPT !.bound = TRUE]
  <2>3. CASE frames' = SetTop(fr) /\ bound' = Append(bound, Top.fn)
    <3>1. fr \in Frame /\ fr.fn = Top.fn
      BY <2>1 DEF Frame
    <3> HIDE DEF fr
    <3>2. /\ Len(frames') = Depth
          /\ \A i \in 1 .. Depth : frames'[i] = IF i = Depth THEN fr ELSE frames[i]
      BY <1>0, <2>1, <2>3, <3>1, ReplaceTop DEF TypeOK, SetTop, Depth
    <3>3. Depth' = Depth /\ \A i \in 1 .. Depth : frames'[i].fn = frames[i].fn
      BY <2>1, <3>1, <3>2 DEF Depth
    <3>4. Len(bound) = Depth - 1 /\ Len(bound') = Depth
      <4>1. bound \in Seq(Nat) /\ Len(bound) = Depth - 1
        BY <1>0, <2>1 DEF TypeOK, SeenIs
      <4> QED BY <2>1, <2>3, <4>1
    <3>5. /\ Seen # << >> /\ (Seen[Len(Seen)].published <=> ~TRUE)
          /\ Seen' = [Seen EXCEPT ![Len(Seen)].published = TRUE]
      <4>1. /\ Len(bound) = IF TRUE THEN Depth - 1 ELSE Depth
            /\ Len(bound') = IF TRUE THEN Depth ELSE Depth - 1
            /\ Depth > 0 /\ TRUE \in BOOLEAN
        BY <2>1, <3>4
      <4> QED BY <3>3, <4>1, PublishSeen
    <3> QED BY <3>5 DEF Hooks!Next, Hooks!Publish, Hooks!Innermost, Seen
  <2> QED BY <1>3, <2>2, <2>3 DEF BindFrame
<1>4. CASE UnbindFrame
  <2>1. frames # << >> /\ Depth \in Nat \ {0} /\ Top = frames[Depth] /\ Top \in Frame /\ Top.bound
        /\ Top.fn \in FunctionIndex(prog)
    BY <1>0, <1>4, TopFrame DEF UnbindFrame
  <2> DEFINE fr == [Top EXCEPT !.bound = FALSE]
  <2>2. frames' = SetTop(fr) /\ bound' = SubSeq(bound, 1, Len(bound) - 1)
    BY <1>4 DEF UnbindFrame
  <2>3. fr \in Frame /\ fr.fn = Top.fn
    BY <2>1 DEF Frame
  <2> HIDE DEF fr
  <2>4. /\ Len(frames') = Depth
        /\ \A i \in 1 .. Depth : frames'[i] = IF i = Depth THEN fr ELSE frames[i]
    BY <1>0, <2>1, <2>2, <2>3, ReplaceTop DEF TypeOK, SetTop, Depth
  <2>5. Depth' = Depth /\ \A i \in 1 .. Depth : frames'[i].fn = frames[i].fn
    BY <2>1, <2>3, <2>4 DEF Depth
  <2>6. Len(bound) = Depth /\ Len(bound') = Depth - 1
    <3>1. bound \in Seq(Nat) /\ Len(bound) = Depth
      BY <1>0, <2>1 DEF TypeOK, SeenIs
    <3> QED BY <2>1, <2>2, <3>1
  <2>7. /\ Seen # << >> /\ (Seen[Len(Seen)].published <=> ~FALSE)
        /\ Seen' = [Seen EXCEPT ![Len(Seen)].published = FALSE]
    <3>1. /\ Len(bound) = IF FALSE THEN Depth - 1 ELSE Depth
          /\ Len(bound') = IF FALSE THEN Depth ELSE Depth - 1
          /\ Depth > 0 /\ FALSE \in BOOLEAN
      BY <2>1, <2>6
    <3> QED BY <2>5, <3>1, PublishSeen
  <2> QED BY <2>7 DEF Hooks!Next, Hooks!Withdraw, Hooks!Innermost, Seen
<1>5. CASE LeaveFunction
  <2>1. frames # << >> /\ Depth \in Nat \ {0} /\ Top = frames[Depth] /\ ~Top.bound
        /\ Len(bound) = Depth - 1 /\ bound' = bound
    BY <1>0, <1>5, TopFrame DEF LeaveFunction, SeenIs
  <2>2. Len(frames') = Depth - 1 /\ \A i \in 1 .. Depth - 1 : frames'[i].fn = frames[i].fn
    BY <1>0, <1>5, LeaveKeepsFrames
  <2>3. Depth' = Depth - 1
    BY <2>2 DEF Depth
  <2>4. Seen \in Seq(Hooks!Call) /\ Len(Seen) = Depth /\ Seen # << >> /\ ~Seen[Depth].published
    BY <2>1 DEF SeenIs
  <2>5. /\ SubSeq(Seen, 1, Depth - 1) \in Seq(Hooks!Call)
        /\ Len(SubSeq(Seen, 1, Depth - 1)) = Depth - 1
        /\ \A i \in 1 .. Depth - 1 : SubSeq(Seen, 1, Depth - 1)[i] = Seen[i]
    BY <2>1, <2>4
  <2>6. /\ Seen' \in Seq(Hooks!Call) /\ Len(Seen') = Depth - 1
        /\ \A i \in 1 .. Depth - 1 : /\ Seen'[i].fn = frames'[i].fn
                                     /\ Seen'[i].published <=> i <= Depth - 1
    BY <2>1, <2>3 DEF SeenIs
  <2>7. ASSUME NEW i \in 1 .. Depth - 1
        PROVE  /\ Seen'[i].fn = SubSeq(Seen, 1, Depth - 1)[i].fn
               /\ Seen'[i].published <=> SubSeq(Seen, 1, Depth - 1)[i].published
    <3>1. i \in 1 .. Depth /\ i <= Depth - 1
      BY <2>1
    <3>2. Seen[i].fn = frames[i].fn /\ (Seen[i].published <=> i <= Depth - 1)
      BY <2>1, <3>1 DEF SeenIs
    <3> QED BY <2>2, <2>5, <2>6, <3>2
  <2>8. Seen' = SubSeq(Seen, 1, Depth - 1)
    BY <2>5, <2>6, <2>7, SameCalls
  <2> QED BY <2>4, <2>8 DEF Hooks!Next, Hooks!Leave, Hooks!Innermost, Seen
<1>6. CASE UNCHANGED vars
  BY <1>6 DEF vars, Seen, Depth
<1> QED BY <1>1, <1>2, <1>3, <1>4, <1>5, <1>6 DEF Next, Finished, InstructionStep

\* The executor implements FrameHooks: whatever a program does, the embedder's four hooks
\* are called like brackets (H2MirEvalFunctionInternal).
THEOREM BracketsRefined == Spec => HooksAreBrackets
<1>1. Init => Hooks!Init
  BY DEF Init, Hooks!Init, Depth
<1>2. Init => HookInv
  BY DEF Init, HookInv, TypeOK, FramesOK, HooksMatchFrames, Published, Depth, Reasons
<1>3. HookInv /\ [Next]_vars => HookInv'
  BY HookStep
<1> QED BY <1>1, <1>2, <1>3, SeenFits, HookSeen, PTL DEF Spec, HooksAreBrackets, Hooks!Spec, Seen
=============================================================================
