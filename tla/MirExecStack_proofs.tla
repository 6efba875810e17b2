------------------------ MODULE MirExecStack_proofs --------------------------
(***************************************************************************)
(* Theorems about what the MIR executor checks and sizes once: the         *)
(* operands H2MirValidateProgram checks before the outermost call, and the *)
(* operand stack H2MirInitRun sizes from the length of the code.  They     *)
(* hold for every program, whatever it calls and however deep.             *)
(***************************************************************************)
EXTENDS MirExec_proofs, FiniteSetTheorems

FnOf(fr) == Fn(prog, fr.fn)

\* The height the lowering intends before the instruction at pc.
HeightAt(fn, pc) == fn.height[pc + 1]

-----------------------------------------------------------------------------
(* The inductive invariants.                                               *)

\* No call is open but of a program that was validated.
ValidInv ==
    /\ TypeOK
    /\ rc = "idle" => frames = << >>
    /\ frames # << >> => ValidateProgram(prog)

\* No instruction raises the stack by more than one operand, so there is an
\* instruction for each height up to h: a function reaches no height without the code.
Covered(fn, h) ==
    \A k \in 0 .. h : \E pc \in 0 .. Len(fn.insts) - 1 : HeightAt(fn, pc) = k

\* A frame that runs has the operands its stack map says, and on top of them those of
\* the element an iterator has just produced.
RunsAt(fn, fr) ==
    /\ fr.pc < Len(fn.insts)
    /\ Covered(fn, HeightAt(fn, fr.pc))
    /\ fr.top # "any" <=> AfterIterNext(fn, fr.pc)
    /\ fr.sp = HeightAt(fn, fr.pc) + (IF fr.top = "item" THEN ElementAt(fn, fr.pc) ELSE 0)

\* A frame that waits for a call has the operands its stack map says but the result.
WaitsAt(fn, fr) == Reaches(fn, fr.pc, fr.sp + 1) /\ Covered(fn, fr.sp + 1)

Misuse == {"underflow", "return stack", "end of code", "overflow"}

StackFits ==
    /\ \A i \in 1 .. Depth : FnOf(frames[i]).variadic => FnOf(frames[i]).paramCount > 0
    /\ \A i \in 1 .. Depth - 1 : WaitsAt(FnOf(frames[i]), frames[i])
    /\ frames # << >> /\ rc = "run" => RunsAt(FnOf(Top), Top)
    /\ why \notin Misuse

StackInv == ValidInv /\ (WellStacked(prog) => StackFits)

-----------------------------------------------------------------------------
(* What is validated once is never found wrong later.                      *)

\* A function of a validated program, and its part of the table of locals.
LEMMA ValidFunction ==
    ASSUME TypeOK, ValidateProgram(prog), NEW f \in FunctionIndex(prog)
    PROVE  LET fn == Fn(prog, f) IN
           /\ prog \in Program /\ fn \in Function
           /\ Len(prog.locals) \in Nat
           /\ fn.paramCount \in Nat /\ fn.localStart \in Nat /\ fn.localCount \in Nat
           /\ ValidLocals(prog, fn)
           /\ \A j \in 1 .. Len(fn.insts) : ValidInst(prog, fn, fn.insts[j])
<1>1. prog \in Program /\ Fn(prog, f) \in Function
  BY ProgramParts DEF TypeOK
<1>2. prog.funcs \in Seq(Function) /\ Len(prog.locals) \in Nat
  BY <1>1 DEF Program
<1>3. f + 1 \in 1 .. Len(prog.funcs)
  BY <1>2 DEF FunctionIndex
<1>4. /\ ValidLocals(prog, Fn(prog, f))
      /\ \A j \in 1 .. Len(Fn(prog, f).insts) : ValidInst(prog, Fn(prog, f), Fn(prog, f).insts[j])
  BY <1>3 DEF ValidateProgram, Fn
<1>5. Fn(prog, f).paramCount \in Nat /\ Fn(prog, f).localStart \in Nat /\ Fn(prog, f).localCount \in Nat
  BY <1>1 DEF Function
<1> QED BY <1>1, <1>2, <1>4, <1>5

\* The type of a local that was validated is one of the program's.
LEMMA LocalTyped ==
    ASSUME TypeOK, ValidateProgram(prog), NEW f \in FunctionIndex(prog), NEW slot \in Nat,
           slot < Fn(prog, f).localCount
    PROVE  ~NoType(prog, LocalMeta(prog, Fn(prog, f), slot))
<1> DEFINE fn == Fn(prog, f)
<1>1. fn.localStart \in Nat /\ fn.localCount \in Nat /\ Len(prog.locals) \in Nat
      /\ ValidLocals(prog, fn)
  BY ValidFunction
<1> HIDE DEF fn
<1>2. /\ fn.localStart + fn.localCount <= Len(prog.locals)
      /\ \A i \in 1 .. fn.localCount : ~NoType(prog, prog.locals[fn.localStart + i])
  BY <1>1 DEF ValidLocals
<1>3. slot < fn.localCount
  BY DEF fn
<1>4. slot + 1 \in 1 .. fn.localCount /\ fn.localStart + slot < Len(prog.locals)
      /\ fn.localStart + (slot + 1) = (fn.localStart + slot) + 1
  BY <1>1, <1>2, <1>3
<1>5. LocalMeta(prog, fn, slot) = prog.locals[(fn.localStart + slot) + 1]
  BY <1>3, <1>4 DEF LocalMeta
<1>6. ~NoType(prog, prog.locals[fn.localStart + (slot + 1)])
  BY <1>2, <1>4
<1> QED BY <1>4, <1>5, <1>6 DEF fn

\* The prologue of a variadic call finds the local of its pack, and the local's type.
LEMMA PackFound ==
    ASSUME TypeOK, ValidateProgram(prog), NEW f \in FunctionIndex(prog), NEW argc,
           ArgsAccepted(Fn(prog, f), argc), Fn(prog, f).variadic
    PROVE  ~StrayPack(prog, Fn(prog, f))
<1> DEFINE fn == Fn(prog, f)
<1>1. /\ fn.paramCount \in Nat /\ fn.localStart \in Nat /\ fn.localCount \in Nat
      /\ Len(prog.locals) \in Nat /\ ValidLocals(prog, fn)
  BY ValidFunction
<1>2. fn.paramCount > 0
  BY DEF ArgsAccepted
<1> HIDE DEF fn
<1>3. /\ fn.localStart + fn.localCount <= Len(prog.locals) /\ fn.localCount >= fn.paramCount
      /\ \A i \in 1 .. fn.localCount : ~NoType(prog, prog.locals[fn.localStart + i])
  BY <1>1 DEF ValidLocals
<1>4. fn.paramCount \in 1 .. fn.localCount /\ ~(fn.localStart + fn.paramCount > Len(prog.locals))
  BY ONLY <1>1, <1>2, <1>3
<1> QED BY <1>3, <1>4 DEF StrayPack, fn

\* No call of a validated program reads a table behind its end.
LEMMA OpensTested ==
    ASSUME TypeOK, ValidateProgram(prog), NEW f \in FunctionIndex(prog), NEW argc, NEW outer,
           OpenCall(f, argc, outer)
    PROVE  prog' = prog /\ rc' # "idle" /\ why' \in {"args", "hook", why}
BY PackFound DEF OpenCall

\* The indices the run loop tests were validated, except in two instructions.
LEMMA Validated ==
    ASSUME ValidInv, NEW ops, At(ops), Ins.op \notin Unvalidated
    PROVE  ~RejectsAux(prog, Top.fn, Ins) /\ ~RejectsType(prog, Top.fn, Ins)
<1> DEFINE fn == Fn(prog, Top.fn)
<1>1. /\ TypeOK /\ ValidateProgram(prog) /\ Top.fn \in FunctionIndex(prog)
      /\ Top.pc \in Nat /\ Ins \in Inst /\ Ins.aux \in Nat
  BY AtInstruction DEF ValidInv
<1>2. fn.localCount \in Nat /\ fn.captureCount \in Nat /\ fn.insts \in Seq(Inst) /\ prog.funcs \in Seq(Function)
      /\ prog.constLen \in Nat /\ prog.typeLen \in Nat
  BY <1>1, ValidFunction DEF Function, Program
<1>3. Top.pc + 1 \in 1 .. Len(fn.insts) /\ Ins = fn.insts[Top.pc + 1]
  BY <1>1, <1>2 DEF At, CodeLen, Ins, InstAt
<1>4. ValidInst(prog, fn, Ins)
  BY <1>1, <1>3, ValidFunction
<1>5. Ins.op \in LocalOps => ~NoType(prog, LocalMeta(prog, fn, Ins.aux))
  BY <1>1, <1>4, LocalTyped DEF ValidInst
<1>6. Len(fn.insts) \in Nat /\ Len(prog.funcs) \in Nat
  BY <1>2
<1> HIDE DEF fn
<1>7. ~RejectsAux(prog, Top.fn, Ins)
  <2> SUFFICES ASSUME RejectsAux(prog, Top.fn, Ins) PROVE FALSE
    OBVIOUS
  <2> QED BY <1>1, <1>2, <1>4, <1>5, <1>6 DEF RejectsAux, ValidInst, Unvalidated, LocalOps, fn
<1>8. ~RejectsType(prog, Top.fn, Ins)
  BY <1>1, <1>2, <1>4, <1>5 DEF RejectsType, ValidInst, Unvalidated, LocalOps, fn
<1> QED BY <1>7, <1>8

\* Every step keeps the open calls those of a validated program, and finds the indices.
LEMMA ValidStep ==
    ASSUME ValidInv, [Next]_vars
    PROVE  ValidInv' /\ [IndexFound]_why
<1>1. TypeOK /\ TypeOK'
  BY TypeStep DEF ValidInv
<1>2. CASE EvalFunction
  <2>1. CASE ValidateProgram(prog)
    <3>1. prog' = prog /\ rc' # "idle" /\ why' \in {"args", "hook", why}
      BY <1>1, <1>2, <2>1, OpensTested DEF EvalFunction
    <3> QED BY <1>1, <2>1, <3>1 DEF ValidInv, IndexFound
  <2>2. CASE ~ValidateProgram(prog)
    <3>1. prog' = prog /\ rc' # "idle" /\ why' = "invalid" /\ frames' = << >>
      BY <1>2, <2>2 DEF EvalFunction, ValidInv
    <3> QED BY <1>1, <3>1 DEF ValidInv, IndexFound
  <2> QED BY <2>1, <2>2
<1>3. CASE InstructionStep
  <2>1. frames # << >> /\ ValidateProgram(prog) /\ rc = "run"
    BY <1>1, <1>3, InstructionShape DEF ValidInv
  <2>2. ASSUME NEW ops, At(ops), RejectsAux(prog, Top.fn, Ins) \/ RejectsType(prog, Top.fn, Ins)
        PROVE  Ins.op \in Unvalidated
    BY <2>2, Validated
  <2>3. ASSUME NEW f \in FunctionIndex(prog), NEW pops, NEW argc, Call(f, pops, argc)
        PROVE  prog' = prog /\ rc' # "idle" /\ why' \in {"args", "hook", why}
    BY <1>1, <2>1, <2>3, OpensTested DEF Call
  <2>4. prog' = prog /\ rc' # "idle" /\ (why' = why \/ IndexFound)
    <3>1. CASE Straight
      BY <2>1, <2>2, <3>1 DEF Straight, Stop, GoOn, IndexFound
    <3>2. CASE IterNext
      BY <2>1, <3>2 DEF IterNext, Stop, GoOn, IndexFound
    <3>3. CASE Jump
      BY <2>1, <2>2, <3>3 DEF Jump, TakeJump, Stop, GoOn, IndexFound
    <3>4. CASE JumpIfFalse
      BY <2>1, <2>2, <3>4 DEF JumpIfFalse, TakeJump, Stop, GoOn, IndexFound
    <3>5. CASE CallFn
      <4>1. At({"CALL_FN"}) /\ Ins.op = "CALL_FN" /\ Ins.aux \in Nat
        BY <1>1, <3>5, AtInstruction DEF CallFn
      <4>2. ~RejectsAux(prog, Top.fn, Ins) => Ins.aux \in FunctionIndex(prog)
        BY <4>1 DEF RejectsAux, FunctionIndex
      <4> QED BY <2>1, <2>2, <2>3, <3>5, <4>1, <4>2 DEF CallFn, Stop, IndexFound
    <3>6. CASE CallIndirect
      BY <2>1, <2>3, <3>6 DEF CallIndirect, Stop, GoOn, IndexFound
    <3>7. CASE Return
      BY <2>1, <2>2, <3>7 DEF Return, Stop, IndexFound
    <3>8. CASE ReturnVoid \/ EndOfCode
      BY <3>8 DEF ReturnVoid, EndOfCode, Stop, IndexFound
    <3> QED BY <1>3, <3>1, <3>2, <3>3, <3>4, <3>5, <3>6, <3>7, <3>8 DEF InstructionStep
  <2> QED BY <1>1, <2>1, <2>4 DEF ValidInv
<1>4. CASE BindFrame \/ UnbindFrame \/ LeaveFunction
  <2>1. /\ frames # << >> /\ prog' = prog /\ rc' # "idle" /\ why' \in {why, "hook", "overflow"}
    BY <1>4 DEF BindFrame, UnbindFrame, LeaveFunction, Deliver, Answers
  <2> QED BY <1>1, <2>1 DEF ValidInv, IndexFound
<1>5. CASE UNCHANGED vars
  BY <1>1, <1>5 DEF vars, ValidInv
<1> QED BY <1>2, <1>3, <1>4, <1>5 DEF Next, Finished, InstructionStep

\* H2MirValidateProgram, run once at the outermost call, covers every function the program
\* can ever call: what the prologue of a variadic call reads untested is there, and the run
\* loop stops only at the two indices the validator does not look at.
THEOREM ValidationSuffices == Spec => IndicesValidated
<1>1. Init => ValidInv
  BY DEF Init, ValidInv, TypeOK, FramesOK, Reasons
<1>2. ValidInv /\ [Next]_vars => ValidInv' /\ [IndexFound]_why
  BY ValidStep
<1> QED BY <1>1, <1>2, PTL DEF Spec, IndicesValidated

-----------------------------------------------------------------------------
(* Lemmas about stack maps.                                                *)

\* A function with a stack map.
LEMMA MapFits ==
    ASSUME NEW fn \in Function, WellStackedFn(fn), NEW pc \in 0 .. Len(fn.insts) - 1
    PROVE  /\ HeightAt(fn, pc) \in Nat /\ StackMapAt(fn, pc)
           /\ fn.insts[pc + 1] \in Inst
           /\ ElementAt(fn, pc) \in 0 .. 2
           /\ AfterIterNext(fn, pc) => fn.insts[pc + 1].op = "JUMP_IF_FALSE"
<1>1. /\ fn.insts \in Seq(Inst) /\ fn.height \in Seq(Nat) /\ Len(fn.insts) = Len(fn.height)
      /\ Len(fn.insts) \in Nat
  BY DEF Function, WellStackedFn
<1>2. pc + 1 \in 1 .. Len(fn.insts) /\ pc \in Nat
  BY <1>1
<1>3. HeightAt(fn, pc) \in Nat /\ fn.insts[pc + 1] \in Inst
  BY <1>1, <1>2 DEF HeightAt
<1>4. StackMapAt(fn, pc)
  BY DEF WellStackedFn
<1>5. AfterIterNext(fn, pc) =>
        fn.insts[pc] \in Inst /\ fn.insts[pc].op = "ITER_NEXT" /\ pc - 1 \in 0 .. Len(fn.insts) - 1
  BY <1>1, <1>2 DEF AfterIterNext
<1>6. ElementAt(fn, pc) \in 0 .. 2
  BY <1>5 DEF ElementAt, Inst
<1>7. ASSUME AfterIterNext(fn, pc) PROVE fn.insts[pc + 1].op = "JUMP_IF_FALSE"
  <2>1. StackMapAt(fn, pc - 1)
    BY <1>5, <1>7 DEF WellStackedFn
  <2>2. (pc - 1) + 1 = pc /\ (pc - 1) + 2 = pc + 1
    BY <1>2
  <2> QED BY <1>5, <1>7, <2>1, <2>2 DEF StackMapAt
<1> QED BY <1>3, <1>4, <1>6, <1>7

\* A function that reaches a height has more instructions than that.
LEMMA CoveredIsBounded ==
    ASSUME NEW fn \in Function, NEW h \in Nat, Covered(fn, h)
    PROVE  h + 1 <= Len(fn.insts)
<1> DEFINE n == Len(fn.insts)
           f == [k \in 0 .. h |-> CHOOSE pc \in 0 .. n - 1 : HeightAt(fn, pc) = k]
<1>1. n \in Nat
  BY DEF Function
<1>2. \A k \in 0 .. h : f[k] \in 0 .. n - 1 /\ HeightAt(fn, f[k]) = k
  BY DEF Covered
<1>3. f \in [0 .. h -> 0 .. n - 1]
  BY <1>2
<1>4. ~ \E x, y \in 0 .. h : x # y /\ f[x] = f[y]
  BY <1>2
<1> HIDE DEF f, n
<1>5. /\ IsFiniteSet(0 .. h) /\ Cardinality(0 .. h) = h + 1
      /\ IsFiniteSet(0 .. n - 1) /\ Cardinality(0 .. n - 1) = n
  <2>1. 0 \in Int /\ h \in Int /\ n - 1 \in Int
    BY <1>1
  <2>2. /\ IsFiniteSet(0 .. h) /\ Cardinality(0 .. h) = IF 0 > h THEN 0 ELSE h - 0 + 1
        /\ IsFiniteSet(0 .. n - 1)
        /\ Cardinality(0 .. n - 1) = IF 0 > n - 1 THEN 0 ELSE (n - 1) - 0 + 1
    BY <2>1, FS_Interval
  <2>3. ~(0 > h) /\ h - 0 + 1 = h + 1 /\ (IF 0 > n - 1 THEN 0 ELSE (n - 1) - 0 + 1) = n
    BY <1>1
  <2> QED BY <2>2, <2>3
<1>6. ~(Cardinality(0 .. n - 1) < Cardinality(0 .. h))
  BY <1>3, <1>4, <1>5, FS_PigeonHole
<1>7. ~(n < h + 1)
  BY <1>5, <1>6
<1>8. h + 1 <= n
  BY <1>1, <1>7
<1> QED BY <1>8 DEF n

\* A place no more than one operand higher is covered.
LEMMA CoverGrows ==
    ASSUME NEW fn, NEW h \in Nat, Covered(fn, h),
           NEW pc \in 0 .. Len(fn.insts) - 1, HeightAt(fn, pc) \in Nat, HeightAt(fn, pc) <= h + 1
    PROVE  Covered(fn, HeightAt(fn, pc))
<1>1. ASSUME NEW k \in 0 .. HeightAt(fn, pc)
      PROVE  \E q \in 0 .. Len(fn.insts) - 1 : HeightAt(fn, q) = k
  <2>1. k = HeightAt(fn, pc) \/ k \in 0 .. h
    OBVIOUS
  <2> QED BY <2>1 DEF Covered
<1> QED BY <1>1 DEF Covered

\* Control that arrives where the stack map says runs there.
LEMMA Arrives ==
    ASSUME NEW fn \in Function, WellStackedFn(fn), NEW h \in Nat, Covered(fn, h),
           NEW pc \in Nat, NEW sp \in Nat, sp <= h + 1, Reaches(fn, pc, sp),
           NEW fr, fr.pc = pc, fr.sp = sp, fr.top = "any"
    PROVE  RunsAt(fn, fr)
<1>1. pc < Len(fn.insts) /\ ~AfterIterNext(fn, pc) /\ HeightAt(fn, pc) = sp
  BY DEF Reaches, HeightAt
<1>2. pc \in 0 .. Len(fn.insts) - 1
  BY <1>1 DEF Function
<1>3. Covered(fn, HeightAt(fn, pc))
  BY <1>1, <1>2, CoverGrows
<1>4. fr.sp = HeightAt(fn, fr.pc) + (IF fr.top = "item" THEN ElementAt(fn, fr.pc) ELSE 0)
  BY <1>1
<1> QED BY <1>1, <1>3, <1>4 DEF RunsAt

\* Control that leaves for a call comes back where the stack map says.
LEMMA Awaits ==
    ASSUME NEW fn \in Function, NEW h \in Nat, Covered(fn, h),
           NEW pc \in Nat, NEW sp \in Nat, sp <= h, Reaches(fn, pc, sp + 1),
           NEW fr, fr.pc = pc, fr.sp = sp
    PROVE  WaitsAt(fn, fr)
<1>1. pc < Len(fn.insts) /\ HeightAt(fn, pc) = sp + 1
  BY DEF Reaches, HeightAt
<1>2. pc \in 0 .. Len(fn.insts) - 1 /\ sp + 1 <= h + 1 /\ sp + 1 \in Nat
  BY <1>1 DEF Function
<1>3. Covered(fn, sp + 1)
  BY <1>1, <1>2, CoverGrows
<1> QED BY <1>3 DEF WaitsAt

-----------------------------------------------------------------------------
(* The instructions.                                                       *)

StopsWell == \E answer \in Answers, reason \in Reasons \ Misuse : Stop(answer, reason)
MovesWell == \E fr \in Frame : fr.fn = Top.fn /\ RunsAt(FnOf(Top), fr) /\ GoOn(fr)
CallsWell == \E f \in FunctionIndex(prog), fr \in Frame, argc \in Int :
                fr.fn = Top.fn /\ WaitsAt(FnOf(Top), fr) /\ OpenCall(f, argc, SetTop(fr))

\* What an instruction of a function fn with a stack map finds: the height h is intended.
Found(fn, h) ==
    /\ fn = FnOf(Top) /\ fn \in Function /\ WellStackedFn(fn)
    /\ Top \in Frame /\ Top.pc \in 0 .. Len(fn.insts) - 1 /\ Len(fn.insts) \in Nat
    /\ Top.pc \in Nat /\ Top.sp \in Nat
    /\ h \in Nat /\ h = HeightAt(fn, Top.pc) /\ Covered(fn, h) /\ h + 1 <= Len(fn.insts)
    /\ Ins = fn.insts[Top.pc + 1] /\ Ins \in Inst /\ Ins.argc \in Nat /\ Ins.aux \in Nat
    /\ StackMapAt(fn, Top.pc)
    /\ Top.sp = h + (IF Top.top = "item" THEN ElementAt(fn, Top.pc) ELSE 0)
    /\ ElementAt(fn, Top.pc) \in 0 .. 2
    /\ Top.top \in TopValue /\ (Top.top # "any" <=> AfterIterNext(fn, Top.pc))
    /\ Ins.op # "JUMP_IF_FALSE" => Top.top = "any" /\ Top.sp = h
    /\ StackCap(prog, Top.fn) \in Nat /\ StackCap(prog, Top.fn) >= Len(fn.insts) + 1

\* The operand stack of an open call is larger than its code.
LEMMA CapFits ==
    ASSUME TypeOK, StackFits, NEW i \in 1 .. Depth
    PROVE  /\ FnOf(frames[i]) \in Function
           /\ StackCap(prog, frames[i].fn) \in Nat
           /\ StackCap(prog, frames[i].fn) >= Len(FnOf(frames[i]).insts) + 1
<1> DEFINE fn == FnOf(frames[i])
<1>1. prog \in Programs /\ frames[i].fn \in FunctionIndex(prog)
  BY DEF TypeOK, FramesOK, Depth
<1>2. fn \in Function
  BY <1>1, ProgramParts DEF FnOf
<1>3. fn.paramCount \in Nat /\ Len(fn.insts) \in Nat
  BY <1>2 DEF Function
<1>4. BoundArgs(fn) \in Nat
  BY <1>3 DEF BoundArgs, StackFits
<1>5. StackCap(prog, frames[i].fn) = Len(fn.insts) + BoundArgs(fn) + 1
  BY DEF StackCap, CodeLen, FnOf
<1> QED BY <1>2, <1>3, <1>4, <1>5

LEMMA Finds ==
    ASSUME StackInv, WellStacked(prog), NEW ops, At(ops)
    PROVE  \E fn, h : Found(fn, h)
<1> DEFINE fn == FnOf(Top)
           h == HeightAt(fn, Top.pc)
<1>1. /\ frames # << >> /\ rc = "run" /\ Top \in Frame /\ Top.fn \in FunctionIndex(prog)
      /\ Top.sp \in Nat /\ Top.pc \in Nat /\ Top.top \in TopValue /\ prog \in Programs
      /\ Ins \in Inst /\ Ins.argc \in Nat /\ Ins.aux \in Nat
  BY AtInstruction DEF StackInv, ValidInv, TypeOK
<1>2. prog \in Program /\ fn \in Function
  BY <1>1, ProgramParts DEF FnOf
<1>3. WellStackedFn(fn)
  <2>1. prog.funcs \in Seq(Function)
    BY <1>2 DEF Program
  <2>2. Top.fn + 1 \in 1 .. Len(prog.funcs)
    BY <1>1, <2>1 DEF FunctionIndex
  <2> QED BY <2>2 DEF WellStacked, FnOf, Fn
<1>4. RunsAt(fn, Top)
  BY <1>1 DEF StackInv, StackFits
<1>5. Len(fn.insts) \in Nat /\ Top.pc \in 0 .. Len(fn.insts) - 1
  <2>1. Len(fn.insts) \in Nat
    BY <1>2 DEF Function
  <2> QED BY <1>1, <1>4, <2>1 DEF RunsAt
<1>6. Ins = fn.insts[Top.pc + 1]
  BY DEF Ins, InstAt, FnOf
<1>7. /\ h \in Nat /\ StackMapAt(fn, Top.pc) /\ ElementAt(fn, Top.pc) \in 0 .. 2
      /\ AfterIterNext(fn, Top.pc) => Ins.op = "JUMP_IF_FALSE"
  BY <1>2, <1>3, <1>5, <1>6, MapFits
<1>8. Covered(fn, h) /\ h + 1 <= Len(fn.insts)
  BY <1>2, <1>4, <1>7, CoveredIsBounded DEF RunsAt
<1>9. /\ Top.sp = h + (IF Top.top = "item" THEN ElementAt(fn, Top.pc) ELSE 0)
      /\ Top.top # "any" <=> AfterIterNext(fn, Top.pc)
  BY <1>4 DEF RunsAt
<1>10. StackCap(prog, Top.fn) \in Nat /\ StackCap(prog, Top.fn) >= Len(fn.insts) + 1
  <2>1. Depth \in 1 .. Depth /\ Top = frames[Depth] /\ TypeOK /\ StackFits
    BY <1>1, TopFrame DEF StackInv, ValidInv
  <2> QED BY <2>1, CapFits
<1>11. Ins.op # "JUMP_IF_FALSE" => Top.top = "any" /\ Top.sp = h
  BY <1>7, <1>9
<1> HIDE DEF h
<1>12. Found(fn, h)
  BY <1>1, <1>2, <1>3, <1>5, <1>6, <1>7, <1>8, <1>9, <1>10, <1>11 DEF Found, h
<1> QED BY <1>12

\* The frame at another place.
LEMMA MovedTop ==
    ASSUME NEW fn, NEW h, Found(fn, h)
    PROVE  \A pc, sp \in Nat, t \in TopValue :
              LET fr == Moved(Top, pc, sp, t) IN
              fr \in Frame /\ fr.fn = Top.fn /\ fr.pc = pc /\ fr.sp = sp /\ fr.top = t
<1>1. Top \in Frame
  BY DEF Found
<1> QED BY <1>1, MovedType

\* The run loop goes on where the stack map says.
LEMMA MoveFits ==
    ASSUME NEW fn, NEW h, Found(fn, h), NEW pc \in Nat, NEW sp \in Nat, sp <= h + 1,
           Reaches(fn, pc, sp), GoOn(Moved(Top, pc, sp, "any"))
    PROVE  MovesWell
<1> DEFINE fr == Moved(Top, pc, sp, "any")
<1>1. fr \in Frame /\ fr.fn = Top.fn /\ fr.pc = pc /\ fr.sp = sp /\ fr.top = "any"
  BY MovedTop DEF TopValue
<1> HIDE DEF fr
<1>2. RunsAt(fn, fr)
  BY <1>1, Arrives DEF Found
<1> QED BY <1>1, <1>2 DEF MovesWell, Found, fr

\* A jump goes where the stack map says, or the budget is spent.
LEMMA JumpFits ==
    ASSUME NEW fn, NEW h, Found(fn, h), NEW sp \in Nat, sp <= h + 1,
           Reaches(fn, Ins.aux, sp), TakeJump(sp, "any")
    PROVE  StopsWell \/ MovesWell
<1>1. Top \in Frame /\ Ins.aux \in Nat /\ "any" \in TopValue
  BY DEF Found, TopValue
<1>2. Top.back \in Nat
  BY <1>1 DEF Frame
<1> DEFINE backward == BackwardJumpLimit # 0 /\ Ins.aux < Top.pc + 1
           back     == IF backward THEN Top.back + 1 ELSE Top.back
           moved    == Moved(Top, Ins.aux, sp, "any")
           fr       == [moved EXCEPT !.back = back]
<1>3. fr \in Frame /\ fr.fn = Top.fn /\ fr.pc = Ins.aux /\ fr.sp = sp /\ fr.top = "any"
  <2>1. /\ moved \in Frame /\ moved.fn = Top.fn /\ moved.pc = Ins.aux /\ moved.sp = sp
        /\ moved.top = "any"
    BY <1>1, MovedTop
  <2>2. back \in Nat
    BY <1>2
  <2> HIDE DEF moved, back
  <2> QED BY <2>1, <2>2 DEF Frame
<1>4. Stop("notconst", "jump limit") \/ GoOn(fr)
  BY DEF TakeJump
<1> HIDE DEF fr
<1>5. RunsAt(fn, fr)
  BY <1>1, <1>3, Arrives DEF Found
<1> QED BY <1>3, <1>4, <1>5 DEF StopsWell, MovesWell, Answers, Reasons, Misuse, Found

\* A call leaves its caller where the stack map says.
LEMMA CallFits ==
    ASSUME NEW fn, NEW h, Found(fn, h), NEW f \in FunctionIndex(prog), NEW argc \in Int,
           NEW pops \in Nat, pops <= Top.sp, Top.sp = h, Reaches(fn, Top.pc + 1, (h - pops) + 1),
           Call(f, pops, argc)
    PROVE  CallsWell
<1> DEFINE pc == Top.pc + 1
           sp == Top.sp - pops
           fr == Moved(Top, pc, sp, "any")
<1>1. Top.pc \in Nat /\ h \in Nat /\ "any" \in TopValue
  BY DEF Found, TopValue
<1>2. pc \in Nat /\ sp \in Nat /\ sp <= h /\ sp = h - pops
  BY <1>1
<1>3. OpenCall(f, argc, SetTop(fr))
  BY DEF Call
<1>4. fr \in Frame /\ fr.fn = Top.fn /\ fr.pc = pc /\ fr.sp = sp
  <2> HIDE DEF pc, sp
  <2> QED BY <1>1, <1>2, MovedTop
<1>5. Reaches(fn, pc, sp + 1)
  BY <1>1, <1>2
<1> HIDE DEF pc, sp, fr
<1>6. WaitsAt(fn, fr)
  BY <1>1, <1>2, <1>4, <1>5, Awaits DEF Found
<1> QED BY <1>3, <1>4, <1>6 DEF CallsWell, Found

\* What the stack map says of the instruction found.
LEMMA MapSays ==
    ASSUME NEW fn, NEW h, Found(fn, h)
    PROVE  /\ Ins.op \in StraightOps =>
                Pops(Ins) <= h /\ Reaches(fn, Top.pc + 1, (h - Pops(Ins)) + Pushes(Ins))
           /\ Ins.op = "JUMP" => Reaches(fn, Ins.aux, h)
           /\ Ins.op = "JUMP_IF_FALSE" =>
                /\ h > 0 /\ Reaches(fn, Ins.aux, h - 1)
                /\ Reaches(fn, Top.pc + 1, (h - 1) + ElementAt(fn, Top.pc))
           /\ Ins.op = "ITER_NEXT" =>
                h > 0 /\ Top.pc + 1 < Len(fn.insts) /\ fn.height[Top.pc + 2] = h
           /\ Ins.op = "CALL_FN" =>
                Ins.argc <= h /\ Reaches(fn, Top.pc + 1, (h - Ins.argc) + 1)
           /\ Ins.op = "CALL_INDIRECT" =>
                Ins.argc < h /\ Reaches(fn, Top.pc + 1, h - Ins.argc)
           /\ Ins.op = "RETURN" => h = 1
<1>1. Ins = fn.insts[Top.pc + 1] /\ h = fn.height[Top.pc + 1] /\ StackMapAt(fn, Top.pc)
  BY DEF Found, HeightAt
<1> QED BY <1>1, Zenon DEF StackMapAt

LEMMA StraightFits ==
    ASSUME NEW fn, NEW h, Found(fn, h), Straight
    PROVE  StopsWell \/ MovesWell
<1>1. Ins.op \in StraightOps /\ Ins.op # "JUMP_IF_FALSE"
  BY DEF Straight, At, Ins, StraightOps, PushOps, MapOps, PairOps, StoreOps, CountOps, LiteralOps,
         LoadOps, AggOps, ContextOps, FieldOps, ConvertOps, LengthOps, HostOps
<1>2. /\ Top.sp = h /\ Top.top = "any" /\ h \in Nat /\ Top.pc \in Nat
      /\ Pops(Ins) \in Nat /\ Pushes(Ins) \in 0 .. 1
      /\ StackCap(prog, Top.fn) \in Nat /\ h < StackCap(prog, Top.fn)
  <2>1. Pops(Ins) \in Nat /\ Pushes(Ins) \in 0 .. 1
    BY OperandCounts DEF Found
  <2>2. Top.sp = h /\ Top.top = "any" /\ h \in Nat /\ Top.pc \in Nat /\ Len(fn.insts) \in Nat
        /\ h + 1 <= Len(fn.insts)
        /\ StackCap(prog, Top.fn) \in Nat /\ StackCap(prog, Top.fn) >= Len(fn.insts) + 1
    BY <1>1 DEF Found
  <2> QED BY <2>1, <2>2
<1>3. Pops(Ins) <= h /\ Reaches(fn, Top.pc + 1, (h - Pops(Ins)) + Pushes(Ins))
  BY <1>1, MapSays
<1> DEFINE pc == Top.pc + 1
           left == Top.sp - Pops(Ins)
           high == left + Pushes(Ins)
<1>4. pc \in Nat /\ high \in Nat /\ high <= h + 1 /\ high = (h - Pops(Ins)) + Pushes(Ins)
      /\ ~(Pops(Ins) > Top.sp) /\ ~(left >= StackCap(prog, Top.fn))
  BY <1>2, <1>3
<1>5. \/ \E answer \in {"notconst", "error"} : Stop(answer, "value") \/ Stop(answer, "range")
      \/ GoOn(Moved(Top, pc, high, "any"))
  BY <1>2, <1>4 DEF Straight
<1>6. CASE \E answer \in {"notconst", "error"} : Stop(answer, "value") \/ Stop(answer, "range")
  BY <1>6 DEF StopsWell, Answers, Reasons, Misuse
<1>7. CASE GoOn(Moved(Top, pc, high, "any"))
  <2>1. Reaches(fn, pc, high)
    BY <1>3, <1>4
  <2> HIDE DEF pc, high, left
  <2> QED BY <1>4, <1>7, <2>1, MoveFits
<1> QED BY <1>5, <1>6, <1>7

LEMMA IterNextFits ==
    ASSUME NEW fn, NEW h, Found(fn, h), IterNext
    PROVE  StopsWell \/ MovesWell
<1>1. Ins.op = "ITER_NEXT"
  BY DEF IterNext, At, Ins
<1>2. /\ Top.sp = h /\ h \in Nat /\ Top.pc \in Nat /\ Len(fn.insts) \in Nat
      /\ h + 1 <= Len(fn.insts) /\ Ins = fn.insts[Top.pc + 1] /\ Ins.argc \in 0 .. 2
      /\ StackCap(prog, Top.fn) \in Nat /\ StackCap(prog, Top.fn) >= Len(fn.insts) + 1
      /\ fn = FnOf(Top)
  <2>1. Ins.argc \in 0 .. 2
    <3>1. Ins \in Inst
      BY DEF Found
    <3> QED BY ONLY <1>1, <3>1 DEF Inst
  <2>2. Top.top = "any" /\ Top.sp = h
    BY <1>1 DEF Found
  <2> QED BY <2>1, <2>2 DEF Found
<1>3. /\ h > 0 /\ Top.pc + 1 < Len(fn.insts) /\ fn.height[Top.pc + 2] = h
  BY <1>1, MapSays
<1> DEFINE pc == Top.pc + 1
<1>4. pc \in Nat /\ pc < Len(fn.insts) /\ pc > 0 /\ pc + 1 = Top.pc + 2
  BY ONLY <1>2, <1>3
<1>5. HeightAt(fn, pc) = h /\ AfterIterNext(fn, pc) /\ ElementAt(fn, pc) = Ins.argc
  BY <1>1, <1>2, <1>3, <1>4 DEF HeightAt, AfterIterNext, ElementAt
<1>6. Covered(fn, h)
  BY DEF Found
<1>7. ASSUME NEW flag \in {"item", "end"},
             GoOn(Moved(Top, pc, Top.sp + (IF flag = "item" THEN Ins.argc ELSE 0), flag))
      PROVE  MovesWell
  <2> DEFINE high == Top.sp + (IF flag = "item" THEN Ins.argc ELSE 0)
             fr == Moved(Top, pc, high, flag)
  <2>1. high \in Nat /\ high = h + (IF flag = "item" THEN Ins.argc ELSE 0) /\ flag \in TopValue
    <3>1. Top.sp = h /\ h \in Nat /\ Ins.argc \in 0 .. 2 /\ flag \in {"item", "end"}
      BY <1>2
    <3> QED BY ONLY <3>1 DEF TopValue
  <2>2. fr \in Frame /\ fr.fn = Top.fn /\ fr.pc = pc /\ fr.sp = high /\ fr.top = flag
    <3> HIDE DEF pc, high
    <3> QED BY <1>4, <2>1, MovedTop
  <2>3. GoOn(fr)
    BY <1>7
  <2> HIDE DEF fr, pc, high
  <2>4. RunsAt(fn, fr)
    BY <1>4, <1>5, <1>6, <2>1, <2>2 DEF RunsAt
  <2> QED BY <1>2, <2>2, <2>3, <2>4 DEF MovesWell
<1>8. ASSUME NEW flag \in {"item", "end"}
      PROVE  ~(Top.sp + (IF flag = "item" THEN Ins.argc ELSE 0) > StackCap(prog, Top.fn))
  BY <1>2
<1>9. CASE \E answer \in {"notconst", "error"} : Stop(answer, "value")
  BY <1>9 DEF StopsWell, Answers, Reasons, Misuse
<1>10. Top.sp # 0
  BY <1>2, <1>3
<1> QED BY <1>7, <1>8, <1>9, <1>10 DEF IterNext

LEMMA JumpsFit ==
    ASSUME NEW fn, NEW h, Found(fn, h), Jump \/ JumpIfFalse
    PROVE  StopsWell \/ MovesWell
<1>1. h \in Nat /\ Top.pc \in Nat /\ Ins.aux \in Nat /\ ElementAt(fn, Top.pc) \in 0 .. 2
      /\ Top.sp = h + (IF Top.top = "item" THEN ElementAt(fn, Top.pc) ELSE 0)
  BY DEF Found
<1>2. CASE Jump
  <2>1. Ins.op = "JUMP"
    BY <1>2 DEF Jump, At, Ins
  <2>2. Top.top = "any" /\ Top.sp = h /\ Reaches(fn, Ins.aux, h)
    BY <2>1, MapSays DEF Found
  <2>3. Stop("notconst", "range") \/ TakeJump(h, "any")
    BY <1>2, <2>2 DEF Jump
  <2>4. CASE Stop("notconst", "range")
    BY <2>4 DEF StopsWell, Answers, Reasons, Misuse
  <2>5. CASE TakeJump(h, "any")
    <3>1. h <= h + 1
      BY <1>1
    <3> QED BY <1>1, <2>2, <2>5, <3>1, JumpFits
  <2> QED BY <2>3, <2>4, <2>5
<1>3. CASE JumpIfFalse
  <2>1. Ins.op = "JUMP_IF_FALSE"
    BY <1>3 DEF JumpIfFalse, At, Ins
  <2>2. h > 0 /\ Reaches(fn, Ins.aux, h - 1)
        /\ Reaches(fn, Top.pc + 1, (h - 1) + ElementAt(fn, Top.pc))
    BY <2>1, MapSays
  <2>3. Top.top = "any" => ElementAt(fn, Top.pc) = 0
    BY DEF Found, ElementAt
  <2>4. Top.sp # 0
    BY <1>1, <2>2
  <2>5. CASE Stop("notconst", "value") \/ Stop("notconst", "range")
    BY <2>5 DEF StopsWell, Answers, Reasons, Misuse
  <2>6. CASE Top.top # "item" /\ TakeJump(Top.sp - 1, "any")
    <3>1. h - 1 \in Nat /\ h - 1 <= h + 1 /\ Top.sp - 1 = h - 1
      BY <1>1, <2>2, <2>6
    <3>2. TakeJump(h - 1, "any")
      BY <2>6, <3>1
    <3> DEFINE sp == h - 1
    <3> HIDE DEF sp
    <3>3. sp \in Nat /\ sp <= h + 1 /\ Reaches(fn, Ins.aux, sp) /\ TakeJump(sp, "any")
      BY <2>2, <3>1, <3>2 DEF sp
    <3> QED BY <3>3, JumpFits
  <2>7. CASE Top.top # "end" /\ GoOn(Moved(Top, Top.pc + 1, Top.sp - 1, "any"))
    <3> DEFINE pc == Top.pc + 1
               sp == (h - 1) + ElementAt(fn, Top.pc)
    <3>1. Top.top \in TopValue
      BY DEF Found
    <3>2. Top.sp - 1 = sp /\ sp \in Nat /\ sp <= h + 1 /\ pc \in Nat
      BY <1>1, <2>2, <2>3, <2>7, <3>1 DEF TopValue
    <3>3. Reaches(fn, pc, sp) /\ GoOn(Moved(Top, pc, sp, "any"))
      BY <2>2, <2>7, <3>2
    <3> HIDE DEF pc, sp
    <3> QED BY <3>2, <3>3, MoveFits
  <2> QED BY <1>3, <2>4, <2>5, <2>6, <2>7 DEF JumpIfFalse
<1> QED BY <1>2, <1>3

LEMMA CallsFit ==
    ASSUME NEW fn, NEW h, Found(fn, h), CallFn \/ CallIndirect
    PROVE  StopsWell \/ MovesWell \/ CallsWell
<1>1. h \in Nat /\ Top.pc \in Nat /\ Ins.argc \in Nat /\ Ins.aux \in Nat
  BY DEF Found
<1>2. CASE CallFn
  <2>1. Ins.op = "CALL_FN"
    BY <1>2 DEF CallFn, At, Ins
  <2>2. Top.sp = h
    BY <2>1 DEF Found
  <2>3. Ins.argc <= h /\ Reaches(fn, Top.pc + 1, (h - Ins.argc) + 1)
    BY <2>1, MapSays
  <2>4. ~RejectsAux(prog, Top.fn, Ins) => Ins.aux \in FunctionIndex(prog)
    BY <1>1, <2>1 DEF RejectsAux, FunctionIndex
  <2> DEFINE argc == IF Ins.drop THEN Ins.argc - 1 ELSE Ins.argc
  <2>5. argc \in Int /\ Ins.argc <= Top.sp /\ ~(Ins.argc > Top.sp)
    BY <1>1, <2>2, <2>3
  <2>6. StopsWell \/ (~RejectsAux(prog, Top.fn, Ins) /\ Call(Ins.aux, Ins.argc, argc))
    BY <1>2, <2>5 DEF CallFn, StopsWell, Answers, Reasons, Misuse
  <2> HIDE DEF argc
  <2> QED BY <1>1, <2>2, <2>3, <2>4, <2>5, <2>6, CallFits
<1>3. CASE CallIndirect
  <2>1. Ins.op = "CALL_INDIRECT"
    BY <1>3 DEF CallIndirect, At, Ins
  <2>2. Top.sp = h
    BY <2>1 DEF Found
  <2>3. Ins.argc < h /\ Reaches(fn, Top.pc + 1, h - Ins.argc)
    BY <2>1, MapSays
  <2> DEFINE pops == Ins.argc + 1
             pc == Top.pc + 1
             sp == Top.sp - Ins.argc
             Argc(f) == IF Fn(prog, f).entry THEN Ins.argc + 1 ELSE Ins.argc
  <2>4. /\ pops \in Nat /\ pops <= Top.sp /\ ~(Ins.argc + 1 > Top.sp)
        /\ pc \in Nat /\ sp \in Nat /\ sp <= h + 1 /\ sp = h - Ins.argc
        /\ (h - pops) + 1 = h - Ins.argc /\ \A f : Argc(f) \in Int
    BY <1>1, <2>2, <2>3
  <2>5. \/ StopsWell
        \/ GoOn(Moved(Top, pc, sp, "any"))
        \/ \E f \in FunctionIndex(prog) : Call(f, pops, Argc(f))
    BY <1>3, <2>4 DEF CallIndirect, StopsWell, Answers, Reasons, Misuse
  <2>6. Reaches(fn, pc, sp) /\ Reaches(fn, Top.pc + 1, (h - pops) + 1)
    BY <2>3, <2>4
  <2>7. CASE GoOn(Moved(Top, pc, sp, "any"))
    <3> HIDE DEF pops, pc, sp, Argc
    <3> QED BY <2>4, <2>6, <2>7, MoveFits
  <2>8. ASSUME NEW f \in FunctionIndex(prog), Call(f, pops, Argc(f))
        PROVE  CallsWell
    <3>1. Argc(f) \in Int
      BY <2>4
    <3> HIDE DEF pops, pc, sp, Argc
    <3> QED BY <2>2, <2>4, <2>6, <2>8, <3>1, CallFits
  <2> QED BY <2>5, <2>7, <2>8
<1> QED BY <1>2, <1>3

\* No instruction misuses the stack, and each leaves its frame where the stack map says.
LEMMA InstructionFits ==
    ASSUME StackInv, WellStacked(prog), InstructionStep
    PROVE  StopsWell \/ MovesWell \/ CallsWell
<1>1. ASSUME NEW ops, At(ops)
      PROVE  \E fn, h : Found(fn, h)
  BY <1>1, Finds
<1>2. CASE Straight
  BY <1>1, <1>2, StraightFits DEF Straight
<1>3. CASE IterNext
  BY <1>1, <1>3, IterNextFits DEF IterNext
<1>4. CASE Jump \/ JumpIfFalse
  BY <1>1, <1>4, JumpsFit DEF Jump, JumpIfFalse
<1>5. CASE CallFn \/ CallIndirect
  BY <1>1, <1>5, CallsFit DEF CallFn, CallIndirect
<1>6. CASE Return
  <2>1. PICK fn, h : Found(fn, h)
    BY <1>1, <1>6 DEF Return
  <2>2. Ins.op = "RETURN"
    BY <1>6 DEF Return, At, Ins
  <2>3. Top.sp = h
    BY <2>1, <2>2 DEF Found
  <2>4. Top.sp = 1
    BY <2>1, <2>2, <2>3, MapSays
  <2> QED BY <1>6, <2>4 DEF Return, StopsWell, Answers, Reasons, Misuse
<1>7. CASE ReturnVoid
  BY <1>7 DEF ReturnVoid, StopsWell, Answers, Reasons, Misuse
<1>8. ~EndOfCode
  <2> SUFFICES ASSUME EndOfCode PROVE FALSE
    OBVIOUS
  <2>1. TypeOK /\ frames # << >> /\ rc = "run" /\ Top.pc >= Len(FnOf(Top).insts)
    BY DEF EndOfCode, StackInv, ValidInv, CodeLen, FnOf
  <2>2. Top.pc < Len(FnOf(Top).insts)
    BY <2>1 DEF StackInv, StackFits, RunsAt
  <2>3. Top.pc \in Nat /\ Len(FnOf(Top).insts) \in Nat
    <3>1. Top \in Frame /\ Top.fn \in FunctionIndex(prog) /\ prog \in Programs
      BY <2>1, TopFrame DEF TypeOK
    <3>2. FnOf(Top) \in Function
      BY <3>1, ProgramParts DEF FnOf
    <3> QED BY <3>1, <3>2 DEF Frame, Function
  <2> QED BY <2>1, <2>2, <2>3
<1> QED BY <1>2, <1>3, <1>4, <1>5, <1>6, <1>7, <1>8 DEF InstructionStep

-----------------------------------------------------------------------------
(* Every step.                                                             *)

FrameFits(fr) == FnOf(fr).variadic => FnOf(fr).paramCount > 0

\* What the next frames must be for the invariant to hold again.
LEMMA FitsNext ==
    ASSUME prog' = prog,
           \A i \in 1 .. Len(frames') : FrameFits(frames'[i]),
           \A i \in 1 .. Len(frames') - 1 : WaitsAt(FnOf(frames'[i]), frames'[i]),
           frames' # << >> /\ rc' = "run" =>
              RunsAt(FnOf(frames'[Len(frames')]), frames'[Len(frames')]),
           why' \notin Misuse
    PROVE  StackFits'
BY DEF StackFits, FrameFits, FnOf, Top, Depth, WaitsAt, RunsAt

\* A call is opened on frames that all wait.
LEMMA OpenFits ==
    ASSUME TypeOK, WellStacked(prog), NEW f \in FunctionIndex(prog), NEW argc, NEW outer,
           FramesOK(outer, prog), why \notin Misuse,
           \A i \in 1 .. Len(outer) : FrameFits(outer[i]) /\ WaitsAt(FnOf(outer[i]), outer[i]),
           OpenCall(f, argc, outer)
    PROVE  StackFits'
<1>1. prog' = prog /\ why' \notin Misuse /\ Len(outer) \in Nat
  <2>1. prog' = prog /\ why' \in {"args", "hook", "stray", why}
    BY DEF OpenCall
  <2>2. Len(outer) \in Nat
    BY DEF FramesOK
  <2> QED BY <2>1, <2>2 DEF Misuse
<1>2. CASE frames' = outer /\ rc' # "run"
  BY <1>1, <1>2, FitsNext
<1>3. CASE ArgsAccepted(Fn(prog, f), argc) /\ frames' = Append(outer, NewFrame(f))
  <2> DEFINE fn == Fn(prog, f)
             new == NewFrame(f)
  <2>1. f \in Nat /\ new.fn = f /\ new.pc = 0 /\ new.sp = 0 /\ new.top = "any"
    BY DEF FunctionIndex, NewFrame
  <2>2. new \in Frame /\ FnOf(new) = fn
    BY <2>1, NewFrameType DEF FnOf
  <2>3. fn \in Function /\ WellStackedFn(fn)
    <3>1. prog \in Program /\ fn \in Function
      BY ProgramParts DEF TypeOK
    <3>2. prog.funcs \in Seq(Function)
      BY <3>1 DEF Program
    <3>3. f + 1 \in 1 .. Len(prog.funcs)
      BY <3>2 DEF FunctionIndex
    <3> QED BY <3>1, <3>3 DEF WellStacked, Fn
  <2>4. FrameFits(new)
    BY <1>3, <2>2 DEF ArgsAccepted, FrameFits
  <2>5. RunsAt(fn, new)
    <3>1. 0 < Len(fn.insts) /\ ~AfterIterNext(fn, 0) /\ HeightAt(fn, 0) = 0 /\ Len(fn.insts) \in Nat
      BY <2>3 DEF WellStackedFn, Reaches, HeightAt, Function
    <3>2. 0 \in 0 .. Len(fn.insts) - 1
      BY <3>1
    <3>3. Covered(fn, 0)
      BY <3>1, <3>2 DEF Covered
    <3> HIDE DEF new, fn
    <3> QED BY <2>1, <3>1, <3>3 DEF RunsAt
  <2>6. /\ Len(frames') = Len(outer) + 1
        /\ \A i \in 1 .. Len(outer) + 1 : frames'[i] = IF i = Len(outer) + 1 THEN new ELSE outer[i]
    BY <1>3, <2>1, <2>2, PushTop
  <2> HIDE DEF new, fn
  <2>7. \A i \in 1 .. Len(frames') : FrameFits(frames'[i])
    BY <1>1, <2>4, <2>6
  <2>8. \A i \in 1 .. Len(frames') - 1 : WaitsAt(FnOf(frames'[i]), frames'[i])
    BY <1>1, <2>6
  <2>9. frames'[Len(frames')] = new
    BY <1>1, <2>6
  <2> QED BY <1>1, <2>2, <2>5, <2>7, <2>8, <2>9, FitsNext
<1> QED BY <1>2, <1>3 DEF OpenCall

\* The innermost frame is replaced.
LEMMA TopFits ==
    ASSUME TypeOK, StackFits, frames # << >>, NEW fr \in Frame, fr.fn = Top.fn,
           frames' = SetTop(fr), prog' = prog, why' = why, rc' = "run" => RunsAt(FnOf(Top), fr)
    PROVE  StackFits'
<1>1. /\ Depth \in Nat \ {0} /\ Top = frames[Depth] /\ Top.fn \in FunctionIndex(prog)
      /\ FramesOK(frames, prog)
  BY TopFrame DEF TypeOK
<1>2. /\ Len(frames') = Depth
      /\ \A i \in 1 .. Depth : frames'[i] = IF i = Depth THEN fr ELSE frames[i]
  BY <1>1, ReplaceTop DEF SetTop, Depth
<1>3. FnOf(fr) = FnOf(Top)
  BY DEF FnOf
<1>4. \A i \in 1 .. Len(frames') : FrameFits(frames'[i])
  BY <1>1, <1>2, <1>3 DEF StackFits, FrameFits
<1>5. \A i \in 1 .. Len(frames') - 1 : WaitsAt(FnOf(frames'[i]), frames'[i])
  BY <1>1, <1>2 DEF StackFits
<1>6. frames'[Len(frames')] = fr
  BY <1>1, <1>2
<1> QED BY <1>3, <1>4, <1>5, <1>6, FitsNext DEF StackFits

\* A call that ends leaves its caller with one more operand, for which there is room.
LEMMA LeaveFits ==
    ASSUME TypeOK, StackFits, LeaveFunction
    PROVE  StackFits'
<1>1. /\ frames # << >> /\ Depth \in Nat \ {0} /\ rc \in Answers /\ prog' = prog
      /\ FramesOK(frames, prog)
  BY TopFrame DEF LeaveFunction, TypeOK
<1>2. /\ FramesOK(Callers, prog) /\ Len(Callers) = Depth - 1
      /\ \A i \in 1 .. Depth - 1 : Callers[i] = frames[i]
  BY <1>1, DropTop DEF Callers, Depth
<1>3. \A i \in 1 .. Depth - 1 : FrameFits(Callers[i]) /\ WaitsAt(FnOf(Callers[i]), Callers[i])
  BY <1>1, <1>2 DEF StackFits, FrameFits
<1>4. CASE rc # "const" \/ Depth = 1
  <2>1. frames' = Callers /\ rc' # "run" /\ why' = why
    BY <1>1, <1>4 DEF LeaveFunction, Deliver, Answers
  <2> QED BY <1>1, <1>2, <1>3, <2>1, FitsNext DEF StackFits
<1>5. CASE rc = "const" /\ Depth # 1
  <2> DEFINE caller == frames[Depth - 1]
             fn == FnOf(caller)
             new == Moved(caller, caller.pc, caller.sp + 1, "any")
  <2>1. Depth - 1 \in 1 .. Depth /\ Depth - 1 \in 1 .. Depth - 1
    BY <1>1, <1>5
  <2>2. caller \in Frame /\ caller.fn \in FunctionIndex(prog)
    BY <1>1, <2>1 DEF FramesOK, Depth
  <2>3. WaitsAt(fn, caller) /\ FrameFits(caller)
    BY <2>1 DEF StackFits, FrameFits
  <2>4. /\ fn \in Function /\ StackCap(prog, caller.fn) \in Nat
        /\ StackCap(prog, caller.fn) >= Len(fn.insts) + 1
    BY <2>1, CapFits
  <2>5. caller.pc \in Nat /\ caller.sp \in Nat /\ caller.sp + 1 \in Nat /\ "any" \in TopValue
    BY <2>2 DEF Frame, TopValue
  <2> HIDE DEF fn
  <2>6. caller.sp < StackCap(prog, caller.fn)
    <3>1. Covered(fn, caller.sp + 1)
      BY <2>3 DEF WaitsAt, fn
    <3>2. (caller.sp + 1) + 1 <= Len(fn.insts)
      BY <2>4, <2>5, <3>1, CoveredIsBounded
    <3>3. Len(fn.insts) \in Nat
      BY <2>4 DEF Function
    <3> QED BY <2>4, <2>5, <3>2, <3>3
  <2>7. frames' = [Callers EXCEPT ![Depth - 1] = new] /\ rc' = "run" /\ why' = why
    BY <1>5, <2>6 DEF LeaveFunction, Deliver
  <2>8. /\ new \in Frame /\ new.fn = caller.fn /\ new.pc = caller.pc /\ new.sp = caller.sp + 1
        /\ new.top = "any"
    <3> DEFINE pc == caller.pc
               sp == caller.sp + 1
               moved == Moved(caller, pc, sp, "any")
    <3>1. pc \in Nat /\ sp \in Nat /\ "any" \in TopValue /\ caller \in Frame
      BY <2>2, <2>5
    <3>2. /\ moved \in Frame /\ moved.fn = caller.fn /\ moved.pc = pc /\ moved.sp = sp
          /\ moved.top = "any"
      <4> HIDE DEF caller, pc, sp
      <4> QED BY <3>1, MovedType
    <3> QED BY <3>2
  <2> HIDE DEF caller, new
  <2>9. FnOf(new) = fn /\ FrameFits(new)
    BY <2>3, <2>8 DEF FnOf, FrameFits, fn
  <2>10. RunsAt(fn, new)
    <3>1. /\ caller.pc < Len(fn.insts) /\ ~AfterIterNext(fn, caller.pc)
          /\ HeightAt(fn, caller.pc) = caller.sp + 1 /\ Covered(fn, caller.sp + 1)
      BY <2>3 DEF WaitsAt, Reaches, HeightAt, fn
    <3> QED BY <2>5, <2>8, <3>1 DEF RunsAt
  <2>11. Callers # << >>
    BY <1>2, <2>1
  <2>12. /\ Len(frames') = Depth - 1
         /\ \A i \in 1 .. Depth - 1 : frames'[i] = IF i = Depth - 1 THEN new ELSE Callers[i]
    BY <1>2, <2>2, <2>7, <2>8, <2>11, ReplaceTop
  <2>13. \A i \in 1 .. Len(frames') : FrameFits(frames'[i])
    BY <1>3, <2>9, <2>12
  <2>14. \A i \in 1 .. Len(frames') - 1 : WaitsAt(FnOf(frames'[i]), frames'[i])
    BY <1>1, <1>3, <2>12
  <2>15. frames'[Len(frames')] = new
    BY <2>1, <2>12
  <2> QED BY <1>1, <2>7, <2>9, <2>10, <2>13, <2>14, <2>15, FitsNext DEF StackFits
<1> QED BY <1>4, <1>5

\* Every step keeps the stacks as the stack maps say.
LEMMA StackStep == StackInv /\ [Next]_vars => StackInv'
<1> SUFFICES ASSUME StackInv, [Next]_vars PROVE StackInv'
  OBVIOUS
<1>1. ValidInv /\ ValidInv' /\ TypeOK
  BY ValidStep DEF StackInv, ValidInv
<1>2. prog' = prog
  BY DEF Next, vars, EvalFunction, BindFrame, UnbindFrame, LeaveFunction, Straight, IterNext, Jump,
         JumpIfFalse, TakeJump, CallFn, CallIndirect, Call, OpenCall, Return, ReturnVoid, EndOfCode,
         Finished, Stop, GoOn
<1> SUFFICES ASSUME WellStacked(prog) PROVE StackFits'
  BY <1>1, <1>2 DEF StackInv
<1>3. StackFits
  BY DEF StackInv
<1>4. CASE EvalFunction
  <2>1. frames = << >> /\ why \notin Misuse
    BY <1>1, <1>3, <1>4 DEF EvalFunction, ValidInv, StackFits
  <2>2. CASE ~ValidateProgram(prog)
    <3>1. frames' = << >> /\ why' \notin Misuse
      BY <1>4, <2>1, <2>2 DEF EvalFunction, Misuse
    <3> QED BY <1>2, <3>1, FitsNext
  <2>3. CASE ValidateProgram(prog)
    <3>1. FramesOK(<< >>, prog) /\ Len(<< >>) = 0
      BY DEF FramesOK
    <3>2. PICK f \in FunctionIndex(prog), argc \in EntryArgs : OpenCall(f, argc, << >>)
      BY <1>4, <2>3 DEF EvalFunction
    <3> QED BY <1>1, <2>1, <3>1, <3>2, OpenFits
  <2> QED BY <2>2, <2>3
<1>5. CASE InstructionStep
  <2>1. frames # << >> /\ rc = "run" /\ Depth \in Nat \ {0} /\ Top = frames[Depth]
        /\ Top.fn \in FunctionIndex(prog) /\ why \notin Misuse
    BY <1>1, <1>3, <1>5, InstructionShape, TopFrame DEF StackFits
  <2>2. CASE StopsWell
    <3>1. frames' = frames /\ rc' # "run" /\ why' \notin Misuse
      BY <2>2 DEF StopsWell, Stop, Answers
    <3> QED BY <1>2, <1>3, <3>1, FitsNext DEF StackFits, FrameFits, Depth
  <2>3. CASE MovesWell
    <3>1. PICK fr \in Frame : fr.fn = Top.fn /\ RunsAt(FnOf(Top), fr) /\ GoOn(fr)
      BY <2>3 DEF MovesWell
    <3> QED BY <1>1, <1>2, <1>3, <2>1, <3>1, TopFits DEF GoOn
  <2>4. CASE CallsWell
    <3>1. PICK f \in FunctionIndex(prog), fr \in Frame, argc \in Int :
             fr.fn = Top.fn /\ WaitsAt(FnOf(Top), fr) /\ OpenCall(f, argc, SetTop(fr))
      BY <2>4 DEF CallsWell
    <3>2. /\ FramesOK(SetTop(fr), prog) /\ Len(SetTop(fr)) = Depth
          /\ \A i \in 1 .. Depth : SetTop(fr)[i] = IF i = Depth THEN fr ELSE frames[i]
      BY <1>1, <2>1, <3>1, ReplaceTop DEF TypeOK, SetTop, Depth
    <3>3. FnOf(fr) = FnOf(Top)
      BY <3>1 DEF FnOf
    <3>4. \A i \in 1 .. Depth : FrameFits(SetTop(fr)[i])
      BY <1>3, <2>1, <3>2, <3>3 DEF StackFits, FrameFits
    <3>5. \A i \in 1 .. Depth : WaitsAt(FnOf(SetTop(fr)[i]), SetTop(fr)[i])
      BY <1>3, <2>1, <3>1, <3>2, <3>3 DEF StackFits
    <3> QED BY <1>1, <2>1, <3>1, <3>2, <3>4, <3>5, OpenFits
  <2> QED BY <1>5, <2>2, <2>3, <2>4, InstructionFits
<1>6. CASE BindFrame
  <2>1. frames # << >> /\ Top \in Frame /\ rc = "run" /\ why \notin Misuse
    BY <1>1, <1>3, <1>6, TopFrame DEF BindFrame, StackFits
  <2>2. CASE rc' = "error" /\ why' = "hook" /\ frames' = frames
    <3>1. rc' # "run" /\ why' \notin Misuse
      BY <2>2 DEF Misuse
    <3> QED BY <1>2, <1>3, <2>2, <3>1, FitsNext DEF StackFits, FrameFits, Depth
  <2> DEFINE fr == [Top EXCEPT !.bound = TRUE]
  <2>3. CASE frames' = SetTop(fr) /\ why' = why
    <3>1. /\ fr \in Frame /\ fr.fn = Top.fn /\ fr.pc = Top.pc /\ fr.sp = Top.sp
          /\ fr.top = Top.top
      BY <2>1 DEF Frame
    <3> HIDE DEF fr
    <3>2. RunsAt(FnOf(Top), Top)
      BY <1>3, <2>1 DEF StackFits
    <3>3. RunsAt(FnOf(Top), fr)
      BY <3>1, <3>2 DEF RunsAt
    <3> QED BY <1>1, <1>2, <1>3, <2>1, <2>3, <3>1, <3>3, TopFits
  <2> QED BY <1>6, <2>2, <2>3 DEF BindFrame
<1>7. CASE UnbindFrame
  <2>1. frames # << >> /\ Top \in Frame /\ rc' # "run" /\ why' = why
    BY <1>1, <1>7, TopFrame DEF UnbindFrame, Answers
  <2> DEFINE fr == [Top EXCEPT !.bound = FALSE]
  <2>2. frames' = SetTop(fr)
    BY <1>7 DEF UnbindFrame
  <2>3. fr \in Frame /\ fr.fn = Top.fn
    BY <2>1 DEF Frame
  <2> HIDE DEF fr
  <2> QED BY <1>1, <1>2, <1>3, <2>1, <2>2, <2>3, TopFits
<1>8. CASE LeaveFunction
  BY <1>1, <1>3, <1>8, LeaveFits
<1>9. CASE UNCHANGED vars
  <2>1. frames' = frames /\ rc' = rc /\ why' = why
    BY <1>9 DEF vars
  <2> QED BY <1>2, <1>3, <2>1, FitsNext DEF StackFits, FrameFits, Depth, Top
<1> QED BY <1>4, <1>5, <1>6, <1>7, <1>8, <1>9 DEF Next, Finished, InstructionStep

LEMMA StackInit == Init => StackInv
<1> SUFFICES ASSUME Init PROVE StackInv
  OBVIOUS
<1>1. ValidInv
  BY DEF Init, ValidInv, TypeOK, FramesOK, Reasons
<1>2. frames = << >> /\ Depth = 0 /\ why \notin Misuse
  BY DEF Init, Depth, Misuse
<1> QED BY <1>1, <1>2 DEF StackInv, StackFits

\* A program whose lowering kept a stack map never makes H2MirRunLoop pop an operand that is
\* not there, return with a stack that is not one value, or run off its code, through calls
\* nested however deep.
THEOREM StackUsedAsMapped == Spec => []StackNeverMisused
<1>1. StackInv => StackNeverMisused
  BY DEF StackInv, StackFits, StackNeverMisused, Misuse
<1> QED BY <1>1, StackInit, StackStep, PTL DEF Spec

\* For such a program the operand stack that H2MirInitRun sizes from the length of the code
\* never overflows: a function has an instruction for each height it reaches.
THEOREM StackCapEnough == Spec => []StackCapSuffices
<1>1. StackInv => StackCapSuffices
  BY DEF StackInv, StackFits, StackCapSuffices, Misuse
<1> QED BY <1>1, StackInit, StackStep, PTL DEF Spec
=============================================================================
