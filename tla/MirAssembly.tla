----------------------------- MODULE MirAssembly -----------------------------
(***************************************************************************)
(* How the evaluator assembles a MIR program (evaluator_mir.c on the       *)
(* builder of mir.c).  A function or an initialiser is lowered, appended   *)
(* to the program, and then walked: each instruction that names a          *)
(* function, a constant or a variable of the program has that item         *)
(* lowered first, recursively, and is rewritten to refer to it.  A         *)
(* qualified name takes two instructions, becomes three, and everything    *)
(* behind it moves.                                                        *)
(*                                                                         *)
(* Only the instructions that matter here have an operation of their own;  *)
(* local function values (tcToMir) and host calls, which insert nothing,   *)
(* are left out.                                                           *)
(***************************************************************************)
EXTENDS Integers, Sequences, FiniteSets, SequencesExt

CONSTANT Worlds     \* the programs to assemble

\* A program: its items have the code that the lowering makes of them, which names
\* what it refers to, jumps within itself and ends in a return
\* (mir_lower_stmt.c:5231, mir_lower_pkg.c:257, :447).
IsWorld(w) ==
    LET items == w.functions \cup w.consts \cup w.vars
    IN /\ w.root \in items
       /\ w.functions \cap w.consts = {} /\ w.functions \cap w.vars = {} /\ w.consts \cap w.vars = {}
       /\ \A a \in DOMAIN w.alias : w.alias[a] \in w.functions
       /\ w.code \in [items -> Seq([op : STRING, name : STRING, num : Nat])]
       /\ \A x \in items :
            LET code == w.code[x]
            IN /\ code # <<>> /\ code[Len(code)].op = "RETURN"
               /\ \A p \in DOMAIN code :
                    /\ code[p].op \notin {"CALL_FN", "PUSH_CONST"}
                    /\ code[p].op \in {"JUMP", "JUMP_IF_FALSE"} => code[p].num < Len(code)

ASSUME WorldsAssumption == \A w \in Worlds : IsWorld(w)

VARIABLES
    world,      \* the program: its items, their code, what is not supported
    insts,      \* builder.insts
    funcs,      \* builder.funcs: the item, the start (from 0) and the length
    mirOf,      \* evalToMir, topConstToMir, topVarToMir: 0 for HOP_EVAL_MIR_FN_NONE
    frames,     \* the items being lowered: function and instIndex (from 1)
    status      \* "start", "lowering", "failing" while 0 is returned, "done", "unsupported"

vars == <<world, insts, funcs, mirOf, frames, status>>

Functions == world.functions
Consts == world.consts
Vars == world.vars
Items == Functions \cup Consts \cup Vars

(***************************************************************************)
(* Instructions: of is the function and the place in its source, both from *)
(* 1, that an instruction stands for.  Jumps go to num, counted from 0 in  *)
(* the function.                                                           *)
(***************************************************************************)
Plain(op) == [op |-> op, name |-> "", num |-> 0]
Named(op, name) == [op |-> op, name |-> name, num |-> 0]
ToFunction(op, k) == [op |-> op, name |-> "", num |-> k]
From(ins, place) == [op |-> ins.op, name |-> ins.name, num |-> ins.num, of |-> place]

End(k) == funcs[k].start + funcs[k].len
Place(i) == insts[i].of

----------------------------------------------------------------------------
(***************************************************************************)
(* The builder.                                                            *)
(***************************************************************************)
Code(x) == [i \in DOMAIN world.code[x] |-> From(world.code[x][i], <<Len(funcs) + 1, i>>)]

\* H2MirLowerAppendSimpleFunctionWithOptions and its like: the code of x becomes
\* the last function.
AppendFunction(x) ==
    /\ funcs' = Append(funcs, [item |-> x, start |-> Len(insts), len |-> Len(world.code[x])])
    /\ insts' = insts \o Code(x)

\* H2MirProgramBuilderInsertInst at place index (from 0) of function k of fs: the
\* functions behind it move.
Moved(fs, k, abs) ==
    [j \in DOMAIN fs |->
        CASE j = k -> [fs[j] EXCEPT !.len = @ + 1]
          [] j > k /\ fs[j].start >= abs -> [fs[j] EXCEPT !.start = @ + 1]
          [] OTHER -> fs[j]]

InsertInst(code, k, index, ins) ==
    LET abs == funcs[k].start + index
    IN /\ insts' = InsertAt(code, abs + 1, ins)
       /\ funcs' = Moved(funcs, k, abs)

----------------------------------------------------------------------------
(***************************************************************************)
(* What the walk finds at the place of a frame.                            *)
(***************************************************************************)
Top == Last(frames)
InFunction(f) == funcs[f.fn].item \in Functions

\* HOPEvalMirResolveQualifiedValueLoadTargetForFile: a name of an import and a
\* field of it, which may be a constant, a variable or a function.
IsQualified(f) ==
    /\ insts[f.at].op = "LOAD_IDENT" /\ insts[f.at].name \in world.imports
    /\ f.at < Len(insts)
    /\ insts[f.at + 1].op = "AGG_GET" /\ insts[f.at + 1].name \in Items

\* HOPEvalMirResolveTopInitIdentTargetForFile, ...FunctionIdentTargetForFile: a
\* function leaves the names of variables alone, an initialiser does not.
IsLoad(f) ==
    /\ insts[f.at].op = "LOAD_IDENT"
    /\ insts[f.at].name \in Consts \cup Functions \cup (IF InFunction(f) THEN {} ELSE Vars)

\* A direct call, or a call by the name of a constant or variable whose
\* initialiser is the name of a function.
IsCall(f) ==
    /\ insts[f.at].op = "CALL"
    /\ insts[f.at].name \in Functions \cup DOMAIN world.alias

Refers(f) == f.at <= End(f.fn) /\ (IsQualified(f) \/ IsLoad(f) \/ IsCall(f))

Target(f) ==
    LET name == insts[f.at].name
    IN CASE IsQualified(f) -> insts[f.at + 1].name
         [] IsCall(f) /\ name \notin Functions -> world.alias[name]
         [] OTHER -> name

\* A function does not need the variable of another package: it loads it when run.
Optional(f) == IsQualified(f) /\ InFunction(f) /\ Target(f) \in Vars

\* What refers to function k of item x: its value, or a call that gives it.
Reference(x, k) == ToFunction(IF x \in Functions THEN "PUSH_CONST" ELSE "CALL_FN", k)

----------------------------------------------------------------------------
(***************************************************************************)
(* HOPEvalMirLowerFunction, HOPEvalMirLowerNamedTopInitVarLike and         *)
(* HOPEvalMirRewriteTopInitCalls.                                          *)
(***************************************************************************)
Advance(n) == frames' = [frames EXCEPT ![Len(frames)].at = @ + n]

\* The item is entered in the map before it is walked, so that recursion finds it;
\* the root is not when it is an initialiser (HOPEvalMirBuildTopInitProgram).
LowerItem(x, recorded) ==
    /\ AppendFunction(x)
    /\ frames' = Append(frames, [fn |-> Len(funcs) + 1, at |-> Len(insts) + 1])
    /\ mirOf' = IF recorded THEN [mirOf EXCEPT ![x] = Len(funcs) + 1] ELSE mirOf
    /\ status' = "lowering"
    /\ UNCHANGED world

Begin ==
    /\ status = "start"
    /\ IF world.root \in world.refused
       THEN status' = "unsupported" /\ UNCHANGED <<world, insts, funcs, mirOf, frames>>
       ELSE LowerItem(world.root, world.root \in Functions)

Walking == status = "lowering" /\ Top.at <= End(Top.fn)
Resolved == Walking /\ Refers(Top) /\ mirOf[Target(Top)] # 0

SkipInst ==
    /\ Walking /\ ~Refers(Top)
    /\ Advance(1)
    /\ UNCHANGED <<world, insts, funcs, mirOf, status>>

\* Variant: the walk of the caller goes on before its callee is lowered.
LowerTarget_Advances ==
    /\ Walking /\ Refers(Top)
    /\ mirOf[Target(Top)] = 0 /\ Target(Top) \notin world.refused
    /\ AppendFunction(Target(Top))
    /\ frames' = Append([frames EXCEPT ![Len(frames)].at = @ + 1],
                        [fn |-> Len(funcs) + 1, at |-> Len(insts) + 1])
    /\ mirOf' = [mirOf EXCEPT ![Target(Top)] = Len(funcs) + 1]
    /\ UNCHANGED <<world, status>>
LowerTarget ==
    /\ Walking /\ Refers(Top)
    /\ mirOf[Target(Top)] = 0 /\ Target(Top) \notin world.refused
    /\ LowerItem(Target(Top), TRUE)

\* The target cannot be lowered: 0 is returned to the caller.
RefuseTarget ==
    /\ Walking /\ Refers(Top)
    /\ mirOf[Target(Top)] = 0 /\ Target(Top) \in world.refused
    /\ status' = "failing"
    /\ UNCHANGED <<world, insts, funcs, mirOf, frames>>

KeepOptional ==
    /\ Resolved /\ Optional(Top)
    /\ Advance(1)
    /\ UNCHANGED <<world, insts, funcs, mirOf, status>>

\* HOPEvalMirRewriteQualifiedValueLoad: the two instructions do nothing any more,
\* a third one behind them has the value.
\* Variant: it is put between them.
BehindQualified_Between(at) == at
BehindQualified(at) == at + 1

RewriteQualified ==
    /\ Resolved /\ IsQualified(Top) /\ ~Optional(Top)
    /\ LET at == Top.at
           ins == From(Reference(Target(Top), mirOf[Target(Top)]), Place(at + 1))
           code == [insts EXCEPT ![at] = From(Plain("PUSH_NULL"), Place(at)),
                                 ![at + 1] = From(Plain("DROP"), Place(at + 1))]
       IN InsertInst(code, Top.fn, BehindQualified(at) - funcs[Top.fn].start, ins)
    /\ Advance(3)
    /\ UNCHANGED <<world, mirOf, status>>

\* The other references are rewritten in place.
RewriteInst ==
    /\ Resolved /\ ~IsQualified(Top)
    /\ LET k == mirOf[Target(Top)]
           ins == IF IsCall(Top) THEN ToFunction("CALL_FN", k) ELSE Reference(Target(Top), k)
       IN insts' = [insts EXCEPT ![Top.at] = From(ins, Place(Top.at))]
    /\ Advance(1)
    /\ UNCHANGED <<world, funcs, mirOf, status>>

FinishItem ==
    /\ status = "lowering" /\ Top.at > End(Top.fn)
    /\ frames' = Front(frames)
    /\ status' = IF Len(frames) = 1 THEN "done" ELSE "lowering"
    /\ UNCHANGED <<world, insts, funcs, mirOf>>

\* Returning 0: the item leaves the map, its function stays in the program; what
\* is optional is passed over.
\* Variant: the map keeps the item.
Forget_Never(x) == mirOf
Forget(x) == [mirOf EXCEPT ![x] = 0]
FailItem ==
    /\ status = "failing" /\ ~Optional(Top)
    /\ mirOf' = Forget(funcs[Top.fn].item)
    /\ frames' = Front(frames)
    /\ status' = IF Len(frames) = 1 THEN "unsupported" ELSE "failing"
    /\ UNCHANGED <<world, insts, funcs>>

GoOnWithout ==
    /\ status = "failing" /\ Optional(Top)
    /\ Advance(1)
    /\ status' = "lowering"
    /\ UNCHANGED <<world, insts, funcs, mirOf>>

Finished == status \in {"done", "unsupported"} /\ UNCHANGED vars

Init ==
    /\ world \in Worlds
    /\ insts = <<>> /\ funcs = <<>> /\ frames = <<>>
    /\ mirOf = [x \in Items |-> 0]
    /\ status = "start"

Next ==
    \/ Begin
    \/ SkipInst \/ LowerTarget \/ RefuseTarget \/ KeepOptional
    \/ RewriteQualified \/ RewriteInst
    \/ FinishItem \/ FailItem \/ GoOnWithout
    \/ Finished

Spec == Init /\ [][Next]_vars

----------------------------------------------------------------------------
(***************************************************************************)
(* Properties.                                                             *)
(***************************************************************************)
\* While an item is lowered, the walks that wait for it keep their place: each still
\* stands on the instruction that named the next item, so instIndex may be used
\* again after HOPEvalMirLowerFunction.
WaitingKeepPlace ==
    \A n \in 1 .. Len(frames) - 1 :
        /\ frames[n].fn < frames[n + 1].fn
        /\ Refers(frames[n])
        /\ Target(frames[n]) = funcs[frames[n + 1].fn].item

\* Function k is still walked.
Finishing(k) == \E n \in DOMAIN frames : frames[n].fn = k
\* Its instructions, numbered from 1; rank 2 is the second that stands for its place.
At(k, q) == insts[funcs[k].start + q]
Rank(k, q) == IF q > 1 /\ At(k, q - 1).of = At(k, q).of THEN 2 ELSE 1
ToFunctionOps == {"CALL_FN", "PUSH_CONST"}
Gives(ins) == <<ins.op, IF ins.op \in ToFunctionOps THEN funcs[ins.num].item ELSE ins.name>>

\* What the code of x should have at place p: a variable is kept in a function.
Refer(y) == <<IF y \in Functions THEN "PUSH_CONST" ELSE "CALL_FN", y>>
Kept(x, y) == y \notin Items \/ (x \in Functions /\ y \in Vars)
FieldOfImport(code, p) ==
    /\ p - 1 \in DOMAIN code /\ p \in DOMAIN code
    /\ code[p - 1].op = "LOAD_IDENT" /\ code[p - 1].name \in world.imports
    /\ code[p].op = "AGG_GET" /\ code[p].name \in Items
Rewritten(x, p) == FieldOfImport(world.code[x], p) /\ ~Kept(x, world.code[x][p].name)
Meant(x, p) ==
    LET code == world.code[x]
        name == code[p].name
    IN CASE Rewritten(x, p) -> <<<<"DROP", "">>, Refer(name)>>
         [] Rewritten(x, p + 1) -> <<<<"PUSH_NULL", "">>>>
         [] code[p].op = "LOAD_IDENT" /\ ~FieldOfImport(code, p + 1) /\ ~Kept(x, name) ->
                <<Refer(name)>>
         [] code[p].op = "CALL" /\ name \in Functions \cup DOMAIN world.alias ->
                <<<<"CALL_FN", IF name \in Functions THEN name ELSE world.alias[name]>>>>
         [] OTHER -> <<<<code[p].op, name>>>>

\* Instruction q of function k, which has the code of x, is what is meant at its
\* place, and the one behind it is the next that is meant.
InOrder(x, k, q) ==
    LET p == At(k, q).of[2]
        r == Rank(k, q)
        meant == Meant(x, p)
    IN /\ r \in DOMAIN meant /\ Gives(At(k, q)) = meant[r]
       /\ IF r < Len(meant)
          THEN q < funcs[k].len /\ At(k, q + 1).of = <<k, p>>
          ELSE IF p < Len(world.code[x])
               THEN q < funcs[k].len /\ At(k, q + 1).of = <<k, p + 1>>
               ELSE q = funcs[k].len

\* docs/mir.md:139: the target of a jump is an instruction of its function.  It is
\* where it was when the code was lowered, unless an instruction was inserted
\* before it in the same function (README, "Known disagreements").
JumpLands(k, q) ==
    At(k, q).op \in {"JUMP", "JUMP_IF_FALSE"} =>
        LET to == At(k, q).num + 1
        IN /\ to \in 1 .. funcs[k].len
           /\ \/ At(k, to).of = <<k, to>>
              \/ \E r \in 1 .. to - 1 : At(k, r).of = At(k, r + 1).of

\* The code of an item that was lowered is its source, from its first place to its
\* last and in order, with each reference replaced by one to a function of the item
\* it names, and that leaves one value; its jumps go where they went, however the
\* function moved.
RewrittenAsMeant ==
    \A x \in Items : mirOf[x] # 0 /\ ~Finishing(mirOf[x]) =>
        LET k == mirOf[x]
        IN /\ At(k, 1).of = <<k, 1>>
           /\ \A q \in 1 .. funcs[k].len : InOrder(x, k, q) /\ JumpLands(k, q)
=============================================================================
