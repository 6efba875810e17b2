----------------------------- MODULE PackageMir -----------------------------
(***************************************************************************)
(* The whole-program MIR of src/src/hop_mir.c: after every function of a   *)
(* program is lowered on its own, passes over the instructions bind names  *)
(* and calls (ResolvePackageMirProgram), turn calls of function fields     *)
(* into indirect calls, and insert the code of an allocation's count,      *)
(* allocator and initialisers.  Each pass moves instructions and maps the  *)
(* jumps.  The code is then run, or refused as a back end would refuse it. *)
(***************************************************************************)
EXTENDS PackageSource

CONSTANT Programs   \* the functions, with the struct they allocate, see MCPackageMir

VARIABLES
    prog,    \* the function as written
    stage,   \* the pass that is next
    code,    \* its MIR; a jump names the place it goes to
    locals,  \* the names of its locals, parameters first
    run,     \* the machine: place of the next instruction, stack, locals, heap
    out      \* what it computed, or "refused"

vars == <<prog, stage, code, locals, run, out>>

Refused == << >>
FieldNames == { prog.fields[i].name : i \in DOMAIN prog.fields }

-----------------------------------------------------------------------------
(* Where a call's arguments begin.                                         *)

\* Variant: a call is taken for one that leaves nothing.
DeltaCallLeavesNothing(i) ==
    CASE i.op \in {"PUSH_CONST", "LOAD_IDENT", "LOCAL_LOAD"} -> 1
      [] i.op \in {"AGG_GET", "JUMP"} -> 0
      [] i.op \in {"BINARY", "LOCAL_STORE", "AGG_SET", "DROP", "JUMP_IF_FALSE", "RETURN"} -> -1
      [] i.op \in {"CALL", "CALL_FN"} -> - i.argc

StackDelta(i) ==
    CASE i.op \in {"PUSH_CONST", "LOAD_IDENT", "LOCAL_LOAD"} -> 1
      [] i.op \in {"AGG_GET", "JUMP"} -> 0
      [] i.op \in {"BINARY", "LOCAL_STORE", "AGG_SET", "DROP", "JUMP_IF_FALSE", "RETURN"} -> -1
      [] i.op \in {"CALL", "CALL_FN"} -> 1 - i.argc

\* The latest place from which the code before `at` leaves argc values; an
\* instruction with no known effect ends the search.  0 when there is none.
ArgStart(c, at, argc) ==
    LET effect(from) == FoldLeft(LAMBDA sum, i : sum + StackDelta(i), 0, SubSeq(c, from, at - 1))
        known(from) == \A j \in from .. at - 1 : c[j].op # "ALLOC_NEW"
    IN  IF argc = 0 THEN 0
        ELSE Max({0} \cup { from \in 1 .. at - 1 : known(from) /\ effect(from) = argc })

-----------------------------------------------------------------------------
(* Binding names and calls.                                                *)

AliasCall(c, i) ==
    /\ c[i].op = "CALL" /\ c[i].recv
    /\ LET from == ArgStart(c, i, c[i].argc)
       IN  from # 0 /\ c[from].op = "LOAD_IDENT" /\ Named(c[from].n, c[i].n, "fn") # {}

AliasValue(c, i) ==
    /\ c[i].op = "AGG_GET" /\ i > 1 /\ c[i - 1].op = "LOAD_IDENT"
    /\ Named(c[i - 1].n, c[i].n, "value") # {}

\* The names of packages, which become part of the instruction that uses them.
Omitted(c) == { ArgStart(c, i, c[i].argc) : i \in { j \in DOMAIN c : AliasCall(c, j) } }
              \cup { i - 1 : i \in { j \in DOMAIN c : AliasValue(c, j) } }

\* The field that a call of a struct's function field goes through.
FieldCall(c, i) ==
    /\ c[i].op = "CALL" /\ c[i].recv /\ c[i].argc >= 2
    /\ ArgStart(c, i, c[i].argc) # 0
    /\ ArgStart(c, i, c[i].argc) < ArgStart(c, i, c[i].argc - 1)
    /\ c[i].n \in FieldNames

BoundName(i) ==
    CASE Named("", i.n, "value") # {} -> CallFn(Lowest(Named("", i.n, "value")), 0)
      [] Named("", i.n, "value") = {} /\ Named("", i.n, "fn") # {}
           -> Push(FnTerm(Lowest(Named("", i.n, "fn"))))
      [] OTHER -> i

BoundCall(c, i) ==
    CASE AliasCall(c, i)
           -> LET alias == c[ArgStart(c, i, c[i].argc)].n
              IN  CallFn(Lowest(Named(alias, c[i].n, "fn")), c[i].argc - 1)
      [] ~AliasCall(c, i) /\ c[i].num # 0 /\ ~FieldCall(c, i) -> CallFn(c[i].num, c[i].argc)
      [] OTHER -> c[i]

BoundInst(c, i) ==
    CASE c[i].op = "LOAD_IDENT" -> BoundName(c[i])
      [] c[i].op = "CALL" -> BoundCall(c, i)
      [] AliasValue(c, i) -> CallFn(Lowest(Named(c[i - 1].n, c[i].n, "value")), 0)
      [] OTHER -> c[i]

IsJump(i) == i.op \in {"JUMP", "JUMP_IF_FALSE"}

\* Variant: an omitted instruction at the place itself is counted too.
RemapCountsPlace(omit, to) == to - Cardinality({ i \in omit : i <= to })

\* A place after the omitted instructions before it are gone.
RemapPcAfterOmit(omit, to) == to - Cardinality({ i \in omit : i < to })

WithoutOmitted(c, omit) ==
    LET kept == SelectSeq([i \in DOMAIN c |-> i], LAMBDA i : i \notin omit)
        inst(i) == BoundInst(c, i)
    IN  [k \in DOMAIN kept |->
            IF IsJump(inst(kept[k])) THEN [inst(kept[k]) EXCEPT !.num = RemapPcAfterOmit(omit, @)]
            ELSE inst(kept[k])]

-----------------------------------------------------------------------------
(* Inserting code.  A pass gives, for every place, what goes before it and *)
(* what goes after it; a jump goes to what was inserted before its target. *)

Inserted(c, before, after) ==
    LET moved(to) == to + FoldLeft(LAMBDA sum, i : sum + Len(before[i]) + Len(after[i]), 0,
                                   [i \in 1 .. to - 1 |-> i])
        place(i) == IF IsJump(i) THEN [i EXCEPT !.num = moved(@)] ELSE i
    IN  FlattenSeq([i \in DOMAIN c |-> before[i] \o <<place(c[i])>> \o after[i]])

Nothing(c) == [i \in DOMAIN c |-> << >>]

\* The receiver of a call of a function field is replaced by the field; in a
\* program with such a call, every other call with a receiver is taken for one.
FieldCallsIndirect(c) ==
    LET calls == { i \in DOMAIN c : FieldCall(c, i) }
        after == [i \in DOMAIN c |->
                     IF \E k \in calls : i + 1 = ArgStart(c, k, c[k].argc - 1)
                     THEN <<Get(c[Some({ k \in calls : i + 1 = ArgStart(c, k, c[k].argc - 1) })].n)>>
                     ELSE << >>]
        indirect == [i \in DOMAIN c |->
                        IF c[i].op = "CALL" /\ c[i].recv /\ c[i].argc > 0
                        THEN [Inst("CALL_INDIRECT") EXCEPT !.argc = c[i].argc - 1] ELSE c[i]]
    IN  IF calls = {} THEN c ELSE Inserted(indirect, Nothing(c), after)

-----------------------------------------------------------------------------
(* The code of an allocation.  A name is the function's first local of     *)
(* that name.  Lowering gives a sequence with one piece of code, or << >>. *)

FirstLocal(n) == Lowest({ i \in DOMAIN locals : locals[i] = n })
IsLocal(n) == n \in ToSet(locals)

Joined(parts, last) ==
    IF << >> \in ToSet(parts) THEN << >>
    ELSE <<FlattenSeq([i \in DOMAIN parts |-> parts[i][1]]) \o last>>

RECURSIVE CountCode(_)
CountCode(e) ==
    CASE e.k = "int" -> <<<<Push(<<e.n>>)>>>>
      [] e.k = "name" /\ IsLocal(e.n) -> <<<<Load(FirstLocal(e.n))>>>>
      [] e.k = "add" -> Joined([i \in DOMAIN e.args |-> CountCode(e.args[i].e)], <<Inst("BINARY")>>)
      [] OTHER -> << >>

AllocatorCode(e) == IF e.k = "name" /\ IsLocal(e.n) THEN <<<<Load(FirstLocal(e.n))>>>> ELSE << >>

\* An initialiser of the object in `slot`: own says that it is written in the
\* function's file.
NameCode(n, slot, own) ==
    CASE own /\ IsLocal(n) -> <<<<Load(FirstLocal(n))>>>>
      [] ~(own /\ IsLocal(n)) /\ n \in FieldNames -> <<<<Load(slot), Get(n)>>>>
      [] OTHER -> << >>

RECURSIVE ValueCode(_, _, _)
ValueCode(e, slot, own) ==
    CASE e.k = "int" -> <<<<Push(<<e.n>>)>>>>
      [] e.k = "name" -> NameCode(e.n, slot, own)
      [] e.k = "add" -> Joined([i \in DOMAIN e.args |-> ValueCode(e.args[i].e, slot, own)],
                               <<Inst("BINARY")>>)
      [] e.k = "field" -> Joined(<<NameCode(e.n, slot, own)>>, <<Get(e.f)>>)
      [] OTHER -> << >>

SetField(slot, f, value) ==
    IF value = << >> THEN << >>
    ELSE <<<<Load(slot)>> \o value[1] \o <<[Inst("AGG_SET") EXCEPT !.n = f], Inst("DROP")>>>>

GivenCode(st, slot) ==
    [i \in DOMAIN st.init |-> SetField(slot, st.init[i].f, ValueCode(st.init[i].e, slot, TRUE))]

DefaultCode(st, slot) ==
    LET missing == SelectSeq(prog.fields, LAMBDA f : f.default # << >> /\ ~Given(st, f.name))
    IN  [i \in DOMAIN missing |->
            SetField(slot, missing[i].name, ValueCode(missing[i].default[1], slot, prog.same))]

\* The fields given in the order they are written, then the defaults of the
\* others; all of it or nothing.
PostInitCode(st, slot) == Joined(GivenCode(st, slot) \o DefaultCode(st, slot), << >>)

Stores(c, i) == i < Len(c) /\ c[i].op = "ALLOC_NEW" /\ c[i + 1].op = "LOCAL_STORE"
IsSlice(i) == i.ast[1].count # << >>

\* The count's size is taken first, for one kind of expression; that it can
\* not be lowered after all is an error.
RECURSIVE Countable(_)
Countable(e) == \/ e.k \in {"int", "name"}
                \/ e.k = "add" /\ \A i \in DOMAIN e.args : Countable(e.args[i].e)

OneOf(piece) == IF piece = << >> THEN << >> ELSE piece[1]

CountBefore(c, i) == IF Stores(c, i) /\ IsSlice(c[i]) THEN OneOf(CountCode(c[i].ast[1].count[1]))
                     ELSE << >>
CountFails(c, i) == Stores(c, i) /\ IsSlice(c[i]) /\ Countable(c[i].ast[1].count[1])
                    /\ CountCode(c[i].ast[1].count[1]) = << >>

HasAllocator(i) == i.op = "ALLOC_NEW" /\ "in" \in i.flags
AllocatorBefore(c, i) == IF HasAllocator(c[i]) THEN OneOf(AllocatorCode(c[i].ast[1].in[1])) ELSE << >>
AllocatorFails(c, i) == HasAllocator(c[i]) /\ c[i].ast[1].in[1].k = "name"
                        /\ AllocatorCode(c[i].ast[1].in[1]) = << >>

Struct(c, i) == Stores(c, i) /\ ~IsSlice(c[i])
InitAfter(c, i) ==
    IF i > 1 /\ Struct(c, i - 1) THEN OneOf(PostInitCode(c[i - 1].ast[1], c[i].num)) ELSE << >>
InitDone(c, i) ==
    IF Struct(c, i) /\ PostInitCode(c[i].ast[1], c[i + 1].num) # << >>
    THEN [c[i] EXCEPT !.flags = @ \ {"init"}] ELSE c[i]

-----------------------------------------------------------------------------
(* The machine.  What it does not accept, the types that the back end      *)
(* follows along the code would not accept either.                         *)

Top(k) == run.stack[Len(run.stack) - k + 1]
Below(k) == SubSeq(run.stack, 1, Len(run.stack) - k)
Topmost(k) == SubSeq(run.stack, Len(run.stack) - k + 1, Len(run.stack))

IsFn(term, argc) == \E d \in DOMAIN Decls : Decls[d].kind = "fn" /\ term = FnTerm(d)
                                            /\ Len(Decls[d].params) = argc
HasField(term, f) == IsPtr(term, run.heap) /\ f \in DOMAIN run.heap[Len(term)].fields

Legal(i) ==
    /\ Len(run.stack) >= CASE i.op \in {"LOCAL_STORE", "DROP", "JUMP_IF_FALSE", "RETURN", "AGG_GET"} -> 1
                           [] i.op \in {"BINARY", "AGG_SET"} -> 2
                           [] i.op = "CALL_FN" -> i.argc
                           [] i.op = "CALL_INDIRECT" -> i.argc + 1
                           [] i.op = "ALLOC_NEW" -> Cardinality(i.flags)
                           [] OTHER -> 0
    /\ i.op = "AGG_GET" => HasField(Top(1), i.n)
    /\ i.op = "AGG_SET" => HasField(Top(2), i.n)
    /\ i.op = "CALL_FN" => Len(Decls[i.num].params) = i.argc
    /\ i.op = "CALL_INDIRECT" => IsFn(Top(i.argc + 1), i.argc)

\* A new object, zeroed: fields, or what it was told of its size and allocator.
NewZeroed(i) ==
    [fields |-> [f \in (IF IsSlice(i) THEN {} ELSE FieldNames) |-> Nil],
     count  |-> IF "count" \in i.flags THEN Top(Cardinality(i.flags)) ELSE Nil,
     in     |-> IF "in" \in i.flags THEN Top(1) ELSE Nil]

Executed(i) ==
    LET after(popped, pushed) == [run EXCEPT !.pc = @ + 1, !.stack = Below(popped) \o pushed]
    IN  CASE i.op = "PUSH_CONST" -> after(0, <<i.val>>)
          [] i.op = "LOCAL_LOAD" -> after(0, <<run.vals[i.num]>>)
          [] i.op = "LOCAL_STORE" -> [after(1, << >>) EXCEPT !.vals[i.num] = Top(1)]
          [] i.op = "DROP" -> after(1, << >>)
          [] i.op = "BINARY" -> after(2, <<<<"+">> \o Top(2) \o Top(1)>>)
          [] i.op = "JUMP" -> [run EXCEPT !.pc = i.num]
          [] i.op = "JUMP_IF_FALSE" ->
                 [after(1, << >>) EXCEPT !.pc = IF Top(1) = True THEN @ ELSE i.num]
          [] i.op = "AGG_GET" -> after(1, <<run.heap[Len(Top(1))].fields[i.n]>>)
          [] i.op = "AGG_SET" -> [after(1, << >>) EXCEPT !.heap[Len(Top(2))].fields[i.n] = Top(1)]
          [] i.op = "CALL_FN" ->
                 after(i.argc, <<IF Decls[i.num].kind = "value" THEN ValueTerm(i.num)
                                 ELSE CallTerm(FnTerm(i.num), Topmost(i.argc))>>)
          [] i.op = "CALL_INDIRECT" ->
                 after(i.argc + 1, <<CallTerm(Top(i.argc + 1), Topmost(i.argc))>>)
          [] i.op = "ALLOC_NEW" -> [after(Cardinality(i.flags), <<Ptr(Len(run.heap) + 1)>>)
                                       EXCEPT !.heap = Append(@, NewZeroed(i))]

-----------------------------------------------------------------------------
Init ==
    /\ prog \in Programs
    /\ stage = "resolve"
    /\ code = Lowered(prog).code
    /\ locals = Lowered(prog).locals
    /\ run = [pc |-> 1, stack |-> << >>, heap |-> << >>,
              vals |-> [i \in DOMAIN locals |-> IF i \in DOMAIN prog.params THEN prog.params[i].arg
                                                ELSE Nil]]
    /\ out = << >>

Pass(from, to, c) == /\ stage = from /\ stage' = to
                     /\ code' = c
                     /\ UNCHANGED <<prog, locals, run, out>>
Refuse == /\ stage' = "done" /\ out' = Refused
          /\ UNCHANGED <<prog, code, locals, run>>

Resolve == Pass("resolve", "field calls", WithoutOmitted(code, Omitted(code)))
FuncFieldCalls == Pass("field calls", "counts", FieldCallsIndirect(code))
AllocCounts ==
    /\ ~\E i \in DOMAIN code : CountFails(code, i)
    /\ Pass("counts", "allocators",
            Inserted(code, [i \in DOMAIN code |-> CountBefore(code, i)], Nothing(code)))
AllocCountsFail == /\ stage = "counts" /\ Refuse
                   /\ \E i \in DOMAIN code : CountFails(code, i)
AllocAllocators ==
    /\ ~\E i \in DOMAIN code : AllocatorFails(code, i)
    /\ Pass("allocators", "inits",
            Inserted(code, [i \in DOMAIN code |-> AllocatorBefore(code, i)], Nothing(code)))
AllocAllocatorsFail == /\ stage = "allocators" /\ Refuse
                       /\ \E i \in DOMAIN code : AllocatorFails(code, i)
AllocInits ==
    Pass("inits", "emit", Inserted([i \in DOMAIN code |-> InitDone(code, i)], Nothing(code),
                                   [i \in DOMAIN code |-> InitAfter(code, i)]))

\* What the Wasm back end does not take.
Unsupported(c, i) ==
    \/ c[i].op \in {"CALL", "LOAD_IDENT"}
    \/ c[i].op = "ALLOC_NEW" /\ ("init" \in c[i].flags \/ ~Stores(c, i))

Emit == /\ ~\E i \in DOMAIN code : Unsupported(code, i)
        /\ Pass("emit", "run", code)
EmitFails == /\ stage = "emit" /\ Refuse
             /\ \E i \in DOMAIN code : Unsupported(code, i)

Step == /\ stage = "run" /\ Legal(code[run.pc]) /\ code[run.pc].op # "RETURN"
        /\ run' = Executed(code[run.pc])
        /\ UNCHANGED <<prog, stage, code, locals, out>>
Return == /\ stage = "run" /\ Legal(code[run.pc]) /\ code[run.pc].op = "RETURN"
          /\ stage' = "done" /\ out' = <<[heap |-> run.heap, value |-> Top(1)]>>
          /\ UNCHANGED <<prog, code, locals, run>>
IllTyped == stage = "run" /\ ~Legal(code[run.pc]) /\ Refuse

Next == \/ Resolve \/ FuncFieldCalls \/ AllocCounts \/ AllocCountsFail
        \/ AllocAllocators \/ AllocAllocatorsFail \/ AllocInits
        \/ Emit \/ EmitFails \/ Step \/ Return \/ IllTyped

Spec == Init /\ [][Next]_vars

-----------------------------------------------------------------------------
(* Programs on which the passes are known to differ from the language; the  *)
(* README lists what was seen of each.                                     *)

Written == UNION { SubExprs(e) : e \in StmtsExprs(prog.body) \cup {prog.value} }
Allocs == LET c == Lowered(prog).code
          IN  { [st |-> c[i].ast[1], env |-> c[i].env, slot |-> c[i + 1].num] :
                  i \in { j \in DOMAIN c : c[j].op = "ALLOC_NEW" } }
NamesOf(e) == { s.n : s \in { x \in SubExprs(e) : x.k \in {"name", "field"} } }
Defaults == { prog.fields[i].default[1] : i \in { j \in DOMAIN prog.fields :
                                                      prog.fields[j].default # << >> } }

\* Labels only where the position says the same.
ArgsInOrder == \A e \in Written : \A i \in DOMAIN e.args :
                   e.args[i].label = "" \/ e.args[i].label = Decls[e.fn].params[i]

\* A qualified call means the package's first function of that name; the name
\* that is called is not that of a function value.
FirstMeant == \A e \in Written :
    /\ e.k = "call" => Named("", e.n, "value") = {}
    /\ e.k = "dot" /\ Named(e.n, e.f, "fn") # {} => e.fn = Lowest(Named(e.n, e.f, "fn"))

\* In an allocation a name means the function's first local of that name,
\* which is not the one being assigned; and no default names a local.
NoCapture ==
    /\ \A al \in Allocs : \A e \in AllocExprs(al.st) : \A n \in NamesOf(e) :
         IF Bound(n, al.env)
         THEN /\ \A i \in DOMAIN locals : locals[i] = n => i >= Lookup(n, al.env)
              /\ Lookup(n, al.env) # al.slot
         ELSE ~IsLocal(n) /\ n \notin FieldNames
    /\ prog.same => \A e \in Defaults : \A n \in NamesOf(e) : ~IsLocal(n)

\* Every default is of a kind the allocation's code can be made from.
NoLostDefault == \A e \in Defaults : \A s \in SubExprs(e) : s.k \in {"int", "name", "field", "add"}

(* What a program that is built computes is what it means: the passes bind *)
(* every name and call to its declaration, keep every jump on the          *)
(* instruction it was for, and put an allocation's count, allocator and     *)
(* initialisers where they run once, in order, with the values meant        *)
(* (hop_mir.c:7501, 8170, 5847, 6250, 5595).                                *)
RunsAsWritten ==
    stage = "done" /\ ArgsInOrder /\ FirstMeant /\ NoCapture /\ NoLostDefault
        => out \in {Refused, <<Meaning(prog)>>}

(* Programs that keep to plain forms are built: a call's receiver is found *)
(* behind any arguments without && or an allocation, and no pass leaves a   *)
(* call, a name or an initialiser behind (hop_mir.c:7081, 8106, 5061).      *)
Plain ==
    /\ \A e \in Written :
         /\ e.k = "dot" => \A i \in DOMAIN e.args : \A s \in SubExprs(e.args[i].e) : s.k # "and"
         /\ e.k = "dot" /\ e.fn = 0 => e.args # << >>
         /\ e.k = "dot" /\ e.fn # 0 /\ Named(e.n, e.f, "fn") = {} => e.f \notin FieldNames
         /\ e.k = "call" => Named("", e.n, "value") = {}
    /\ FirstMeant
    /\ \A al \in Allocs :
         /\ \A e \in AllocExprs(al.st) : \A s \in SubExprs(e) :
              /\ s.k \in {"int", "name", "field", "add"}
              /\ s.k \in {"name", "field"} => IsLocal(s.n)
         /\ \A e \in ToSet(al.st.count) : \A s \in SubExprs(e) : s.k # "field"
         /\ \A e \in ToSet(al.st.in) : e.k = "name"
    /\ NoLostDefault
PlainIsBuilt == stage = "done" /\ Plain => out # Refused
=============================================================================
