------------------------------ MODULE MCMirExec ------------------------------
(* Programs for TLC: the shapes the lowering emits, and ones it must not.  *)
EXTENDS MirExec

CONSTANT MaxLen    \* bound: length of the enumerated functions

I(op, aux, argc) == [op |-> op, aux |-> aux, argc |-> argc, drop |-> FALSE, pre |-> FALSE]
F(params, locals, insts, height) ==
    [paramCount |-> params, localStart |-> 0, localCount |-> locals,
     captureCount |-> 0, typeRef |-> {0},
     variadic |-> FALSE, entry |-> FALSE, insts |-> insts, height |-> height]
P(funcs) == [funcs |-> funcs, locals |-> << {0}, {0}, {}, {0} >>,
             constLen |-> 2, fnConsts |-> {1}, symbolLen |-> 1,
             typeLen |-> 1, hostLen |-> 1, fieldLen |-> 1]

\* for k, v in local0 { k = host(v) }   (keyed iteration, host call in the body)
ForIn(argc) ==
    F(1, 4, << I("LOCAL_LOAD", 0, 0), I("ITER_INIT", 0, 0), I("LOCAL_STORE", 1, 0),
               I("LOCAL_LOAD", 1, 0), I("ITER_NEXT", 0, argc), I("JUMP_IF_FALSE", 11, 0),
               I("LOCAL_STORE", 2, 0),
               IF argc = 2 THEN I("LOCAL_STORE", 3, 0) ELSE I("LOCAL_ZERO", 3, 0),
               I("LOCAL_LOAD", 2, 0), I("JUMP_IF_FALSE", 3, 0), I("JUMP", 3, 0),
               I("RETURN_VOID", 0, 0) >>,
            << 0, 1, 1, 0, 1, 1, argc, argc - 1, 0, 1, 0, 0 >>)

\* fn f(n) { if n { return f(n) + g(n) } return 1 } with g a variadic function
\* called with a dropped receiver, and a function-value entry called indirectly.
Recursive ==
    F(1, 1, << I("LOCAL_LOAD", 0, 0), I("JUMP_IF_FALSE", 8, 0), I("LOCAL_LOAD", 0, 0),
               I("CALL_FN", 0, 1), I("LOCAL_LOAD", 0, 0),
               [I("CALL_FN", 1, 1) EXCEPT !.drop = TRUE], I("BINARY", 0, 0),
               I("RETURN", 0, 0), I("PUSH_INT", 0, 0), I("RETURN", 0, 0) >>,
            << 0, 1, 0, 1, 1, 2, 2, 1, 0, 1 >>)
Variadic ==
    [F(1, 1, << I("PUSH_NULL", 0, 0), I("LOCAL_ADDR", 0, 0), I("MAKE_CLOSURE", 1, 1),
                I("PUSH_INT", 0, 0), I("CALL_INDIRECT", 0, 1), I("DEREF_STORE", 0, 0),
                I("RETURN_VOID", 0, 0) >>,
             << 0, 1, 2, 2, 3, 2, 0 >>) EXCEPT !.variadic = TRUE, !.localStart = 1]
Entry ==
    [F(2, 2, << I("CAPTURE_LOAD", 0, 0), I("LOCAL_STORE", 0, 0), I("LOCAL_LOAD", 0, 0),
                I("CALL_HOST", 0, 1), I("RETURN", 0, 0) >>,
             << 0, 1, 0, 1, 1 >>)
     EXCEPT !.entry = TRUE, !.captureCount = 1, !.localStart = 2]

\* Programs the executor must survive: no stack map, or refused outright.
Underflow == F(0, 0, << I("PUSH_INT", 0, 0), I("BINARY", 0, 0), I("RETURN", 0, 0) >>,
               << 0, 1, 1 >>)
FallsOff  == F(0, 0, << I("PUSH_INT", 0, 0) >>, << 0 >>)
\* A call that resolveCallPre answers although its argument was pushed.
PreCall   == F(0, 0, << I("PUSH_INT", 0, 0), [I("CALL", 0, 1) EXCEPT !.pre = TRUE],
                        I("RETURN", 0, 0) >>, << 0, 1, 1 >>)
Spin      == F(0, 1, << I("LOCAL_LOAD", 0, 0), I("JUMP_IF_FALSE", 0, 0), I("JUMP", 2, 0) >>,
               << 0, 1, 0 >>)
WildJump  == F(0, 0, << I("JUMP", 1, 0) >>, << 0 >>)
WildCall  == F(0, 0, << I("CALL_FN", 1, 0), I("RETURN_VOID", 0, 0) >>, << 0, 1 >>)
\* A variadic callee whose pack has no type, or no local, of the program's tables.
CallsPack  == F(0, 0, << I("CALL_FN", 1, 0), I("RETURN", 0, 0) >>, << 0, 1 >>)
PackAt(i)  == [F(1, 1, << I("RETURN_VOID", 0, 0) >>, << 0 >>)
                  EXCEPT !.variadic = TRUE, !.localStart = i]
Untyped(i) == [P(<< CallsPack, PackAt(i) >>) EXCEPT !.locals = << {}, {1} >>]
\* Type indices that are tested when they are used only.
ZeroType   == F(0, 0, << I("AGG_ZERO", 1, 0), I("RETURN", 0, 0) >>, << 0, 1 >>)
ResultType == [F(0, 0, << I("PUSH_INT", 0, 0), I("RETURN", 0, 0) >>, << 0, 1 >>)
                  EXCEPT !.typeRef = {1}]
Grows     == F(0, 0, << I("PUSH_INT", 0, 0), I("JUMP", 0, 0) >>, << 0, 1 >>)

MCPrograms == { P(<< ForIn(2) >>), P(<< ForIn(1) >>), P(<< Recursive, Variadic, Entry >>),
                P(<< Underflow >>), P(<< FallsOff >>), P(<< PreCall >>), P(<< Spin >>),
                P(<< WildJump >>), P(<< WildCall >>), P(<< Grows >>),
                P(<< ZeroType >>), P(<< CallsPack, ResultType >>),
                Untyped(0), Untyped(1), Untyped(2) }

\* The first three have a stack map; of the others only the spinning loop, and the
\* programs with wrong calls, packs and types.
ASSUME MCStackMapsAssumption ==
    { p \in MCPrograms : WellStacked(p) } =
        { P(<< ForIn(2) >>), P(<< ForIn(1) >>), P(<< Recursive, Variadic, Entry >>),
          P(<< Spin >>), P(<< WildCall >>), P(<< ZeroType >>),
          P(<< CallsPack, ResultType >>), Untyped(0), Untyped(1), Untyped(2) }

-----------------------------------------------------------------------------
(* Every function of up to MaxLen instructions over the templates below     *)
(* that has a stack map (heights up to 2), each as a program of its own.    *)

Mapped(code, height) ==
    [paramCount |-> 1, localStart |-> 0, localCount |-> 1, captureCount |-> 0,
     typeRef |-> {}, variadic |-> FALSE, entry |-> FALSE, insts |-> code, height |-> height]

Code(n) ==
    LET T == { I("LOCAL_LOAD", 0, 0), I("DROP", 0, 0), I("BINARY", 0, 0),
               I("CALL_FN", 0, 1), I("ITER_NEXT", 0, 2), I("RETURN", 0, 0) }
             \cup { I(op, t, 0) : op \in {"JUMP", "JUMP_IF_FALSE"}, t \in 0 .. n - 1 }
    IN  [1 .. n -> T]

Maps(code) ==
    { h \in { << 0 >> \o rest : rest \in [1 .. Len(code) - 1 -> 0 .. 2] } :
        WellStackedFn(Mapped(code, h)) }

SmallPrograms ==
    { [funcs |-> << Mapped(code, CHOOSE h \in Maps(code) : TRUE) >>,
       locals |-> << {} >>, constLen |-> 0, fnConsts |-> {}, symbolLen |-> 0, typeLen |-> 0, hostLen |-> 0, fieldLen |-> 0]
      : code \in { c \in UNION { Code(n) : n \in 1 .. MaxLen } : Maps(c) # {} } }

AllPrograms == MCPrograms \cup SmallPrograms
=============================================================================
