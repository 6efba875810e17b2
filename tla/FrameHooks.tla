----------------------------- MODULE FrameHooks -----------------------------
(***************************************************************************)
(* What the MIR executor promises to the program that embeds it (the       *)
(* evaluator and the type checker's constant evaluator): the four hooks of *)
(* H2MirExecEnv are called like brackets.  enterFunction opens a call;     *)
(* bindFrame publishes the frame of the innermost open call, and only      *)
(* while every outer call is published; unbindFrame and leaveFunction      *)
(* close the innermost call, in that order.                                *)
(***************************************************************************)
EXTENDS Naturals, Sequences

CONSTANT Function     \* what enterFunction names: the indices of functions

VARIABLE calls        \* the open calls, innermost last

Call == [fn : Function, published : BOOLEAN]

Innermost == Len(calls)

Init == calls = << >>

\* enterFunction: only a published call can make another one.
Enter(f) ==
    /\ calls # << >> => calls[Innermost].published
    /\ calls' = Append(calls, [fn |-> f, published |-> FALSE])

\* bindFrame
Publish ==
    /\ calls # << >>
    /\ ~calls[Innermost].published
    /\ calls' = [calls EXCEPT ![Innermost].published = TRUE]

\* unbindFrame
Withdraw ==
    /\ calls # << >>
    /\ calls[Innermost].published
    /\ calls' = [calls EXCEPT ![Innermost].published = FALSE]

\* leaveFunction
Leave ==
    /\ calls # << >>
    /\ ~calls[Innermost].published
    /\ calls' = SubSeq(calls, 1, Innermost - 1)

Next == (\E f \in Function : Enter(f)) \/ Publish \/ Withdraw \/ Leave

Spec == Init /\ [][Next]_calls
=============================================================================
