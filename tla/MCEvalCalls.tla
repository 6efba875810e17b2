---------------------------- MODULE MCEvalCalls ----------------------------
(***************************************************************************)
(* EvalCalls for TLC: two functions of two files, a function value and     *)
(* two globals whose initialisers may read each other.                     *)
(***************************************************************************)
EXTENDS EvalCalls, TLC
CONSTANTS main, f, h, x, y, fileA, fileB
MCFunctions == {main, f}
MCAnonymous == {h}
MCGlobals == {x, y}
MCFileOf == main :> fileA @@ f :> fileB @@ h :> fileA @@ x :> fileB @@ y :> fileA
=============================================================================
