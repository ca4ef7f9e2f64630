------------------------------ MODULE MCFiller ------------------------------
(***************************************************************************)
(* Two responses over an object of two slices whose second version is      *)
(* shorter: one response needs both slices, the other only the last.       *)
(***************************************************************************)
EXTENDS Filler

CONSTANTS r1, r2

MCRequests == {r1, r2}
MCTasks == {<<r1, 0>>, <<r1, 1>>, <<r2, 1>>}
Shrinks == <<2, 1>>
Constant == <<2, 2>>
=============================================================================
