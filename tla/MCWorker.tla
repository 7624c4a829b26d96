------------------------------ MODULE MCWorker ------------------------------
(***************************************************************************)
(* Worker with two tasks, stacked up to MaxStacked times in all.           *)
(***************************************************************************)
EXTENDS Worker, TLC

CONSTANTS t1, t2

TaskSymmetry == Permutations(Tasks)
=============================================================================
