------------------------------- MODULE MCPool -------------------------------
(***************************************************************************)
(* Pools of up to three Workers; all constants are set in the cfg file.   *)
(***************************************************************************)
EXTENDS Pool
=============================================================================
