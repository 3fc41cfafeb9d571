------------------------------ MODULE MCBench ------------------------------
(* Bench with a few tasks, in all of its modes, for TLC.                   *)
EXTENDS Bench, TLC
=============================================================================
