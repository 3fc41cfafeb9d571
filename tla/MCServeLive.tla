---------------------------- MODULE MCServeLive ----------------------------
(* ServeLive with a small channel, for TLC.                                *)
EXTENDS ServeLive
=============================================================================
