---------------------------- MODULE MCSupervisor ----------------------------
(* Supervisor with a fixed app port on a few processes, for TLC.           *)
EXTENDS Supervisor
=============================================================================
