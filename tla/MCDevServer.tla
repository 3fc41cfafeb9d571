---------------------------- MODULE MCDevServer ----------------------------
(* The dev server's threads on two app processes, for TLC.                 *)
EXTENDS DevServer
=============================================================================
