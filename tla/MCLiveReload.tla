---------------------------- MODULE MCLiveReload ----------------------------
(* LiveReload with two lists of errors, whose ids name other locations.    *)
EXTENDS LiveReload, TLC

CONSTANTS d1, d2, l1, l2, l3

MCTargets == d1 :> <<l1>> @@ d2 :> <<l2, l3>> @@ NoDiagnostics :> <<>>
=============================================================================
