---------------------------- MODULE BuildEvents ----------------------------
(***************************************************************************)
(* What the dev server's supervisor promises the rest of the program: the  *)
(* order in which build events are broadcast, the sticky status replayed   *)
(* to browsers that connect late, and when the proxy starts to forward to  *)
(* a new app.  Supervisor implements this module; LiveReload relies on it  *)
(* and on nothing else of the supervisor.                                  *)
(*                                                                         *)
(* A broadcast is two steps, as in Supervisor::broadcast: the status is    *)
(* updated under its lock, and only then is the event put on the channel.  *)
(* Whatever a websocket handler does may fall between the two.             *)
(***************************************************************************)

CONSTANTS Diagnostics,    \* the lists of diagnostics a failing build can report
          NoDiagnostics,  \* the empty open-target table of a fresh dev server
          NoEvent         \* absence of an event or of a status

VARIABLES phase,        \* "building", "swapping", "shifted" or "quiet"
          step,         \* "run", "announce" (lock status) or "send" (to the channel)
          event,        \* the event being broadcast, NoEvent when step = "run"
          status,       \* the sticky status: an event or NoEvent
          openTargets,  \* the diagnostics whose locations the editor may open
          up            \* the proxy has been given an app's port at least once

buildVars == <<phase, step, event, status, openTargets, up>>

EventTypes == {"Rebuild", "CompileError", "BuildSuccess", "Restarted"}
EventOf(type, diagnostics) == [type |-> type, diagnostics |-> diagnostics]
Plain(type) == EventOf(type, NoDiagnostics)
Event == [type : EventTypes, diagnostics : Diagnostics \cup {NoDiagnostics}]

\* The status a broadcast of e leaves behind when it was s before.
Sticky(e, s) == CASE e.type \in {"Rebuild", "CompileError"} -> e
                  [] e.type = "BuildSuccess"               -> NoEvent
                  [] OTHER                                 -> s

TypeOK == /\ phase \in {"building", "swapping", "shifted", "quiet"}
          /\ step \in {"run", "announce", "send"}
          /\ event \in Event \cup {NoEvent}
          /\ status \in Event \cup {NoEvent}
          /\ openTargets \in Diagnostics \cup {NoDiagnostics}
          /\ up \in BOOLEAN

\* The supervisor starts with a build nobody asked for: no Rebuild precedes it.
Init == /\ phase = "building"
        /\ step = "run"
        /\ event = NoEvent
        /\ status = NoEvent
        /\ openTargets = NoDiagnostics
        /\ up = FALSE
-----------------------------------------------------------------------------
Announce(e) == /\ step = "run"
               /\ event' = e
               /\ step' = "announce"
               /\ UNCHANGED status

\* A change was noticed.
Rebuild == /\ phase = "quiet"
           /\ phase' = "building"
           /\ Announce(Plain("Rebuild"))
           /\ UNCHANGED <<openTargets, up>>

\* Mutant: the table of targets stays that of the failed build before.
CompileErrorKeepsTable(d) == /\ phase = "building"
                             /\ phase' = "quiet"
                             /\ Announce(EventOf("CompileError", d))
                             /\ UNCHANGED <<openTargets, up>>

\* The build failed: the table of targets is replaced before the event goes out.
CompileError(d) == /\ phase = "building"
                   /\ phase' = "quiet"
                   /\ openTargets' = d
                   /\ Announce(EventOf("CompileError", d))
                   /\ UNCHANGED up

BuildSuccess == /\ phase = "building"
                /\ phase' = "swapping"
                /\ Announce(Plain("BuildSuccess"))
                /\ UNCHANGED <<openTargets, up>>

\* The build ended, or the new app could not be started, and no event says so.
GiveUp == /\ step = "run"
          /\ phase \in {"building", "swapping"}
          /\ phase' = "quiet"
          /\ UNCHANGED <<step, event, status, openTargets, up>>

\* The app exited on its own; a replacement is started without any build.
Respawn == /\ step = "run"
           /\ phase = "quiet"
           /\ phase' = "swapping"
           /\ UNCHANGED <<step, event, status, openTargets, up>>

\* The proxy forwards to the new app from here on.
PointProxy == /\ step = "run"
              /\ phase = "swapping"
              /\ phase' = "shifted"
              /\ up' = TRUE
              /\ UNCHANGED <<step, event, status, openTargets>>

Restarted == /\ phase = "shifted"
             /\ phase' = "quiet"
             /\ Announce(Plain("Restarted"))
             /\ UNCHANGED <<openTargets, up>>

SetStatus == /\ step = "announce"
             /\ status' = Sticky(event, status)
             /\ step' = "send"
             /\ UNCHANGED <<phase, event, openTargets, up>>

Send == /\ step = "send"
        /\ step' = "run"
        /\ event' = NoEvent
        /\ UNCHANGED <<phase, status, openTargets, up>>

\* Everything but Send, which LiveReload joins with the channel.
Quietly == \/ Rebuild \/ BuildSuccess \/ GiveUp \/ Respawn \/ PointProxy
           \/ Restarted \/ SetStatus
           \/ \E d \in Diagnostics : CompileError(d)

Next == Quietly \/ Send

Spec == Init /\ [][Next]_buildVars
=============================================================================
