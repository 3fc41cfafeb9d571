----------------------------- MODULE Supervisor -----------------------------
(***************************************************************************)
(* The dev server's supervisor thread (src/dev_server.rs, Supervisor), the *)
(* app processes it starts, and the threads that retire them.              *)
(*                                                                         *)
(* pc is where the supervisor stands:                                      *)
(*   "build"     `cargo build` runs                                        *)
(*   "announce"  a broadcast is about to lock the sticky status            *)
(*   "send"      ... and then about to put its event on the channel        *)
(*   "idle"      in recv_timeout, waiting for a trigger                    *)
(*   "stop"      the fixed-port path waits for the old app to be gone      *)
(*   "spawn"     about to start the executable of the last good build      *)
(*   "wait"      the new app was started, wait_until_listening runs        *)
(*   "handoff"   the proxy has the new port, the old app is still to retire*)
(* `old` is the local of the same name in hot_swap: the app that serves    *)
(* while its successor comes up.                                           *)
(***************************************************************************)
EXTENDS Naturals

CONSTANTS Process,        \* the app processes that can ever be started
          None,           \* no process
          Pinned,         \* TRUE when --app-port fixes the app's port
          FixedPort,      \* that port; a rotating port is named by its process
          MaxVersion,     \* bound: the sources are edited up to this version
          MaxQueue,       \* bound: triggers waiting in the mpsc channel
          Diagnostics,    \* what a failing build can report
          NoDiagnostics, NoEvent

ASSUME ProcessAssumption == None \notin Process
ASSUME PortAssumption == /\ Pinned \in BOOLEAN
                         /\ FixedPort \notin Process \cup {None}
ASSUME BoundAssumption == MaxVersion \in Nat /\ MaxQueue \in Nat

VARIABLES pc, event, status, openTargets,
          sources,   \* version of the watched sources
          queue,     \* triggers sent and not received yet
          built,     \* version the last build started from
          exe,       \* version of the last executable, 0 when there is none
          child,     \* Supervisor.child
          old,       \* hot_swap's `old`, or the child that stop() waits for
          upstream,  \* the port the proxy forwards to, None for port 0
          heard,     \* `listening`: the wait of this swap met a listener
          proc,      \* what the operating system knows of each process
          version,   \* version of the executable each process runs
          reap       \* how far reap_child has come with each process

events == <<event, status, openTargets>>
sourceVars == <<sources, queue, built, exe>>
apps == <<child, old, upstream, heard, proc, version, reap>>
vars == <<pc, event, status, openTargets, sources, queue, built, exe,
          child, old, upstream, heard, proc, version, reap>>

\* The supervisor as BuildEvents sees it.
Step == IF pc \in {"announce", "send"} THEN pc ELSE "run"
Phase == IF pc = "build" \/ (Step # "run" /\ event.type = "Rebuild")
           THEN "building"
         ELSE IF \/ pc \in {"stop", "spawn", "wait"}
                 \/ Step # "run" /\ event.type = "BuildSuccess"
           THEN "swapping"
         ELSE IF pc = "handoff" THEN "shifted" ELSE "quiet"
Up == upstream # None

B == INSTANCE BuildEvents WITH phase <- Phase, step <- Step, up <- Up

ASSUME EventAssumption == NoEvent \notin B!Event

\* A process that has not exited; a process whose exit status is not collected.
Live == {"starting", "listening", "draining"}
Unreaped == Live \cup {"exited"}

PortOf(p) == IF Pinned THEN FixedPort ELSE p
ListeningOn(port) == {p \in Process : proc[p] = "listening" /\ PortOf(p) = port}

\* The processes whose reap_child is still running.
Reaping == {p \in Process : reap[p] \notin {"no", "done"}}

TypeOK == /\ pc \in {"build", "announce", "send", "idle", "stop", "spawn",
                     "wait", "handoff"}
          /\ event \in B!Event \cup {NoEvent}
          /\ status \in B!Event \cup {NoEvent}
          /\ openTargets \in Diagnostics \cup {NoDiagnostics}
          /\ sources \in Nat /\ queue \in Nat /\ built \in Nat /\ exe \in Nat
          /\ child \in Process \cup {None}
          /\ old \in Process \cup {None}
          /\ upstream \in Process \cup {None, FixedPort}
          /\ heard \in BOOLEAN
          /\ proc \in [Process -> Unreaped \cup {"unused", "reaped"}]
          /\ version \in [Process -> Nat]
          /\ reap \in [Process -> {"no", "start", "term", "again", "kill", "done"}]

Init == /\ pc = "build"
        /\ event = NoEvent /\ status = NoEvent /\ openTargets = NoDiagnostics
        /\ sources = 1 /\ queue = 0 /\ built = 1 /\ exe = 0
        /\ child = None /\ old = None /\ upstream = None /\ heard = FALSE
        /\ proc = [p \in Process |-> "unused"]
        /\ version = [p \in Process |-> 0]
        /\ reap = [p \in Process |-> "no"]
-----------------------------------------------------------------------------
(* The world: edits, signals to the dev server, and the apps.              *)

\* A relevant change: the watcher sends a trigger for it.
Edit == /\ sources < MaxVersion
        /\ queue < MaxQueue
        /\ sources' = sources + 1
        /\ queue' = queue + 1
        /\ UNCHANGED <<pc, events, built, exe, apps>>

\* SIGHUP asks for a rebuild though nothing changed.
Hangup == /\ queue < MaxQueue
          /\ queue' = queue + 1
          /\ UNCHANGED <<pc, events, sources, built, exe, apps>>

AppBecomes(p, from, to) == /\ proc[p] \in from
                           /\ proc' = [proc EXCEPT ![p] = to]
                           /\ UNCHANGED <<pc, events, sourceVars, child, old,
                                          upstream, heard, version, reap>>

\* The app binds its port, which nobody else may hold.
AppListens(p) == /\ ListeningOn(PortOf(p)) = {}
                 /\ AppBecomes(p, {"starting"}, "listening")

\* Asked to terminate, it closes its listener and finishes what it is serving.
AppDrains(p) == /\ reap[p] \in {"term", "again", "kill"}
                /\ AppBecomes(p, {"listening"}, "draining")

\* It exits: a crash, the end of a graceful shutdown, or a SIGKILL.
AppExits(p) == AppBecomes(p, Live, "exited")
-----------------------------------------------------------------------------
(* Supervisor::broadcast                                                   *)

Announce(e) == /\ event' = e
               /\ pc' = "announce"
               /\ UNCHANGED status

\* Mutant: a success does not clear the status of the failure before it.
StatusNeverCleared == /\ pc = "announce"
                      /\ status' = IF event.type = "BuildSuccess" THEN status
                                   ELSE B!Sticky(event, status)
                      /\ pc' = "send"
                      /\ UNCHANGED <<event, openTargets, sourceVars, apps>>

\* The guarded block that updates the sticky status.
BroadcastStatus == /\ pc = "announce"
                   /\ status' = B!Sticky(event, status)
                   /\ pc' = "send"
                   /\ UNCHANGED <<event, openTargets, sourceVars, apps>>

\* Mutant: the fixed-port path is forgotten, the old app is kept meanwhile.
SwapWithoutStop == /\ pc' = "spawn"
                   /\ old' = child
                   /\ child' = None
                   /\ UNCHANGED <<upstream, heard, proc, version, reap>>

\* hot_swap up to its call of spawn; the initial `build() && spawn()` is the
\* case without a child.  An app on a rotating port is kept as `old`, one on a
\* fixed port is retired first, by the supervisor itself.
BeginSwap == /\ pc' = IF Pinned /\ child # None THEN "stop" ELSE "spawn"
             /\ old' = child
             /\ child' = None
             /\ reap' = IF Pinned /\ child # None
                          THEN [reap EXCEPT ![child] = "start"] ELSE reap
             /\ UNCHANGED <<upstream, heard, proc, version>>

\* broadcast_direct, and what the caller of broadcast goes on to do.
BroadcastSend ==
  /\ pc = "send"
  /\ event' = NoEvent
  /\ UNCHANGED <<status, openTargets, sources, queue, exe>>
  /\ \/ /\ event.type = "Rebuild"
        /\ pc' = "build"
        /\ built' = sources
        /\ UNCHANGED apps
     \/ /\ event.type = "BuildSuccess"
        /\ BeginSwap
        /\ UNCHANGED built
     \/ /\ event.type = "CompileError"
        /\ pc' = "idle"
        /\ UNCHANGED <<built, apps>>
     \/ /\ event.type = "Restarted"
        /\ pc' = "idle"
        /\ heard' = FALSE
        /\ UNCHANGED <<built, child, old, upstream, proc, version, reap>>
-----------------------------------------------------------------------------
(* Supervisor::build                                                       *)

\* cargo cannot be run, or it succeeds without producing a binary: the
\* terminal is told, the browsers are not.
BuildWithoutEvent == /\ pc = "build"
                     /\ pc' = "idle"
                     /\ UNCHANGED <<events, sourceVars, apps>>

\* publish_targets replaces the table, then the error is broadcast.
BuildFails(d) == /\ pc = "build"
                 /\ openTargets' = d
                 /\ Announce(B!EventOf("CompileError", d))
                 /\ UNCHANGED <<sourceVars, apps>>

BuildSucceeds == /\ pc = "build"
                 /\ exe' = built
                 /\ Announce(B!Plain("BuildSuccess"))
                 /\ UNCHANGED <<openTargets, sources, queue, built, apps>>
-----------------------------------------------------------------------------
(* Supervisor::spawn, stop and hot_swap                                    *)

\* stop() returns once reap_child has collected the old app.
StopReturns == /\ pc = "stop"
               /\ reap[old] = "done"
               /\ old' = None
               /\ pc' = "spawn"
               /\ UNCHANGED <<events, sourceVars, child, upstream, heard, proc, version, reap>>

SpawnStarts(p) == /\ pc = "spawn"
                  /\ exe # 0
                  /\ proc[p] = "unused"
                  /\ proc' = [proc EXCEPT ![p] = "starting"]
                  /\ version' = [version EXCEPT ![p] = exe]
                  /\ child' = p
                  /\ pc' = "wait"
                  /\ UNCHANGED <<events, sourceVars, old, upstream, heard, reap>>

\* Mutant: when the start fails, the app that serves is not put back.
OldNotRestored == /\ pc = "spawn"
                  /\ child' = None
                  /\ old' = None
                  /\ pc' = "idle"
                  /\ UNCHANGED <<events, sourceVars, upstream, heard, proc, version, reap>>

\* Nothing to start, or Command::spawn failed: hot_swap puts `old` back.
SpawnErr == /\ pc = "spawn"
            /\ child' = old
            /\ old' = None
            /\ pc' = "idle"
            /\ UNCHANGED <<events, sourceVars, upstream, heard, proc, version, reap>>

\* wait_until_listening returns, because something accepts on the port or
\* because ten seconds are over; upstream.set_port follows either way.
SetPort == /\ upstream' = PortOf(child)
           /\ pc' = "handoff"
           /\ UNCHANGED <<events, sourceVars, child, old, proc, version, reap>>

AppIsListening == /\ pc = "wait"
                  /\ ListeningOn(PortOf(child)) # {}
                  /\ heard' = TRUE
                  /\ SetPort

\* Mutant: an app that never listened does not get the proxy.
PortNotSet == /\ pc = "wait"
              /\ ListeningOn(PortOf(child)) = {}
              /\ pc' = "handoff"
              /\ UNCHANGED <<events, sourceVars, apps>>

ListenTimesOut == /\ pc = "wait"
                  /\ ListeningOn(PortOf(child)) = {}
                  /\ heard' = FALSE
                  /\ SetPort

\* hot_swap's happy end: a thread retires the old app, browsers are told.
HandOff == /\ pc = "handoff"
           /\ old' = None
           /\ reap' = IF old # None THEN [reap EXCEPT ![old] = "start"] ELSE reap
           /\ Announce(B!Plain("Restarted"))
           /\ UNCHANGED <<openTargets, sourceVars, child, upstream, heard, proc, version>>
-----------------------------------------------------------------------------
(* Supervisor::run                                                         *)

\* recv_timeout returns a trigger.
Trigger == /\ pc = "idle"
           /\ queue > 0
           /\ queue' = queue - 1
           /\ Announce(B!Plain("Rebuild"))
           /\ UNCHANGED <<openTargets, sources, built, exe, apps>>

\* Mutant: a crash is only looked for while no build error is shown.
CrashIgnoredOnError == /\ pc = "idle"
                       /\ queue = 0
                       /\ status = NoEvent
                       /\ child # None
                       /\ proc[child] = "exited"
                       /\ proc' = [proc EXCEPT ![child] = "reaped"]
                       /\ child' = None
                       /\ pc' = "spawn"
                       /\ UNCHANGED <<events, sourceVars, old, upstream, heard, version, reap>>

\* recv_timeout times out and try_wait collects an app that exited by itself.
ReapCrashed == /\ pc = "idle"
               /\ queue = 0
               /\ child # None
               /\ proc[child] = "exited"
               /\ proc' = [proc EXCEPT ![child] = "reaped"]
               /\ child' = None
               /\ pc' = "spawn"
               /\ UNCHANGED <<events, sourceVars, old, upstream, heard, version, reap>>
-----------------------------------------------------------------------------
(* reap_child, run by a thread of its own or by stop()                     *)

\* The signal of each stage, sent to the pid whatever became of the process.
NextSignal == [start |-> "term", term |-> "again", again |-> "kill"]

\* Mutant: no SIGKILL after the second signal.
NoLastResort(p) == /\ reap[p] \in {"start", "term"}
                   /\ reap' = [reap EXCEPT ![p] = NextSignal[reap[p]]]
                   /\ UNCHANGED <<pc, events, sourceVars, child, old, upstream, heard, proc, version>>

\* The first signal; and, when wait_for_exit gave up, the next ones.
ReapSignal(p) == /\ reap[p] \in {"start", "term", "again"}
                 /\ reap' = [reap EXCEPT ![p] = NextSignal[reap[p]]]
                 /\ UNCHANGED <<pc, events, sourceVars, child, old, upstream, heard, proc, version>>

\* Mutant: reap_child goes on after wait_for_exit has collected the app.
ReapGoesOn(p) == /\ reap[p] \in {"term", "again", "kill"}
                 /\ proc[p] = "exited"
                 /\ proc' = [proc EXCEPT ![p] = "reaped"]
                 /\ reap' = [reap EXCEPT ![p] = IF @ = "kill" THEN "done" ELSE @]
                 /\ UNCHANGED <<pc, events, sourceVars, child, old, upstream, heard, version>>

\* try_wait or, after SIGKILL, wait collects the exit status.
ReapExited(p) == /\ reap[p] \in {"term", "again", "kill"}
                 /\ proc[p] = "exited"
                 /\ proc' = [proc EXCEPT ![p] = "reaped"]
                 /\ reap' = [reap EXCEPT ![p] = "done"]
                 /\ UNCHANGED <<pc, events, sourceVars, child, old, upstream, heard, version>>
-----------------------------------------------------------------------------
Builds == \/ BuildWithoutEvent \/ BuildSucceeds
          \/ \E d \in Diagnostics : BuildFails(d)

Spawns == \/ StopReturns \/ SpawnErr \/ AppIsListening \/ ListenTimesOut \/ HandOff
          \/ \E p \in Process : SpawnStarts(p)

SupervisorStep == \/ BroadcastStatus \/ BroadcastSend
                  \/ Builds \/ Spawns
                  \/ Trigger \/ ReapCrashed

ReapStep(p) == ReapSignal(p) \/ ReapExited(p)

AppStep(p) == AppListens(p) \/ AppDrains(p) \/ AppExits(p)

Next == \/ Edit \/ Hangup
        \/ SupervisorStep
        \/ \E p \in Process : ReapStep(p) \/ AppStep(p)

Spec == Init /\ [][Next]_vars

\* The supervisor and every reaping thread are scheduled; a SIGKILL takes effect.
Fairness == /\ WF_vars(SupervisorStep)
            /\ \A p \in Process : /\ WF_vars(ReapStep(p))
                                  /\ WF_vars(reap[p] = "kill" /\ AppExits(p))

FairSpec == Spec /\ Fairness

-----------------------------------------------------------------------------
(* Safety                                                                  *)

\* No app is lost sight of: every process that is not collected yet is the
\* supervisor's child, the `old` of a swap under way, or with a reap_child
\* that is still at work.  (Child has no Drop that kills: a process dropped
\* on an error path of hot_swap would keep running, and keep its port.)
NoOrphan == \A p \in Process :
              proc[p] \in Unreaped => p \in {child, old} \cup Reaping

\* With a fixed port two apps never run side by side, however the old one
\* reacts to its signals: hot_swap and the restart after a crash start an app
\* only when its predecessor is gone.
PinnedExclusive == Pinned => \A p, q \in Process :
                               proc[p] \in Live /\ proc[q] \in Live => p = q

\* With a rotating port the proxy never forwards to an app that was asked to
\* terminate: spawn has moved the upstream before hot_swap retires the old app.
HandoverBeforeRetire == ~Pinned => \A p \in Process :
                                     reap[p] # "no" => upstream # PortOf(p)

\* Browsers are told to reload only when the reload goes to an app with the
\* executable of the last successful build, whatever was built, crashed or
\* failed to start before; and that app has come up, unless the wait for it gave
\* up after its ten seconds (hot_swap does not ask, and the browsers are told all
\* the same).  What answered the wait is this app, never its predecessor, also
\* when both have the one fixed port.
RestartedMeansNewest == event # NoEvent /\ event.type = "Restarted" =>
                          /\ child # None
                          /\ upstream = PortOf(child)
                          /\ version[child] = exe
                          /\ heard => proc[child] # "starting"

\* reap_child signals a pid, not a handle: it must never do so once the exit
\* status was collected, for the pid may belong to another process by then.
NoSignalAfterReap ==
  [][\A p \in Process : reap'[p] # reap[p] /\ reap'[p] \in {"term", "again", "kill"}
                           => proc[p] \in Unreaped]_vars

\* Who owns which process, at every point of the supervisor: the inductive
\* invariant behind the properties above.
Ownership ==
  \* outside of a swap there is no `old`, and the child is held from its start on
  /\ old # None => pc \in {"stop", "spawn", "wait", "handoff"}
  /\ pc \in {"wait", "handoff"} => child # None
  /\ pc \in {"stop", "spawn"} => child = None
  /\ child # None => child # old
  \* with a fixed port only stop() ever holds an old app, and it is being reaped
  /\ Pinned /\ old # None => pc = "stop"
  /\ pc = "stop" => Pinned /\ old # None /\ reap[old] # "no"
  \* nobody but reap_child touches an app once it is retired, and until then
  \* its exit status is not collected
  /\ child # None => reap[child] = "no" /\ proc[child] \in Unreaped
  /\ old # None /\ pc # "stop" => reap[old] = "no" /\ proc[old] \in Unreaped
  /\ \A p \in Process : /\ proc[p] = "unused" => reap[p] = "no"
                        /\ reap[p] = "done" => proc[p] = "reaped"
                        /\ p \in Reaping => proc[p] \in Unreaped
                        /\ Pinned /\ p \in Reaping => pc = "stop" /\ p = old

\* The broadcast under way, and what the proxy and the app are by then.
Broadcasting ==
  /\ event # NoEvent <=> pc \in {"announce", "send"}
  /\ pc \in {"wait", "handoff"} => version[child] = exe
  /\ pc = "handoff" => upstream = PortOf(child)
  /\ pc = "handoff" /\ heard => proc[child] # "starting"

IInv == /\ TypeOK /\ Ownership /\ Broadcasting
        /\ NoOrphan /\ HandoverBeforeRetire /\ RestartedMeansNewest

\* Events, status and proxy behave as BuildEvents says.
ImplementsBuildEvents == B!Spec
-----------------------------------------------------------------------------
(* Liveness                                                                *)

\* Every edit is compiled: a build starts from sources at least as new, also
\* when the edit falls into a running build, a swap or a crash restart.
EveryEditBuilt == \A v \in 1..MaxVersion : sources = v ~> built >= v

\* An app that is retired is eventually gone, even one that ignores SIGTERM.
RetiredGone == \A p \in Process : reap[p] = "start" ~> proc[p] = "reaped"

\* If triggers let up, an app that exited on its own does not stay in place:
\* it is collected and its successor started (or the start fails).
CrashNoticed == <>[](queue = 0) =>
  \A p \in Process : child = p /\ proc[p] = "exited" ~> child # p
=============================================================================
