-------------------------- MODULE SupervisorProofs --------------------------
(***************************************************************************)
(* Proofs about Supervisor, for any set of processes, either port policy,  *)
(* any number of edits and any diagnostics; and, at the end, about the     *)
(* dev server, where edits reach the supervisor through the watcher.       *)
(*                                                                         *)
(* Each conjunct of the inductive invariant IInv has a lemma of its own:   *)
(* one step per action of the supervisor, of reap_child, of the apps and   *)
(* of the world.  Invariance puts them together; the properties follow.    *)
(***************************************************************************)
EXTENDS DevServer, SequenceTheorems, TLAPS

\* Every step keeps the types of the variables.
LEMMA TypePreserved == TypeOK /\ [Next]_vars => TypeOK'
<1> SUFFICES ASSUME TypeOK, [Next]_vars PROVE TypeOK'
  OBVIOUS
<1> USE ProcessAssumption, PortAssumption DEF TypeOK, Unreaped, Live, events, sourceVars, apps
<1>1. CASE Edit
  BY <1>1 DEF Edit
<1>2. CASE Hangup
  BY <1>2 DEF Hangup
<1>3. CASE BroadcastStatus
  BY <1>3 DEF BroadcastStatus, B!Sticky
<1>4. CASE BroadcastSend
  BY <1>4 DEF BroadcastSend, BeginSwap
<1>5. CASE BuildWithoutEvent
  BY <1>5 DEF BuildWithoutEvent
<1>6. CASE BuildSucceeds
  BY <1>6 DEF BuildSucceeds, Announce, B!EventOf, B!Plain, B!Event, B!EventTypes
<1>7. ASSUME NEW d \in Diagnostics, BuildFails(d) PROVE TypeOK'
  BY <1>7 DEF BuildFails, Announce, B!EventOf, B!Plain, B!Event, B!EventTypes
<1>8. CASE StopReturns
  BY <1>8 DEF StopReturns
<1>9. CASE SpawnErr
  BY <1>9 DEF SpawnErr
<1>10. CASE AppIsListening
  BY <1>10 DEF AppIsListening, SetPort, PortOf
<1>11. CASE ListenTimesOut
  BY <1>11 DEF ListenTimesOut, SetPort, PortOf
<1>12. CASE HandOff
  BY <1>12 DEF HandOff, Announce, B!EventOf, B!Plain, B!Event, B!EventTypes
<1>13. ASSUME NEW p \in Process, SpawnStarts(p) PROVE TypeOK'
  BY <1>13 DEF SpawnStarts
<1>14. CASE Trigger
  BY <1>14 DEF Trigger, Announce, B!EventOf, B!Plain, B!Event, B!EventTypes
<1>15. CASE ReapCrashed
  BY <1>15 DEF ReapCrashed
<1>16. ASSUME NEW p \in Process, ReapSignal(p) PROVE TypeOK'
  BY <1>16 DEF ReapSignal, NextSignal
<1>17. ASSUME NEW p \in Process, ReapExited(p) PROVE TypeOK'
  BY <1>17 DEF ReapExited
<1>18. ASSUME NEW p \in Process, AppListens(p) PROVE TypeOK'
  BY <1>18 DEF AppListens, AppBecomes
<1>19. ASSUME NEW p \in Process, AppDrains(p) PROVE TypeOK'
  BY <1>19 DEF AppDrains, AppBecomes
<1>20. ASSUME NEW p \in Process, AppExits(p) PROVE TypeOK'
  BY <1>20 DEF AppExits, AppBecomes
<1>21. CASE UNCHANGED vars
  BY <1>21 DEF vars
<1> QED
  BY <1>1, <1>2, <1>3, <1>4, <1>5, <1>6, <1>7, <1>8, <1>9, <1>10, <1>11,
     <1>12, <1>13, <1>14, <1>15, <1>16, <1>17, <1>18, <1>19, <1>20, <1>21
     DEF Next, SupervisorStep, Builds, Spawns, ReapStep, AppStep

\* Every step keeps the ownership of processes.
LEMMA OwnershipPreserved == TypeOK /\ Ownership /\ [Next]_vars => Ownership'
<1> SUFFICES ASSUME TypeOK, Ownership, [Next]_vars PROVE Ownership'
  OBVIOUS
<1> USE ProcessAssumption, PortAssumption DEF TypeOK, Unreaped, Live, Reaping, events, sourceVars, apps, Ownership
<1>1. CASE Edit
  BY <1>1 DEF Edit
<1>2. CASE Hangup
  BY <1>2 DEF Hangup
<1>3. CASE BroadcastStatus
  BY <1>3 DEF BroadcastStatus
<1>4. CASE BroadcastSend
  BY <1>4 DEF BroadcastSend, BeginSwap
<1>5. CASE BuildWithoutEvent
  BY <1>5 DEF BuildWithoutEvent
<1>6. CASE BuildSucceeds
  BY <1>6 DEF BuildSucceeds, Announce
<1>7. ASSUME NEW d \in Diagnostics, BuildFails(d) PROVE Ownership'
  BY <1>7 DEF BuildFails, Announce
<1>8. CASE StopReturns
  BY <1>8 DEF StopReturns
<1>9. CASE SpawnErr
  BY <1>9 DEF SpawnErr
<1>10. CASE AppIsListening
  BY <1>10 DEF AppIsListening, SetPort
<1>11. CASE ListenTimesOut
  BY <1>11 DEF ListenTimesOut, SetPort
<1>12. CASE HandOff
  BY <1>12 DEF HandOff, Announce
<1>13. ASSUME NEW p \in Process, SpawnStarts(p) PROVE Ownership'
  BY <1>13 DEF SpawnStarts
<1>14. CASE Trigger
  BY <1>14 DEF Trigger, Announce
<1>15. CASE ReapCrashed
  BY <1>15 DEF ReapCrashed
<1>16. ASSUME NEW p \in Process, ReapSignal(p) PROVE Ownership'
  BY <1>16 DEF ReapSignal, NextSignal
<1>17. ASSUME NEW p \in Process, ReapExited(p) PROVE Ownership'
  BY <1>17 DEF ReapExited
<1>18. ASSUME NEW p \in Process, AppListens(p) PROVE Ownership'
  BY <1>18 DEF AppListens, AppBecomes
<1>19. ASSUME NEW p \in Process, AppDrains(p) PROVE Ownership'
  BY <1>19 DEF AppDrains, AppBecomes
<1>20. ASSUME NEW p \in Process, AppExits(p) PROVE Ownership'
  BY <1>20 DEF AppExits, AppBecomes
<1>21. CASE UNCHANGED vars
  BY <1>21 DEF vars
<1> QED
  BY <1>1, <1>2, <1>3, <1>4, <1>5, <1>6, <1>7, <1>8, <1>9, <1>10, <1>11,
     <1>12, <1>13, <1>14, <1>15, <1>16, <1>17, <1>18, <1>19, <1>20, <1>21
     DEF Next, SupervisorStep, Builds, Spawns, ReapStep, AppStep

\* Every step keeps the order of swap, port and broadcast.
LEMMA BroadcastingPreserved == TypeOK /\ Ownership /\ NoOrphan /\ Broadcasting /\ [Next]_vars => Broadcasting'
<1> SUFFICES ASSUME TypeOK, Ownership, NoOrphan, Broadcasting, [Next]_vars PROVE Broadcasting'
  OBVIOUS
<1> USE ProcessAssumption, PortAssumption, EventAssumption DEF TypeOK, Unreaped, Live, Reaping, events, sourceVars, apps,
       Ownership, Broadcasting, PortOf, B!EventOf, B!Plain, B!Event, B!EventTypes
<1>1. CASE Edit
  BY <1>1 DEF Edit
<1>2. CASE Hangup
  BY <1>2 DEF Hangup
<1>3. CASE BroadcastStatus
  BY <1>3 DEF BroadcastStatus
<1>4. CASE BroadcastSend
  BY <1>4 DEF BroadcastSend, BeginSwap
<1>5. CASE BuildWithoutEvent
  BY <1>5 DEF BuildWithoutEvent
<1>6. CASE BuildSucceeds
  BY <1>6 DEF BuildSucceeds, Announce
<1>7. ASSUME NEW d \in Diagnostics, BuildFails(d) PROVE Broadcasting'
  BY <1>7 DEF BuildFails, Announce
<1>8. CASE StopReturns
  BY <1>8 DEF StopReturns
<1>9. CASE SpawnErr
  BY <1>9 DEF SpawnErr
<1>10. CASE AppIsListening
  <2>1. PICK q \in Process : proc[q] = "listening" /\ PortOf(q) = PortOf(child)
    BY <1>10 DEF AppIsListening, ListeningOn
  <2>2. pc = "wait" /\ child \in Process
    BY <1>10 DEF AppIsListening
  \* with a fixed port nothing else is alive, for nothing is retired by now
  <2>3. q = child
    <3>1. CASE Pinned
      <4>1. q \in {child, old} \cup Reaping
        BY <2>1 DEF NoOrphan
      <4> QED
        BY <2>2, <3>1, <4>1
    <3>2. CASE ~Pinned
      BY <2>1, <3>2
    <3> QED
      BY <3>1, <3>2
  <2>4. /\ pc' = "handoff" /\ upstream' = PortOf(child)
        /\ UNCHANGED <<event, child, proc, version, exe>>
    BY <1>10 DEF AppIsListening, SetPort
  <2> QED
    BY <2>1, <2>2, <2>3, <2>4
<1>11. CASE ListenTimesOut
  BY <1>11 DEF ListenTimesOut, SetPort
<1>12. CASE HandOff
  BY <1>12 DEF HandOff, Announce
<1>13. ASSUME NEW p \in Process, SpawnStarts(p) PROVE Broadcasting'
  BY <1>13 DEF SpawnStarts
<1>14. CASE Trigger
  BY <1>14 DEF Trigger, Announce
<1>15. CASE ReapCrashed
  BY <1>15 DEF ReapCrashed
<1>16. ASSUME NEW p \in Process, ReapSignal(p) PROVE Broadcasting'
  BY <1>16 DEF ReapSignal, NextSignal
<1>17. ASSUME NEW p \in Process, ReapExited(p) PROVE Broadcasting'
  BY <1>17 DEF ReapExited
<1>18. ASSUME NEW p \in Process, AppListens(p) PROVE Broadcasting'
  BY <1>18 DEF AppListens, AppBecomes
<1>19. ASSUME NEW p \in Process, AppDrains(p) PROVE Broadcasting'
  BY <1>19 DEF AppDrains, AppBecomes
<1>20. ASSUME NEW p \in Process, AppExits(p) PROVE Broadcasting'
  BY <1>20 DEF AppExits, AppBecomes
<1>21. CASE UNCHANGED vars
  BY <1>21 DEF vars
<1> QED
  BY <1>1, <1>2, <1>3, <1>4, <1>5, <1>6, <1>7, <1>8, <1>9, <1>10, <1>11,
     <1>12, <1>13, <1>14, <1>15, <1>16, <1>17, <1>18, <1>19, <1>20, <1>21
     DEF Next, SupervisorStep, Builds, Spawns, ReapStep, AppStep

\* No step loses sight of a process.
LEMMA NoOrphanPreserved == TypeOK /\ Ownership /\ NoOrphan /\ [Next]_vars => NoOrphan'
<1> SUFFICES ASSUME TypeOK, Ownership, NoOrphan, [Next]_vars PROVE NoOrphan'
  OBVIOUS
<1> USE ProcessAssumption, PortAssumption DEF TypeOK, Unreaped, Live, Reaping, events, sourceVars, apps, Ownership, NoOrphan
<1>1. CASE Edit
  BY <1>1 DEF Edit
<1>2. CASE Hangup
  BY <1>2 DEF Hangup
<1>3. CASE BroadcastStatus
  BY <1>3 DEF BroadcastStatus
<1>4. CASE BroadcastSend
  BY <1>4 DEF BroadcastSend, BeginSwap
<1>5. CASE BuildWithoutEvent
  BY <1>5 DEF BuildWithoutEvent
<1>6. CASE BuildSucceeds
  BY <1>6 DEF BuildSucceeds, Announce
<1>7. ASSUME NEW d \in Diagnostics, BuildFails(d) PROVE NoOrphan'
  BY <1>7 DEF BuildFails, Announce
<1>8. CASE StopReturns
  BY <1>8 DEF StopReturns
<1>9. CASE SpawnErr
  BY <1>9 DEF SpawnErr
<1>10. CASE AppIsListening
  BY <1>10 DEF AppIsListening, SetPort
<1>11. CASE ListenTimesOut
  BY <1>11 DEF ListenTimesOut, SetPort
<1>12. CASE HandOff
  BY <1>12 DEF HandOff, Announce
<1>13. ASSUME NEW p \in Process, SpawnStarts(p) PROVE NoOrphan'
  BY <1>13 DEF SpawnStarts
<1>14. CASE Trigger
  BY <1>14 DEF Trigger, Announce
<1>15. CASE ReapCrashed
  BY <1>15 DEF ReapCrashed
<1>16. ASSUME NEW p \in Process, ReapSignal(p) PROVE NoOrphan'
  BY <1>16 DEF ReapSignal, NextSignal
<1>17. ASSUME NEW p \in Process, ReapExited(p) PROVE NoOrphan'
  BY <1>17 DEF ReapExited
<1>18. ASSUME NEW p \in Process, AppListens(p) PROVE NoOrphan'
  BY <1>18 DEF AppListens, AppBecomes
<1>19. ASSUME NEW p \in Process, AppDrains(p) PROVE NoOrphan'
  BY <1>19 DEF AppDrains, AppBecomes
<1>20. ASSUME NEW p \in Process, AppExits(p) PROVE NoOrphan'
  BY <1>20 DEF AppExits, AppBecomes
<1>21. CASE UNCHANGED vars
  BY <1>21 DEF vars
<1> QED
  BY <1>1, <1>2, <1>3, <1>4, <1>5, <1>6, <1>7, <1>8, <1>9, <1>10, <1>11,
     <1>12, <1>13, <1>14, <1>15, <1>16, <1>17, <1>18, <1>19, <1>20, <1>21
     DEF Next, SupervisorStep, Builds, Spawns, ReapStep, AppStep

\* No step leaves the proxy with an app that is asked to terminate.
LEMMA HandoverPreserved == TypeOK /\ Ownership /\ Broadcasting /\ HandoverBeforeRetire /\ [Next]_vars => HandoverBeforeRetire'
<1> SUFFICES ASSUME TypeOK, Ownership, Broadcasting, HandoverBeforeRetire, [Next]_vars PROVE HandoverBeforeRetire'
  OBVIOUS
<1> USE ProcessAssumption, PortAssumption DEF TypeOK, Unreaped, Live, Reaping, events, sourceVars, apps,
       Ownership, Broadcasting, HandoverBeforeRetire, PortOf
<1>1. CASE Edit
  BY <1>1 DEF Edit
<1>2. CASE Hangup
  BY <1>2 DEF Hangup
<1>3. CASE BroadcastStatus
  BY <1>3 DEF BroadcastStatus
<1>4. CASE BroadcastSend
  BY <1>4 DEF BroadcastSend, BeginSwap
<1>5. CASE BuildWithoutEvent
  BY <1>5 DEF BuildWithoutEvent
<1>6. CASE BuildSucceeds
  BY <1>6 DEF BuildSucceeds, Announce
<1>7. ASSUME NEW d \in Diagnostics, BuildFails(d) PROVE HandoverBeforeRetire'
  BY <1>7 DEF BuildFails, Announce
<1>8. CASE StopReturns
  BY <1>8 DEF StopReturns
<1>9. CASE SpawnErr
  BY <1>9 DEF SpawnErr
<1>10. CASE AppIsListening
  BY <1>10 DEF AppIsListening, SetPort
<1>11. CASE ListenTimesOut
  BY <1>11 DEF ListenTimesOut, SetPort
<1>12. CASE HandOff
  BY <1>12 DEF HandOff, Announce
<1>13. ASSUME NEW p \in Process, SpawnStarts(p) PROVE HandoverBeforeRetire'
  BY <1>13 DEF SpawnStarts
<1>14. CASE Trigger
  BY <1>14 DEF Trigger, Announce
<1>15. CASE ReapCrashed
  BY <1>15 DEF ReapCrashed
<1>16. ASSUME NEW p \in Process, ReapSignal(p) PROVE HandoverBeforeRetire'
  BY <1>16 DEF ReapSignal, NextSignal
<1>17. ASSUME NEW p \in Process, ReapExited(p) PROVE HandoverBeforeRetire'
  BY <1>17 DEF ReapExited
<1>18. ASSUME NEW p \in Process, AppListens(p) PROVE HandoverBeforeRetire'
  BY <1>18 DEF AppListens, AppBecomes
<1>19. ASSUME NEW p \in Process, AppDrains(p) PROVE HandoverBeforeRetire'
  BY <1>19 DEF AppDrains, AppBecomes
<1>20. ASSUME NEW p \in Process, AppExits(p) PROVE HandoverBeforeRetire'
  BY <1>20 DEF AppExits, AppBecomes
<1>21. CASE UNCHANGED vars
  BY <1>21 DEF vars
<1> QED
  BY <1>1, <1>2, <1>3, <1>4, <1>5, <1>6, <1>7, <1>8, <1>9, <1>10, <1>11,
     <1>12, <1>13, <1>14, <1>15, <1>16, <1>17, <1>18, <1>19, <1>20, <1>21
     DEF Next, SupervisorStep, Builds, Spawns, ReapStep, AppStep

\* No step makes an announced restart untrue.
LEMMA RestartedPreserved == TypeOK /\ Ownership /\ Broadcasting /\ RestartedMeansNewest /\ [Next]_vars => RestartedMeansNewest'
<1> SUFFICES ASSUME TypeOK, Ownership, Broadcasting, RestartedMeansNewest, [Next]_vars PROVE RestartedMeansNewest'
  OBVIOUS
<1> USE ProcessAssumption, PortAssumption DEF TypeOK, Unreaped, Live, Reaping, events, sourceVars, apps,
       Ownership, Broadcasting, RestartedMeansNewest, PortOf, B!Plain, B!EventOf
<1>1. CASE Edit
  BY <1>1 DEF Edit
<1>2. CASE Hangup
  BY <1>2 DEF Hangup
<1>3. CASE BroadcastStatus
  BY <1>3 DEF BroadcastStatus
<1>4. CASE BroadcastSend
  BY <1>4 DEF BroadcastSend, BeginSwap
<1>5. CASE BuildWithoutEvent
  BY <1>5 DEF BuildWithoutEvent
<1>6. CASE BuildSucceeds
  BY <1>6 DEF BuildSucceeds, Announce
<1>7. ASSUME NEW d \in Diagnostics, BuildFails(d) PROVE RestartedMeansNewest'
  BY <1>7 DEF BuildFails, Announce
<1>8. CASE StopReturns
  BY <1>8 DEF StopReturns
<1>9. CASE SpawnErr
  BY <1>9 DEF SpawnErr
<1>10. CASE AppIsListening
  BY <1>10 DEF AppIsListening, SetPort
<1>11. CASE ListenTimesOut
  BY <1>11 DEF ListenTimesOut, SetPort
<1>12. CASE HandOff
  BY <1>12 DEF HandOff, Announce
<1>13. ASSUME NEW p \in Process, SpawnStarts(p) PROVE RestartedMeansNewest'
  BY <1>13 DEF SpawnStarts
<1>14. CASE Trigger
  BY <1>14 DEF Trigger, Announce
<1>15. CASE ReapCrashed
  BY <1>15 DEF ReapCrashed
<1>16. ASSUME NEW p \in Process, ReapSignal(p) PROVE RestartedMeansNewest'
  BY <1>16 DEF ReapSignal, NextSignal
<1>17. ASSUME NEW p \in Process, ReapExited(p) PROVE RestartedMeansNewest'
  BY <1>17 DEF ReapExited
<1>18. ASSUME NEW p \in Process, AppListens(p) PROVE RestartedMeansNewest'
  BY <1>18 DEF AppListens, AppBecomes
<1>19. ASSUME NEW p \in Process, AppDrains(p) PROVE RestartedMeansNewest'
  BY <1>19 DEF AppDrains, AppBecomes
<1>20. ASSUME NEW p \in Process, AppExits(p) PROVE RestartedMeansNewest'
  BY <1>20 DEF AppExits, AppBecomes
<1>21. CASE UNCHANGED vars
  BY <1>21 DEF vars
<1> QED
  BY <1>1, <1>2, <1>3, <1>4, <1>5, <1>6, <1>7, <1>8, <1>9, <1>10, <1>11,
     <1>12, <1>13, <1>14, <1>15, <1>16, <1>17, <1>18, <1>19, <1>20, <1>21
     DEF Next, SupervisorStep, Builds, Spawns, ReapStep, AppStep
-----------------------------------------------------------------------------
\* IInv is inductive.
LEMMA IInvPreserved == IInv /\ [Next]_vars => IInv'
<1> SUFFICES ASSUME IInv, [Next]_vars PROVE IInv'
  OBVIOUS
<1>1. TypeOK'
  BY TypePreserved DEF IInv
<1>2. Ownership' /\ NoOrphan'
  BY OwnershipPreserved, NoOrphanPreserved DEF IInv
<1>3. Broadcasting' /\ HandoverBeforeRetire' /\ RestartedMeansNewest'
  BY BroadcastingPreserved, HandoverPreserved, RestartedPreserved DEF IInv
<1> QED
  BY <1>1, <1>2, <1>3 DEF IInv

LEMMA InitIInv == Init => IInv
<1> SUFFICES ASSUME Init PROVE IInv
  OBVIOUS
<1> USE ProcessAssumption, PortAssumption, EventAssumption DEF Init, Unreaped, Live
<1>1. TypeOK
  BY DEF TypeOK
<1>2. Ownership /\ NoOrphan
  BY DEF Ownership, NoOrphan, Reaping
<1>3. Broadcasting /\ HandoverBeforeRetire /\ RestartedMeansNewest
  BY DEF Broadcasting, HandoverBeforeRetire, RestartedMeansNewest
<1> QED
  BY <1>1, <1>2, <1>3 DEF IInv

\* Every reachable state satisfies the inductive invariant.
THEOREM Invariance == Spec => []IInv
<1> QED
  BY InitIInv, IInvPreserved, PTL DEF Spec

\* The supervisor's variables keep their types.
THEOREM TypeCorrect == Spec => []TypeOK
<1>1. IInv => TypeOK
  BY DEF IInv
<1> QED
  BY <1>1, Invariance, PTL

\* No started app is ever lost sight of, through failed starts, crashes,
\* hot swaps and swaps on a fixed port.
THEOREM OrphanFree == Spec => []NoOrphan
<1>1. IInv => NoOrphan
  BY DEF IInv
<1> QED
  BY <1>1, Invariance, PTL

\* With a fixed port, at most one app is alive at any time.
THEOREM PinnedExclusion == Spec => []PinnedExclusive
<1>1. IInv => PinnedExclusive
  <2> SUFFICES ASSUME IInv, Pinned, NEW p \in Process, NEW q \in Process,
                      proc[p] \in Live, proc[q] \in Live
               PROVE  p = q
    BY DEF PinnedExclusive
  <2>1. /\ p \in {child, old} \cup Reaping
        /\ q \in {child, old} \cup Reaping
    BY DEF IInv, NoOrphan, Unreaped
  <2>2. CASE pc = "stop"
    BY <2>1, <2>2, ProcessAssumption DEF IInv, Ownership
  <2>3. CASE pc # "stop"
    BY <2>1, <2>3, ProcessAssumption DEF IInv, Ownership
  <2> QED
    BY <2>2, <2>3
<1> QED
  BY <1>1, Invariance, PTL

\* With a rotating port, the proxy never forwards to an app that was asked to
\* terminate.
THEOREM HandoverFirst == Spec => []HandoverBeforeRetire
<1>1. IInv => HandoverBeforeRetire
  BY DEF IInv
<1> QED
  BY <1>1, Invariance, PTL

\* Browsers are told to reload only when that reaches the newest executable.
THEOREM RestartedTruthful == Spec => []RestartedMeansNewest
<1>1. IInv => RestartedMeansNewest
  BY DEF IInv
<1> QED
  BY <1>1, Invariance, PTL

\* reap_child signals no pid whose exit status was already collected.
THEOREM SignalsReachOwnApp == Spec => NoSignalAfterReap
<1> DEFINE SignalSent(p) == reap'[p] # reap[p] /\ reap'[p] \in {"term", "again", "kill"}
<1>1. IInv /\ [Next]_vars => [\A p \in Process : SignalSent(p) => proc[p] \in Unreaped]_vars
  <2> SUFFICES ASSUME IInv, [Next]_vars, NEW p \in Process, SignalSent(p)
               PROVE  proc[p] \in Unreaped
    OBVIOUS
  <2>1. reap[p] \in {"start", "term", "again"}
    <3> USE ProcessAssumption DEF IInv, TypeOK, events, sourceVars, apps
    <3>1. CASE BroadcastSend
      BY <3>1 DEF BroadcastSend, BeginSwap
    <3>2. CASE HandOff
      BY <3>2 DEF HandOff, Announce
    <3>3. ASSUME NEW q \in Process, ReapSignal(q)
          PROVE  reap[p] \in {"start", "term", "again"}
      BY <3>3 DEF ReapSignal
    <3>4. ASSUME NEW q \in Process, ReapExited(q)
          PROVE  reap[p] \in {"start", "term", "again"}
      BY <3>4 DEF ReapExited
    <3>5. CASE UNCHANGED reap
      BY <3>5
    <3>6. CASE Edit \/ Hangup \/ BroadcastStatus \/ Builds \/ Trigger \/ ReapCrashed
      BY <3>6, <3>5 DEF Edit, Hangup, BroadcastStatus, Builds, BuildWithoutEvent,
                   BuildSucceeds, BuildFails, Trigger, ReapCrashed
    <3>7. CASE StopReturns \/ SpawnErr \/ AppIsListening \/ ListenTimesOut
               \/ \E q \in Process : SpawnStarts(q) \/ AppStep(q)
      BY <3>7, <3>5 DEF StopReturns, SpawnErr, AppIsListening, ListenTimesOut, SetPort,
                   SpawnStarts, AppStep, AppListens, AppDrains, AppExits, AppBecomes
    <3> QED
      BY <3>1, <3>2, <3>3, <3>4, <3>5, <3>6, <3>7
         DEF Next, SupervisorStep, Spawns, ReapStep, vars
  <2> QED
    BY <2>1 DEF IInv, Ownership, Reaping
<1> QED
  BY <1>1, Invariance, PTL DEF Spec, NoSignalAfterReap

\* The supervisor implements BuildEvents: events come in its order, the status
\* changes as it says, and the proxy moves when it may.
THEOREM Refinement == Spec => ImplementsBuildEvents
<1> USE ProcessAssumption, PortAssumption, EventAssumption
<1>1. Init => B!Init
  BY DEF Init, B!Init, Phase, Step, Up
<1>2. IInv /\ [Next]_vars => [B!Next]_(B!buildVars)
  <2> SUFFICES ASSUME IInv, [Next]_vars PROVE [B!Next]_(B!buildVars)
    OBVIOUS
  <2> USE DEF IInv, TypeOK, Broadcasting, B!buildVars, events, sourceVars, apps,
             Phase, Step, Up
  <2>1. CASE Trigger
    <3>1. B!Rebuild
      BY <2>1 DEF Trigger, Announce, B!Rebuild, B!Announce, B!Plain, B!EventOf
    <3> QED
      BY <3>1 DEF B!Next, B!Quietly
  <2>2. ASSUME NEW d \in Diagnostics, BuildFails(d)
        PROVE  B!Next
    <3>1. B!CompileError(d)
      BY <2>2 DEF BuildFails, Announce, B!CompileError, B!Announce, B!EventOf
    <3> QED
      BY <3>1 DEF B!Next, B!Quietly
  <2>3. CASE BuildSucceeds
    <3>1. B!BuildSuccess
      BY <2>3 DEF BuildSucceeds, Announce, B!BuildSuccess, B!Announce, B!Plain, B!EventOf
    <3> QED
      BY <3>1 DEF B!Next, B!Quietly
  <2>4. CASE BuildWithoutEvent \/ SpawnErr
    <3>1. B!GiveUp
      BY <2>4 DEF BuildWithoutEvent, SpawnErr, B!GiveUp
    <3> QED
      BY <3>1 DEF B!Next, B!Quietly
  <2>5. CASE ReapCrashed
    <3>1. B!Respawn
      BY <2>5 DEF ReapCrashed, B!Respawn
    <3> QED
      BY <3>1 DEF B!Next, B!Quietly
  <2>6. CASE AppIsListening \/ ListenTimesOut
    <3>1. child # None
      BY <2>6 DEF Ownership, AppIsListening, ListenTimesOut
    <3>2. PortOf(child) # None
      BY <3>1 DEF TypeOK, PortOf
    <3>3. B!PointProxy
      BY <2>6, <3>2 DEF AppIsListening, ListenTimesOut, SetPort, B!PointProxy
    <3> QED
      BY <3>3 DEF B!Next, B!Quietly
  <2>7. CASE HandOff
    <3>1. B!Restarted
      BY <2>7 DEF HandOff, Announce, B!Restarted, B!Announce, B!Plain, B!EventOf
    <3> QED
      BY <3>1 DEF B!Next, B!Quietly
  <2>8. CASE BroadcastStatus
    <3>1. B!SetStatus
      BY <2>8 DEF BroadcastStatus, B!SetStatus
    <3> QED
      BY <3>1 DEF B!Next, B!Quietly
  <2>9. CASE BroadcastSend
    <3>1. event.type \in {"Rebuild", "BuildSuccess", "CompileError", "Restarted"}
      BY <2>9 DEF BroadcastSend
    <3>2. B!Send
      BY <2>9, <3>1 DEF BroadcastSend, BeginSwap, B!Send
    <3> QED
      BY <3>2 DEF B!Next
  <2>10. CASE StopReturns \/ \E p \in Process : SpawnStarts(p)
    BY <2>10 DEF StopReturns, SpawnStarts
  <2>11. CASE Edit \/ Hangup \/ UNCHANGED vars
    BY <2>11 DEF Edit, Hangup, vars
  <2>12. CASE \E p \in Process : ReapStep(p) \/ AppStep(p)
    BY <2>12 DEF ReapStep, ReapSignal, ReapExited, AppStep, AppListens, AppDrains,
                 AppExits, AppBecomes
  <2> QED
    BY <2>1, <2>2, <2>3, <2>4, <2>5, <2>6, <2>7, <2>8, <2>9, <2>10, <2>11, <2>12
       DEF Next, SupervisorStep, Builds, Spawns
<1> QED
  BY <1>1, <1>2, Invariance, PTL DEF Spec, B!Spec, ImplementsBuildEvents
-----------------------------------------------------------------------------
(* DevServer                                                               *)

\* To the supervisor, a step of the dev server is one of its own, or sources
\* that change, or a trigger that comes.
LEMMA DevSteps ==
  [DevNext]_devVars =>
    \/ [Next]_vars
    \/ FileChanged
    \/ WatcherTriggers
<1> SUFFICES ASSUME [DevNext]_devVars, ~FileChanged, ~WatcherTriggers
             PROVE  [Next]_vars
  OBVIOUS
<1>1. CASE NothingNew \/ WatcherStep
  BY <1>1 DEF NothingNew, WatcherStep
<1>2. CASE Signalled
  BY <1>2 DEF Signalled, Next
<1>3. CASE SupervisorStep \/ \E p \in Process : ReapStep(p) \/ AppStep(p)
  BY <1>3 DEF Next
<1>4. CASE UNCHANGED devVars
  BY <1>4 DEF devVars, vars
<1> QED
  BY <1>1, <1>2, <1>3, <1>4 DEF DevNext

LEMMA DevIInvPreserved == IInv /\ [DevNext]_devVars => IInv'
<1> SUFFICES ASSUME IInv, [DevNext]_devVars PROVE IInv'
  OBVIOUS
<1>1. CASE [Next]_vars
  BY <1>1, IInvPreserved
<1>2. CASE FileChanged \/ WatcherTriggers
  <2>1. /\ UNCHANGED <<pc, event, status, openTargets, built, exe, child, old,
                       upstream, heard, proc, version, reap>>
        /\ sources' \in Nat /\ queue' \in Nat
    BY <1>2 DEF FileChanged, WatcherTriggers, IInv, TypeOK, events, apps
  <2>2. TypeOK'
    BY <2>1 DEF IInv, TypeOK
  <2>3. Ownership' /\ NoOrphan'
    BY <2>1 DEF IInv, Ownership, NoOrphan, Reaping
  <2>4. Broadcasting' /\ HandoverBeforeRetire' /\ RestartedMeansNewest'
    BY <2>1 DEF IInv, Broadcasting, HandoverBeforeRetire, RestartedMeansNewest, PortOf
  <2> QED
    BY <2>2, <2>3, <2>4 DEF IInv
<1> QED
  BY <1>1, <1>2, DevSteps

\* The supervisor's invariant holds also when edits take the way through the
\* watcher.
THEOREM DevInvariance == DevSpec => []IInv
<1>1. DevInit => IInv
  BY InitIInv DEF DevInit
<1> QED
  BY <1>1, DevIInvPreserved, PTL DEF DevSpec

\* No app is lost sight of, and the proxy leaves an app before it is retired,
\* whenever triggers come.
THEOREM DevSwapsAreSafe == DevSpec => [](NoOrphan /\ HandoverBeforeRetire)
<1>1. IInv => NoOrphan /\ HandoverBeforeRetire
  BY DEF IInv
<1> QED
  BY <1>1, DevInvariance, PTL

\* What came since the last trigger and is not answered yet was collected into
\* the burst, or has still to be.
Unanswered == /\ relevant \in BOOLEAN /\ unanswered \in BOOLEAN
              /\ inbox \in Seq(NotifyEvent)
              /\ relevant => bursting
              /\ unanswered <=> relevant \/ \E i \in 1..Len(inbox) : Relevant(inbox[i])

LEMMA NotifyKeeps ==
  ASSUME Unanswered, NEW e \in NotifyEvent, Notify(e)
  PROVE  Unanswered'
<1>1. /\ inbox' = Append(inbox, e)
      /\ unanswered' = (unanswered \/ Relevant(e))
      /\ UNCHANGED <<bursting, relevant>>
  BY DEF Notify
<1>2. /\ inbox' \in Seq(NotifyEvent)
      /\ Len(inbox) \in Nat /\ Len(inbox') = Len(inbox) + 1
      /\ \A i \in 1..Len(inbox) : inbox'[i] = inbox[i]
      /\ inbox'[Len(inbox) + 1] = e
  BY <1>1, AppendProperties, LenProperties DEF Unanswered
<1>3. (\E i \in 1..Len(inbox') : Relevant(inbox'[i]))
        <=> Relevant(e) \/ \E i \in 1..Len(inbox) : Relevant(inbox[i])
  <2>1. ASSUME NEW i \in 1..Len(inbox'), Relevant(inbox'[i])
        PROVE  Relevant(e) \/ \E j \in 1..Len(inbox) : Relevant(inbox[j])
    <3>1. i \in 1..Len(inbox) \/ i = Len(inbox) + 1
      BY <1>2
    <3> QED
      BY <1>2, <2>1, <3>1
  <2>2. Len(inbox) + 1 \in 1..Len(inbox') /\ 1..Len(inbox) \subseteq 1..Len(inbox')
    BY <1>2
  <2>3. Relevant(e) => \E i \in 1..Len(inbox') : Relevant(inbox'[i])
    BY <1>2, <2>2
  <2>4. (\E i \in 1..Len(inbox) : Relevant(inbox[i]))
          => \E i \in 1..Len(inbox') : Relevant(inbox'[i])
    BY <1>2, <2>2
  <2> QED
    BY <2>1, <2>3, <2>4
<1>4. Relevant(e) \in BOOLEAN
  BY DEF Relevant, NotifyEvent
<1> QED
  BY <1>1, <1>2, <1>3, <1>4 DEF Unanswered

LEMMA UnansweredPreserved == Unanswered /\ [DevNext]_devVars => Unanswered'
<1> SUFFICES ASSUME Unanswered, [DevNext]_devVars PROVE Unanswered'
  OBVIOUS
<1>1. CASE FileChanged \/ NothingNew
  <2>1. PICK e \in NotifyEvent : Notify(e)
    BY <1>1 DEF FileChanged, NothingNew
  <2> QED
    BY <2>1, NotifyKeeps
<1>2. CASE Collect /\ UNCHANGED vars
  <2>1. /\ inbox # <<>> /\ inbox' = Tail(inbox) /\ bursting' = TRUE
        /\ relevant' = (relevant \/ Relevant(Head(inbox)))
        /\ UNCHANGED unanswered
    BY <1>2 DEF Collect
  <2>2. /\ inbox' \in Seq(NotifyEvent)
        /\ Len(inbox) \in Nat /\ Len(inbox) > 0 /\ Len(inbox') = Len(inbox) - 1
        /\ \A i \in 1..Len(inbox') : inbox'[i] = inbox[i + 1]
        /\ Head(inbox) = inbox[1] /\ Head(inbox) \in NotifyEvent
    BY <2>1, HeadTailProperties, LenProperties, EmptySeq DEF Unanswered
  <2>3. (\E i \in 1..Len(inbox) : Relevant(inbox[i]))
          <=> Relevant(Head(inbox)) \/ \E i \in 1..Len(inbox') : Relevant(inbox'[i])
    <3>1. ASSUME NEW i \in 1..Len(inbox), Relevant(inbox[i])
          PROVE  Relevant(Head(inbox)) \/ \E j \in 1..Len(inbox') : Relevant(inbox'[j])
      <4>1. CASE i = 1
        BY <2>2, <3>1, <4>1
      <4>2. CASE i # 1
        <5>1. i - 1 \in 1..Len(inbox') /\ (i - 1) + 1 = i
          BY <2>2, <4>2
        <5>2. Relevant(inbox'[i - 1])
          BY <2>2, <3>1, <5>1
        <5> QED
          BY <5>1, <5>2
      <4> QED
        BY <4>1, <4>2
    <3>2. 1 \in 1..Len(inbox) /\ \A i \in 1..Len(inbox') : i + 1 \in 1..Len(inbox)
      BY <2>2
    <3>3. Relevant(Head(inbox)) => \E i \in 1..Len(inbox) : Relevant(inbox[i])
      BY <2>2, <3>2
    <3>4. (\E i \in 1..Len(inbox') : Relevant(inbox'[i]))
            => \E i \in 1..Len(inbox) : Relevant(inbox[i])
      BY <2>2, <3>2
    <3> QED
      BY <3>1, <3>3, <3>4
  <2>4. Relevant(Head(inbox)) \in BOOLEAN
    BY <2>2 DEF Relevant, NotifyEvent
  <2> QED
    BY <2>1, <2>2, <2>3, <2>4 DEF Unanswered
<1>3. CASE (StayQuiet /\ UNCHANGED vars) \/ WatcherTriggers
  <2>1. /\ inbox = <<>> /\ UNCHANGED inbox /\ relevant' = FALSE
        /\ unanswered' = FALSE \/ (~relevant /\ UNCHANGED unanswered)
    BY <1>3 DEF StayQuiet, WatcherTriggers, SendTrigger, Quiet
  <2>2. Len(inbox) = 0 /\ Len(inbox') = 0
    BY <2>1, EmptySeq
  <2>3. /\ ~\E i \in 1..Len(inbox) : Relevant(inbox[i])
        /\ ~\E i \in 1..Len(inbox') : Relevant(inbox'[i])
    BY <2>2
  <2>4. unanswered' = FALSE
    BY <2>1, <2>3 DEF Unanswered
  <2>5. inbox' \in Seq(NotifyEvent)
    BY <2>1 DEF Unanswered
  <2> QED
    BY <2>1, <2>3, <2>4, <2>5 DEF Unanswered
<1>4. CASE UNCHANGED watchVars
  BY <1>4 DEF watchVars, Unanswered
<1>5. CASE Signalled \/ UNCHANGED devVars
  BY <1>4, <1>5 DEF Signalled, devVars, watchVars
<1> QED
  BY <1>1, <1>2, <1>3, <1>4, <1>5 DEF DevNext, WatcherStep

\* However relevant and ignored events follow each other: a burst triggers a
\* build exactly when something relevant came since the last trigger.
THEOREM TriggersAlwaysAnswer == DevSpec => TriggersAnswer
<1>1. DevInit => Unanswered
  <2> SUFFICES ASSUME DevInit PROVE Unanswered
    OBVIOUS
  <2>1. relevant = FALSE /\ unanswered = FALSE /\ inbox = <<>>
    BY DEF DevInit, WatcherInit
  <2>2. inbox \in Seq(NotifyEvent) /\ Len(inbox) = 0
    BY <2>1, EmptySeq
  <2>3. \A i \in 1..0 : FALSE
    OBVIOUS
  <2> QED
    BY <2>1, <2>2, <2>3 DEF Unanswered
<1>2. Unanswered /\ [DevNext]_devVars
        => [/\ WatcherTriggers => unanswered
            /\ StayQuiet => ~unanswered]_devVars
  <2> SUFFICES ASSUME Unanswered
               PROVE  /\ WatcherTriggers => unanswered
                      /\ StayQuiet => ~unanswered
    OBVIOUS
  <2>1. ASSUME WatcherTriggers PROVE unanswered
    BY <2>1 DEF WatcherTriggers, SendTrigger, Unanswered
  <2>2. ASSUME StayQuiet PROVE ~unanswered
    <3>1. Len(inbox) = 0 /\ ~relevant
      BY <2>2, EmptySeq DEF StayQuiet, Quiet
    <3>2. \A i \in 1..0 : FALSE
      OBVIOUS
    <3> QED
      BY <3>1, <3>2 DEF Unanswered
  <2> QED
    BY <2>1, <2>2
<1> QED
  BY <1>1, <1>2, UnansweredPreserved, PTL DEF DevSpec, TriggersAnswer
=============================================================================
