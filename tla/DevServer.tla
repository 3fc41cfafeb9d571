----------------------------- MODULE DevServer -----------------------------
(***************************************************************************)
(* The threads DevServer::run starts around one mpsc channel of triggers:  *)
(* the file watcher and the SIGHUP handler send, the supervisor receives.  *)
(* Supervisor lets an edit reach the channel at once; here it takes the    *)
(* way through the watcher, and other events come in between.              *)
(***************************************************************************)
EXTENDS Supervisor, Watcher

devVars == <<pc, event, status, openTargets, sources, queue, built, exe,
             child, old, upstream, heard, proc, version, reap,
             inbox, bursting, relevant, unanswered>>

DevInit == Init /\ WatcherInit

\* A file is saved, or a pathless event stands for such a change.
FileChanged == /\ sources < MaxVersion
               /\ sources' = sources + 1
               /\ \E e \in NotifyEvent : Relevant(e) /\ Notify(e)
               /\ UNCHANGED <<pc, events, queue, built, exe, apps>>

\* An event without anything new: rustc or an editor opens a source, its
\* metadata change, or a save delivers more events than one; and with Relevant(e)
\* false, build output or another ignored file changes, or notify errs.
NothingNew == /\ \E e \in NotifyEvent : Notify(e)
              /\ UNCHANGED vars

\* The trigger of a burst reaches the supervisor's channel.
WatcherTriggers == /\ SendTrigger
                   /\ queue < MaxQueue
                   /\ queue' = queue + 1
                   /\ UNCHANGED <<pc, events, sources, built, exe, apps>>

WatcherStep == \/ (Collect \/ StayQuiet) /\ UNCHANGED vars
               \/ WatcherTriggers

\* SIGHUP; the bound leaves room for the watcher in the unbounded channel.
Signalled == /\ queue + 1 < MaxQueue
             /\ Hangup
             /\ UNCHANGED watchVars

DevNext == \/ FileChanged \/ NothingNew \/ WatcherStep \/ Signalled
           \/ /\ \/ SupervisorStep
                 \/ \E p \in Process : ReapStep(p) \/ AppStep(p)
              /\ UNCHANGED watchVars

DevSpec == DevInit /\ [][DevNext]_devVars

DevFairness == /\ WF_devVars(WatcherStep)
               /\ WF_devVars(SupervisorStep /\ UNCHANGED watchVars)
               /\ \A p \in Process :
                    /\ WF_devVars(ReapStep(p) /\ UNCHANGED watchVars)
                    /\ WF_devVars(reap[p] = "kill" /\ AppExits(p) /\ UNCHANGED watchVars)

DevFairSpec == DevSpec /\ DevFairness
-----------------------------------------------------------------------------
\* Every burst is decided by all that came since the last trigger and by nothing
\* else: it triggers a build when one of those events was relevant, the last or
\* not, and stays quiet when all named ignored files, such as the build's own
\* output, whatever bursts came before it.  (An event is relevant whatever its
\* kind: a source that is only read, as the build does, counts.)
TriggersAnswer == [][/\ WatcherTriggers => unanswered
                     /\ StayQuiet => ~unanswered]_devVars

\* Every edit is compiled once the file system comes to rest: through the
\* debounce, past the noise, and past whatever build or swap is going on.
EditReachesBuild == <>[](inbox = <<>>) => EveryEditBuilt
=============================================================================
