------------------------------ MODULE Watcher ------------------------------
(***************************************************************************)
(* The dev server's file watcher thread (src/dev_server.rs, watch_loop and *)
(* record_changed): notify events are coalesced into bursts, and a burst   *)
(* with anything in it outside the ignore list sends one trigger.          *)
(*                                                                         *)
(* An event is Ok with the set of paths it names, or an error; its kind is *)
(* never looked at, so that a file that is only opened counts as well.     *)
(***************************************************************************)
EXTENDS Naturals, Sequences

CONSTANTS Path,       \* paths under the watched directories
          Ignored,    \* those below a prefix of the ignore list
          MaxInbox    \* bound: notify events not received yet

ASSUME IgnoredAssumption == Ignored \subseteq Path
ASSUME InboxAssumption == MaxInbox \in Nat

VARIABLES inbox,      \* events_rx: notify events not received yet
          bursting,   \* between the first event of a burst and 150ms of quiet
          relevant,   \* whether any event of the burst was relevant
          unanswered  \* history: a relevant event came since the last trigger

watchVars == <<inbox, bursting, relevant, unanswered>>

\* record_changed: whether an event is relevant to a rebuild; a pathless one is.
Relevant(e) == /\ e.ok
               /\ e.paths = {} \/ ~(e.paths \subseteq Ignored)

\* The events notify can deliver.
NotifyEvent == {e \in [ok : BOOLEAN, paths : SUBSET Path] : ~e.ok => e.paths = {}}

WatcherInit == /\ inbox = <<>>
               /\ bursting = FALSE
               /\ relevant = FALSE
               /\ unanswered = FALSE

\* notify delivers an event.
Notify(e) == /\ Len(inbox) < MaxInbox
             /\ inbox' = Append(inbox, e)
             /\ unanswered' = (unanswered \/ Relevant(e))
             /\ UNCHANGED <<bursting, relevant>>

\* Mutant: `relevant =` for `relevant |=`.
LastEventDecides == /\ inbox # <<>>
                    /\ inbox' = Tail(inbox)
                    /\ bursting' = TRUE
                    /\ relevant' = Relevant(Head(inbox))
                    /\ UNCHANGED unanswered

\* The first event of a burst, or the next one within 150ms.
Collect == /\ inbox # <<>>
           /\ inbox' = Tail(inbox)
           /\ bursting' = TRUE
           /\ relevant' = (relevant \/ Relevant(Head(inbox)))
           /\ UNCHANGED unanswered

\* Mutant: `relevant` is declared outside of the loop and stays set.
RelevantKept == /\ bursting
                /\ inbox = <<>>
                /\ bursting' = FALSE
                /\ UNCHANGED <<inbox, relevant>>

\* 150ms without an event: the burst is over, and its `relevant` with it.
Quiet == /\ bursting
         /\ inbox = <<>>
         /\ bursting' = FALSE
         /\ relevant' = FALSE
         /\ UNCHANGED inbox

\* All of it was ignored; stay quiet.
StayQuiet == /\ Quiet
             /\ ~relevant
             /\ UNCHANGED unanswered

\* The trigger of the burst, tx.send(()).
SendTrigger == /\ Quiet
               /\ relevant
               /\ unanswered' = FALSE
=============================================================================
