------------------------------ MODULE ServeLive ------------------------------
(***************************************************************************)
(* Live reload of `trillium serve --render` (src/serve/live.rs and         *)
(* src/serve/live.js): a watcher thread coalesces changes below the root   *)
(* into bursts and broadcasts a tick for each; a websocket handler per     *)
(* page forwards ticks, and the script in the page reloads on any message. *)
(*                                                                         *)
(* All ticks are alike, so a receiver and a websocket hold a number of     *)
(* them.  sock says how far the connection of a page has come:             *)
(*   "closed"    the script is about to connect                            *)
(*   "accepted"  upgraded, reload() has not made its receiver yet          *)
(*   "live"      in the loop of reload()                                   *)
(*   "dropped"   the handler is gone, the script has yet to notice         *)
(*   "gone"      no page, or "the server cannot be reached" in its place   *)
(***************************************************************************)
EXTENDS Naturals, Sequences

CONSTANTS Tab,        \* browser tabs
          Capacity,   \* of the tick channel (8 in the code)
          MaxVersion, \* bound: changes below the root
          MaxInbox    \* bound: notify events not received yet

ASSUME CapacityAssumption == Capacity \in Nat \ {0}
ASSUME BoundAssumption == MaxVersion \in Nat /\ MaxInbox \in Nat

VARIABLES version,  \* of the files below the root
          watcher,  \* "down" with the server, "starting", "on" or "failed"
          inbox,    \* notify events not received yet: "change" or "blip"
          burst,    \* "none", or the most that the burst under way has seen
          sock,     \* [Tab -> state of its connection]
          kept,     \* ticks in the channel: _keepalive never takes one
          rx,       \* [Tab -> ticks its receiver has not taken yet]
          lost,     \* [Tab -> a tick it had not taken was overwritten]
          wire,     \* [Tab -> a message is on its way to the page]
          seen,     \* [Tab -> version the page shows]
          since     \* [Tab -> version when its receiver was made, or the watch begun]

watch == <<watcher, inbox, burst>>
channel == <<kept, rx, lost>>
tabs == <<sock, channel, wire, seen, since>>
vars == <<version, watch, tabs>>

Up == watcher # "down"

TypeOK == /\ version \in 0 .. MaxVersion
          /\ watcher \in {"down", "starting", "on", "failed"}
          /\ inbox \in Seq({"change", "blip"})
          /\ burst \in {"none", "blip", "change"}
          /\ watcher # "on" => inbox = <<>> /\ burst = "none"
          /\ sock \in [Tab -> {"closed", "accepted", "live", "dropped", "gone"}]
          /\ kept \in 0 .. Capacity
          /\ rx \in [Tab -> 0 .. kept]
          /\ lost \in [Tab -> BOOLEAN] /\ wire \in [Tab -> BOOLEAN]
          /\ seen \in [Tab -> 0 .. MaxVersion] /\ since \in [Tab -> 0 .. MaxVersion]
          /\ \A t \in Tab : sock[t] \in {"accepted", "live"} => Up

Init == /\ version = 0
        /\ watcher = "starting" /\ inbox = <<>> /\ burst = "none"
        /\ sock = [t \in Tab |-> "gone"]
        /\ kept = 0 /\ rx = [t \in Tab |-> 0] /\ lost = [t \in Tab |-> FALSE]
        /\ wire = [t \in Tab |-> FALSE]
        /\ seen = [t \in Tab |-> 0] /\ since = [t \in Tab |-> 0]
-----------------------------------------------------------------------------
(* Files, and the watcher thread                                           *)

\* What notify queues, if the watcher is on.
Queued(event) == IF watcher = "on" THEN Append(inbox, event) ELSE inbox

\* A file below the root is created, written, renamed or removed.
Change == /\ version < MaxVersion
          /\ Len(inbox) < MaxInbox
          /\ version' = version + 1
          /\ inbox' = Queued("change")
          /\ UNCHANGED <<watcher, burst, tabs>>

\* The metadata of a file change, or notify reports an error.
Blip == /\ Len(inbox) < MaxInbox
        /\ inbox' = Queued("blip")
        /\ UNCHANGED <<version, watcher, burst, tabs>>

\* The watcher thread puts the root under watch, or cannot.
WatchStarts == /\ watcher = "starting"
               /\ watcher' \in {"on", "failed"}
               /\ since' = [t \in Tab |-> version]
               /\ UNCHANGED <<version, inbox, burst, sock, channel, wire, seen>>

\* Mutant: any event is a change, reading a file too.
AnyEvent(event) == event \in {"change", "blip"}

\* is_change
IsChange(event) == event = "change"

\* Mutant: the last event of a burst decides.
CollectLast == /\ inbox # <<>>
               /\ burst' = Head(inbox)
               /\ inbox' = Tail(inbox)
               /\ UNCHANGED <<version, watcher, tabs>>

\* The first event of a burst, or the next one within 100ms.
Collect == /\ inbox # <<>>
           /\ burst' = IF IsChange(Head(inbox)) \/ burst = "change" THEN "change" ELSE "blip"
           /\ inbox' = Tail(inbox)
           /\ UNCHANGED <<version, watcher, tabs>>

\* 100ms without an event end the burst.
Quiet == /\ burst # "none"
         /\ inbox = <<>>
         /\ burst' = "none"
         /\ UNCHANGED <<version, watcher, inbox>>

\* A tick reaches each receiver; one that is full loses its oldest for it.
Broadcast == /\ rx' = [t \in Tab |-> IF sock[t] = "live" /\ rx[t] < Capacity
                                     THEN rx[t] + 1 ELSE rx[t]]
             /\ lost' = [t \in Tab |-> lost[t] \/ (sock[t] = "live" /\ rx[t] = Capacity)]
             /\ kept' = IF kept < Capacity THEN kept + 1 ELSE kept
             /\ UNCHANGED <<sock, wire, seen, since>>

\* Mutant: without set_overflow there is no tick while the channel is full.
TickIfRoom == /\ Quiet
              /\ burst = "change"
              /\ IF kept < Capacity THEN Broadcast ELSE UNCHANGED tabs

\* try_broadcast, after a burst with a change in it.
Tick == /\ Quiet
        /\ burst = "change"
        /\ Broadcast

StayQuiet == /\ Quiet
             /\ burst = "blip"
             /\ UNCHANGED tabs
-----------------------------------------------------------------------------
(* The handler of a connection, reload()                                   *)

\* The websocket is upgraded.
Upgrade(t) == /\ Up
              /\ sock[t] = "closed"
              /\ sock' = [sock EXCEPT ![t] = "accepted"]
              /\ UNCHANGED <<version, watch, channel, wire, seen, since>>

\* new_receiver
Subscribe(t) == /\ sock[t] = "accepted"
                /\ sock' = [sock EXCEPT ![t] = "live"]
                /\ since' = [since EXCEPT ![t] = version]
                /\ UNCHANGED <<version, watch, channel, wire, seen>>

HandlerGone(t) == /\ sock' = [sock EXCEPT ![t] = "dropped"]
                  /\ rx' = [rx EXCEPT ![t] = 0]
                  /\ lost' = [lost EXCEPT ![t] = FALSE]
                  /\ UNCHANGED <<version, watch, kept, seen, since>>

\* Event::Tick(true), once the socket takes the message.
Forward(t) == /\ sock[t] = "live" /\ ~wire[t]
              /\ rx[t] > 0 /\ ~lost[t]
              /\ rx' = [rx EXCEPT ![t] = @ - 1]
              /\ wire' = [wire EXCEPT ![t] = TRUE]
              /\ UNCHANGED <<version, watch, sock, kept, lost, seen, since>>

\* Event::Tick(false): recv_direct reports the overflow as an error.
Overflowed(t) == /\ sock[t] = "live"
                 /\ lost[t]
                 /\ UNCHANGED wire
                 /\ HandlerGone(t)

\* Event::Closed, or a message that cannot be sent.
Disconnect(t) == /\ sock[t] \in {"accepted", "live"}
                 /\ wire' = [wire EXCEPT ![t] = FALSE]
                 /\ HandlerGone(t)
-----------------------------------------------------------------------------
(* The page, and the server as a whole                                     *)

\* The page is fetched, with the script in it; the file is read for it.
Load(t) == /\ sock' = [sock EXCEPT ![t] = IF Up THEN "closed" ELSE "gone"]
           /\ seen' = [seen EXCEPT ![t] = IF Up THEN version ELSE @]
           /\ inbox' = Queued("blip")
           /\ rx' = [rx EXCEPT ![t] = 0]
           /\ lost' = [lost EXCEPT ![t] = FALSE]
           /\ wire' = [wire EXCEPT ![t] = FALSE]
           /\ UNCHANGED <<version, watcher, burst, kept, since>>

\* Somebody opens the page, or reloads it by hand.
Visit(t) == /\ Up
            /\ Len(inbox) < MaxInbox
            /\ Load(t)

\* The "message" listener.
Message(t) == /\ wire[t]
              /\ Load(t)

\* The "close" listener, once everything that was sent is delivered; the script
\* connects again after a second.
NoticeClose(t) == /\ sock[t] = "dropped"
                  /\ ~wire[t]
                  /\ sock' = [sock EXCEPT ![t] = "closed"]
                  /\ UNCHANGED <<version, watch, channel, wire, seen, since>>

\* The server ends, and with it its watcher, channel and connections.
Stop == /\ Up
        /\ watcher' = "down" /\ inbox' = <<>> /\ burst' = "none"
        /\ sock' = [t \in Tab |-> IF sock[t] \in {"accepted", "live"} THEN "dropped" ELSE sock[t]]
        /\ kept' = 0 /\ rx' = [t \in Tab |-> 0]
        /\ lost' = [t \in Tab |-> FALSE]
        /\ UNCHANGED <<version, wire, seen, since>>

\* It is started again; handler() spawns the watcher thread.
Start == /\ ~Up
         /\ watcher' = "starting"
         /\ UNCHANGED <<version, inbox, burst, tabs>>

Watch == WatchStarts \/ Collect \/ Tick \/ StayQuiet

Step(t) == \/ Upgrade(t) \/ Subscribe(t) \/ Forward(t) \/ Overflowed(t)
           \/ Message(t) \/ NoticeClose(t)

Next == \/ Change \/ Blip \/ Watch \/ Stop \/ Start
        \/ \E t \in Tab : Step(t) \/ Disconnect(t) \/ Visit(t)

Spec == Init /\ [][Next]_vars

\* Threads, handlers and browsers run; nobody has to change a file, open a page,
\* stop or start the server.
Fairness == /\ WF_vars(Watch)
            /\ \A t \in Tab : WF_vars(Step(t))

FairSpec == Spec /\ Fairness
-----------------------------------------------------------------------------
(* Properties                                                              *)

\* A page that is behind, by a change made since its connection has a receiver and
\* the root is under watch.
Behind(t) == /\ sock[t] = "live" /\ watcher = "on"
             /\ version > seen[t] /\ version > since[t]

\* "broadcasts a tick on each burst of real changes": from the change of a file to
\* the message, through the debounce, the bounded channel and its overflow, a live
\* page that is behind always has a reload or the end of its connection ahead.
ReloadUnderWay == \A t \in Tab : Behind(t) =>
  \/ \E i \in DOMAIN inbox : IsChange(inbox[i])
  \/ burst = "change"
  \/ rx[t] > 0 \/ lost[t] \/ wire[t]

\* And it is reloaded, unless the connection is lost; provided that events let up,
\* because each one restarts the 100ms of quiet.
ChangeReloads == <>[](inbox = <<>>) =>
  \A t \in Tab, v \in 1 .. MaxVersion :
    Behind(t) /\ version = v ~> seen[t] >= v \/ sock[t] \in {"dropped", "gone"}

\* "merely serving a file doesn't trigger a reload loop": pages cease to reload
\* themselves when the files no longer change.
ReloadsLetUp == <>[][\A t \in Tab : ~Message(t)]_vars
=============================================================================
