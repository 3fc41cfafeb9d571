----------------------------- MODULE LiveReload -----------------------------
(***************************************************************************)
(* The way of a build event from the supervisor to a browser: the          *)
(* broadcast channel, the live_reload websocket handler of each connection *)
(* (src/dev_server.rs, proxy_app) and the script in the page               *)
(* (src/dev_server.js).  The supervisor is BuildEvents, which Supervisor   *)
(* implements.                                                             *)
(*                                                                         *)
(* sock says how far the connection of a tab has come:                     *)
(*   "closed"      the script has no websocket and is about to connect     *)
(*   "accepted"    upgraded, live_reload has not made its receiver yet     *)
(*   "subscribed"  receiver made, sticky status not read yet               *)
(*   "live"        in the loop over outgoing and incoming messages         *)
(*   "dropped"     the handler has returned, the script has yet to notice  *)
(***************************************************************************)
EXTENDS Naturals, Sequences

CONSTANTS Tab,            \* browser tabs, each with one page of the app
          Capacity,       \* of the broadcast channel, in events (16 in the code)
          WireCapacity,   \* bound: messages a socket buffers before send waits
          Diagnostics, NoDiagnostics, NoEvent,
          Targets         \* the locations of a list of diagnostics, by their id

ASSUME CapacityAssumption == /\ Capacity \in Nat \ {0}
                             /\ WireCapacity \in Nat \ {0}
ASSUME TargetsAssumption == /\ DOMAIN Targets = Diagnostics \cup {NoDiagnostics}
                            /\ \A d \in DOMAIN Targets : DOMAIN Targets[d] \subseteq Nat

VARIABLES phase, step, event, status, openTargets, up,  \* of BuildEvents
          sock,   \* [Tab -> state of its connection]
          rx,     \* [Tab -> events its receiver has not taken yet]
          lost,   \* [Tab -> the channel overwrote an event it had not taken]
          wire,   \* [Tab -> messages on their way to the browser]
          click,  \* [Tab -> an Open request on its way to the server]
          view,   \* [Tab -> what pill and overlay show]
          page,   \* [Tab -> "starting" or "app": which document is loaded]
          stale   \* [Tab -> the proxy moved to a new app since it was loaded]

source == <<phase, step, event, status, openTargets, up>>
channel == <<rx, lost>>
document == <<view, page, stale>>
vars == <<phase, step, event, status, openTargets, up,
          sock, rx, lost, wire, click, view, page, stale>>

B == INSTANCE BuildEvents

ASSUME EventAssumption == NoEvent \notin B!Event

\* The connections that have a receiver.
Listening == {"subscribed", "live"}

NoClick == [id |-> 0, shown |-> NoDiagnostics]
Showing(kind, diagnostics) == [kind |-> kind, diagnostics |-> diagnostics]
Plainly(kind) == Showing(kind, NoDiagnostics)

View == {Plainly(k) : k \in {"clean", "rebuilding", "reloading", "offline"}}
          \cup {Showing("errors", d) : d \in DOMAIN Targets}

TypeOK == /\ B!TypeOK
          /\ sock \in [Tab -> {"closed", "accepted", "subscribed", "live", "dropped"}]
          /\ rx \in [Tab -> Seq(B!Event)] /\ wire \in [Tab -> Seq(B!Event)]
          /\ \A t \in Tab : /\ Len(rx[t]) <= Capacity
                            /\ Len(wire[t]) <= WireCapacity
                            /\ sock[t] \notin Listening => rx[t] = <<>>
          /\ lost \in [Tab -> BOOLEAN]
          /\ click \in [Tab -> [id : Nat, shown : Diagnostics \cup {NoDiagnostics}]]
          /\ view \in [Tab -> View]
          /\ page \in [Tab -> {"starting", "app"}]
          /\ stale \in [Tab -> BOOLEAN]

Init == /\ B!Init
        /\ sock = [t \in Tab |-> "closed"]
        /\ rx = [t \in Tab |-> <<>>]
        /\ lost = [t \in Tab |-> FALSE]
        /\ wire = [t \in Tab |-> <<>>]
        /\ click = [t \in Tab |-> NoClick]
        /\ view = [t \in Tab |-> Plainly("clean")]
        /\ page = [t \in Tab |-> "starting"]
        /\ stale = [t \in Tab |-> FALSE]
-----------------------------------------------------------------------------
(* The supervisor and the channel                                          *)

\* A step of the supervisor that sends nothing.  When it moves the proxy to a
\* new app, every document loaded before is out of date.
SupervisorQuietly ==
  /\ B!Quietly
  /\ stale' = [t \in Tab |-> stale[t] \/ phase' = "shifted"]
  /\ UNCHANGED <<sock, channel, wire, click, view, page>>

\* broadcast_direct on a channel with overflow: the oldest event makes room, and
\* a receiver that had not taken it will be told.  The receiver kept in
\* DevServer::run never takes any, so the channel is full most of the time.
Broadcast ==
  /\ B!Send
  /\ LET Full(t) == Len(rx[t]) = Capacity IN
     /\ rx' = [t \in Tab |-> IF sock[t] \notin Listening THEN <<>>
                             ELSE Append(IF Full(t) THEN Tail(rx[t]) ELSE rx[t], event)]
     /\ lost' = [t \in Tab |-> lost[t] \/ (sock[t] \in Listening /\ Full(t))]
  /\ UNCHANGED <<sock, wire, click, document>>
-----------------------------------------------------------------------------
(* live_reload                                                             *)

Upgrade(t) == /\ sock[t] = "closed"
              /\ sock' = [sock EXCEPT ![t] = "accepted"]
              /\ UNCHANGED <<source, channel, wire, click, document>>

\* Mutant: the sticky status is read and sent before the receiver is made.
StatusBeforeReceiver(t) ==
  /\ \/ /\ sock[t] = "accepted"
        /\ sock' = [sock EXCEPT ![t] = "replayed"]
        /\ wire' = IF status = NoEvent THEN wire
                   ELSE [wire EXCEPT ![t] = Append(@, status)]
     \/ /\ sock[t] = "replayed"
        /\ sock' = [sock EXCEPT ![t] = "live"]
        /\ UNCHANGED wire
  /\ UNCHANGED <<source, channel, click, document>>

\* state.events.new_receiver(): it sees what is broadcast from now on.
Subscribe(t) == /\ sock[t] = "accepted"
                /\ sock' = [sock EXCEPT ![t] = "subscribed"]
                /\ UNCHANGED <<source, channel, wire, click, document>>

\* Read the sticky status, then send it to the browser.
ReplayStatus(t) ==
  /\ sock[t] = "subscribed"
  /\ sock' = [sock EXCEPT ![t] = "live"]
  /\ wire' = IF status = NoEvent THEN wire
             ELSE [wire EXCEPT ![t] = Append(@, status)]
  /\ UNCHANGED <<source, channel, click, document>>

\* The outgoing half of the loop; send_json waits while the socket is full.
Outgoing(t) == /\ sock[t] = "live"
               /\ ~lost[t]
               /\ rx[t] # <<>>
               /\ Len(wire[t]) < WireCapacity
               /\ wire' = [wire EXCEPT ![t] = Append(@, Head(rx[t]))]
               /\ rx' = [rx EXCEPT ![t] = Tail(@)]
               /\ UNCHANGED <<source, sock, lost, click, document>>

\* The handler is gone: its receiver with it, and what it had not read.
HandlerGone(t) == /\ sock' = [sock EXCEPT ![t] = "dropped"]
                  /\ rx' = [rx EXCEPT ![t] = <<>>]
                  /\ lost' = [lost EXCEPT ![t] = FALSE]
                  /\ click' = [click EXCEPT ![t] = NoClick]
                  /\ UNCHANGED <<source, document>>

\* Mutant: the error is ignored and the connection goes on with what is left.
OverflowIgnored(t) == /\ sock[t] = "live"
                      /\ lost[t]
                      /\ lost' = [lost EXCEPT ![t] = FALSE]
                      /\ UNCHANGED <<source, sock, rx, wire, click, document>>

\* Mutant: the handler neither forwards nor returns after the error.
OverflowStalls(t) == /\ sock[t] = "live"
                     /\ lost[t]
                     /\ UNCHANGED vars

\* recv_direct reports the overflow as an error, which ends the connection.
Overflowed(t) == /\ sock[t] = "live"
                 /\ lost[t]
                 /\ UNCHANGED wire
                 /\ HandlerGone(t)

\* The connection breaks, or the browser closes it.
Disconnect(t) == /\ sock[t] \in {"accepted", "subscribed", "live"}
                 /\ wire' = [wire EXCEPT ![t] = <<>>]
                 /\ HandlerGone(t)

\* The incoming half of the loop, polled when nothing is outgoing: the id is
\* looked up in the table as it is now, an unknown one is ignored.
Incoming(t) == /\ sock[t] = "live"
               /\ rx[t] = <<>>
               /\ click[t] # NoClick
               /\ click' = [click EXCEPT ![t] = NoClick]
               /\ UNCHANGED <<source, sock, channel, wire, document>>

\* The location that is opened in the editor, if any.
Opened(t) == LET table == Targets[openTargets] IN
             IF click[t].id \in DOMAIN table THEN {table[click[t].id]} ELSE {}
-----------------------------------------------------------------------------
(* The script in the page                                                  *)

\* The document is fetched through the proxy: the app's, or the "starting up"
\* page while there is no app or it cannot be reached.  The websocket of the
\* old document goes with it.
Load(t) == /\ \E p \in IF up THEN {"app", "starting"} ELSE {"starting"} :
                page' = [page EXCEPT ![t] = p]
           /\ view' = [view EXCEPT ![t] = Plainly("clean")]
           /\ stale' = [stale EXCEPT ![t] = FALSE]
           /\ sock' = [sock EXCEPT ![t] = "closed"]
           /\ rx' = [rx EXCEPT ![t] = <<>>]
           /\ lost' = [lost EXCEPT ![t] = FALSE]
           /\ wire' = [wire EXCEPT ![t] = <<>>]
           /\ click' = [click EXCEPT ![t] = NoClick]
           /\ UNCHANGED source

Shown(e) == CASE e.type = "Rebuild"      -> Plainly("rebuilding")
              [] e.type = "CompileError" -> Showing("errors", e.diagnostics)
              [] e.type = "BuildSuccess" -> Plainly("reloading")

\* The "message" listener.
Receive(t) ==
  /\ wire[t] # <<>>
  /\ LET e == Head(wire[t]) IN
     \/ /\ e.type = "Restarted"
        /\ Load(t)
     \/ /\ e.type # "Restarted"
        /\ view' = [view EXCEPT ![t] = Shown(e)]
        /\ wire' = [wire EXCEPT ![t] = Tail(@)]
        /\ UNCHANGED <<source, sock, channel, click, page, stale>>

\* The "close" listener, once everything that was sent is delivered.  The
\* script connects again a second later.
NoticeClose(t) == /\ sock[t] = "dropped"
                  /\ wire[t] = <<>>
                  /\ sock' = [sock EXCEPT ![t] = "closed"]
                  /\ view' = [view EXCEPT ![t] = Plainly("offline")]
                  /\ UNCHANGED <<source, channel, wire, click, page, stale>>

\* The "click" listener on a source location of the overlay.
Click(t) == /\ sock[t] \in {"accepted", "subscribed", "live"}
            /\ view[t].kind = "errors"
            /\ click[t] = NoClick
            /\ \E i \in DOMAIN Targets[view[t].diagnostics] :
                 click' = [click EXCEPT ![t] = [id |-> i, shown |-> view[t].diagnostics]]
            /\ UNCHANGED <<source, sock, channel, wire, document>>
-----------------------------------------------------------------------------
ServerStep(t) == \/ Subscribe(t) \/ ReplayStatus(t) \/ Outgoing(t)
                 \/ Overflowed(t)
BrowserStep(t) == Upgrade(t) \/ Receive(t) \/ NoticeClose(t)

Next == \/ SupervisorQuietly \/ Broadcast
        \/ \E t \in Tab : \/ ServerStep(t) \/ BrowserStep(t)
                          \/ Incoming(t) \/ Disconnect(t)
                          \/ Click(t) \/ Load(t)

Spec == Init /\ [][Next]_vars

\* The supervisor finishes the build, swap and broadcast it has begun, handlers
\* and browsers run.  Nobody has to edit, click, load a page by hand or lose a
\* connection.
Fairness == /\ WF_vars(SupervisorQuietly /\ (step = "announce" \/ phase # "quiet"))
            /\ WF_vars(Broadcast)
            /\ \A t \in Tab : WF_vars(ServerStep(t)) /\ WF_vars(BrowserStep(t))

FairSpec == Spec /\ Fairness
-----------------------------------------------------------------------------
(* Properties                                                              *)

\* A tab that has taken and shown everything sent to it.
CaughtUp(t) == /\ sock[t] = "live"
               /\ rx[t] = <<>> /\ ~lost[t]
               /\ wire[t] = <<>>

Agrees(t) == IF status = NoEvent THEN view[t].kind \notin {"rebuilding", "errors"}
                                 ELSE view[t] = Shown(status)

\* Between broadcasts, a tab that is caught up shows the sticky status: the build
\* under way or the errors of the last one, and neither after a success.  However
\* connections, overflows, reloads and broadcasts interleave, no event slips
\* between making the receiver and reading the status.
OverlayIsCurrent == \A t \in Tab : CaughtUp(t) /\ step = "run" => Agrees(t)

RestartPending(t) == \E i \in 1..Len(rx[t]) : rx[t][i].type = "Restarted"

\* A Restarted that reaches the receiver of a live connection makes its page
\* reload, unless the connection is lost first.
RestartReloads ==
  \A t \in Tab : sock[t] = "live" /\ RestartPending(t)
                   ~> ~stale[t] \/ sock[t] \in {"dropped", "closed"}

\* When the supervisor comes to rest, so do the tabs: each agrees with the
\* status, again and again, except when its connection is lost again.
TabsSettle ==
  <>[](phase = "quiet" /\ step = "run") =>
    \A t \in Tab : []<>(Agrees(t) \/ sock[t] \in {"dropped", "closed"})

\* The dev server "opens only the location the compiler reported for that id": as
\* long as the overlay in which an error was clicked is that of the last build, the
\* location that is opened is the one of that error.
ClickOpensShown == \A t \in Tab :
  LET clicked == click[t] IN
  /\ CaughtUp(t) /\ step = "run"
  /\ clicked # NoClick
  /\ view[t] = Showing("errors", clicked.shown)
  => Opened(t) = {Targets[clicked.shown][clicked.id]}
=============================================================================
