-------------------------- MODULE LiveReloadProofs --------------------------
(***************************************************************************)
(* Proofs that a tab which has caught up shows the sticky status, and that *)
(* what is clicked there is what is opened, for any number of tabs and any *)
(* capacity of the channel and of the sockets.                             *)
(***************************************************************************)
EXTENDS LiveReload, SequenceTheorems, TLAPS

\* An event that leaves the sticky status as it is.
Matches(e) == IF status = NoEvent THEN e.type = "BuildSuccess" ELSE e = status

\* Nothing in a queue will make the page reload.
NoRestart(queue) == \A i \in 1..Len(queue) : queue[i].type # "Restarted"

Newest(queue) == queue[Len(queue)]

\* A script that was not sent anything shows nothing of a build.
Fresh(t) == sock[t] \in {"closed", "accepted", "subscribed"} =>
              wire[t] = <<>> /\ view[t].kind \in {"clean", "offline"}

\* The newest event under way to a tab, or what it shows when there is none, is the
\* sticky status: but for the moment between the status and the broadcast.
Current(t) ==
  sock[t] \in Listening /\ ~lost[t] /\ step # "send"
    /\ NoRestart(rx[t]) /\ NoRestart(wire[t])
  => /\ rx[t] # <<>> => Matches(Newest(rx[t]))
     /\ rx[t] = <<>> /\ sock[t] = "live" =>
          IF wire[t] = <<>> THEN Agrees(t) ELSE Matches(Newest(wire[t]))

\* In that moment the event to come matches the status.
Announced ==
  /\ step # "run" => event \in B!Event
  /\ step = "send" /\ event.type # "Restarted" => Matches(event)
  /\ status # NoEvent => status.type \in {"Rebuild", "CompileError"}

\* The table is the one of the errors in the status, or of those to come.
TableFits ==
  IF step = "announce" /\ event.type = "CompileError" THEN openTargets = event.diagnostics
  ELSE status # NoEvent /\ status.type = "CompileError" => openTargets = status.diagnostics

\* What was clicked was in the list that was shown.
Clicked(t) == click[t] = NoClick \/ click[t].id \in DOMAIN Targets[click[t].shown]

IInv == /\ TypeOK /\ Announced /\ TableFits
        /\ \A t \in Tab : Fresh(t) /\ Current(t) /\ Clicked(t)
-----------------------------------------------------------------------------
LEMMA SourceTypes == B!TypeOK /\ [B!Next]_source => B!TypeOK'
<1> SUFFICES ASSUME B!TypeOK, [B!Next]_source PROVE B!TypeOK'
  OBVIOUS
<1> USE DEF B!TypeOK, B!Event, B!EventTypes, B!EventOf, B!Plain, B!Announce
<1>1. CASE B!Send
  BY <1>1 DEF B!Send
<1>2. CASE B!SetStatus
  <2>1. B!Sticky(event, status) \in {event, status, NoEvent}
    BY DEF B!Sticky
  <2> QED
    BY <1>2, <2>1 DEF B!SetStatus
<1>3. CASE B!Rebuild \/ B!BuildSuccess \/ B!Restarted
  BY <1>3 DEF B!Rebuild, B!BuildSuccess, B!Restarted
<1>4. ASSUME NEW d \in Diagnostics, B!CompileError(d) PROVE B!TypeOK'
  BY <1>4 DEF B!CompileError
<1>5. CASE B!GiveUp \/ B!Respawn \/ B!PointProxy
  BY <1>5 DEF B!GiveUp, B!Respawn, B!PointProxy
<1>6. CASE UNCHANGED source
  BY <1>6 DEF source
<1> QED
  BY <1>1, <1>2, <1>3, <1>4, <1>5, <1>6 DEF B!Next, B!Quietly

\* A step of the supervisor is one of BuildEvents; every other leaves it alone.
LEMMA SourceSteps == [Next]_vars => [B!Next]_source
BY DEF Next, vars, source, SupervisorQuietly, Broadcast, B!Next, ServerStep, BrowserStep, Upgrade,
   Subscribe, ReplayStatus, Outgoing, Overflowed, HandlerGone, Disconnect, Incoming, Load,
   Receive, NoticeClose, Click
-----------------------------------------------------------------------------
\* Every step keeps the types of the variables.
LEMMA TypePreserved ==
  TypeOK /\ Announced /\ (\A t \in Tab : Fresh(t)) /\ [Next]_vars => TypeOK'
<1> SUFFICES ASSUME TypeOK, Announced, \A t \in Tab : Fresh(t), [Next]_vars PROVE TypeOK'
  OBVIOUS
<1>a. B!TypeOK'
  BY SourceTypes, SourceSteps DEF TypeOK
<1>b. \A t \in Tab : rx[t] \in Seq(B!Event) /\ wire[t] \in Seq(B!Event)
  BY DEF TypeOK
<1>c. NoClick \in [id : Nat, shown : Diagnostics \cup {NoDiagnostics}]
  BY DEF NoClick
<1>d. \A kind \in {"clean", "rebuilding", "reloading", "offline"} : Plainly(kind) \in View
  BY DEF View
<1> USE <1>a, CapacityAssumption DEF TypeOK, source, channel, document, Listening
<1>1. CASE SupervisorQuietly
  BY <1>1 DEF SupervisorQuietly
<1>2. CASE Broadcast
  <2> DEFINE Full(t) == Len(rx[t]) = Capacity
             Kept(t) == IF Full(t) THEN Tail(rx[t]) ELSE rx[t]
  <2>1. event \in B!Event
    BY <1>2 DEF Broadcast, B!Send, Announced
  <2>2. ASSUME NEW t \in Tab
        PROVE  /\ Append(Kept(t), event) \in Seq(B!Event)
               /\ Len(Append(Kept(t), event)) <= Capacity
    <3>1. CASE Full(t)
      <4>1. rx[t] # <<>> /\ Tail(rx[t]) \in Seq(B!Event) /\ Len(Tail(rx[t])) = Capacity - 1
        BY <1>b, <2>2, <3>1, EmptySeq, HeadTailProperties
      <4> QED
        BY <2>1, <3>1, <4>1, AppendProperties
    <3>2. CASE ~Full(t)
      BY <1>b, <2>1, <2>2, <3>2, AppendProperties, LenProperties
    <3> QED
      BY <3>1, <3>2
  <2>3. rx' = [t \in Tab |-> IF sock[t] \notin {"subscribed", "live"} THEN <<>>
                             ELSE Append(Kept(t), event)]
    BY <1>2 DEF Broadcast
  <2> HIDE DEF Kept
  <2>4. rx' \in [Tab -> Seq(B!Event)] /\ \A t \in Tab : Len(rx'[t]) <= Capacity
    BY <2>2, <2>3, EmptySeq
  <2>5. sock' = sock /\ \A t \in Tab : sock[t] \notin Listening => rx'[t] = <<>>
    BY <1>2, <2>3 DEF Broadcast
  <2>6. lost' \in [Tab -> BOOLEAN]
    BY <1>2 DEF Broadcast
  <2> QED
    BY <1>2, <2>4, <2>5, <2>6 DEF Broadcast
<1>3. ASSUME NEW t \in Tab, Upgrade(t) \/ Subscribe(t) PROVE TypeOK'
  BY <1>3 DEF Upgrade, Subscribe
<1>4. ASSUME NEW t \in Tab, ReplayStatus(t) PROVE TypeOK'
  <2>1. wire[t] = <<>>
    BY <1>4 DEF ReplayStatus, Fresh
  <2>2. CASE status = NoEvent
    BY <1>4, <2>2 DEF ReplayStatus
  <2>3. CASE status # NoEvent
    <3>1. Append(wire[t], status) \in Seq(B!Event) /\ Len(Append(wire[t], status)) = 1
      BY <1>b, <2>1, <2>3, AppendProperties, EmptySeq DEF B!TypeOK
    <3> QED
      BY <1>4, <2>3, <3>1 DEF ReplayStatus
  <2> QED
    BY <2>2, <2>3
<1>5. ASSUME NEW t \in Tab, Outgoing(t) PROVE TypeOK'
  <2>1. rx[t] # <<>> /\ Len(wire[t]) < WireCapacity /\ sock[t] = "live"
    BY <1>5 DEF Outgoing
  <2>2. /\ Head(rx[t]) \in B!Event /\ Tail(rx[t]) \in Seq(B!Event)
        /\ Len(Tail(rx[t])) = Len(rx[t]) - 1 /\ Len(rx[t]) \in Nat
    BY <1>b, <2>1, HeadTailProperties, LenProperties
  <2>3. /\ Append(wire[t], Head(rx[t])) \in Seq(B!Event)
        /\ Len(Append(wire[t], Head(rx[t]))) = Len(wire[t]) + 1 /\ Len(wire[t]) \in Nat
    BY <1>b, <2>2, AppendProperties, LenProperties
  <2>4. Len(Tail(rx[t])) <= Capacity /\ Len(Append(wire[t], Head(rx[t]))) <= WireCapacity
    BY <2>1, <2>2, <2>3
  <2> QED
    BY <1>5, <2>1, <2>2, <2>3, <2>4 DEF Outgoing
<1>6. ASSUME NEW t \in Tab, Overflowed(t) \/ Disconnect(t) PROVE TypeOK'
  <2>1. HandlerGone(t) /\ (wire' = wire \/ wire' = [wire EXCEPT ![t] = <<>>])
    BY <1>6 DEF Overflowed, Disconnect
  <2>2. wire' \in [Tab -> Seq(B!Event)] /\ \A u \in Tab : Len(wire'[u]) <= WireCapacity
    <3>1. <<>> \in Seq(B!Event) /\ Len(<<>>) = 0
      BY EmptySeq
    <3>2. CASE wire' = wire
      BY <3>2
    <3>3. CASE wire' = [wire EXCEPT ![t] = <<>>]
      BY <3>1, <3>3
    <3> QED
      BY <2>1, <3>2, <3>3
  <2>3. rx' \in [Tab -> Seq(B!Event)] /\ \A u \in Tab : Len(rx'[u]) <= Capacity
    BY <1>b, <2>1, EmptySeq DEF HandlerGone
  <2> QED
    BY <1>c, <2>1, <2>2, <2>3 DEF HandlerGone
<1>7. ASSUME NEW t \in Tab, Incoming(t) PROVE TypeOK'
  BY <1>c, <1>7 DEF Incoming
<1>8. ASSUME NEW t \in Tab, Load(t) PROVE TypeOK'
  <2>1. page' \in [Tab -> {"starting", "app"}]
    BY <1>8 DEF Load
  <2> QED
    BY <1>c, <1>d, <1>8, <2>1, EmptySeq DEF Load
<1>9. ASSUME NEW t \in Tab, Receive(t), ~Load(t) PROVE TypeOK'
  <2> DEFINE e == Head(wire[t])
  <2>1. /\ wire[t] # <<>> /\ e.type # "Restarted"
        /\ view' = [view EXCEPT ![t] = Shown(e)]
        /\ wire' = [wire EXCEPT ![t] = Tail(@)]
        /\ UNCHANGED <<source, sock, channel, click, page, stale>>
    BY <1>9 DEF Receive
  <2>2. /\ e \in B!Event /\ Tail(wire[t]) \in Seq(B!Event)
        /\ Len(Tail(wire[t])) = Len(wire[t]) - 1 /\ Len(wire[t]) \in Nat
    BY <1>b, <2>1, HeadTailProperties, LenProperties
  <2>3. e.type \in {"Rebuild", "CompileError", "BuildSuccess"} /\ e.diagnostics \in DOMAIN Targets
    BY <2>1, <2>2, TargetsAssumption DEF B!Event, B!EventTypes
  <2>4. Shown(e) \in View
    BY <2>3 DEF Shown, View
  <2> HIDE DEF e
  <2> QED
    BY <2>1, <2>2, <2>4
<1>10. ASSUME NEW t \in Tab, NoticeClose(t) PROVE TypeOK'
  BY <1>10, <1>d DEF NoticeClose
<1>11. ASSUME NEW t \in Tab, Click(t) PROVE TypeOK'
  <2>1. view[t] \in View /\ view[t].kind = "errors"
    BY <1>11 DEF Click
  <2>2. view[t].diagnostics \in DOMAIN Targets
    BY <2>1 DEF View, Plainly, Showing
  <2>3. PICK i \in DOMAIN Targets[view[t].diagnostics] :
          click' = [click EXCEPT ![t] = [id |-> i, shown |-> view[t].diagnostics]]
    BY <1>11 DEF Click
  <2>4. i \in Nat /\ view[t].diagnostics \in Diagnostics \cup {NoDiagnostics}
    BY <2>2, TargetsAssumption
  <2> QED
    BY <1>11, <2>3, <2>4 DEF Click
<1>12. CASE UNCHANGED vars
  BY <1>12 DEF vars
<1> QED
  BY <1>1, <1>2, <1>3, <1>4, <1>5, <1>6, <1>7, <1>8, <1>9, <1>10, <1>11, <1>12
     DEF Next, ServerStep, BrowserStep
-----------------------------------------------------------------------------
(* The source of the events                                                *)

\* The status is what the newest event says, but for a broadcast half done.
LEMMA AnnouncedPreserved == B!TypeOK /\ Announced /\ [Next]_vars => Announced'
<1> SUFFICES ASSUME B!TypeOK, Announced, [B!Next]_source PROVE Announced'
  BY SourceSteps
<1>a. B!TypeOK'
  BY SourceTypes
<1> USE EventAssumption DEF Announced, Matches, B!Announce, B!TypeOK
<1>1. CASE B!Send
  BY <1>1 DEF B!Send
<1>2. CASE B!SetStatus
  <2>1. event \in B!Event /\ event.type \in B!EventTypes
    BY <1>2 DEF B!SetStatus, B!Event
  <2>2. CASE event.type \in {"Rebuild", "CompileError"}
    <3>1. B!Sticky(event, status) = event
      BY <2>2 DEF B!Sticky
    <3> QED
      BY <1>2, <2>1, <2>2, <3>1 DEF B!SetStatus
  <2>3. CASE event.type = "BuildSuccess"
    <3>1. B!Sticky(event, status) = NoEvent
      BY <2>3 DEF B!Sticky
    <3> QED
      BY <1>2, <2>1, <2>3, <3>1 DEF B!SetStatus
  <2>4. CASE event.type = "Restarted"
    <3>1. B!Sticky(event, status) = status
      BY <2>4 DEF B!Sticky
    <3> QED
      BY <1>2, <2>1, <2>4, <3>1 DEF B!SetStatus
  <2> QED
    BY <2>1, <2>2, <2>3, <2>4 DEF B!EventTypes
<1>3. CASE B!Rebuild \/ B!BuildSuccess \/ B!Restarted \/ \E d \in Diagnostics : B!CompileError(d)
  <2>1. step' = "announce" /\ event' \in B!Event /\ status' = status
    BY <1>a, <1>3 DEF B!Rebuild, B!BuildSuccess, B!Restarted, B!CompileError, B!Plain,
                      B!EventOf, B!Event, B!EventTypes
  <2> QED
    BY <2>1
<1>4. CASE B!GiveUp \/ B!Respawn \/ B!PointProxy
  BY <1>4 DEF B!GiveUp, B!Respawn, B!PointProxy
<1>5. CASE UNCHANGED source
  BY <1>5 DEF source
<1> QED
  BY <1>1, <1>2, <1>3, <1>4, <1>5 DEF B!Next, B!Quietly

\* No step parts the table from the errors it belongs to.
LEMMA TablePreserved == B!TypeOK /\ Announced /\ TableFits /\ [Next]_vars => TableFits'
<1> SUFFICES ASSUME B!TypeOK, Announced, TableFits, [B!Next]_source PROVE TableFits'
  BY SourceSteps
<1> USE EventAssumption DEF TableFits, B!Announce, B!TypeOK
<1>1. CASE B!Send
  BY <1>1 DEF B!Send
<1>2. CASE B!SetStatus
  <2>1. step = "announce" /\ step' = "send" /\ openTargets' = openTargets
    BY <1>2 DEF B!SetStatus
  <2>2. CASE event.type = "CompileError"
    <3>1. status' = event
      BY <1>2, <2>2 DEF B!SetStatus, B!Sticky
    <3> QED
      BY <2>1, <2>2, <3>1
  <2>3. CASE event.type # "CompileError"
    <3>1. B!Sticky(event, status) = status \/ B!Sticky(event, status) = NoEvent
            \/ (event.type = "Rebuild" /\ B!Sticky(event, status) = event)
      BY <2>3 DEF B!Sticky
    <3> QED
      BY <1>2, <2>1, <2>3, <3>1 DEF B!SetStatus
  <2> QED
    BY <2>2, <2>3
<1>3. CASE B!Rebuild \/ B!BuildSuccess \/ B!Restarted
  BY <1>3 DEF B!Rebuild, B!BuildSuccess, B!Restarted, B!Plain, B!EventOf
<1>4. ASSUME NEW d \in Diagnostics, B!CompileError(d) PROVE TableFits'
  BY <1>4 DEF B!CompileError, B!EventOf
<1>5. CASE B!GiveUp \/ B!Respawn \/ B!PointProxy
  BY <1>5 DEF B!GiveUp, B!Respawn, B!PointProxy
<1>6. CASE UNCHANGED source
  BY <1>6 DEF source
<1> QED
  BY <1>1, <1>2, <1>3, <1>4, <1>5, <1>6 DEF B!Next, B!Quietly
-----------------------------------------------------------------------------
(* Tabs                                                                    *)

\* What happens elsewhere leaves the facts about a tab as they are.
LEMMA Elsewhere ==
  ASSUME NEW t \in Tab, Fresh(t), Current(t), Clicked(t),
         sock'[t] = sock[t], rx'[t] = rx[t], lost'[t] = lost[t], wire'[t] = wire[t],
         click'[t] = click[t], view'[t] = view[t], status' = status,
         step' # "send" => step # "send"
  PROVE  Fresh(t)' /\ Current(t)' /\ Clicked(t)'
BY DEF Fresh, Current, Clicked, Listening, NoRestart, Newest, Matches, Agrees

\* A tab without a receiver has nothing to be current with.
LEMMA NotListening == ASSUME NEW t \in Tab, sock'[t] \notin Listening PROVE Current(t)'
BY DEF Current

LEMMA Loaded ==
  ASSUME TypeOK, NEW t \in Tab, Load(t)
  PROVE  Fresh(t)' /\ Current(t)' /\ Clicked(t)'
<1>1. /\ sock'[t] = "closed" /\ wire'[t] = <<>> /\ click'[t] = NoClick
      /\ view'[t] = Plainly("clean")
  BY DEF Load, TypeOK
<1> QED
  BY <1>1, NotListening DEF Fresh, Clicked, Listening, Plainly, Showing

LEMMA Connecting ==
  ASSUME TypeOK, NEW t \in Tab, Fresh(t), Current(t), Clicked(t),
         Upgrade(t) \/ Subscribe(t) \/ Overflowed(t) \/ Disconnect(t) \/ NoticeClose(t)
  PROVE  Fresh(t)' /\ Current(t)' /\ Clicked(t)'
<1>1. CASE Upgrade(t)
  <2>1. sock[t] = "closed" /\ sock'[t] = "accepted" /\ UNCHANGED <<wire, view, click>>
    BY <1>1 DEF Upgrade, document, TypeOK
  <2> QED
    BY <2>1, NotListening DEF Fresh, Clicked, Listening
<1>2. CASE Subscribe(t)
  <2>1. /\ sock[t] = "accepted" /\ sock'[t] = "subscribed"
        /\ UNCHANGED <<rx, wire, view, click>>
    BY <1>2 DEF Subscribe, document, channel, TypeOK
  <2>2. rx[t] = <<>>
    BY <2>1 DEF TypeOK, Listening
  <2> QED
    BY <2>1, <2>2 DEF Fresh, Clicked, Current, Listening
<1>3. CASE Overflowed(t) \/ Disconnect(t)
  <2>1. sock'[t] = "dropped" /\ click'[t] = NoClick
    BY <1>3 DEF Overflowed, Disconnect, HandlerGone, TypeOK
  <2> QED
    BY <2>1, NotListening DEF Fresh, Clicked, Listening
<1>4. CASE NoticeClose(t)
  <2>1. /\ sock'[t] = "closed" /\ wire[t] = <<>> /\ UNCHANGED <<wire, click>>
        /\ view'[t] = Plainly("offline")
    BY <1>4 DEF NoticeClose, TypeOK
  <2> QED
    BY <2>1, NotListening DEF Fresh, Clicked, Listening, Plainly, Showing
<1> QED
  BY <1>1, <1>2, <1>3, <1>4

LEMMA Clicking ==
  ASSUME TypeOK, NEW t \in Tab, Fresh(t), Current(t), Clicked(t), Click(t) \/ Incoming(t)
  PROVE  Fresh(t)' /\ Current(t)' /\ Clicked(t)'
<1>1. UNCHANGED <<step, status, sock, rx, lost, wire, view>>
  BY DEF Click, Incoming, source, channel, document
<1>2. Clicked(t)'
  BY DEF Click, Incoming, Clicked, TypeOK
<1> QED
  BY <1>1, <1>2 DEF Fresh, Current, Listening, NoRestart, Newest, Matches, Agrees
-----------------------------------------------------------------------------
(* Events on their way                                                     *)

LEMMA Appended ==
  ASSUME NEW q \in Seq(B!Event), NEW e \in B!Event
  PROVE  /\ Append(q, e) # <<>>
         /\ Newest(Append(q, e)) = e
         /\ NoRestart(Append(q, e)) <=> NoRestart(q) /\ e.type # "Restarted"
<1>1. /\ Append(q, e) # <<>> /\ Len(Append(q, e)) = Len(q) + 1 /\ Len(q) \in Nat
      /\ \A i \in 1..Len(q) : Append(q, e)[i] = q[i]
      /\ Append(q, e)[Len(q) + 1] = e
  BY AppendProperties, LenProperties
<1>2. Newest(Append(q, e)) = e
  BY <1>1 DEF Newest
<1>3. ASSUME NoRestart(Append(q, e))
      PROVE  NoRestart(q) /\ e.type # "Restarted"
  <2>1. \A i \in 1..Len(q) + 1 : Append(q, e)[i].type # "Restarted"
    BY <1>1, <1>3 DEF NoRestart
  <2>2. Len(q) + 1 \in 1..Len(q) + 1 /\ \A i \in 1..Len(q) : i \in 1..Len(q) + 1
    BY <1>1
  <2>3. e.type # "Restarted"
    BY <1>1, <2>1, <2>2
  <2>4. \A i \in 1..Len(q) : q[i].type # "Restarted"
    BY <1>1, <2>1, <2>2
  <2> QED
    BY <2>3, <2>4 DEF NoRestart
<1>4. ASSUME NoRestart(q), e.type # "Restarted"
      PROVE  NoRestart(Append(q, e))
  <2>1. \A i \in 1..Len(q) + 1 : i \in 1..Len(q) \/ i = Len(q) + 1
    BY <1>1
  <2>2. \A i \in 1..Len(q) + 1 : Append(q, e)[i].type # "Restarted"
    BY <1>1, <1>4, <2>1 DEF NoRestart
  <2> QED
    BY <1>1, <2>2 DEF NoRestart
<1> QED
  BY <1>1, <1>2, <1>3, <1>4

LEMMA Taken ==
  ASSUME NEW q \in Seq(B!Event), q # <<>>
  PROVE  /\ Head(q) \in B!Event /\ Tail(q) \in Seq(B!Event)
         /\ Tail(q) = <<>> => Newest(q) = Head(q)
         /\ Tail(q) # <<>> => Newest(Tail(q)) = Newest(q)
         /\ NoRestart(q) <=> NoRestart(Tail(q)) /\ Head(q).type # "Restarted"
<1>1. /\ Head(q) \in B!Event /\ Tail(q) \in Seq(B!Event)
      /\ Len(Tail(q)) = Len(q) - 1 /\ Len(q) \in Nat /\ Len(Tail(q)) \in Nat
      /\ \A i \in 1..Len(Tail(q)) : Tail(q)[i] = q[i + 1]
  BY HeadTailProperties, LenProperties
<1>2. Head(q) = q[1] /\ Len(q) > 0
  BY EmptySeq
<1>3. Tail(q) = <<>> => Len(q) = 1
  <2>1. Len(<<>>) = 0
    BY EmptySeq
  <2> QED
    BY <1>1, <2>1
<1>4. Tail(q) # <<>> => Len(Tail(q)) \in 1..Len(Tail(q))
  BY <1>1, EmptySeq
<1>5. NoRestart(q) => NoRestart(Tail(q)) /\ Head(q).type # "Restarted"
  BY <1>1, <1>2 DEF NoRestart
<1>6. ASSUME NoRestart(Tail(q)), Head(q).type # "Restarted", NEW i \in 1..Len(q)
      PROVE  q[i].type # "Restarted"
  <2>1. CASE i = 1
    BY <1>2, <1>6, <2>1
  <2>2. CASE i # 1
    <3>1. i - 1 \in 1..Len(Tail(q)) /\ (i - 1) + 1 = i
      BY <1>1, <1>6, <2>2
    <3>2. q[i] = Tail(q)[i - 1]
      BY <1>1, <3>1
    <3> QED
      BY <1>6, <3>1, <3>2 DEF NoRestart
  <2> QED
    BY <2>1, <2>2
<1>7. NoRestart(Tail(q)) /\ Head(q).type # "Restarted" => NoRestart(q)
  BY <1>6 DEF NoRestart
<1>8. Tail(q) = <<>> => Newest(q) = Head(q)
  BY <1>2, <1>3 DEF Newest
<1>9. Tail(q) # <<>> => Newest(Tail(q)) = Newest(q)
  <2>1. Len(Tail(q)) + 1 = Len(q)
    BY <1>1
  <2> QED
    BY <1>1, <1>4, <2>1 DEF Newest
<1> QED
  BY <1>1, <1>5, <1>7, <1>8, <1>9

\* The status read after the receiver was made, and what the receiver has, leave
\* no gap.
LEMMA Replaying ==
  ASSUME TypeOK, Announced, NEW t \in Tab, Fresh(t), Current(t), Clicked(t), ReplayStatus(t)
  PROVE  Fresh(t)' /\ Current(t)' /\ Clicked(t)'
<1>1. /\ sock[t] = "subscribed" /\ sock'[t] = "live" /\ wire[t] = <<>>
      /\ view[t].kind \in {"clean", "offline"}
      /\ UNCHANGED <<step, status, rx, lost, view, click>>
      /\ wire'[t] = IF status = NoEvent THEN wire[t] ELSE Append(wire[t], status)
  BY DEF ReplayStatus, Fresh, TypeOK, source, channel, document
<1>2. NoRestart(<<>>) /\ wire[t] \in Seq(B!Event)
  BY EmptySeq DEF NoRestart, TypeOK
<1>3. Fresh(t)' /\ Clicked(t)'
  BY <1>1 DEF Fresh, Clicked
<1>4. rx[t] # <<>> /\ ~lost[t] /\ step # "send" /\ NoRestart(rx[t]) => Matches(Newest(rx[t]))
  BY <1>1, <1>2 DEF Current, Listening
<1>5. CASE status = NoEvent
  <2>1. wire'[t] = <<>> /\ Agrees(t)'
    BY <1>1, <1>5 DEF Agrees
  <2> QED
    BY <1>1, <1>3, <1>4, <2>1 DEF Current, Newest, NoRestart, Matches
<1>6. CASE status # NoEvent
  <2>1. status \in B!Event
    BY <1>6 DEF TypeOK, B!TypeOK
  <2>2. wire'[t] # <<>> /\ Newest(wire'[t]) = status
    BY <1>1, <1>2, <1>6, <2>1, Appended
  <2>3. Matches(Newest(wire[t]))'
    BY <1>1, <1>6, <2>2 DEF Matches, Newest
  <2> QED
    BY <1>1, <1>3, <1>4, <2>2, <2>3 DEF Current, Newest, NoRestart, Matches
<1> QED
  BY <1>5, <1>6

LEMMA Forwarding ==
  ASSUME TypeOK, NEW t \in Tab, Fresh(t), Current(t), Clicked(t), Outgoing(t)
  PROVE  Fresh(t)' /\ Current(t)' /\ Clicked(t)'
<1>1. /\ sock[t] = "live" /\ rx[t] # <<>>
      /\ UNCHANGED <<step, status, sock, lost, view, click>>
      /\ rx'[t] = Tail(rx[t]) /\ wire'[t] = Append(wire[t], Head(rx[t]))
  BY DEF Outgoing, TypeOK, source, document
<1>2. rx[t] \in Seq(B!Event) /\ wire[t] \in Seq(B!Event)
  BY DEF TypeOK
<1>3. Fresh(t)' /\ Clicked(t)'
  BY <1>1 DEF Fresh, Clicked
<1>4. /\ Head(rx[t]) \in B!Event
      /\ Tail(rx[t]) = <<>> => Newest(rx[t]) = Head(rx[t])
      /\ Tail(rx[t]) # <<>> => Newest(Tail(rx[t])) = Newest(rx[t])
      /\ NoRestart(rx[t]) <=> NoRestart(Tail(rx[t])) /\ Head(rx[t]).type # "Restarted"
  BY <1>1, <1>2, Taken
<1>5. /\ wire'[t] # <<>> /\ Newest(wire'[t]) = Head(rx[t])
      /\ NoRestart(wire'[t]) <=> NoRestart(wire[t]) /\ Head(rx[t]).type # "Restarted"
  BY <1>1, <1>2, <1>4, Appended
<1>6. ASSUME ~lost[t], step # "send", NoRestart(rx'[t]), NoRestart(wire'[t])
      PROVE  Matches(Newest(rx[t]))
  BY <1>1, <1>4, <1>5, <1>6 DEF Current, Listening
<1>7. Current(t)'
  <2> SUFFICES ASSUME ~lost[t], step # "send", NoRestart(rx'[t]), NoRestart(wire'[t])
               PROVE  IF rx'[t] # <<>> THEN Matches(Newest(rx'[t])) ELSE Matches(Newest(wire'[t]))
    BY <1>1, <1>5 DEF Current, Newest, NoRestart, Matches
  <2> QED
    BY <1>1, <1>4, <1>5, <1>6
<1> QED
  BY <1>3, <1>7

\* The last event taken from the socket is shown, and with it the status.
LEMMA Receiving ==
  ASSUME TypeOK, Announced, NEW t \in Tab, Fresh(t), Current(t), Clicked(t), Receive(t)
  PROVE  Fresh(t)' /\ Current(t)' /\ Clicked(t)'
<1>1. CASE Load(t)
  BY <1>1, Loaded
<1>2. CASE ~Load(t)
  <2> DEFINE e == Head(wire[t])
  <2>1. /\ wire[t] # <<>> /\ e.type # "Restarted"
        /\ UNCHANGED <<step, status, sock, rx, lost, click>>
        /\ view'[t] = Shown(e) /\ wire'[t] = Tail(wire[t])
    BY <1>2 DEF Receive, TypeOK, source, channel
  <2>2. wire[t] \in Seq(B!Event)
    BY DEF TypeOK
  <2>3. /\ e \in B!Event
        /\ Tail(wire[t]) = <<>> => Newest(wire[t]) = e
        /\ Tail(wire[t]) # <<>> => Newest(Tail(wire[t])) = Newest(wire[t])
        /\ NoRestart(wire[t]) <=> NoRestart(Tail(wire[t])) /\ e.type # "Restarted"
    BY <2>1, <2>2, Taken
  <2>4. Fresh(t)' /\ Clicked(t)'
    BY <2>1 DEF Fresh, Clicked
  <2>5. ASSUME Matches(e), view'[t] = Shown(e) PROVE Agrees(t)'
    <3>1. CASE status = NoEvent
      <4>1. Shown(e) = Plainly("reloading")
        BY <2>5, <3>1 DEF Matches, Shown
      <4> QED
        BY <2>1, <2>5, <3>1, <4>1 DEF Agrees, Plainly, Showing
    <3>2. CASE status # NoEvent
      <4>1. e = status
        BY <2>5, <3>2 DEF Matches
      <4>2. view'[t] = Shown(status')
        BY <2>1, <2>5, <4>1
      <4> QED
        BY <2>1, <3>2, <4>2 DEF Agrees, Shown
    <3> QED
      BY <3>1, <3>2
  <2> HIDE DEF e
  <2>6. ASSUME sock[t] \in Listening, ~lost[t], step # "send", NoRestart(rx[t]),
               NoRestart(Tail(wire[t]))
        PROVE  /\ rx[t] # <<>> => Matches(Newest(rx[t]))
               /\ rx[t] = <<>> /\ sock[t] = "live" => Matches(Newest(wire[t]))
    BY <2>1, <2>3, <2>6 DEF Current
  <2>7. Current(t)'
    <3> SUFFICES ASSUME sock[t] \in Listening, ~lost[t], step # "send", NoRestart(rx[t]),
                        NoRestart(Tail(wire[t]))
                 PROVE  /\ rx[t] # <<>> => Matches(Newest(rx[t]))
                        /\ rx[t] = <<>> /\ sock[t] = "live" =>
                             IF Tail(wire[t]) = <<>> THEN Agrees(t)'
                             ELSE Matches(Newest(Tail(wire[t])))
      BY <2>1 DEF Current, Newest, NoRestart, Matches, Listening
    <3> QED
      BY <2>1, <2>3, <2>5, <2>6
  <2> QED
    BY <2>4, <2>7
<1> QED
  BY <1>1, <1>2

\* Whoever has a receiver at the moment of the broadcast gets the event, or loses
\* an older one and is told.
LEMMA Broadcasting ==
  ASSUME TypeOK, Announced, NEW t \in Tab, Fresh(t), Current(t), Clicked(t), Broadcast
  PROVE  Fresh(t)' /\ Current(t)' /\ Clicked(t)'
<1>1. /\ step = "send" /\ UNCHANGED <<status, sock, wire, click, view>>
      /\ sock[t] \in Listening /\ Len(rx[t]) # Capacity => rx'[t] = Append(rx[t], event)
      /\ sock[t] \in Listening /\ Len(rx[t]) = Capacity => lost'[t]
  BY DEF Broadcast, B!Send, TypeOK, document
<1>2. Fresh(t)' /\ Clicked(t)'
  BY <1>1 DEF Fresh, Clicked
<1>3. event \in B!Event /\ (event.type # "Restarted" => Matches(event))
  BY <1>1 DEF Announced
<1>4. CASE sock[t] \in Listening /\ Len(rx[t]) # Capacity
  <2>1. rx[t] \in Seq(B!Event)
    BY DEF TypeOK
  <2>2. /\ rx'[t] # <<>> /\ Newest(rx'[t]) = event
        /\ NoRestart(rx'[t]) => event.type # "Restarted"
    BY <1>1, <1>3, <1>4, <2>1, Appended
  <2>3. NoRestart(rx'[t]) => Matches(Newest(rx'[t]))
    BY <1>3, <2>2
  <2> QED
    BY <1>1, <1>2, <2>2, <2>3 DEF Current, Newest, NoRestart, Matches
<1>5. CASE sock[t] \in Listening /\ Len(rx[t]) = Capacity
  BY <1>1, <1>2, <1>5 DEF Current
<1>6. CASE sock[t] \notin Listening
  BY <1>1, <1>2, <1>6, NotListening
<1> QED
  BY <1>4, <1>5, <1>6

LEMMA Quietly ==
  ASSUME TypeOK, NEW t \in Tab, Fresh(t), Current(t), Clicked(t), SupervisorQuietly
  PROVE  Fresh(t)' /\ Current(t)' /\ Clicked(t)'
<1>1. UNCHANGED <<sock, rx, lost, wire, click, view>>
  BY DEF SupervisorQuietly, channel
<1>2. step' = "send" \/ (step # "send" /\ status' = status)
  BY DEF SupervisorQuietly, B!Quietly, B!SetStatus, B!Rebuild, B!BuildSuccess, B!Restarted,
         B!CompileError, B!GiveUp, B!Respawn, B!PointProxy, B!Announce
<1>3. CASE step' = "send"
  BY <1>1, <1>3 DEF Fresh, Current, Clicked
<1>4. CASE step # "send" /\ status' = status
  BY <1>1, <1>4, Elsewhere
<1> QED
  BY <1>2, <1>3, <1>4

\* Every step keeps what is known of every tab.
LEMMA TabsPreserved ==
  TypeOK /\ Announced /\ (\A t \in Tab : Fresh(t) /\ Current(t) /\ Clicked(t)) /\ [Next]_vars
    => \A t \in Tab : Fresh(t)' /\ Current(t)' /\ Clicked(t)'
<1> SUFFICES ASSUME TypeOK, Announced, \A t \in Tab : Fresh(t) /\ Current(t) /\ Clicked(t),
                    [Next]_vars, NEW t \in Tab
             PROVE  Fresh(t)' /\ Current(t)' /\ Clicked(t)'
  OBVIOUS
<1>1. CASE SupervisorQuietly
  BY <1>1, Quietly
<1>2. CASE Broadcast
  BY <1>2, Broadcasting
<1>3. ASSUME NEW u \in Tab,
             ServerStep(u) \/ BrowserStep(u) \/ Incoming(u) \/ Disconnect(u) \/ Click(u) \/ Load(u)
      PROVE  Fresh(t)' /\ Current(t)' /\ Clicked(t)'
  <2>1. CASE u = t
    BY <1>3, <2>1, Loaded, Connecting, Clicking, Replaying, Forwarding, Receiving
       DEF ServerStep, BrowserStep
  <2>2. CASE u # t
    <3>1. /\ sock'[t] = sock[t] /\ rx'[t] = rx[t] /\ lost'[t] = lost[t] /\ wire'[t] = wire[t]
          /\ click'[t] = click[t] /\ view'[t] = view[t] /\ UNCHANGED <<step, status>>
      BY <1>3, <2>2 DEF TypeOK, ServerStep, BrowserStep, Upgrade, Subscribe, ReplayStatus, Outgoing,
         Overflowed, HandlerGone, Disconnect, Incoming, Load, Receive, NoticeClose, Click,
         source, channel, document
    <3> QED
      BY <3>1, Elsewhere
  <2> QED
    BY <2>1, <2>2
<1>4. CASE UNCHANGED vars
  BY <1>4, Elsewhere DEF vars
<1> QED
  BY <1>1, <1>2, <1>3, <1>4 DEF Next
-----------------------------------------------------------------------------
\* Every reachable state satisfies the inductive invariant.
THEOREM Invariance == Spec => []IInv
<1>1. Init => IInv
  <2> SUFFICES ASSUME Init PROVE IInv
    OBVIOUS
  <2>1. TypeOK
    <3>1. <<>> \in Seq(B!Event) /\ Len(<<>>) = 0
      BY EmptySeq
    <3>2. B!TypeOK
      BY DEF Init, B!Init, B!TypeOK
    <3>3. Plainly("clean") \in View /\ NoClick \in [id : Nat, shown : Diagnostics \cup {NoDiagnostics}]
      BY DEF View, NoClick
    <3> QED
      BY <3>1, <3>2, <3>3, CapacityAssumption DEF Init, TypeOK
  <2>2. Announced /\ TableFits
    BY DEF Init, B!Init, Announced, TableFits
  <2>3. \A t \in Tab : Fresh(t) /\ Current(t) /\ Clicked(t)
    BY DEF Init, Fresh, Current, Clicked, Listening, Plainly, Showing
  <2> QED
    BY <2>1, <2>2, <2>3 DEF IInv
<1>2. IInv /\ [Next]_vars => IInv'
  BY TypePreserved, AnnouncedPreserved, TablePreserved, TabsPreserved DEF IInv, TypeOK
<1> QED
  BY <1>1, <1>2, PTL DEF Spec

\* The receivers hold no more events than the channel, and nothing but events is
\* sent to a browser (live_reload in src/dev_server.rs).
THEOREM TypeCorrect == Spec => []TypeOK
<1>1. IInv => TypeOK
  BY DEF IInv
<1> QED
  BY <1>1, Invariance, PTL

\* What a caught-up tab shows is the sticky status.
LEMMA CaughtUpAgrees ==
  ASSUME IInv, step = "run", NEW t \in Tab, CaughtUp(t)
  PROVE  Agrees(t)
<1>1. NoRestart(<<>>)
  BY EmptySeq DEF NoRestart
<1> QED
  BY <1>1 DEF IInv, Current, CaughtUp, Listening

\* Supervisor::broadcast sets the status before it sends, live_reload makes its
\* receiver before it reads the status: between the two no event is missed, by
\* however many tabs, and with whatever capacity.
THEOREM OverlayAlwaysCurrent == Spec => []OverlayIsCurrent
<1>1. IInv => OverlayIsCurrent
  BY CaughtUpAgrees DEF OverlayIsCurrent
<1> QED
  BY <1>1, Invariance, PTL

\* The ids of an overlay that is current are those of the table behind "open".
THEOREM ClickAlwaysOpensShown == Spec => []ClickOpensShown
<1>1. IInv => ClickOpensShown
  <2> SUFFICES ASSUME IInv, NEW t \in Tab, CaughtUp(t), step = "run", click[t] # NoClick,
                      view[t] = Showing("errors", click[t].shown)
               PROVE  Opened(t) = {Targets[click[t].shown][click[t].id]}
    BY DEF ClickOpensShown
  <2>1. Agrees(t) /\ view[t].kind = "errors" /\ view[t].diagnostics = click[t].shown
    BY CaughtUpAgrees DEF Showing
  <2>2. status # NoEvent /\ view[t] = Shown(status)
    BY <2>1 DEF Agrees
  <2>3. status.type = "CompileError"
    <3>1. status.type \in {"Rebuild", "CompileError"}
      BY <2>2 DEF IInv, Announced
    <3>2. CASE status.type = "Rebuild"
      <4>1. Shown(status) = Plainly("rebuilding")
        BY <3>2 DEF Shown
      <4> QED
        BY <2>1, <2>2, <4>1 DEF Plainly, Showing
    <3> QED
      BY <3>1, <3>2
  <2>4. status.diagnostics = click[t].shown
    BY <2>1, <2>2, <2>3 DEF Shown, Showing
  <2>5. openTargets = click[t].shown
    BY <2>2, <2>3, <2>4 DEF IInv, TableFits
  <2>6. click[t].id \in DOMAIN Targets[click[t].shown]
    BY DEF IInv, Clicked
  <2> QED
    BY <2>5, <2>6 DEF Opened
<1> QED
  BY <1>1, Invariance, PTL
=============================================================================
