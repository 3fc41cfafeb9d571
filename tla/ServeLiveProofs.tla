--------------------------- MODULE ServeLiveProofs ---------------------------
(* Proofs about ServeLive, for any number of tabs, changes and events and  *)
(* any capacity of the channel.                                            *)
EXTENDS ServeLive, SequenceTheorems, TLAPS

\* The handler of a page leaves no tick behind it, whatever ends it.
LEMMA HandlerGoneType ==
  ASSUME NEW t \in Tab, TypeOK, HandlerGone(t), wire' \in [Tab -> BOOLEAN]
  PROVE  TypeOK'
  <1>1. /\ sock' \in [Tab -> {"closed", "accepted", "live", "dropped", "gone"}]
        /\ \A u \in Tab : sock'[u] \in {"accepted", "live"} => Up'
    BY DEF HandlerGone, TypeOK, Up, watch
  <1>2. kept' \in 0 .. Capacity /\ rx' \in [Tab -> 0 .. kept']
    BY CapacityAssumption DEF HandlerGone, TypeOK
  <1>3. lost' \in [Tab -> BOOLEAN]
    BY DEF HandlerGone, TypeOK
  <1> QED
    BY <1>1, <1>2, <1>3 DEF HandlerGone, TypeOK, watch

\* A page that is fetched again starts without ticks of its former connection.
LEMMA LoadType ==
  ASSUME NEW t \in Tab, TypeOK, Load(t)
  PROVE  TypeOK'
  <1>1. inbox' \in Seq({"change", "blip"})
    BY DEF Load, TypeOK, Queued
  <1>2. watcher' # "on" => inbox' = <<>> /\ burst' = "none"
    BY DEF Load, TypeOK, Queued
  <1>3. \A u \in Tab : sock'[u] \in {"accepted", "live"} => Up'
    BY DEF Load, TypeOK, Up
  <1> QED
    BY <1>1, <1>2, <1>3, CapacityAssumption DEF Load, TypeOK, Up

\* No receiver ever holds more ticks than the channel, nor the channel more than
\* its capacity; nothing is queued without a watch.
LEMMA TypeStep == TypeOK /\ [Next]_vars => TypeOK'
  <1> SUFFICES ASSUME TypeOK, [Next]_vars PROVE TypeOK'
    OBVIOUS
  <1> USE CapacityAssumption, BoundAssumption
  <1>1. CASE Change
    BY <1>1 DEF Change, Queued, TypeOK, Up, tabs, channel
  <1>2. CASE Blip
    BY <1>2 DEF Blip, Queued, TypeOK, Up, tabs, channel
  <1>3. CASE WatchStarts
    BY <1>3 DEF WatchStarts, TypeOK, Up, channel
  <1>4. CASE Collect
    <2>1. Tail(inbox) \in Seq({"change", "blip"})
      BY <1>4, HeadTailProperties DEF Collect, TypeOK
    <2>2. watcher = "on"
      BY <1>4 DEF Collect, TypeOK
    <2> QED
      BY <1>4, <2>1, <2>2 DEF Collect, TypeOK, Up, tabs, channel
  <1>5. CASE Tick
    BY <1>5 DEF Tick, Broadcast, Quiet, TypeOK, Up
  <1>6. CASE StayQuiet
    BY <1>6 DEF StayQuiet, Quiet, TypeOK, Up, tabs, channel
  <1>7. CASE Stop
    BY <1>7 DEF Stop, TypeOK, Up
  <1>8. CASE Start
    BY <1>8 DEF Start, TypeOK, Up, tabs, channel
  <1>9. ASSUME NEW t \in Tab, Upgrade(t) PROVE TypeOK'
    BY <1>9 DEF Upgrade, TypeOK, Up, watch, channel
  <1>10. ASSUME NEW t \in Tab, Subscribe(t) PROVE TypeOK'
    BY <1>10 DEF Subscribe, TypeOK, Up, watch, channel
  <1>11. ASSUME NEW t \in Tab, Forward(t) PROVE TypeOK'
    BY <1>11 DEF Forward, TypeOK, Up, watch
  <1>12. ASSUME NEW t \in Tab, Overflowed(t) PROVE TypeOK'
    BY <1>12, HandlerGoneType DEF Overflowed, TypeOK
  <1>13. ASSUME NEW t \in Tab, Disconnect(t) PROVE TypeOK'
    BY <1>13, HandlerGoneType DEF Disconnect, TypeOK
  <1>14. ASSUME NEW t \in Tab, Visit(t) \/ Message(t) PROVE TypeOK'
    BY <1>14, LoadType DEF Visit, Message
  <1>15. ASSUME NEW t \in Tab, NoticeClose(t) PROVE TypeOK'
    BY <1>15 DEF NoticeClose, TypeOK, Up, watch, channel
  <1>16. CASE UNCHANGED vars
    BY <1>16 DEF vars, watch, tabs, channel, TypeOK, Up
  <1> QED
    BY <1>1, <1>2, <1>3, <1>4, <1>5, <1>6, <1>7, <1>8, <1>9, <1>10, <1>11, <1>12,
       <1>13, <1>14, <1>15, <1>16 DEF Next, Watch, Step

\* The variables keep their types (handler, reload, watch).
THEOREM TypeCorrect == Spec => []TypeOK
  <1>1. Init => TypeOK
    BY CapacityAssumption, BoundAssumption DEF Init, TypeOK, Up
  <1> QED
    BY <1>1, TypeStep, PTL DEF Spec
-----------------------------------------------------------------------------
\* Every step leaves a page that is behind with something ahead, or is its reload.
LEMMA UnderWayStep == TypeOK /\ ReloadUnderWay /\ [Next]_vars => ReloadUnderWay'
  <1> SUFFICES ASSUME TypeOK, ReloadUnderWay, [Next]_vars, NEW u \in Tab, Behind(u)'
               PROVE  \/ \E i \in DOMAIN inbox' : IsChange(inbox'[i])
                      \/ burst' = "change"
                      \/ rx'[u] > 0 \/ lost'[u] \/ wire'[u]
    BY DEF ReloadUnderWay, IsChange
  <1> USE CapacityAssumption, BoundAssumption DEF Behind, IsChange
  <1>1. CASE Change
    <2>1. inbox' = Append(inbox, "change")
      BY <1>1 DEF Change, Queued
    <2>2. Len(inbox) + 1 \in DOMAIN inbox' /\ inbox'[Len(inbox) + 1] = "change"
      BY <2>1, AppendProperties DEF TypeOK
    <2> QED
      BY <2>2
  <1>2. CASE Blip \/ \E t \in Tab : Visit(t) \/ Message(t)
    <2>1. Behind(u) /\ UNCHANGED burst
      BY <1>2 DEF Blip, Visit, Message, Load, tabs, channel, TypeOK
    <2>2. inbox' = Append(inbox, "blip") /\ rx'[u] = rx[u] /\ lost'[u] = lost[u]
          /\ wire'[u] = wire[u]
      BY <1>2, <2>1 DEF Blip, Visit, Message, Load, Queued, tabs, channel, TypeOK
    <2>3. \A i \in DOMAIN inbox : i \in DOMAIN inbox' /\ inbox'[i] = inbox[i]
      BY <2>2, AppendProperties DEF TypeOK
    <2> QED
      BY <2>1, <2>2, <2>3 DEF ReloadUnderWay
  <1>3. CASE Collect
    <2>1. Behind(u) /\ UNCHANGED tabs
      BY <1>3 DEF Collect, tabs, channel
    <2>2. ASSUME NEW i \in DOMAIN inbox, inbox[i] = "change"
          PROVE  burst' = "change" \/ \E j \in DOMAIN inbox' : inbox'[j] = "change"
      <3>1. CASE i = 1
        BY <1>3, <3>1, <2>2 DEF Collect, TypeOK
      <3>2. CASE i # 1
        <4>1. i - 1 \in DOMAIN inbox' /\ inbox'[i - 1] = inbox[i]
          BY <1>3, <3>2, HeadTailProperties DEF Collect, TypeOK
        <4> QED
          BY <4>1, <2>2
      <3> QED
        BY <3>1, <3>2
    <2>3. burst = "change" => burst' = "change"
      BY <1>3 DEF Collect
    <2> QED
      BY <2>1, <2>2, <2>3 DEF ReloadUnderWay, tabs, channel
  <1>4. CASE Tick
    <2>1. sock[u] = "live" /\ rx[u] \in Nat /\ rx[u] <= Capacity
      BY <1>4 DEF Tick, Broadcast, TypeOK
    <2>2. rx'[u] > 0
      BY <1>4, <2>1 DEF Tick, Broadcast, TypeOK
    <2> QED
      BY <2>2
  <1>5. CASE StayQuiet
    BY <1>5 DEF StayQuiet, Quiet, tabs, channel, ReloadUnderWay
  <1>6. CASE WatchStarts \/ Stop \/ Start \/ \E t \in Tab : Upgrade(t) \/ NoticeClose(t)
    <2>1. Behind(u) /\ UNCHANGED <<inbox, burst, rx, lost, wire>>
      BY <1>6 DEF WatchStarts, Stop, Start, Upgrade, NoticeClose, TypeOK, Up, watch, tabs, channel
    <2> QED
      BY <2>1 DEF ReloadUnderWay
  <1>7. CASE \E t \in Tab : Subscribe(t)
    <2>1. Behind(u) /\ UNCHANGED <<inbox, burst, rx, lost, wire>>
      BY <1>7 DEF Subscribe, TypeOK, watch, channel
    <2> QED
      BY <2>1 DEF ReloadUnderWay
  <1>8. CASE \E t \in Tab : Forward(t)
    <2> PICK t \in Tab : Forward(t)
      BY <1>8
    <2>1. CASE t = u
      BY <2>1 DEF Forward, TypeOK
    <2>2. CASE t # u
      BY <2>2 DEF Forward, TypeOK, watch, ReloadUnderWay
    <2> QED
      BY <2>1, <2>2
  <1>9. CASE \E t \in Tab : Overflowed(t) \/ Disconnect(t)
    <2> PICK t \in Tab : Overflowed(t) \/ Disconnect(t)
      BY <1>9
    <2>1. t # u
      BY DEF Overflowed, Disconnect, HandlerGone, TypeOK
    <2>2. Behind(u) /\ UNCHANGED <<inbox, burst>> /\ rx'[u] = rx[u]
      BY <2>1 DEF Overflowed, Disconnect, HandlerGone, TypeOK, watch
    <2>3. lost'[u] = lost[u] /\ wire'[u] = wire[u]
      BY <2>1 DEF Overflowed, Disconnect, HandlerGone, TypeOK
    <2> QED
      BY <2>2, <2>3 DEF ReloadUnderWay
  <1>10. CASE UNCHANGED vars
    BY <1>10 DEF vars, watch, tabs, channel, ReloadUnderWay
  <1> QED
    BY <1>1, <1>2, <1>3, <1>4, <1>5, <1>6, <1>7, <1>8, <1>9, <1>10 DEF Next, Watch, Step

\* A live page that is behind always has a reload, or the end of its connection,
\* ahead: no interleaving of changes, bursts, overflow, reloads and restarts of
\* the server loses the tick (watch and reload).
THEOREM NoReloadLost == Spec => []ReloadUnderWay
  <1>1. Init => ReloadUnderWay
    BY DEF Init, ReloadUnderWay, Behind
  <1> QED
    BY <1>1, TypeCorrect, UnderWayStep, PTL DEF Spec
=============================================================================
