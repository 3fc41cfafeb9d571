---------------------------- MODULE GatewayProofs ----------------------------
(***************************************************************************)
(* Proofs about Gateway, for any configurations, addresses, requests and   *)
(* names.  The module first shows what Select and CertFor return, and that *)
(* they agree; then that IInv is an invariant, in one lemma per conjunct.  *)
(***************************************************************************)
EXTENDS Gateway, WellFoundedInduction, TLAPS

\* Min returns the least element of a set of natural numbers.
LEMMA Least == ASSUME NEW S \in SUBSET Nat, S # {}
               PROVE  Min(S) \in S /\ \A x \in S : Min(S) <= x
<1> DEFINE R == {ss \in Nat \X Nat : ss[1] < ss[2]}
<1>1. IsWellFoundedOn(R, Nat)
  BY NatLessThanWellFounded DEF OpToRel
<1>2. \E x \in S : \A y \in S : ~ (<<y, x>> \in R)
  <2>. HIDE DEF R
  <2>. QED  BY <1>1, WFMin
<1>3. \E x \in S : \A y \in S : x <= y
  <2>1. \A x, y \in S : ~ (<<y, x>> \in R) => x <= y
    OBVIOUS
  <2>. QED  BY <1>2, <2>1
<1>. QED  BY <1>3 DEF Min

\* A binding of a configuration has its `host` blocks numbered from 1.
LEMMA Blocks == ASSUME NEW file \in Configs, NEW i \in DOMAIN file.bindings
                PROVE  DOMAIN file.bindings[i].hosts \subseteq Nat \ {0}
BY ConfigAssumption

\* Select and CertFor return a number or Nobody.
LEMMA Numbers == ASSUME NEW binding, NEW host, DOMAIN binding.hosts \subseteq Nat
                 PROVE  Select(binding, host) \in Router /\ CertFor(binding, host) \in Router
<1>1. Matching(binding, host) \in SUBSET Nat /\ Certified(binding, host) \in SUBSET Nat
  BY DEF Matching, Certified
<1>. QED  BY <1>1, Least DEF Select, CertFor, Router

\* Routing and SNI agree: when the `host` block that gets the requests for a name
\* has a certificate, that certificate is shown to clients that ask for the name.
THEOREM RoutingAgreesWithSni ==
  ASSUME NEW binding, NEW name, DOMAIN binding.hosts \subseteq Nat \ {0},
         Select(binding, name) \in DOMAIN binding.hosts,
         binding.hosts[Select(binding, name)].tls
  PROVE  CertFor(binding, name) = Select(binding, name)
<1> DEFINE M == Matching(binding, name)
           C == Certified(binding, name)
           i == Select(binding, name)
<1>1. M \in SUBSET Nat /\ C \in SUBSET M
  BY DEF Matching, Certified
<1>2. M # {} /\ i = Min(M)
  BY NobodyAssumption DEF Select
<1>3. i \in M /\ \A x \in M : i <= x
  BY <1>1, <1>2, Least
<1>4. i \in C
  BY <1>3 DEF Certified
<1>5. Min(C) \in C /\ \A x \in C : Min(C) <= x
  BY <1>1, <1>4, Least
<1>6. i <= Min(C) /\ Min(C) <= i
  BY <1>1, <1>3, <1>4, <1>5
<1>7. Min(C) = i
  BY <1>1, <1>3, <1>5, <1>6
<1>. QED  BY <1>4, <1>7 DEF CertFor
-----------------------------------------------------------------------------
MainStep == Startup \/ Signal \/ Killed \/ Drained

\* A step of the main thread leaves the configuration and the requests alone.
LEMMA MainKeeps == MainStep => Unchanged
BY DEF MainStep, Startup, Refuse, CheckOnly, Load, BuildClient, SpawnPanics, Spawn,
       BindFails, BindRefused, Announce, Register, Signal, Killed, Drained, Exit

RequestStep(r) == \/ Accept(r) \/ Limited(r) \/ Run(r) \/ BeforeSend(r)
                  \/ Upgrade(r) \/ Finish(r)

\* A step of a request leaves the main thread, the configuration and the other
\* requests alone.
LEMMA RequestKeeps == ASSUME TypeOK, NEW r \in Request, RequestStep(r)
                      PROVE  /\ UNCHANGED <<config, check, taken, main>>
                             /\ \A q \in Request \ {r} : request'[q] = request[q]
<1>1. ASSUME NEW record, Becomes(r, record)
      PROVE  /\ UNCHANGED <<config, check, taken, main>>
             /\ \A q \in Request \ {r} : request'[q] = request[q]
  BY <1>1 DEF Becomes, TypeOK
<1>. QED
  BY <1>1 DEF RequestStep, Accept, Limited, Run, BeforeSend, Upgrade, Finish

\* What a step makes of its request's record, for each kind of step.
LEMMA Records ==
  ASSUME TypeOK, NEW r \in Request
  PROVE  /\ Accept(r) => /\ request[r].state = "none"
                         /\ \E i \in bound, visit \in Visits :
                              request'[r] = [Idle EXCEPT
                                !.state = "accepted", !.on = i, !.visit = visit,
                                !.cert = IF Plaintext(config.bindings[i]) THEN Nobody
                                         ELSE CertFor(config.bindings[i], visit.sni)]
         /\ Limited(r) => /\ request[r].state = "accepted"
                          /\ request'[r] = [request[r] EXCEPT !.state = "routed"]
         /\ Run(r) => /\ request[r].state = "accepted"
                      /\ request'[r] = [request[r] EXCEPT
                            !.state = "routed",
                            !.ran = Chosen(r, HostOf(request[r].visit))]
         /\ BeforeSend(r) => /\ request[r].state = "routed"
                             /\ request'[r] = [request[r] EXCEPT
                                   !.state = "sent", !.left = Returns(r)]
         /\ Upgrade(r) => /\ request[r].state = "sent" /\ Returns(r) # Nobody
                          /\ request'[r] = [request[r] EXCEPT
                                !.state = "upgraded", !.left = Returns(r)]
         /\ Finish(r) => request'[r] = Idle
<1>1. ASSUME NEW record, Becomes(r, record)
      PROVE  request'[r] = record
  BY <1>1 DEF Becomes, TypeOK
<1>. QED
  BY <1>1 DEF Accept, Limited, Run, BeforeSend, Upgrade, Finish, At

\* The updates of a request's record stay in its type.
LEMMA Updates ==
  ASSUME NEW q \in RequestRecord, NEW x \in Router
  PROVE  /\ [q EXCEPT !.state = "routed"] \in RequestRecord
         /\ [q EXCEPT !.state = "routed", !.ran = x] \in RequestRecord
         /\ [q EXCEPT !.state = "sent", !.left = x] \in RequestRecord
         /\ [q EXCEPT !.state = "upgraded", !.left = x] \in RequestRecord
<1>1. [q EXCEPT !.state = "routed"] \in RequestRecord
  BY DEF RequestRecord
<1>2. [q EXCEPT !.state = "routed", !.ran = x] \in RequestRecord
  BY DEF RequestRecord
<1>3. [q EXCEPT !.state = "sent", !.left = x] \in RequestRecord
  BY DEF RequestRecord
<1>4. [q EXCEPT !.state = "upgraded", !.left = x] \in RequestRecord
  BY DEF RequestRecord
<1>. QED  BY <1>1, <1>2, <1>3, <1>4

\* The record of a request that was just accepted is of that type, too.
LEMMA Accepted ==
  ASSUME NEW x \in Router, NEW n \in Nat, NEW visit \in Visits
  PROVE  [Idle EXCEPT !.state = "accepted", !.on = n, !.visit = visit, !.cert = x]
           \in RequestRecord
BY DEF RequestRecord, Idle, Router

\* The type invariant is preserved; Spawn needs that there is a binding to bring up.
LEMMA TypePreserved == TypeOK /\ Progress /\ [Next]_vars => TypeOK'
<1> SUFFICES ASSUME TypeOK, Progress, [Next]_vars PROVE TypeOK'
  OBVIOUS
<1> USE DEF TypeOK
<1>1. CASE MainStep
  <2>1. /\ UNCHANGED <<config, check, taken, request>>
        /\ config' \in Configs
    BY <1>1, MainKeeps DEF Unchanged
  <2>2. /\ pc' \in {"load", "build", "spawn", "announce", "register", "wait",
                     "failing", "draining"}
        /\ handlers' \in BOOLEAN /\ announced' \in BOOLEAN /\ shut' \in BOOLEAN
        /\ status' \in {"running", "ok", "error", "panicked", "killed"}
    BY <1>1 DEF MainStep, Startup, Refuse, CheckOnly, Load, BuildClient, SpawnPanics, Spawn,
       BindFails, BindRefused, Announce, Register, Signal, Killed, Drained, Exit
  <2>3. bound \subseteq bound' /\ bound' \subseteq Bindings /\ next' \in Nat
    BY <1>1 DEF MainStep, Startup, Refuse, CheckOnly, Load, BuildClient, SpawnPanics, Spawn,
       BindFails, BindRefused, Announce, Register, Signal, Killed, Drained, Exit,
       Progress
  <2>. QED  BY <2>1, <2>2, <2>3 DEF InFlight, Bindings
<1>2. ASSUME NEW r \in Request, RequestStep(r) PROVE TypeOK'
  <2>1. /\ UNCHANGED <<config, check, taken, main>>
        /\ \A q \in Request \ {r} : request'[q] = request[q]
    BY <1>2, RequestKeeps
  <2>2. request[r] \in RequestRecord
    OBVIOUS
  <2>3. ASSUME NEW i \in bound, NEW name
        PROVE  /\ Select(config.bindings[i], name) \in Router
               /\ CertFor(config.bindings[i], name) \in Router
    BY <2>3, Blocks, Numbers DEF Bindings
  <2>4. request[r].state # "none" => \A name : Chosen(r, name) \in Router
    BY <2>3 DEF InFlight, Chosen
  <2>5. Idle \in RequestRecord
    BY DEF Idle, RequestRecord, Router
  <2>6. /\ request'[r] \in RequestRecord
        /\ request'[r].state # "none" => request'[r].on \in bound
    <3>1. CASE Accept(r)
      <4>1. PICK i \in bound, visit \in Visits :
              request'[r] = [Idle EXCEPT
                !.state = "accepted", !.on = i, !.visit = visit,
                !.cert = IF Plaintext(config.bindings[i]) THEN Nobody
                         ELSE CertFor(config.bindings[i], visit.sni)]
        BY <3>1, Records
      <4> DEFINE cert == IF Plaintext(config.bindings[i]) THEN Nobody
                         ELSE CertFor(config.bindings[i], visit.sni)
      <4>2. i \in Nat
        BY DEF Progress
      <4>3. CertFor(config.bindings[i], visit.sni) \in Router
        BY <2>3
      <4>4. cert \in Router
        BY <4>3 DEF Router
      <4>5. request'[r] = [Idle EXCEPT !.state = "accepted", !.on = i, !.visit = visit,
                                       !.cert = cert]
        BY <4>1
      <4>. HIDE DEF cert
      <4>6. request'[r] \in RequestRecord
        <5>1. [Idle EXCEPT !.state = "accepted", !.on = i, !.visit = visit, !.cert = cert]
                \in RequestRecord
          BY <4>2, <4>4, Accepted
        <5>. QED  BY <4>5, <5>1
      <4>7. request'[r].on = i
        BY <4>5 DEF Idle
      <4>. QED  BY <4>6, <4>7
    <3>2. ASSUME NEW q, q \in RequestRecord, q.on = request[r].on, request[r].state # "none",
                 request'[r] = q
          PROVE  /\ request'[r] \in RequestRecord
                 /\ request'[r].state # "none" => request'[r].on \in bound
      BY <3>2 DEF InFlight
    <3> DEFINE router == Chosen(r, HostOf(request[r].visit))
    <3>3. request[r].state # "none" => router \in Router
      BY <2>4
    <3>4. Nobody \in Router
      BY DEF Router
    <3>. HIDE DEF router
    <3>5. CASE Limited(r)
      <4>1. [request[r] EXCEPT !.state = "routed"] \in RequestRecord
        BY <2>2, Updates, <3>4
      <4>. QED  BY <3>5, <4>1, <3>2, <2>2, Records DEF RequestRecord
    <3>6. CASE Run(r)
      <4>1. /\ request[r].state = "accepted"
            /\ request'[r] = [request[r] EXCEPT !.state = "routed", !.ran = router]
        BY <3>6, Records DEF router
      <4>2. [request[r] EXCEPT !.state = "routed", !.ran = router] \in RequestRecord
        BY <4>1, <3>3, <2>2, Updates
      <4>3. [request[r] EXCEPT !.state = "routed", !.ran = router].on = request[r].on
        BY <2>2 DEF RequestRecord
      <4>. QED  BY <4>1, <4>2, <4>3, <3>2
    <3>7. CASE BeforeSend(r)
      <4> DEFINE left == Returns(r)
      <4>1. /\ request[r].state = "routed"
            /\ request'[r] = [request[r] EXCEPT !.state = "sent", !.left = left]
        BY <3>7, Records
      <4>2. left \in Router
        BY <4>1, <3>3, <3>4 DEF Returns, router
      <4>. HIDE DEF left
      <4>3. [request[r] EXCEPT !.state = "sent", !.left = left] \in RequestRecord
        BY <4>2, <2>2, Updates
      <4>4. [request[r] EXCEPT !.state = "sent", !.left = left].on = request[r].on
        BY <2>2 DEF RequestRecord
      <4>. QED  BY <4>1, <4>3, <4>4, <3>2
    <3>8. CASE Upgrade(r)
      <4> DEFINE left == Returns(r)
      <4>1. /\ request[r].state = "sent"
            /\ request'[r] = [request[r] EXCEPT !.state = "upgraded", !.left = left]
        BY <3>8, Records
      <4>2. left \in Router
        BY <4>1, <3>3, <3>4 DEF Returns, router
      <4>. HIDE DEF left
      <4>3. [request[r] EXCEPT !.state = "upgraded", !.left = left] \in RequestRecord
        BY <4>2, <2>2, Updates
      <4>4. [request[r] EXCEPT !.state = "upgraded", !.left = left].on = request[r].on
        BY <2>2 DEF RequestRecord
      <4>. QED  BY <4>1, <4>3, <4>4, <3>2
    <3>9. CASE Finish(r)
      <4>1. request'[r] = Idle
        BY <3>9, Records
      <4>. QED  BY <4>1, <2>5 DEF Idle
    <3>. QED  BY <1>2, <3>1, <3>5, <3>6, <3>7, <3>8, <3>9 DEF RequestStep
  <2>7. DOMAIN request' = Request /\ request' = [q \in Request |-> request'[q]]
    BY <1>2 DEF RequestStep, Accept, Limited, Run, BeforeSend, Upgrade, Finish, Becomes
  <2>8. request' \in [Request -> RequestRecord]
    BY <2>1, <2>6, <2>7
  <2>. QED  BY <2>1, <2>6, <2>8 DEF main, InFlight, Bindings
<1>3. CASE UNCHANGED vars
  BY <1>3 DEF vars, main, InFlight, Bindings
<1>. QED  BY <1>1, <1>2, <1>3 DEF Next, MainStep, RequestStep

\* The main thread's account of its bindings is preserved.
LEMMA ProgressPreserved == TypeOK /\ Progress /\ [Next]_vars => Progress'
<1> SUFFICES ASSUME TypeOK, Progress, [Next]_vars PROVE Progress'
  OBVIOUS
<1> USE DEF Progress, Bindings
<1>1. Len(config.bindings) \in Nat /\ DOMAIN config.bindings = 1 .. Len(config.bindings)
  BY ConfigAssumption DEF TypeOK
<1>2. next \in Nat
  BY DEF TypeOK
<1>3. CASE Startup
  <2>1. config' = config
    BY <1>3, MainKeeps DEF MainStep, Unchanged
  <2>2. CASE Refuse \/ CheckOnly \/ SpawnPanics
    BY <2>1, <2>2 DEF Refuse, CheckOnly, SpawnPanics, Exit
  <2>3. CASE Load
    BY <2>1, <2>3 DEF Load
  <2>4. CASE BuildClient
    <3>1. CASE pc' = "build"
      BY <2>1, <2>4, <3>1 DEF BuildClient, Exit
    <3>2. CASE pc' = "spawn"
      <4>1. pc = "build" /\ next = 1 /\ UNCHANGED <<next, bound, announced>>
        BY <2>4, <3>2 DEF BuildClient, Exit
      <4>2. 1 \in DOMAIN config.bindings
        BY <1>1, <4>1 DEF Progress
      <4>. QED  BY <2>1, <3>2, <4>1, <4>2
    <3>. QED  BY <2>4, <3>1, <3>2 DEF BuildClient, Exit
  <2>5. CASE Spawn
    <3>1. /\ pc = "spawn" /\ next \in 1 .. Len(config.bindings)
          /\ bound' = bound \cup {next} /\ next' = next + 1 /\ announced' = announced
          /\ pc' = IF next = Len(config.bindings) THEN "announce" ELSE "spawn"
      BY <2>5, <1>1 DEF Spawn
    <3>. QED  BY <2>1, <3>1, <1>1, <1>2
  <2>6. CASE BindFails \/ Announce \/ Register
    BY <2>1, <2>6 DEF BindFails, BindRefused, Announce, Register
  <2>. QED  BY <1>3, <2>2, <2>3, <2>4, <2>5, <2>6 DEF Startup
<1>4. CASE Signal \/ Killed \/ Drained
  BY <1>4 DEF Signal, Killed, Drained, Exit, Unchanged
<1>5. ASSUME NEW r \in Request, RequestStep(r) PROVE Progress'
  BY <1>5, RequestKeeps DEF main
<1>6. CASE UNCHANGED vars
  BY <1>6 DEF vars, main
<1>. QED  BY <1>3, <1>4, <1>5, <1>6 DEF Next, RequestStep

\* What the handshake and the stages leave behind is preserved: a request's record
\* changes only by its own steps, each of which resolves the same name.
LEMMA ResolvedPreserved == TypeOK /\ Resolved /\ [Next]_vars => Resolved'
<1> SUFFICES ASSUME TypeOK, Resolved, [Next]_vars PROVE Resolved'
  OBVIOUS
<1> DEFINE Good(q) ==
      q.state # "none" =>
        LET binding == config.bindings[q.on]
            router == Select(binding, HostOf(q.visit)) IN
        /\ q.cert = IF Plaintext(binding) THEN Nobody ELSE CertFor(binding, q.visit.sni)
        /\ q.state = "accepted" => q.ran = Nobody
        /\ q.ran # Nobody => q.ran = router
        /\ q.state \in {"sent", "upgraded"} =>
             q.left = IF binding.hosts = <<>> THEN 0 ELSE q.ran
<1>1. \A r \in Request : Good(request[r])
  BY DEF Resolved, InFlight, Remembered, Chosen
<1>2. config' = config /\ (\A r \in Request : Good(request'[r])) => Resolved'
  BY DEF Resolved, InFlight, Remembered, Chosen
<1>3. CASE MainStep \/ UNCHANGED vars
  <2>1. config' = config /\ request' = request
    BY <1>3, MainKeeps DEF Unchanged, vars
  <2>. QED  BY <2>1, <1>1, <1>2
<1>4. ASSUME NEW r \in Request, RequestStep(r) PROVE Resolved'
  <2>1. config' = config /\ \A q \in Request \ {r} : request'[q] = request[q]
    BY <1>4, RequestKeeps
  <2>2. request[r] \in RequestRecord
    BY DEF TypeOK
  <2>5. ASSUME request[r].state = "routed" \/ request[r].state = "sent"
        PROVE  Returns(r) = IF config.bindings[request[r].on].hosts = <<>> THEN 0
                            ELSE request[r].ran
    <3> DEFINE binding == config.bindings[request[r].on]
    <3>1. request[r].ran # Nobody => request[r].ran = Select(binding, HostOf(request[r].visit))
      BY <2>5, <1>1
    <3>2. ASSUME binding.hosts = <<>>
          PROVE  Select(binding, HostOf(request[r].visit)) = 0
      <4>1. DOMAIN binding.hosts = {}
        BY <3>2
      <4>2. Matching(binding, HostOf(request[r].visit)) = {}
        BY <4>1 DEF Matching
      <4>. QED  BY <3>2, <4>2 DEF Select
    <3>. QED  BY <3>1, <3>2 DEF Returns, Remembered, Chosen
  <2>3. Good(request'[r])
    <3>1. CASE Accept(r)
      <4>1. PICK i \in bound, visit \in Visits :
              request'[r] = [Idle EXCEPT
                !.state = "accepted", !.on = i, !.visit = visit,
                !.cert = IF Plaintext(config.bindings[i]) THEN Nobody
                         ELSE CertFor(config.bindings[i], visit.sni)]
        BY <3>1, Records
      <4>. QED  BY <4>1 DEF Idle
    <3>2. CASE Limited(r)
      <4>1. /\ request[r].state = "accepted"
            /\ request'[r] = [request[r] EXCEPT !.state = "routed"]
        BY <3>2, Records
      <4>. QED  BY <4>1, <1>1, <2>2 DEF RequestRecord
    <3>3. CASE Run(r)
      <4>1. /\ request[r].state = "accepted"
            /\ request'[r] = [request[r] EXCEPT
                  !.state = "routed", !.ran = Chosen(r, HostOf(request[r].visit))]
        BY <3>3, Records
      <4>. QED  BY <4>1, <1>1, <2>2 DEF RequestRecord, Chosen
    <3>4. CASE BeforeSend(r)
      <4>1. /\ request[r].state = "routed"
            /\ request'[r] = [request[r] EXCEPT !.state = "sent", !.left = Returns(r)]
        BY <3>4, Records
      <4>. QED  BY <4>1, <1>1, <2>2, <2>5 DEF RequestRecord
    <3>5. CASE Upgrade(r)
      <4>1. /\ request[r].state = "sent"
            /\ request'[r] = [request[r] EXCEPT !.state = "upgraded", !.left = Returns(r)]
        BY <3>5, Records
      <4>. QED  BY <4>1, <1>1, <2>2, <2>5 DEF RequestRecord
    <3>6. CASE Finish(r)
      <4>1. request'[r] = Idle
        BY <3>6, Records
      <4>. QED  BY <4>1 DEF Idle
    <3>. QED  BY <1>4, <3>1, <3>2, <3>3, <3>4, <3>5, <3>6 DEF RequestStep
  <2>4. \A q \in Request : Good(request'[q])
    BY <1>1, <2>1, <2>3
  <2>. QED  BY <1>2, <2>1, <2>4
<1>. QED  BY <1>3, <1>4 DEF Next, MainStep, RequestStep

\* The gateway does not end by itself with connections open: before it has
\* listeners there are none, and afterwards it waits for them.
LEMMA NothingCutOffPreserved ==
  TypeOK /\ Progress /\ NothingCutOff /\ [Next]_vars => NothingCutOff'
<1> SUFFICES ASSUME TypeOK, Progress, NothingCutOff, [Next]_vars PROVE NothingCutOff'
  OBVIOUS
<1> USE DEF NothingCutOff
<1>1. CASE MainStep
  <2>1. InFlight' = InFlight
    BY <1>1, MainKeeps DEF Unchanged, InFlight
  <2>2. pc = "load" => InFlight = {}
    BY DEF TypeOK, Progress
  <2>3. CASE Refuse \/ CheckOnly
    BY <2>1, <2>2, <2>3 DEF Refuse, CheckOnly
  <2>4. CASE Drained
    BY <2>1, <2>4 DEF Drained
  <2>5. CASE UNCHANGED status \/ status' \in {"panicked", "killed"}
    BY <2>1, <2>5
  <2>. QED
    BY <1>1, <2>3, <2>4, <2>5
       DEF MainStep, Startup, Load, BuildClient, SpawnPanics, Spawn, BindFails,
           BindRefused, Announce, Register, Signal, Killed, Exit
<1>2. ASSUME NEW r \in Request, RequestStep(r) PROVE NothingCutOff'
  <2>1. status = "running"
    BY <1>2 DEF RequestStep, Accept, Limited, Run, BeforeSend, Upgrade, Finish, At, Running
  <2>. QED  BY <1>2, <2>1, RequestKeeps DEF main
<1>3. CASE UNCHANGED vars
  BY <1>3 DEF vars, main, InFlight
<1>. QED  BY <1>1, <1>2, <1>3 DEF Next, MainStep, RequestStep
-----------------------------------------------------------------------------
\* Every reachable state satisfies the inductive invariant.
THEOREM Invariance == Spec => []IInv
<1>1. Init => IInv
  <2> SUFFICES ASSUME Init PROVE IInv
    OBVIOUS
  <2>1. InFlight = {}
    BY DEF Init, InFlight, Idle
  <2>2. Idle \in RequestRecord
    BY DEF Idle, RequestRecord, Router
  <2>3. TypeOK
    BY <2>1, <2>2 DEF Init, TypeOK, Bindings
  <2>4. Progress
    BY DEF Init, Progress
  <2>5. Resolved /\ NothingCutOff
    BY <2>1 DEF Resolved, NothingCutOff
  <2>. QED  BY <2>3, <2>4, <2>5 DEF IInv
<1>2. IInv /\ [Next]_vars => IInv'
  BY TypePreserved, ProgressPreserved, ResolvedPreserved, NothingCutOffPreserved DEF IInv
<1>. QED  BY <1>1, <1>2, PTL DEF Spec

\* The state has its types, and connections are only open on bindings that are up.
THEOREM TypeCorrect == Spec => []TypeOK
<1>1. IInv => TypeOK
  BY DEF IInv
<1>. QED  BY <1>1, Invariance, PTL

\* When the gateway ends by itself, every connection on every binding is over.
THEOREM GracefulEnd == Spec => []NothingCutOff
<1>1. IInv => NothingCutOff
  BY DEF IInv
<1>. QED  BY <1>1, Invariance, PTL

\* The banner is only printed when all bindings of the configuration are up.
THEOREM BannerIsWhole == Spec => []AnnouncedWhole
<1>1. IInv => AnnouncedWhole
  <2> SUFFICES ASSUME IInv, announced \/ pc = "wait" PROVE bound = Bindings
    BY DEF AnnouncedWhole
  <2>1. next = Len(config.bindings) + 1 /\ bound = 1 .. (next - 1)
    BY DEF IInv, Progress
  <2>2. Len(config.bindings) \in Nat /\ DOMAIN config.bindings = 1 .. Len(config.bindings)
    BY ConfigAssumption DEF IInv, TypeOK
  <2>. QED  BY <2>1, <2>2 DEF Bindings
<1>. QED  BY <1>1, Invariance, PTL

\* before_send and upgrade select the `host` block that run selected, or none, for
\* every request; without blocks they select the binding's router, whatever ran.
THEOREM StagesAlwaysAgree == Spec => []StagesAgree
<1>1. IInv => StagesAgree
  BY DEF IInv, Resolved, StagesAgree
<1>. QED  BY <1>1, Invariance, PTL

\* A client that names one host in SNI and request is shown that host's certificate.
THEOREM CertificatesFit == Spec => []CertificateOfHost
<1>1. IInv => CertificateOfHost
  <2> SUFFICES ASSUME IInv, NEW r \in InFlight,
                      request[r].ran \in DOMAIN config.bindings[request[r].on].hosts,
                      config.bindings[request[r].on].hosts[request[r].ran].tls,
                      ~Plaintext(config.bindings[request[r].on]),
                      request[r].visit.sni = HostOf(request[r].visit)
               PROVE  request[r].cert = request[r].ran
    BY DEF CertificateOfHost
  <2> DEFINE binding == config.bindings[request[r].on]
             name == HostOf(request[r].visit)
  <2>1. request[r].on \in Bindings
    BY DEF IInv, TypeOK
  <2>2. DOMAIN binding.hosts \subseteq Nat \ {0}
    BY <2>1, Blocks DEF IInv, TypeOK, Bindings
  <2>3. request[r].ran = Select(binding, name)
    BY <2>2, NobodyAssumption DEF IInv, Resolved, Remembered, Chosen
  <2>4. CertFor(binding, name) = Select(binding, name)
    BY <2>2, <2>3, RoutingAgreesWithSni
  <2>. QED  BY <2>3, <2>4 DEF IInv, Resolved
<1>. QED  BY <1>1, Invariance, PTL
=============================================================================
