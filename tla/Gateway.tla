------------------------------ MODULE Gateway ------------------------------
(***************************************************************************)
(* `trillium gateway` (src/gateway/mod.rs): the main thread loads the      *)
(* configuration, brings up one server per binding, announces them, waits  *)
(* for a signal and drains them; the servers accept connections meanwhile  *)
(* and route each request by the host it names.                            *)
(*                                                                         *)
(* The main thread, pc:                                                    *)
(*   "load", "build"      configuration and the shared client              *)
(*   "spawn"              spawn_binding for the binding number next        *)
(*   "announce", "register", "wait"   banner, signal handlers, first signal*)
(*   "failing", "draining"   shut down after a failed bind, or the signal  *)
(* status tells how the process ended:                                     *)
(*   "ok", "error"        by itself, with that exit code                   *)
(*   "panicked", "killed" by a panic of the main thread, by a signal       *)
(*                                                                         *)
(* A request r, request[r].state:                                          *)
(*   "none"        not made, or over                                       *)
(*   "accepted"    its connection was accepted, the handshake was done     *)
(*   "routed"      HostRouter::run has returned                            *)
(*   "sent"        before_send has run, the response is sent               *)
(*   "upgraded"    the connection belongs to an upgrade                    *)
(***************************************************************************)
EXTENDS VirtualHosts

CONSTANTS Configs,   \* configuration files, as Config::load decodes them
          Addresses, \* what bindings listen on
          Request,   \* requests under way at a time
          Visits     \* what requests name: SNI, Host header, :authority

\* `binding` and `host` blocks come in sequences.
ASSUME ConfigAssumption ==
  \A file \in Configs :
    /\ Len(file.bindings) \in Nat
    /\ DOMAIN file.bindings = 1 .. Len(file.bindings)
    /\ \A i \in DOMAIN file.bindings :
         LET hosts == file.bindings[i].hosts IN
         Len(hosts) \in Nat /\ DOMAIN hosts = 1 .. Len(hosts)

VARIABLES config, check, taken, pc, next, bound, handlers, announced, shut, status, request

main == <<pc, next, bound, handlers, announced, shut, status>>
vars == <<config, check, taken, main, request>>

Bindings == DOMAIN config.bindings

\* on: the binding; cert: the certificate of its connection; ran, left: whose
\* routes saw it on the way in and out.
Idle == [state |-> "none", on |-> 0, visit |-> Nobody, cert |-> Nobody,
         ran |-> Nobody, left |-> Nobody]

Router == Nat \cup {Nobody}
RequestRecord == [state : {"none", "accepted", "routed", "sent", "upgraded"},
                  on : Nat, visit : Visits \cup {Nobody}, cert : Router,
                  ran : Router, left : Router]

InFlight == {r \in Request : request[r].state # "none"}
Running == status = "running"

TypeOK == /\ config \in Configs
          /\ check \in BOOLEAN
          /\ taken \subseteq Addresses
          /\ pc \in {"load", "build", "spawn", "announce", "register", "wait",
                     "failing", "draining"}
          /\ next \in Nat
          /\ bound \subseteq Bindings
          /\ handlers \in BOOLEAN /\ announced \in BOOLEAN /\ shut \in BOOLEAN
          /\ status \in {"running", "ok", "error", "panicked", "killed"}
          /\ request \in [Request -> RequestRecord]
          /\ \A r \in InFlight : request[r].on \in bound

Init == /\ config \in Configs
        /\ check \in BOOLEAN
        /\ taken \in SUBSET Addresses
        /\ pc = "load"
        /\ next = 1
        /\ bound = {}
        /\ handlers = FALSE /\ announced = FALSE /\ shut = FALSE
        /\ status = "running"
        /\ request = [r \in Request |-> Idle]
-----------------------------------------------------------------------------
(* The main thread                                                         *)

Unchanged == UNCHANGED <<config, check, taken, request>>

Exit(how) == /\ status' = how
             /\ UNCHANGED <<pc, next, bound, handlers, announced, shut>>
             /\ Unchanged

\* The file cannot be read, decoded or validated; or it declares no binding.
Refuse == /\ pc = "load" /\ Running
          /\ ~config.valid \/ (~check /\ Len(config.bindings) = 0)
          /\ Exit("error")

CheckOnly == /\ pc = "load" /\ Running
             /\ config.valid /\ check
             /\ Exit("ok")

Load == /\ pc = "load" /\ Running
        /\ config.valid /\ ~check
        /\ Len(config.bindings) # 0
        /\ pc' = "build"
        /\ UNCHANGED <<next, bound, handlers, announced, shut, status>>
        /\ Unchanged

\* build_client: a size or duration of the cache cannot be parsed, or the client
\* is shared from here on.
BuildClient == /\ pc = "build" /\ Running
               /\ \/ /\ ~config.sound
                     /\ Exit("panicked")
                  \/ /\ config.sound
                     /\ pc' = "spawn"
                     /\ UNCHANGED <<next, bound, handlers, announced, shut, status>>
                     /\ Unchanged

\* spawn_binding panics over something it cannot use; no socket is bound yet.
SpawnPanics == /\ pc = "spawn" /\ Running
               /\ ~config.bindings[next].sound
               /\ Exit("panicked")

InUse == taken \cup {config.bindings[i].listen : i \in bound}

\* The listener is bound and its server accepts.
Spawn == /\ pc = "spawn" /\ Running
         /\ config.bindings[next].sound
         /\ config.bindings[next].listen \notin InUse
         /\ bound' = bound \cup {next}
         /\ next' = next + 1
         /\ pc' = IF next = Len(config.bindings) THEN "announce" ELSE "spawn"
         /\ UNCHANGED <<handlers, announced, shut, status>>
         /\ Unchanged

BindRefused == /\ pc = "spawn" /\ Running
               /\ config.bindings[next].sound
               /\ config.bindings[next].listen \in InUse

\* Mutant: a binding that does not come up is skipped.
SkipBinding == /\ BindRefused
               /\ next' = next + 1
               /\ pc' = IF next = Len(config.bindings) THEN "announce" ELSE "spawn"
               /\ UNCHANGED <<bound, handlers, announced, shut, status>>
               /\ Unchanged

\* Mutant: waits for the servers without shutting them down.
BindFailsOpen == /\ BindRefused
                 /\ pc' = "failing"
                 /\ UNCHANGED <<next, bound, handlers, announced, shut, status>>
                 /\ Unchanged

\* The address cannot be bound: the servers that came up are shut down.
BindFails == /\ BindRefused
             /\ shut' = TRUE
             /\ pc' = "failing"
             /\ UNCHANGED <<next, bound, handlers, announced, status>>
             /\ Unchanged

\* print_startup
Announce == /\ pc = "announce" /\ Running
            /\ announced' = TRUE
            /\ pc' = "register"
            /\ UNCHANGED <<next, bound, handlers, shut, status>>
            /\ Unchanged

\* Signals::new in wait_for_shutdown_signal; the handlers are never taken back.
Register == /\ pc = "register" /\ Running
            /\ handlers' = TRUE
            /\ pc' = "wait"
            /\ UNCHANGED <<next, bound, announced, shut, status>>
            /\ Unchanged

\* The first SIGINT, SIGTERM or SIGQUIT after that; further ones do nothing.
Signal == /\ pc = "wait" /\ Running
          /\ shut' = TRUE
          /\ pc' = "draining"
          /\ UNCHANGED <<next, bound, handlers, announced, status>>
          /\ Unchanged

\* One before that ends the process, as signals do.
Killed == /\ ~handlers /\ Running
          /\ Exit("killed")

\* Mutant: the main thread returns without waiting for the servers.
ExitAtOnce == /\ pc \in {"failing", "draining"} /\ Running
              /\ Exit(IF pc = "failing" THEN "error" ELSE "ok")

\* The swansong is complete when no connection is left.
Drained == /\ pc \in {"failing", "draining"} /\ Running
           /\ shut /\ InFlight = {}
           /\ Exit(IF pc = "failing" THEN "error" ELSE "ok")
-----------------------------------------------------------------------------
(* A request.  The servers, their TLS and the routers are external; what   *)
(* the gateway gives them decides.                                         *)

Becomes(r, record) == /\ request' = [request EXCEPT ![r] = record]
                      /\ UNCHANGED <<config, check, taken, main>>

At(r, state) == Running /\ request[r].state = state

\* A connection is accepted and a request read.  With TLS there has to be a
\* certificate, else the handshake fails and nothing comes of it.
Accept(r) ==
  /\ At(r, "none")
  /\ ~shut
  /\ \E i \in bound, visit \in Visits :
       LET plain == Plaintext(config.bindings[i])
           cert == IF plain THEN Nobody ELSE CertFor(config.bindings[i], visit.sni) IN
       /\ plain \/ cert # Nobody
       /\ Becomes(r, [Idle EXCEPT !.state = "accepted", !.on = i,
                                  !.visit = visit, !.cert = cert])

\* The router of the binding that request r gets for a name.
Chosen(r, name) == Select(config.bindings[request[r].on], name)

\* The rate limiter answers, and the dispatcher does not run.
Limited(r) == /\ At(r, "accepted")
              /\ config.limited
              /\ Becomes(r, [request[r] EXCEPT !.state = "routed"])

\* HostRouter::run: the selected router runs, with the name it was selected by.
\* Without `host` blocks the binding's only router is in the HostRouter's place.
Run(r) == /\ At(r, "accepted")
          /\ Becomes(r, [request[r] EXCEPT !.state = "routed",
                                           !.ran = Chosen(r, HostOf(request[r].visit))])

\* run sets the state NormalizedHost just when there is a router to run.
Remembered(r) == request[r].ran # Nobody

\* Mutant: the host is resolved afresh instead of taken from the state.
BeforeSendAfresh(r) ==
  /\ At(r, "routed")
  /\ Becomes(r, [request[r] EXCEPT !.state = "sent",
                                   !.left = Chosen(r, HostOf(request[r].visit))])

\* The router that gets request r at the later stages.  HostRouter selects again by
\* the name in the state, and does nothing without it.  A router in its place finds
\* its route again whether or not it ran.
Returns(r) ==
  IF config.bindings[request[r].on].hosts = <<>> \/ Remembered(r)
  THEN Chosen(r, HostOf(request[r].visit)) ELSE Nobody

\* before_send, also after the limiter's answer.
BeforeSend(r) == /\ At(r, "routed")
                 /\ Becomes(r, [request[r] EXCEPT !.state = "sent", !.left = Returns(r)])

\* has_upgrade and upgrade go the same way; whether there is one the routes say.
Upgrade(r) == /\ At(r, "sent")
              /\ Returns(r) # Nobody
              /\ Becomes(r, [request[r] EXCEPT !.state = "upgraded", !.left = Returns(r)])

\* The connection is closed and lets go of the swansong.
Finish(r) == /\ At(r, "sent") \/ At(r, "upgraded")
             /\ Becomes(r, Idle)

Startup == \/ Refuse \/ CheckOnly \/ Load \/ BuildClient \/ SpawnPanics \/ Spawn
           \/ BindFails \/ Announce \/ Register

Next == \/ Startup \/ Signal \/ Killed \/ Drained
        \/ \E r \in Request : Accept(r) \/ Limited(r) \/ Run(r) \/ BeforeSend(r)
                             \/ Upgrade(r) \/ Finish(r)

Spec == Init /\ [][Next]_vars

\* The main thread runs, and a request that was accepted gets its response.  How
\* long an upgraded connection stays open is its peers' affair.
Fairness == /\ WF_vars(Startup) /\ WF_vars(Drained)
            /\ \A r \in Request :
                 WF_vars(Run(r) \/ Limited(r) \/ BeforeSend(r) \/ (At(r, "sent") /\ Finish(r)))

FairSpec == Spec /\ Fairness
-----------------------------------------------------------------------------
(* Properties                                                              *)

\* "letting in-flight requests finish before the process exits": when the gateway
\* ends by itself, after a signal or a failed bind, no connection is cut off.
NothingCutOff == status \in {"ok", "error"} => InFlight = {}

\* The banner "never advertises a binding that failed to come up", and a gateway
\* that waits for its signal serves all of its bindings.
AnnouncedWhole == announced \/ pc = "wait" => bound = Bindings

\* A signal, and a bind that fails, end the process, unless an upgraded
\* connection stays open.
ShutdownCompletes ==
  pc \in {"failing", "draining"} ~>
    (~Running \/ \E r \in Request : request[r].state = "upgraded")

\* The routes of a `host` block that see a request also see its response and get its
\* upgrade, though the host is resolved anew each time, and no others do: none sees
\* the rate limiter's answer.  The routes of a binding without
\* blocks see every response, the limiter's too.
StagesAgree == \A r \in InFlight :
  request[r].state \in {"sent", "upgraded"} =>
    request[r].left = IF config.bindings[request[r].on].hosts = <<>> THEN 0
                      ELSE request[r].ran

\* "so cert selection and routing agree on what a pattern means": a client that
\* names one host in SNI and in its request, and gets the routes of a `host` block
\* with a certificate, was shown that certificate.
CertificateOfHost == \A r \in InFlight :
  LET binding == config.bindings[request[r].on]
      router == request[r].ran IN
  /\ router \in DOMAIN binding.hosts
  /\ binding.hosts[router].tls
  /\ ~Plaintext(binding)
  /\ request[r].visit.sni = HostOf(request[r].visit)
  => request[r].cert = router

\* What each place in the main thread says of the bindings.
Progress ==
  /\ next >= 1 /\ bound = 1 .. (next - 1)
  /\ pc \in {"load", "build"} => next = 1
  /\ pc = "build" => Len(config.bindings) # 0
  /\ pc = "spawn" => next \in Bindings
  /\ pc \in {"announce", "register", "wait", "draining"} => next = Len(config.bindings) + 1
  /\ announced => pc \in {"register", "wait", "draining"}

\* What a connection was shown in its handshake, and what a request has left
\* behind at each stage.
Resolved == \A r \in InFlight :
  LET q == request[r]
      binding == config.bindings[q.on] IN
  /\ q.cert = IF Plaintext(binding) THEN Nobody ELSE CertFor(binding, q.visit.sni)
  /\ q.state = "accepted" => q.ran = Nobody
  /\ Remembered(r) => q.ran = Chosen(r, HostOf(q.visit))
  /\ q.state \in {"sent", "upgraded"} =>
       q.left = IF binding.hosts = <<>> THEN 0 ELSE q.ran

\* The inductive invariant behind the properties above.
IInv == TypeOK /\ Progress /\ Resolved /\ NothingCutOff
=============================================================================
