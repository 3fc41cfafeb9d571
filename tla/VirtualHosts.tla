---------------------------- MODULE VirtualHosts ----------------------------
(***************************************************************************)
(* How a binding of the gateway chooses the routes for a request (src/     *)
(* gateway/host.rs) and the certificate for a TLS handshake (src/gateway/  *)
(* sni.rs).                                                                *)
(*                                                                         *)
(* A name is [labels, upper]: the labels between its dots, and whether it  *)
(* is spelled in capitals.  A Host header or :authority has in addition    *)
(* port, whether a `:port` follows.  A binding is                          *)
(*   listen   its address                                                  *)
(*   tls      whether it has a certificate of its own                      *)
(*   hosts    its `host` blocks: patterns, tls                             *)
(*   routes   whether it has routes outside of the `host` blocks           *)
(*   sound    whether spawn_binding finds everything usable: address,      *)
(*            sizes, certificates, upstreams, statuses                     *)
(* The router of the i-th `host` block is i, that of the binding is 0.     *)
(***************************************************************************)
EXTENDS Naturals, Sequences, SequencesExt

CONSTANT Nobody   \* no host name, no router, no certificate

ASSUME NobodyAssumption == Nobody \notin Nat

\* An IPv6 address as host; nothing but its colons matters.
IPv6 == <<"[::1]">>
IPv6Cut == <<"[:">>

Lower(labels) == [labels |-> labels, upper |-> FALSE]

Parse(pattern) ==
  IF pattern.labels = <<"*">> THEN [kind |-> "any"]
  ELSE IF Head(pattern.labels) = "*"
       THEN [kind |-> "suffix", name |-> Lower(Tail(pattern.labels))]
       ELSE [kind |-> "exact", name |-> Lower(pattern.labels)]

Matches(matcher, host) ==
  \/ matcher.kind = "any"
  \/ /\ matcher.kind = "exact"
     /\ host = matcher.name
  \/ /\ matcher.kind = "suffix"
     /\ host # Nobody
     /\ host.upper = matcher.name.upper
     /\ IsStrictSuffix(matcher.name.labels, host.labels)

\* The `host` blocks with a pattern that matches.
Matching(binding, host) ==
  {i \in DOMAIN binding.hosts :
     \E j \in DOMAIN binding.hosts[i].patterns :
       Matches(Parse(binding.hosts[i].patterns[j]), host)}

\* HostRouter::select, or the only router when there is no `host` block.
Select(binding, host) ==
  IF Matching(binding, host) # {} THEN Min(Matching(binding, host))
  ELSE IF binding.routes \/ binding.hosts = <<>> THEN 0 ELSE Nobody

\* rsplit_once(':'): a port is dropped; in an IPv6 address without one, the last
\* colon is one of its own.
BeforeLastColon(host) ==
  IF ~host.port /\ host.labels = IPv6 THEN IPv6Cut ELSE host.labels

Normalize(host) == IF host = Nobody THEN Nobody ELSE Lower(BeforeLastColon(host))

\* The Host header, or the :authority of h2 and h3.
HostOf(visit) == Normalize(IF visit.host # Nobody THEN visit.host ELSE visit.authority)

\* SniResolver: certs has an entry per pattern of each `host` block with tls, in
\* order, so the first match is a pattern of the first such block that matches.
Certified(binding, sni) == {i \in Matching(binding, sni) : binding.hosts[i].tls}

\* Mutant: the binding's certificate before those of its hosts.
CertDefaultFirst(binding, sni) ==
  IF binding.tls THEN 0
  ELSE IF Certified(binding, sni) # {} THEN Min(Certified(binding, sni)) ELSE Nobody

CertFor(binding, sni) ==
  IF Certified(binding, sni) # {} THEN Min(Certified(binding, sni))
  ELSE IF binding.tls THEN 0 ELSE Nobody

\* sni::build returns None: no certificate on the binding, none with a pattern.
Plaintext(binding) ==
  /\ ~binding.tls
  /\ \A i \in DOMAIN binding.hosts :
       binding.hosts[i].tls => binding.hosts[i].patterns = <<>>
=============================================================================
