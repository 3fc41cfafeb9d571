----------------------------- MODULE MCGateway -----------------------------
(* Gateway with two bindings: one with virtual hosts and certificates, one *)
(* plain.                                                                  *)
EXTENDS Gateway, TLC

MCAddresses == {":443", ":80"}

Name(labels) == [labels |-> labels, upper |-> FALSE]
Block(patterns, tls) == [patterns |-> patterns, tls |-> tls]

\* The first block has no certificate; its name is also below the wildcard.
Secure == [listen |-> ":443", tls |-> TRUE, routes |-> FALSE, sound |-> TRUE,
           hosts |-> << Block(<<Name(<<"app", "org">>)>>, FALSE),
                        Block(<<Name(<<"*", "org">>), Name(IPv6)>>, TRUE),
                        Block(<<Name(<<"API", "ORG">>)>>, TRUE) >>]

Plain == [listen |-> ":80", tls |-> FALSE, routes |-> TRUE, sound |-> TRUE, hosts |-> <<>>]

\* Certificates only on its host blocks, and a block for every host.
Hosted == [listen |-> ":80", tls |-> FALSE, routes |-> TRUE, sound |-> TRUE,
               hosts |-> << Block(<<Name(<<"api", "org">>)>>, TRUE),
                            Block(<<Name(<<"*">>)>>, FALSE) >>]

Broken == [Plain EXCEPT !.sound = FALSE]

File(bindings) == [valid |-> TRUE, sound |-> TRUE, limited |-> FALSE, bindings |-> bindings]

MCConfigs == { File(<<Secure, Plain>>),
               [File(<<Secure, Plain>>) EXCEPT !.limited = TRUE],
               [File(<<Hosted, Secure>>) EXCEPT !.limited = TRUE],
               File(<<Secure, Broken>>),
               File(<<>>),
               [File(<<Plain>>) EXCEPT !.valid = FALSE],
               [File(<<Plain>>) EXCEPT !.sound = FALSE] }

Header(labels, upper, port) == [labels |-> labels, upper |-> upper, port |-> port]

Visit(sni, host, authority) == [sni |-> sni, host |-> host, authority |-> authority]

MCVisits ==
  { Visit(Name(<<"app", "org">>), Header(<<"app", "org">>, TRUE, TRUE), Nobody),
    Visit(Name(<<"api", "org">>), Nobody, Header(<<"api", "org">>, FALSE, FALSE)),
    Visit(Name(<<"org">>), Header(<<"org">>, FALSE, FALSE), Nobody),
    Visit(Nobody, Header(IPv6, FALSE, FALSE), Nobody),
    Visit(Nobody, Nobody, Header(IPv6, FALSE, TRUE)),
    Visit(Nobody, Nobody, Nobody) }
=============================================================================
