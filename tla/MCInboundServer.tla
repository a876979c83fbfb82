---------------------------- MODULE MCInboundServer ----------------------------
EXTENDS InboundServer

AnyPort == [min |-> 0, max |-> 3]
Port1   == [min |-> 1, max |-> 1]
Host    == <<"x", "com">>

\* An address twice, in blocks of one and of two; a name, and a wildcard for it;
\* some of them for one protocol only.
MCEntries ==
  {Entry("address", {1}, <<>>, Port1, "tcp"), Entry("address", {1}, <<>>, AnyPort, "udp"),
   Entry("block", {1}, <<>>, AnyPort, "all"), Entry("block", {1, 2}, <<>>, AnyPort, "tcp"),
   Entry("domain", {}, Host, Port1, "udp"), Entry("domain", {}, Host, Port1, ""),
   Entry("domain", {}, Host, AnyPort, "tcp"),
   Entry("wildcard", {}, <<"com">>, AnyPort, "all"), Entry("wildcard", {}, <<"com">>, AnyPort, "udp")}

Lists(n, entries) == UNION {[1..k -> entries] : k \in 0..n}

\* Entries for the second application.
MCOthers ==
  {Entry("address", {1}, <<>>, AnyPort, ""), Entry("block", {1, 2}, <<>>, Port1, "udp"),
   Entry("domain", {}, Host, AnyPort, "all"), Entry("wildcard", {}, <<"com">>, AnyPort, "tcp")}

\* A gateway listed by its address, and two by name.
Line(host) == [host |-> host, port |-> 1]
L1 == Line(Literal(2))
L2 == Line(Named(<<"gw", "com">>))
L9 == Line(Named(<<"vpn">>))

\* Two applications; the first has a group of its own, the second prefers L3.
MCCreds ==
  {[policy |-> [apps   |-> <<[id |-> "a", group |-> "g1", preferL3 |-> FALSE, entries |-> e],
                             [id |-> "b", group |-> "none", preferL3 |-> TRUE, entries |-> f]>>,
                groups |-> [g1 |-> {L1, L2}, g2 |-> {L2}], major |-> "g2"],
    gateways |-> {L1, L9}, addresses |-> {1, 2},
    app |-> IF m THEN "none" ELSE "d", mapping |-> m, allowTCPFallback |-> m,
    override |-> FALSE, legacyOverride |-> FALSE, missingGroupFallback |-> FALSE] :
      e \in Lists(2, MCEntries), f \in Lists(1, MCOthers), m \in BOOLEAN}

\* Names, plain addresses, a gateway by its name, by its address and by another
\* spelling of that.
MCRequests ==
  {[host |-> h, port |-> p] : h \in {Named(Host), Literal(1)}, p \in {1, 2}} \cup
  {[host |-> h, port |-> 1] : h \in {Literal(2), MappedIPv6(2), Named(<<"vpn">>)}}

\* Any one will do to stop the server.
MCOneCred    == {CHOOSE c \in MCCreds : c.policy.apps[1].entries = <<>> /\ c.policy.apps[2].entries = <<>> /\ c.app = "d"}
MCOneRequest == {[host |-> Literal(1), port |-> 1]}

=============================================================================
