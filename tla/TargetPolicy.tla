----------------------------- MODULE TargetPolicy -----------------------------
(***************************************************************************)
(* The routing policy the controller sends (internal/sdpc/resource.go) and   *)
(* what the resolver makes of it: which application authorises a target,     *)
(* which address is dialled for a name, and which gateways may carry it.     *)
(*                                                                         *)
(* A name is the sequence of its labels, a wildcard "*.com" the labels after *)
(* the star.  A host is a name or an address in one of its spellings: plain,  *)
(* or mapped into IPv6, which To4 undoes.  A CIDR block and an address range are the sets of addresses    *)
(* they cover: the code compares them by the number of those.                *)
(***************************************************************************)
EXTENDS Naturals, Sequences, SequencesExt

Unknown == 0       \* no address, and the lookup that fails
NoApp   == "none"
NoRule  == [app |-> NoApp]

\* The entries of an application's addressList.
Entry(kind, addrs, name, ports, proto) ==
  [kind |-> kind, addrs |-> addrs, name |-> name, ports |-> ports, proto |-> proto]

\* The entries the controller may list: blocks and ranges are finite, and a port
\* range is one of port numbers, or empty where it was not intelligible.
Listable ==
  [kind  : {"address", "block", "domain", "wildcard"},
   addrs : {a \in SUBSET Nat : IsFiniteSet(a)},
   name  : Seq(STRING),
   ports : [min : Nat, max : Nat],
   proto : STRING]

Apps == [id : STRING, group : STRING, preferL3 : BOOLEAN, entries : Seq(Listable)]

-----------------------------------------------------------------------------
(* parseResource: the rules, in the order of appList *)

Entries(apps, kinds) ==
  LET Listed(rules, app) ==
        FoldLeft(LAMBDA found, e : IF e.kind \in kinds
                                   THEN Append(found, [entry |-> e, app |-> app]) ELSE found,
                 rules, app.entries)
  IN  FoldLeft(LAMBDA rules, app : Listed(rules, app), <<>>, apps)

IPRules(apps) ==
  LET found == Entries(apps, {"address", "block"})
  IN  [i \in DOMAIN found |->
         [app   |-> found[i].app.id,
          exact |-> found[i].entry.kind = "address",
          addrs |-> found[i].entry.addrs,
          ports |-> found[i].entry.ports,
          proto |-> found[i].entry.proto]]

\* The first address of an application is where its names lead, wherever it
\* stands in the list; a profile without the mapping leaves them to DNS.
FirstIP(app) ==
  LET addresses == SelectSeq(app.entries, LAMBDA e : e.kind = "address")
  IN  IF addresses = <<>> THEN Unknown
      ELSE CHOOSE a \in Head(addresses).addrs : TRUE

DomainRules(apps, mapping) ==
  LET found == Entries(apps, {"domain"})
  IN  [i \in DOMAIN found |->
         [app   |-> found[i].app.id,
          name  |-> found[i].entry.name,
          ip    |-> IF mapping THEN FirstIP(found[i].app) ELSE Unknown,
          ports |-> found[i].entry.ports,
          proto |-> found[i].entry.proto]]

SuffixRules(apps) ==
  LET found == Entries(apps, {"wildcard"})
  IN  [i \in DOMAIN found |->
         [app   |-> found[i].app.id,
          name  |-> found[i].entry.name,
          ports |-> found[i].entry.ports,
          proto |-> found[i].entry.proto]]

-----------------------------------------------------------------------------
(* Matching: one pass over the rules that keeps the best so far *)

InRange(ports, port) == port >= ports.min /\ port <= ports.max

\* Mutant of ProtocolCompatible: a rule is one for every protocol.
ProtocolIgnored(rule, requested) == TRUE

ProtocolCompatible(rule, requested) == rule \in {"", "all", requested}

Admits(rule, port, protocol) ==
  InRange(rule.ports, port) /\ ProtocolCompatible(rule.proto, protocol)

Width(rule)           == rule.ports.max - rule.ports.min
Span(rule)            == Cardinality(rule.addrs)

MatchDomain(rules, name, port, protocol) ==
  FoldLeft(LAMBDA best, rule :
             IF /\ rule.name = name /\ Admits(rule, port, protocol)
                /\ best = NoRule \/ Width(rule) < Width(best)
             THEN rule ELSE best,
           NoRule, rules)

MatchSuffix(rules, name, port, protocol) ==
  FoldLeft(LAMBDA best, rule :
             IF /\ IsStrictSuffix(rule.name, name) /\ Admits(rule, port, protocol)
                /\ best = NoRule \/ Len(rule.name) > Len(best.name)
             THEN rule ELSE best,
           NoRule, rules)

\* Mutant of MatchIP: an exact address is only a block of one.
MatchIPBySpan(rules, ip, port, protocol) ==
  FoldLeft(LAMBDA best, rule :
             IF /\ ip \in rule.addrs /\ Admits(rule, port, protocol)
                /\ best = NoRule \/ Span(rule) < Span(best)
             THEN rule ELSE best,
           NoRule, rules)

MatchIP(rules, ip, port, protocol) ==
  FoldLeft(LAMBDA best, rule :
             IF /\ ip \in rule.addrs /\ Admits(rule, port, protocol)
                /\ \/ best = NoRule
                   \/ rule.exact /\ ~best.exact
                   \/ rule.exact = best.exact /\ Span(rule) < Span(best)
             THEN rule ELSE best,
           NoRule, rules)

AppIDFor(apps, ip, port, fallback, protocol) ==
  LET rule == MatchIP(IPRules(apps), ip, port, protocol)
  IN  IF rule = NoRule THEN fallback ELSE rule.app

-----------------------------------------------------------------------------
(* Gateways *)

GatewayGroupForApp(policy, app) ==
  LET mine == {i \in DOMAIN policy.apps : policy.apps[i].id = app /\ policy.apps[i].group # "none"}
  IN  IF mine = {} THEN policy.major ELSE policy.apps[CHOOSE i \in mine : TRUE].group

AllGateways(policy) == UNION {policy.groups[g] : g \in DOMAIN policy.groups}

\* cred.gateways is the configured list where there is one, and the policy's
\* otherwise.
GatewaysForGroup(cred, group) ==
  LET policy   == cred.policy
      assigned == IF group = "none" THEN AllGateways(policy)
                  ELSE IF group \in DOMAIN policy.groups THEN policy.groups[group] ELSE {}
      flat     == IF AllGateways(policy) = {} THEN cred.gateways ELSE AllGateways(policy)
      chosen   == IF assigned = {} /\ (group = "none" \/ cred.missingGroupFallback)
                  THEN flat ELSE assigned
  IN  IF cred.legacyOverride THEN cred.gateways
      ELSE IF cred.override THEN chosen \cap cred.gateways
      ELSE chosen

-----------------------------------------------------------------------------
(* resolve *)

Named(name)     == [name |-> name, ip |-> Unknown, mapped |-> FALSE]
Literal(ip)     == [name |-> <<>>, ip |-> ip, mapped |-> FALSE]
MappedIPv6(ip)  == [name |-> <<>>, ip |-> ip, mapped |-> TRUE]
IsLiteral(host) == host.ip # Unknown

\* Mutant of IsGatewayTarget: only the host a gateway is listed by counts.
IsListedGateway(cred, host, resolved, port) ==
  \E g \in cred.gateways : g.port = port /\ g.host = host

\* Whether a target is one of the gateways: by the host it is listed by, as it is
\* spelt; and by its address, where it is listed by one and the target has been
\* resolved.
IsGatewayTarget(cred, host, resolved, port) ==
  \E g \in cred.gateways :
    /\ g.port = port
    /\ \/ g.host = host
       \/ IsLiteral(g.host) /\ g.host.ip = resolved

Refused == [ip |-> Unknown, app |-> NoApp, byName |-> FALSE]

\* The target for a request, given what DNS answers; Refused for a name that
\* is not found and for a gateway.  byName: the gateway is sent the name.  A
\* literal is compared with the gateways as it is spelt and not again.
Resolution(cred, request, answer, protocol) ==
  LET apps   == cred.policy.apps
      host   == request.host
      port   == request.port
      Target(ip, app, byName) == [ip |-> ip, app |-> app, byName |-> byName]
      Routed(ip, app, byName) ==
        IF ip = Unknown \/ IsGatewayTarget(cred, host, ip, port) THEN Refused
        ELSE Target(ip, app, byName)
      domain == MatchDomain(DomainRules(apps, cred.mapping), host.name, port, protocol)
      byIP   == MatchIP(IPRules(apps), answer, port, protocol)
      suffix == MatchSuffix(SuffixRules(apps), host.name, port, protocol)
  IN  IF IsGatewayTarget(cred, host, Unknown, port) THEN Refused
      ELSE IF IsLiteral(host)
        THEN Target(host.ip, AppIDFor(apps, host.ip, port, cred.app, protocol), FALSE)
      ELSE IF domain # NoRule
        THEN IF domain.ip # Unknown THEN Routed(domain.ip, domain.app, FALSE)
             ELSE Routed(answer, domain.app, TRUE)
      ELSE IF byIP # NoRule   THEN Routed(answer, byIP.app, FALSE)
      ELSE IF suffix # NoRule THEN Routed(answer, suffix.app, TRUE)
      ELSE Routed(answer, cred.app, FALSE)

=============================================================================
