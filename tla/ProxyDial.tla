------------------------------- MODULE ProxyDial -------------------------------
(***************************************************************************)
(* How a CONNECT request becomes a stream: the target is resolved by the     *)
(* policy (TargetPolicy), dialled as a direct TCP stream over the gateways   *)
(* of its application (tunnel.Manager.DialTCP), and, where the stream path   *)
(* turns out not to be supported and the configuration allows it, over L3    *)
(* (l3.Dialer).  The gateway answers every attempt with one of the verdicts. *)
(***************************************************************************)
EXTENDS TargetPolicy

CONSTANTS Creds,       \* credentials: policy and options
          Requests,    \* requests of clients
          MaxAttempts  \* l3.Dialer.MaxAttempts

ASSUME DialAssumption == MaxAttempts \in Nat \ {0}

ASSUME PolicyAssumption == \A cred \in Creds : cred.policy.apps \in Seq(Apps)

VARIABLES
  input,   \* the credential and the request, until the target is known
  dial     \* the dial

dialVars == <<input, dial>>

NoInput == [cred |-> "none"]

NoDial ==
  [pc       |-> "none",
   target   |-> Refused,
   lines    |-> {},          \* gateways of the target's application
   preferL3 |-> FALSE, fallback |-> FALSE,
   left     |-> 0,           \* attempts left on this path
   last     |-> "none"]      \* verdict of the last attempt

DialInit == input = NoInput /\ dial = NoDial

\* A handler has read a CONNECT request.
Requested ==
  /\ dial.pc = "none"
  /\ \E c \in Creds, r \in Requests : input' = [cred |-> c, request |-> r]
  /\ dial' = [dial EXCEPT !.pc = "resolve"]

Preferred(cred, app) ==
  \E i \in DOMAIN cred.policy.apps : cred.policy.apps[i].id = app /\ cred.policy.apps[i].preferL3

\* resolve, with what DNS says about a name.
Resolves ==
  /\ dial.pc = "resolve"
  /\ \E answer \in {Unknown} \cup input.cred.addresses :
     LET cred   == input.cred
         target == Resolution(cred, input.request, answer, "tcp")
     IN  dial' = [dial EXCEPT
           !.pc = IF target = Refused \/ target.app = NoApp THEN "refused" ELSE "resolved",
           !.target = target,
           !.lines = GatewaysForGroup(cred, GatewayGroupForApp(cred.policy, target.app)),
           !.preferL3 = Preferred(cred, target.app),
           !.fallback = cred.allowTCPFallback]
  /\ UNCHANGED input

\* Dial: direct unless the application prefers L3.  No gateway, no attempt.
ChoosesPath ==
  /\ dial.pc = "resolved"
  /\ input' = NoInput
  /\ dial' = IF dial.preferL3
             THEN [dial EXCEPT !.pc = "l3", !.left = MaxAttempts]
             ELSE [dial EXCEPT !.pc = IF dial.lines = {} THEN "refused" ELSE "direct",
                               !.left = Cardinality(dial.lines)]

\* What an attempt on a line may end with: the stream, an exchange that ends
\* before its answer, an authentication rejection, a general failure (status
\* 1), a definitive one (2 to 6), an unsupported command or address type (7 and
\* 8), anything else, and no TLS connection with any gateway.
Verdicts == {"ok", "incomplete", "auth", "failure", "denied", "unsupported", "other", "unreachable"}

\* ShouldFallbackToL3, of the last error.
FallsBack(verdict) == dial.fallback /\ verdict \in {"incomplete", "unsupported"}

\* Where the dial goes after the direct path ended with a verdict.
AfterDirect(verdict) ==
  IF FallsBack(verdict)
  THEN [dial EXCEPT !.pc = "l3", !.left = MaxAttempts, !.last = verdict]
  ELSE [dial EXCEPT !.pc = "refused", !.last = verdict]

\* Mutant of Terminal: a definitive status is tried on the next gateway.
TerminalAuthOnly == {"auth", "unreachable"}

\* Verdicts no other gateway is asked after.
Terminal == {"auth", "unreachable", "denied", "unsupported"}

DirectAttempt ==
  /\ dial.pc = "direct" /\ dial.left > 0
  /\ \E verdict \in Verdicts :
       dial' = CASE verdict = "ok" -> [dial EXCEPT !.pc = "direct stream"]
                 [] verdict # "ok" /\ (verdict \in Terminal \/ dial.left = 1) -> AfterDirect(verdict)
                 [] OTHER -> [dial EXCEPT !.last = verdict, !.left = @ - 1]
  /\ UNCHANGED input

\* dialWithRetry: what may be retried is a gateway that is busy or wants another
\* line, and a failure that says nothing about the target.
L3Attempt ==
  /\ dial.pc = "l3" /\ dial.left > 0
  /\ \E verdict \in {"ok", "refused", "auth", "busy", "other"} :
       dial' = [dial EXCEPT !.last = verdict, !.left = @ - 1,
                  !.pc = IF verdict = "ok" THEN "L3 stream"
                         ELSE IF verdict \in {"refused", "auth"} \/ dial.left = 1 THEN "refused"
                         ELSE "l3"]
  /\ UNCHANGED input

\* The context of the setup ends: its time is over, or the server stops.
SetupEnds ==
  /\ dial.pc \in {"resolve", "resolved", "direct", "l3"}
  /\ dial' = [dial EXCEPT !.pc = "refused"] /\ input' = NoInput

Dialling == Resolves \/ ChoosesPath \/ DirectAttempt \/ L3Attempt

-----------------------------------------------------------------------------
(* Properties *)

\* i is the rule a reader of the policy would name: it applies, no other that
\* applies is Better, and of equals it stands first.
Best(rules, i, Applies(_), Better(_, _)) ==
  /\ Applies(rules[i])
  /\ \A j \in DOMAIN rules : Applies(rules[j]) =>
       ~Better(rules[j], rules[i]) /\ (j < i => Better(rules[i], rules[j]))

\* The application the policy names for a target, of the rules for TCP: by the narrowest domain rule,
\* else by the exact address or the smallest block, else by the longest
\* wildcard, else the default one.
AppOf(cred, request, ip) ==
  LET apps    == cred.policy.apps
      host    == request.host
      In(r)   == r.proto \in {"", "all", "tcp"} /\ InRange(r.ports, request.port)
      domains == DomainRules(apps, cred.mapping)
      ips     == IPRules(apps)
      names   == SuffixRules(apps)
      Domain(i) == Best(domains, i, LAMBDA r : In(r) /\ r.name = host.name,
                                    LAMBDA r, s : Width(r) < Width(s))
      ByIP(i)   == Best(ips, i, LAMBDA r : In(r) /\ ip \in r.addrs,
                        LAMBDA r, s : \/ r.exact /\ ~s.exact
                                      \/ r.exact = s.exact /\ Span(r) < Span(s))
      Suffix(i) == Best(names, i, LAMBDA r : In(r) /\ IsStrictSuffix(r.name, host.name),
                                  LAMBDA r, s : Len(r.name) > Len(s.name))
      First(I, rules) == rules[CHOOSE i \in I : TRUE].app
      D == IF IsLiteral(host) THEN {} ELSE {i \in DOMAIN domains : Domain(i)}
      A == {i \in DOMAIN ips : ByIP(i)}
      S == IF IsLiteral(host) THEN {} ELSE {i \in DOMAIN names : Suffix(i)}
  IN  IF D # {} THEN First(D, domains)
      ELSE IF A # {} THEN First(A, ips)
      ELSE IF S # {} THEN First(S, names)
      ELSE cred.app

\* A request is dialled for the application its policy names; never to a gateway
\* under the host that this is listed by, nor by a name that leads to the address
\* a gateway is listed by; and, unless a configured exception says otherwise,
\* only over the gateways of that application's own group.
DialAuthorised ==
  dial.pc = "resolved" =>
    LET cred  == input.cred
        group == GatewayGroupForApp(cred.policy, dial.target.app)
    IN  /\ dial.target.app = AppOf(cred, input.request, dial.target.ip)
        /\ \A g \in cred.gateways : g.port = input.request.port =>
             /\ g.host # input.request.host
             /\ ~IsLiteral(input.request.host) => g.host.ip # dial.target.ip
        /\ ~cred.legacyOverride /\ ~cred.missingGroupFallback /\ group # "none" =>
             dial.lines \subseteq (IF group \in DOMAIN cred.policy.groups
                                   THEN cred.policy.groups[group] ELSE {})

\* What the gateway said definitively about the target, on either path, is the
\* end of the dial: it is not asked again, not on another line and not over L3;
\* and L3 never stands in for the stream unless that is allowed.
RefusalIsFinal ==
  [][/\ dial'.last \in {"auth", "denied", "refused"} => dial'.pc = "refused"
     /\ dial.pc = "direct" /\ dial'.pc = "l3" => dial.fallback]_dial

=============================================================================
