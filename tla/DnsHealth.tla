------------------------------- MODULE DnsHealth -------------------------------
(***************************************************************************)
(* One dnsPool of internal/resolver and the callers of lookupIPv4: callers  *)
(* who ask for the same name share a lookup (dnsLookupCall), a lookup tries *)
(* the servers in turn, each by UDP and then by TCP, and what it finds      *)
(* moves the health of the server, which decides what later lookups try.    *)
(*                                                                         *)
(* Time is the action Expires, which ends a cooldown; an attempt ends, by   *)
(* its budget if not before, with one of Attempts.  The pool is that of one *)
(* routing scope: a new scope starts with an empty table.                   *)
(***************************************************************************)
EXTENDS Naturals, FiniteSets

CONSTANTS Callers,     \* bound: callers at a time, each with one name to resolve
          Hosts,       \* names
          MaxServers,  \* bound: servers of a scope
          Flights,     \* bound: lookups started
          Size,        \* bound: servers and lookups together
          MaxFailures  \* bound: failures in a row after which no cooldown ends

ASSUME DnsAssumption ==
  MaxServers \in Nat /\ Flights \in Nat /\ Size \in Nat /\ MaxFailures \in Nat

VARIABLES
  servers,  \* how many servers the scope has, 1..servers in configured order
  server,   \* health of each server: serverFailures, ...
  udp,      \* health of its UDP: udpFailures, ...; udpHealthy is retry = "none"
  flight,   \* the dnsLookupCalls and the goroutines that run lookupPool
  inflight, \* dnsPool.flights: the lookup of each name, or 0
  caller    \* the lookup each caller waits for, or 0

vars == <<servers, server, udp, flight, inflight, caller>>

Pool      == 1..servers
Lookups   == 1..Flights
Healthy   == [failures |-> 0, retry |-> "none", probe |-> FALSE, gen |-> 0]
Nothing   == [started |-> FALSE, reply |-> FALSE, answer |-> FALSE]

\* Candidates of a lookup: servers that are due go before the healthy ones.
NoneLeft  == [due |-> {}, good |-> {}]

NoFlight  == [pc      |-> "none",
              host    |-> "none",
              todo    |-> NoneLeft, \* candidates not asked yet
              at      |-> 0,        \* the server being asked
              sgen    |-> 0,        \* serverGeneration it began with
              ugen    |-> 0,        \* udpGeneration it began with
              attempt |-> Nothing,
              waiters |-> {},
              cancelled |-> FALSE]

Init ==
  /\ servers \in 1..MaxServers
  /\ server = [s \in Pool |-> Healthy] /\ udp = [s \in Pool |-> Healthy]
  /\ flight = [f \in Lookups |-> NoFlight]
  /\ inflight = [h \in Hosts |-> 0]
  /\ caller = [c \in Callers |-> 0]

\* How an attempt by one transport may end.  The resolver may answer without
\* calling the dialer; whatever came from the network has been observed.
Attempts ==
  {a \in [started : BOOLEAN, reply : BOOLEAN, answer : BOOLEAN] :
     /\ a.reply => a.started
     /\ a.started /\ a.answer => a.reply}

-----------------------------------------------------------------------------
(* Health *)

\* The retry time of a health record is reached.
Expired(h, s) == [h EXCEPT ![s].retry = "due"]
Cooling(h)    == h.retry = "cooling" /\ h.failures < MaxFailures

Expires(s) ==
  \/ Cooling(server[s]) /\ server' = Expired(server, s) /\ UNCHANGED <<udp, flight, inflight, caller>>
  \/ Cooling(udp[s]) /\ udp' = Expired(udp, s) /\ UNCHANGED <<server, flight, inflight, caller>>

Refuses(h) == h.probe \/ h.retry = "cooling"

\* beginServer and beginUDP: what is due is probed by one lookup.
Begun(h) == [h EXCEPT !.probe = (h.retry # "none")]

Failed(h) == [failures |-> h.failures + 1, retry |-> "cooling", probe |-> FALSE, gen |-> h.gen + 1]

\* Mutant of FinishServer: a late failure counts.
FinishServerLate(h, g, reply, cancelled) ==
  IF reply THEN [Healthy EXCEPT !.gen = h.gen + 1]
  ELSE IF cancelled THEN [h EXCEPT !.probe = FALSE]
  ELSE Failed(h)

\* A reply counts whenever it comes; a failure only if nothing was decided
\* since this lookup began.
FinishServer(h, g, reply, cancelled) ==
  IF reply THEN [Healthy EXCEPT !.gen = h.gen + 1]
  ELSE IF h.gen # g THEN h
  ELSE IF cancelled THEN [h EXCEPT !.probe = FALSE]
  ELSE Failed(h)

\* Mutant of FinishUDP: a cancelled lookup leaves at once.
FinishUDPKeeps(h, g, reply, cancelled) ==
  IF h.gen # g \/ cancelled THEN h
  ELSE IF reply THEN [Healthy EXCEPT !.gen = IF h.retry = "none" THEN h.gen ELSE h.gen + 1]
  ELSE Failed(h)

FinishUDP(h, g, reply, cancelled) ==
  IF h.gen # g THEN h
  ELSE IF cancelled THEN [h EXCEPT !.probe = FALSE]
  ELSE IF reply THEN [Healthy EXCEPT !.gen = IF h.retry = "none" THEN h.gen ELSE h.gen + 1]
  ELSE Failed(h)

-----------------------------------------------------------------------------
(* lookupPool *)

\* Servers that are neither cooling nor probed.
Candidates ==
  LET Found(state) == {s \in Pool : ~Refuses(server[s]) /\ server[s].retry = state}
  IN  [due |-> Found("due"), good |-> Found("none")]

\* Due ones come first, and each kind in configured order.
First(todo) ==
  LET next == IF todo.due # {} THEN todo.due ELSE todo.good
  IN  CHOOSE s \in next : \A r \in next : s <= r
Rest(todo) == [due |-> todo.due \ {First(todo)}, good |-> todo.good \ {First(todo)}]

PoolStarts(f) ==
  /\ flight[f].pc = "begun"
  /\ flight' = [flight EXCEPT
       ![f].pc = IF flight[f].cancelled THEN "end" ELSE "next",
       ![f].todo = IF flight[f].cancelled THEN NoneLeft ELSE Candidates]
  /\ UNCHANGED <<server, udp, inflight, caller>>

\* No candidate is left, or the lookup was cancelled.
PoolEnds(f) ==
  /\ flight[f].pc = "next"
  /\ flight[f].todo = NoneLeft \/ flight[f].cancelled
  /\ flight' = [flight EXCEPT ![f].pc = "end", ![f].todo = NoneLeft]
  /\ UNCHANGED <<server, udp, inflight, caller>>

\* beginServer: another lookup may have failed or probed it since.
BeginServer(f) ==
  /\ flight[f].pc = "next" /\ flight[f].todo # NoneLeft /\ ~flight[f].cancelled
  /\ LET s == First(flight[f].todo)
     IN  IF Refuses(server[s])
         THEN /\ flight' = [flight EXCEPT ![f].todo = Rest(@)]
              /\ UNCHANGED server
         ELSE /\ server' = [server EXCEPT ![s] = Begun(@)]
              /\ flight' = [flight EXCEPT ![f].todo = Rest(@), ![f].pc = "asking",
                   ![f].at = s, ![f].sgen = server[s].gen]
  /\ UNCHANGED <<udp, inflight, caller>>

\* lookupServer begins by UDP, or by TCP where UDP is cooling or being probed.
BeginUDP(f) ==
  /\ flight[f].pc = "asking"
  /\ LET s == flight[f].at
     IN  IF Refuses(udp[s])
         THEN flight' = [flight EXCEPT ![f].pc = "tcp"] /\ UNCHANGED udp
         ELSE /\ udp' = [udp EXCEPT ![s] = Begun(@)]
              /\ flight' = [flight EXCEPT ![f].pc = "udp", ![f].ugen = udp[s].gen]
  /\ UNCHANGED <<server, inflight, caller>>

\* The UDP attempt ends and is judged.  TCP follows a failure and a reply that
\* is neither an answer nor a negative answer (truncated, server failure),
\* unless the server was not contacted.
UDPEnds(f) ==
  /\ flight[f].pc = "udp"
  /\ \E a \in Attempts :
       /\ udp' = [udp EXCEPT ![flight[f].at] =
                    FinishUDP(@, flight[f].ugen, a.reply, flight[f].cancelled \/ ~a.started)]
       /\ \E next \in IF flight[f].cancelled \/ ~a.started \/ a.answer THEN {"asked"}
                      ELSE IF a.reply THEN {"asked", "tcp"} ELSE {"tcp"} :
            flight' = [flight EXCEPT ![f].attempt = a, ![f].ugen = 0, ![f].pc = next]
  /\ UNCHANGED <<server, inflight, caller>>

TCPEnds(f) ==
  /\ flight[f].pc = "tcp"
  /\ \E a \in Attempts :
       flight' = [flight EXCEPT ![f].pc = "asked",
         ![f].attempt = [started |-> a.started \/ @.started,
                         reply   |-> a.reply \/ @.reply,
                         answer  |-> a.answer ]]
  /\ UNCHANGED <<server, udp, inflight, caller>>

\* finishServer; the next candidate is asked after anything but an answer.
ServerAsked(f) ==
  /\ flight[f].pc = "asked"
  /\ LET a == flight[f].attempt
     IN  /\ server' = [server EXCEPT ![flight[f].at] =
              FinishServer(@, flight[f].sgen, a.reply, flight[f].cancelled \/ ~a.started)]
         /\ LET over == flight[f].cancelled \/ a.answer
            IN  flight' = [flight EXCEPT ![f].at = 0, ![f].sgen = 0, ![f].attempt = Nothing,
                  ![f].todo = IF over THEN NoneLeft ELSE @,
                  ![f].pc = IF over THEN "end" ELSE "next"]
  /\ UNCHANGED <<udp, inflight, caller>>

\* The goroutine publishes its result and leaves the table.
LookupEnds(f) ==
  /\ flight[f].pc = "end"
  /\ flight' = [flight EXCEPT ![f].pc = "finished", ![f].host = "none"]
  /\ inflight' = [h \in Hosts |-> IF inflight[h] = f THEN 0 ELSE inflight[h]]
  /\ UNCHANGED <<server, udp, caller>>

-----------------------------------------------------------------------------
(* Callers *)

\* lookup: joins the lookup of the name, or starts one.
Asks(c) ==
  /\ caller[c] = 0
  /\ \E h \in Hosts :
     LET new == Cardinality({f \in Lookups : flight[f].pc # "none"}) + 1
         f   == IF inflight[h] # 0 THEN inflight[h] ELSE new
     IN  /\ f \in Lookups /\ f + servers <= Size
         /\ inflight' = [inflight EXCEPT ![h] = f]
         /\ flight' = IF inflight[h] # 0
                      THEN [flight EXCEPT ![f].waiters = @ \cup {c}]
                      ELSE [flight EXCEPT ![f] = [NoFlight EXCEPT
                              !.pc = "begun", !.host = h, !.waiters = {c}]]
         /\ caller' = [caller EXCEPT ![c] = f]
  /\ UNCHANGED <<server, udp>>

\* Mutant of Left: the lookup nobody waits for is cancelled in place.
LeftInPlace(c, f) ==
  /\ flight' = [flight EXCEPT ![f].waiters = @ \ {c},
       ![f].cancelled = @ \/ (flight[f].waiters = {c} /\ flight[f].pc # "finished")]
  /\ UNCHANGED inflight

\* The deferred function: the last waiter of an unfinished lookup cancels it
\* and takes it from the table.
Left(c, f) ==
  LET last == flight[f].waiters = {c} /\ flight[f].pc # "finished"
  IN  /\ flight' = [flight EXCEPT ![f].waiters = @ \ {c}, ![f].cancelled = @ \/ last]
      /\ inflight' = [h \in Hosts |-> IF last /\ inflight[h] = f THEN 0 ELSE inflight[h]]

\* The caller's context ends, or its session does.
GivesUp(c) ==
  /\ caller[c] # 0
  /\ Left(c, caller[c])
  /\ caller' = [caller EXCEPT ![c] = 0]
  /\ UNCHANGED <<server, udp>>

\* The caller takes the result.
Gets(c) ==
  /\ caller[c] # 0 /\ flight[caller[c]].pc = "finished"
  /\ Left(c, caller[c])
  /\ caller' = [caller EXCEPT ![c] = 0]
  /\ UNCHANGED <<server, udp>>

-----------------------------------------------------------------------------

Runs(f) ==
  \/ PoolStarts(f) \/ PoolEnds(f) \/ BeginServer(f) \/ BeginUDP(f)
  \/ UDPEnds(f) \/ TCPEnds(f) \/ ServerAsked(f) \/ LookupEnds(f)

Step ==
  \/ \E s \in Pool : Expires(s)
  \/ \E f \in Lookups : Runs(f)
  \/ \E c \in Callers : Asks(c) \/ GivesUp(c) \/ Gets(c)

Next == Step /\ UNCHANGED servers

Spec == Init /\ [][Next]_vars

-----------------------------------------------------------------------------
(* Properties *)

Health == [failures : Nat, retry : {"none", "cooling", "due"}, probe : BOOLEAN, gen : Nat]

TypeOK ==
  /\ servers \in 1..MaxServers
  /\ \A s \in Pool : server[s] \in Health /\ udp[s] \in Health
  /\ \A f \in Lookups :
       /\ flight[f].pc \in {"none", "begun", "next", "asking", "udp", "tcp", "asked", "end", "finished"}
       /\ flight[f].todo \in [due : SUBSET Pool, good : SUBSET Pool]
       /\ flight[f].at \in 0..servers /\ flight[f].waiters \subseteq Callers
       /\ flight[f].attempt \in [started : BOOLEAN, reply : BOOLEAN, answer : BOOLEAN]
  /\ inflight \in [Hosts -> 0..Flights]
  /\ caller \in [Callers -> 0..Flights]

\* The lookups that ask s and whose judgement still counts.
Asking(s)  == {f \in Lookups : /\ flight[f].at = s /\ flight[f].sgen = server[s].gen}
ByUDP(s)   == {f \in Lookups : /\ flight[f].at = s /\ flight[f].pc = "udp"
                               /\ flight[f].ugen = udp[s].gen}

OneProbe(h, asking) ==
  /\ h.probe => h.retry = "due"
  /\ h.retry # "none" => Cardinality(asking) = IF h.probe THEN 1 ELSE 0

\* A server, or its UDP, that failed is tried by one lookup at a time, and the
\* mark that keeps the others away always belongs to a lookup that is under way
\* and will take it off: no server stays excluded for good because the lookup
\* that probed it was cancelled, was overtaken by another one's result, or
\* never reached it.
ProbeOwned ==
  /\ TypeOK
  /\ \A s \in Pool : OneProbe(server[s], Asking(s)) /\ OneProbe(udp[s], ByUDP(s))

\* Lookups that fail together count once: while a server or its UDP cools down
\* nothing makes its count of failures, and so its cooldown, grow; and nothing
\* but a reply ends a server's cooldown before its time.
CooldownStands ==
  [][\A s \in Pool :
       /\ server[s].retry = "cooling" =>
            \/ server'[s] = server[s] \/ server'[s] = [server[s] EXCEPT !.retry = "due"]
            \/ \E f \in Lookups : flight[f].at = s /\ flight[f].attempt.reply /\ server'[s].failures = 0
       /\ udp[s].retry = "cooling" =>
            \/ udp'[s] = udp[s] \/ udp'[s] = [udp[s] EXCEPT !.retry = "due"]]_vars

\* A caller waits for a lookup that runs for it: one caller's cancellation
\* never cancels the lookup of another, a caller never joins a lookup that was
\* given up, and a name has one lookup that is not given up.
NoWaiterCut ==
  /\ \A c \in Callers : caller[c] # 0 =>
       c \in flight[caller[c]].waiters /\ ~flight[caller[c]].cancelled
  /\ \A f \in Lookups :
       flight[f].pc \notin {"none", "finished"} /\ ~flight[f].cancelled =>
         inflight[flight[f].host] = f

=============================================================================
