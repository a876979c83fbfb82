---------------------------- MODULE DnsHealthProofs ----------------------------
(***************************************************************************)
(* The safety properties of DnsHealth for any number of callers, names,     *)
(* servers, lookups and failures.                                           *)
(***************************************************************************)
EXTENDS DnsHealth, Integers, FiniteSetTheorems, WellFoundedInduction, TLAPS

Phases    == {"none", "begun", "next", "asking", "udp", "tcp", "asked", "end", "finished"}
Asks4     == {"asking", "udp", "tcp", "asked"}
Over      == {"none", "finished"}
Ends      == [started : BOOLEAN, reply : BOOLEAN, answer : BOOLEAN]
LookupRec == [pc : Phases, host : Hosts \cup {"none"},
              todo : [due : SUBSET Pool, good : SUBSET Pool], at : 0..servers,
              sgen : Nat, ugen : Nat, attempt : Ends, waiters : SUBSET Callers,
              cancelled : BOOLEAN]

Types ==
  /\ servers \in 1..MaxServers
  /\ server \in [Pool -> Health] /\ udp \in [Pool -> Health]
  /\ flight \in [Lookups -> LookupRec]
  /\ inflight \in [Hosts -> 0..Flights] /\ caller \in [Callers -> 0..Flights]

\* A lookup asks a server in the phases of lookupServer, and has begun with a
\* generation that is not ahead of the health it will be judged by.
AskingInv ==
  \A f \in Lookups :
    /\ flight[f].at # 0 <=> flight[f].pc \in Asks4
    /\ flight[f].at # 0 => flight[f].sgen <= server[flight[f].at].gen
    /\ flight[f].pc = "udp" => flight[f].ugen <= udp[flight[f].at].gen

Counts(f, s)    == flight[f].at = s /\ flight[f].sgen = server[s].gen
CountsUDP(f, s) == /\ flight[f].at = s /\ flight[f].pc = "udp"
                   /\ flight[f].ugen = udp[s].gen

\* While a server is marked as probed one lookup whose judgement counts asks
\* it; while it cools down or is due and not probed, none does.
ServerInv ==
  \A s \in Pool :
    /\ server[s].probe => server[s].retry = "due"
    /\ server[s].retry # "none" =>
         /\ server[s].probe <=> \E f \in Lookups : Counts(f, s)
         /\ \A f, g \in Lookups : Counts(f, s) /\ Counts(g, s) => f = g
UDPInv ==
  \A s \in Pool :
    /\ udp[s].probe => udp[s].retry = "due"
    /\ udp[s].retry # "none" =>
         /\ udp[s].probe <=> \E f \in Lookups : CountsUDP(f, s)
         /\ \A f, g \in Lookups : CountsUDP(f, s) /\ CountsUDP(g, s) => f = g

\* Lookups are numbered as they start; who waits for one is in its set; one
\* that is given up has no waiter; and the table holds, by name, just those
\* that run and are not given up.
WaitInv ==
  /\ \E n \in 0..Flights : \A f \in Lookups : flight[f].pc # "none" <=> f <= n
  /\ \A f \in Lookups :
       /\ flight[f].pc = "none" => flight[f].waiters = {}
       /\ flight[f].waiters = {c \in Callers : caller[c] = f}
       /\ flight[f].cancelled => flight[f].waiters = {}
       /\ flight[f].pc \notin Over /\ ~flight[f].cancelled =>
            flight[f].host \in Hosts /\ inflight[flight[f].host] = f
  /\ \A h \in Hosts : inflight[h] # 0 =>
       /\ flight[inflight[h]].pc \notin Over /\ ~flight[inflight[h]].cancelled
       /\ flight[inflight[h]].host = h

DnsInv == Types /\ AskingInv /\ ServerInv /\ UDPInv /\ WaitInv

-----------------------------------------------------------------------------
(* Facts about the records and the candidates *)

\* What the types say of one health record, one lookup and one caller.
LEMMA Typed ==
  ASSUME Types
  PROVE  /\ \A s \in Pool :
              /\ s \in Nat /\ s # 0 /\ s \in 0..servers
              /\ server[s] \in Health /\ server[s].failures \in Nat
              /\ server[s].retry \in {"none", "cooling", "due"}
              /\ server[s].probe \in BOOLEAN /\ server[s].gen \in Nat
              /\ udp[s] \in Health /\ udp[s].failures \in Nat
              /\ udp[s].retry \in {"none", "cooling", "due"}
              /\ udp[s].probe \in BOOLEAN /\ udp[s].gen \in Nat
         /\ \A f \in Lookups :
              /\ f \in Nat /\ f # 0 /\ f \in 0..Flights
              /\ flight[f] \in LookupRec /\ flight[f].pc \in Phases
              /\ flight[f].host \in Hosts \cup {"none"}
              /\ flight[f].todo \in [due : SUBSET Pool, good : SUBSET Pool]
              /\ flight[f].at \in 0..servers /\ flight[f].sgen \in Nat
              /\ flight[f].at # 0 => flight[f].at \in Pool
              /\ flight[f].ugen \in Nat /\ flight[f].attempt \in Ends
              /\ flight[f].waiters \subseteq Callers /\ flight[f].cancelled \in BOOLEAN
         /\ \A h \in Hosts : /\ inflight[h] \in 0..Flights
                             /\ inflight[h] # 0 => inflight[h] \in Lookups
         /\ \A c \in Callers : /\ caller[c] \in 0..Flights
                               /\ caller[c] # 0 => caller[c] \in Lookups
         /\ NoneLeft \in [due : SUBSET Pool, good : SUBSET Pool]
         /\ NoFlight \in LookupRec /\ Healthy \in Health /\ Nothing \in Ends
<1> USE DnsAssumption DEF Types
<1>1. servers \in Nat /\ 0 \in 0..servers
  OBVIOUS
<1>2. ASSUME NEW s \in Pool
      PROVE  /\ s \in Nat /\ s # 0 /\ s \in 0..servers
             /\ server[s] \in Health /\ server[s].failures \in Nat
             /\ server[s].retry \in {"none", "cooling", "due"}
             /\ server[s].probe \in BOOLEAN /\ server[s].gen \in Nat
             /\ udp[s] \in Health /\ udp[s].failures \in Nat
             /\ udp[s].retry \in {"none", "cooling", "due"}
             /\ udp[s].probe \in BOOLEAN /\ udp[s].gen \in Nat
  <2>1. server[s] \in Health /\ udp[s] \in Health
    OBVIOUS
  <2> QED
    BY <1>1, <2>1 DEF Health, Pool
<1>3. ASSUME NEW f \in Lookups
      PROVE  /\ f \in Nat /\ f # 0 /\ f \in 0..Flights
             /\ flight[f] \in LookupRec /\ flight[f].pc \in Phases
             /\ flight[f].host \in Hosts \cup {"none"}
             /\ flight[f].todo \in [due : SUBSET Pool, good : SUBSET Pool]
             /\ flight[f].at \in 0..servers /\ flight[f].sgen \in Nat
             /\ flight[f].at # 0 => flight[f].at \in Pool
             /\ flight[f].ugen \in Nat /\ flight[f].attempt \in Ends
             /\ flight[f].waiters \subseteq Callers /\ flight[f].cancelled \in BOOLEAN
  <2>1. flight[f] \in LookupRec
    OBVIOUS
  <2>2. flight[f].at \in 0..servers
    BY <2>1 DEF LookupRec
  <2>3. flight[f].at # 0 => flight[f].at \in Pool
    BY <1>1, <2>2 DEF Pool
  <2>4. f \in Nat /\ f # 0 /\ f \in 0..Flights
    BY DEF Lookups
  <2> QED
    BY <2>1, <2>3, <2>4 DEF LookupRec
<1>4. /\ \A h \in Hosts : /\ inflight[h] \in 0..Flights
                          /\ inflight[h] # 0 => inflight[h] \in Lookups
      /\ \A c \in Callers : /\ caller[c] \in 0..Flights
                            /\ caller[c] # 0 => caller[c] \in Lookups
  BY DEF Lookups
<1>5. NoneLeft \in [due : SUBSET Pool, good : SUBSET Pool]
  BY DEF NoneLeft
<1>6. Healthy \in Health /\ Nothing \in Ends
  BY DEF Healthy, Health, Nothing, Ends
<1>7. NoFlight \in LookupRec
  BY <1>1, <1>5, <1>6 DEF NoFlight, LookupRec, Phases
<1> QED
  BY <1>2, <1>3, <1>4, <1>5, <1>6, <1>7

\* The next candidate is one of the candidates, for the smallest number of a
\* set of naturals exists.
LEMMA FirstIsCandidate ==
  ASSUME servers \in Nat, NEW todo \in [due : SUBSET Pool, good : SUBSET Pool],
         todo # NoneLeft
  PROVE  /\ First(todo) \in Pool
         /\ Rest(todo) \in [due : SUBSET Pool, good : SUBSET Pool]
<1> DEFINE next == IF todo.due # {} THEN todo.due ELSE todo.good
<1>1. todo = [due |-> todo.due, good |-> todo.good]
  OBVIOUS
<1>2. next \subseteq Pool /\ next # {}
  BY <1>1 DEF NoneLeft
<1>3. next \subseteq Nat
  BY <1>2 DEF Pool
<1>4. PICK d \in next : \A e \in next : ~ (<<e, d>> \in OpToRel(<, Nat))
  BY <1>2, <1>3, NatLessThanWellFounded, WFMin
<1>5. \A e \in next : d <= e
  <2> SUFFICES ASSUME NEW e \in next PROVE ~ (e < d)
    BY <1>3
  <2>1. <<e, d>> \in Nat \X Nat
    BY <1>3
  <2> QED
    BY <1>4, <2>1 DEF OpToRel
<1>6. First(todo) \in next
  BY <1>5 DEF First
<1> QED
  BY <1>2, <1>6 DEF Rest

-----------------------------------------------------------------------------
(* The initial state *)

\* Nothing was asked and every server is healthy.
LEMMA DnsInit == Init => DnsInv
<1> SUFFICES ASSUME Init PROVE DnsInv
  OBVIOUS
<1> USE DnsAssumption DEF Init
<1>1. Healthy \in Health /\ Nothing \in Ends
  BY DEF Healthy, Health, Nothing, Ends
<1>2. NoFlight \in LookupRec
  BY <1>1 DEF NoFlight, LookupRec, NoneLeft, Phases
<1>3. Types
  BY <1>1, <1>2 DEF Types
<1>4. AskingInv
  BY DEF AskingInv, NoFlight, Asks4
<1>5. ServerInv /\ UDPInv
  BY DEF ServerInv, UDPInv, Healthy
<1>6. WaitInv
  <2>1. 0 \in 0..Flights /\ \A f \in Lookups : ~(f <= 0) /\ f # 0
    BY DEF Lookups
  <2> QED
    BY <2>1 DEF WaitInv, NoFlight, Over
<1> QED
  BY <1>3, <1>4, <1>5, <1>6 DEF DnsInv

-----------------------------------------------------------------------------
(* What a step of one lookup leaves alone *)

\* A lookup that goes on is waited for as before.
LEMMA WaitKept ==
  ASSUME Types, WaitInv, NEW f \in Lookups, NEW F,
         flight' = [flight EXCEPT ![f] = F],
         flight[f].pc \notin Over, F.pc \notin Over, F.waiters = flight[f].waiters,
         F.host = flight[f].host, F.cancelled = flight[f].cancelled,
         UNCHANGED <<inflight, caller>>
  PROVE  WaitInv'
<1>1. \A g \in Lookups :
         /\ flight'[g].pc = "none" <=> flight[g].pc = "none"
         /\ flight'[g].pc \in Over <=> flight[g].pc \in Over
         /\ flight'[g].waiters = flight[g].waiters
         /\ flight'[g].cancelled = flight[g].cancelled
         /\ flight'[g].host = flight[g].host
  BY DEF Types, Over
<1>2. PICK n \in 0..Flights : \A g \in Lookups : flight[g].pc # "none" <=> g <= n
  BY DEF WaitInv
<1>3. \A g \in Lookups : flight'[g].pc # "none" <=> g <= n
  BY <1>1, <1>2
<1>4. \A g \in Lookups :
         /\ flight'[g].pc = "none" => flight'[g].waiters = {}
         /\ flight'[g].waiters = {c \in Callers : caller'[c] = g}
         /\ flight'[g].cancelled => flight'[g].waiters = {}
         /\ flight'[g].pc \notin Over /\ ~flight'[g].cancelled =>
              flight'[g].host \in Hosts /\ inflight'[flight'[g].host] = g
  BY <1>1 DEF WaitInv
<1>5. \A h \in Hosts : inflight'[h] # 0 =>
         /\ flight'[inflight'[h]].pc \notin Over /\ ~flight'[inflight'[h]].cancelled
         /\ flight'[inflight'[h]].host = h
  BY <1>1, Typed DEF WaitInv
<1> QED
  BY <1>3, <1>4, <1>5 DEF WaitInv

\* A lookup moves while no generation decreases.
LEMMA AskingMoves ==
  ASSUME Types, AskingInv, NEW f \in Lookups, NEW F \in LookupRec,
         flight' = [flight EXCEPT ![f] = F],
         F.at # 0 <=> F.pc \in Asks4,
         F.at # 0 => F.sgen <= server'[F.at].gen,
         F.pc = "udp" => F.ugen <= udp'[F.at].gen,
         \A s \in Pool : /\ server'[s].gen \in Nat /\ server[s].gen <= server'[s].gen
                         /\ udp'[s].gen \in Nat /\ udp[s].gen <= udp'[s].gen
  PROVE  AskingInv'
<1>1. ASSUME NEW g \in Lookups
      PROVE  /\ flight'[g].at # 0 <=> flight'[g].pc \in Asks4
             /\ flight'[g].at # 0 => flight'[g].sgen <= server'[flight'[g].at].gen
             /\ flight'[g].pc = "udp" => flight'[g].ugen <= udp'[flight'[g].at].gen
  <2>1. CASE g = f
    BY <2>1 DEF Types
  <2>2. CASE g # f
    <3>1. flight'[g] = flight[g]
      BY <2>2 DEF Types
    <3>2. flight[g].pc = "udp" => flight[g].at # 0
      BY DEF AskingInv, Asks4
    <3>3. flight[g].at # 0 =>
            /\ flight[g].at \in Pool /\ flight[g].sgen \in Nat /\ flight[g].ugen \in Nat
            /\ server[flight[g].at].gen \in Nat /\ udp[flight[g].at].gen \in Nat
      BY Typed
    <3> QED
      BY <3>1, <3>2, <3>3 DEF AskingInv
  <2> QED
    BY <2>1, <2>2
<1> QED
  BY <1>1 DEF AskingInv

\* A lookup moves without a change of the server it asks.
LEMMA ServerKept ==
  ASSUME Types, ServerInv, NEW f \in Lookups, NEW F,
         flight' = [flight EXCEPT ![f] = F],
         F.at = flight[f].at, F.at # 0 => F.sgen = flight[f].sgen,
         UNCHANGED <<servers, server>>
  PROVE  ServerInv'
<1>1. \A g \in Lookups, s \in Pool : Counts(g, s)' <=> Counts(g, s)
  BY Typed DEF Counts, Types
<1>2. Pool' = Pool
  BY DEF Pool
<1> QED
  BY <1>1, <1>2 DEF ServerInv

\* A lookup moves without beginning or ending to ask by UDP.
LEMMA UDPKept ==
  ASSUME Types, UDPInv, NEW f \in Lookups, NEW F,
         flight' = [flight EXCEPT ![f] = F],
         flight[f].pc = "udp" \/ F.pc = "udp" =>
           F.pc = flight[f].pc /\ F.at = flight[f].at /\ F.ugen = flight[f].ugen,
         UNCHANGED <<servers, udp>>
  PROVE  UDPInv'
<1>1. \A g \in Lookups, s \in Pool : CountsUDP(g, s)' <=> CountsUDP(g, s)
  BY DEF CountsUDP, Types
<1>2. Pool' = Pool
  BY DEF Pool
<1> QED
  BY <1>1, <1>2 DEF UDPInv

\* A lookup goes on between two servers or two attempts.
LEMMA LookupMoves ==
  ASSUME DnsInv, NEW f \in Lookups, NEW F \in LookupRec,
         flight' = [flight EXCEPT ![f] = F],
         flight[f].pc \notin Over \cup {"udp"}, F.pc \notin Over \cup {"udp"},
         flight[f].pc \in Asks4 <=> F.pc \in Asks4,
         F.at = flight[f].at, F.sgen = flight[f].sgen,
         F.waiters = flight[f].waiters, F.host = flight[f].host,
         F.cancelled = flight[f].cancelled,
         UNCHANGED <<servers, server, udp, inflight, caller>>
  PROVE  DnsInv'
<1> USE DEF DnsInv
<1>1. Types'
  <2>1. Pool' = Pool /\ LookupRec' = LookupRec
    BY DEF Pool, LookupRec
  <2> QED
    BY <2>1 DEF Types
<1>2. AskingInv'
  <2>1. \A s \in Pool : /\ server'[s].gen \in Nat /\ server[s].gen <= server'[s].gen
                        /\ udp'[s].gen \in Nat /\ udp[s].gen <= udp'[s].gen
    BY Typed
  <2>2. /\ F.at # 0 <=> F.pc \in Asks4
        /\ F.at # 0 => F.sgen <= server'[F.at].gen
    BY DEF AskingInv
  <2> QED
    BY <2>1, <2>2, AskingMoves
<1>3. ServerInv'
  BY ServerKept
<1>4. UDPInv'
  BY UDPKept
<1>5. WaitInv'
  BY WaitKept
<1> QED
  BY <1>1, <1>2, <1>3, <1>4, <1>5

-----------------------------------------------------------------------------
(* The steps of lookupPool *)

\* The phases in which a server is asked, and those between servers.
LEMMA PhasesApart ==
  /\ {"begun", "next", "end"} \cap Asks4 = {} /\ {"asking", "tcp", "asked"} \subseteq Asks4
  /\ {"begun", "next", "end", "asking", "tcp", "asked"} \cap (Over \cup {"udp"}) = {}
  /\ {"begun", "next", "end", "asking", "tcp", "asked", "udp"} \subseteq Phases
  /\ "udp" \in Asks4 /\ "udp" \notin Over
BY DEF Asks4, Over, Phases

\* The candidates are noted, or the lookup was cancelled before.
LEMMA PoolStartsKeeps ==
  ASSUME DnsInv, NEW f \in Lookups, PoolStarts(f), servers' = servers
  PROVE  DnsInv'
<1> DEFINE F == [flight[f] EXCEPT !.pc = IF flight[f].cancelled THEN "end" ELSE "next",
                   !.todo = IF flight[f].cancelled THEN NoneLeft ELSE Candidates]
<1>1. /\ flight[f].pc = "begun" /\ flight' = [flight EXCEPT ![f] = F]
      /\ UNCHANGED <<server, udp, inflight, caller>>
  BY Typed DEF PoolStarts, DnsInv, Types
<1>2. Candidates \in [due : SUBSET Pool, good : SUBSET Pool]
  BY DEF Candidates
<1>3. /\ F.pc \in {"end", "next"} /\ F.at = flight[f].at /\ F.sgen = flight[f].sgen
      /\ F.waiters = flight[f].waiters /\ F.host = flight[f].host
      /\ F.cancelled = flight[f].cancelled
  BY Typed DEF LookupRec, DnsInv
<1>4. F \in LookupRec
  <2>1. flight[f] \in LookupRec /\ NoneLeft \in [due : SUBSET Pool, good : SUBSET Pool]
    BY Typed DEF DnsInv
  <2> HIDE DEF DnsInv
  <2> QED
    BY <2>1, <1>2 DEF LookupRec, Phases
<1> HIDE DEF F
<1> QED
  BY <1>1, <1>3, <1>4, PhasesApart, LookupMoves

\* No candidate is left, or the lookup was cancelled.
LEMMA PoolEndsKeeps ==
  ASSUME DnsInv, NEW f \in Lookups, PoolEnds(f), servers' = servers
  PROVE  DnsInv'
<1> DEFINE F == [flight[f] EXCEPT !.pc = "end", !.todo = NoneLeft]
<1>1. /\ flight[f].pc = "next" /\ flight' = [flight EXCEPT ![f] = F]
      /\ UNCHANGED <<server, udp, inflight, caller>>
  BY Typed DEF PoolEnds, DnsInv, Types
<1>2. /\ F.pc = "end" /\ F.at = flight[f].at /\ F.sgen = flight[f].sgen
      /\ F.waiters = flight[f].waiters /\ F.host = flight[f].host
      /\ F.cancelled = flight[f].cancelled
  BY Typed DEF LookupRec, DnsInv
<1>3. F \in LookupRec
  <2>1. flight[f] \in LookupRec /\ NoneLeft \in [due : SUBSET Pool, good : SUBSET Pool]
    BY Typed DEF DnsInv
  <2> HIDE DEF DnsInv
  <2> QED
    BY <2>1 DEF LookupRec, Phases
<1> HIDE DEF F
<1> QED
  BY <1>1, <1>2, <1>3, PhasesApart, LookupMoves

\* The TCP attempt ends.
LEMMA TCPEndsKeeps ==
  ASSUME DnsInv, NEW f \in Lookups, TCPEnds(f), servers' = servers
  PROVE  DnsInv'
<1>1. PICK a \in Attempts :
        flight' = [flight EXCEPT ![f].pc = "asked",
          ![f].attempt = [started |-> a.started \/ @.started,
                          reply   |-> a.reply \/ @.reply,
                          answer  |-> a.answer]]
  BY DEF TCPEnds
<1> DEFINE e == [started |-> a.started \/ flight[f].attempt.started,
                 reply   |-> a.reply \/ flight[f].attempt.reply,
                 answer  |-> a.answer]
           F == [flight[f] EXCEPT !.pc = "asked", !.attempt = e]
<1>2. flight' = [flight EXCEPT ![f] = F]
  BY <1>1, Typed DEF DnsInv, Types
<1>3. e \in Ends
  BY Typed DEF Attempts, Ends
<1> HIDE DEF e
<1>4. /\ F.pc = "asked" /\ F.at = flight[f].at /\ F.sgen = flight[f].sgen
      /\ F.waiters = flight[f].waiters /\ F.host = flight[f].host
      /\ F.cancelled = flight[f].cancelled
  BY Typed DEF LookupRec, DnsInv
<1>5. F \in LookupRec
  <2>1. flight[f] \in LookupRec
    BY Typed DEF DnsInv
  <2> HIDE DEF DnsInv
  <2> QED
    BY <2>1, <1>3, PhasesApart DEF LookupRec
<1>6. flight[f].pc = "tcp" /\ UNCHANGED <<server, udp, inflight, caller>>
  BY DEF TCPEnds
<1> HIDE DEF F
<1> QED
  BY <1>2, <1>4, <1>5, <1>6, PhasesApart, LookupMoves

\* A lookup passes a server by, or asks it and marks what is due as probed.
LEMMA BeginServerKeeps ==
  ASSUME DnsInv, NEW f \in Lookups, BeginServer(f), servers' = servers
  PROVE  DnsInv'
<1> USE DEF DnsInv
<1>1. PICK s \in Pool :
        /\ s = First(flight[f].todo)
        /\ Rest(flight[f].todo) \in [due : SUBSET Pool, good : SUBSET Pool]
  BY Typed, FirstIsCandidate, DnsAssumption DEF BeginServer, Types
<1>2. /\ flight[f].pc = "next" /\ UNCHANGED <<udp, inflight, caller>>
      /\ flight[f].at = 0
  BY PhasesApart DEF BeginServer, AskingInv
<1>3. CASE Refuses(server[s])
  <2> DEFINE F == [flight[f] EXCEPT !.todo = Rest(flight[f].todo)]
  <2>1. flight' = [flight EXCEPT ![f] = F] /\ server' = server
    BY <1>1, <1>3, Typed DEF BeginServer, Types
  <2>2. /\ F.pc = "next" /\ F.at = flight[f].at /\ F.sgen = flight[f].sgen
        /\ F.waiters = flight[f].waiters /\ F.host = flight[f].host
        /\ F.cancelled = flight[f].cancelled
    BY <1>2, Typed DEF LookupRec
  <2>3. F \in LookupRec
    BY <1>1, Typed DEF LookupRec
  <2> HIDE DEF F
  <2> QED
    BY <1>2, <2>1, <2>2, <2>3, PhasesApart, LookupMoves
<1>4. CASE ~Refuses(server[s])
  <2> DEFINE H == Begun(server[s])
             F == [flight[f] EXCEPT !.todo = Rest(flight[f].todo), !.pc = "asking",
                                    !.at = s, !.sgen = server[s].gen]
  <2>1. /\ flight' = [flight EXCEPT ![f] = F]
        /\ server' = [server EXCEPT ![s] = H]
    BY <1>1, <1>4, Typed DEF BeginServer, Types
  <2>2. /\ F.pc = "asking" /\ F.at = s /\ F.sgen = server[s].gen
        /\ F.waiters = flight[f].waiters /\ F.host = flight[f].host
        /\ F.cancelled = flight[f].cancelled
    BY Typed DEF LookupRec
  <2>3. F \in LookupRec
    <3>1. flight[f] \in LookupRec /\ s \in 0..servers /\ server[s].gen \in Nat
      BY Typed DEF DnsInv
    <3> HIDE DEF DnsInv
    <3> QED
      BY <3>1, <1>1 DEF LookupRec, Phases
  <2>4. /\ H \in Health /\ H.gen = server[s].gen /\ H.retry = server[s].retry
        /\ H.probe = (server[s].retry # "none")
        /\ server[s].retry \in {"none", "due"} /\ ~server[s].probe
    <3>1. server[s] \in Health /\ server[s].retry \in {"none", "cooling", "due"}
      BY Typed
    <3> QED
      BY <1>4, <3>1 DEF Begun, Refuses, Health
  <2> HIDE DEF F, H
  <2>5. /\ flight'[f] = F /\ \A g \in Lookups : g # f => flight'[g] = flight[g]
        /\ server'[s] = H /\ \A r \in Pool : r # s => server'[r] = server[r]
    BY <2>1 DEF Types
  <2>6. Pool' = Pool /\ LookupRec' = LookupRec
    BY DEF Pool, LookupRec
  <2>7. Types'
    BY <1>2, <2>1, <2>3, <2>4, <2>6 DEF Types
  <2>8. AskingInv'
    <3>1. \A r \in Pool : /\ server'[r].gen \in Nat /\ server[r].gen <= server'[r].gen
                          /\ udp'[r].gen \in Nat /\ udp[r].gen <= udp'[r].gen
      BY <1>2, <2>4, <2>5, Typed
    <3>2. /\ F.at # 0 <=> F.pc \in Asks4
          /\ F.at # 0 => F.sgen <= server'[F.at].gen
      BY <2>2, <2>4, <2>5, PhasesApart, Typed
    <3> QED
      BY <2>1, <2>2, <2>3, <3>1, <3>2, AskingMoves
  <2>9. ServerInv'
    <3>1. \A g \in Lookups, r \in Pool :
             g # f \/ r # s => (Counts(g, r)' <=> Counts(g, r))
      <4>1. \A r \in Pool : server'[r].gen = server[r].gen /\ r # 0
        BY <2>4, <2>5, Typed
      <4> QED
        BY <1>2, <2>2, <2>5, <4>1 DEF Counts
    <3>2. Counts(f, s)' /\ \A r \in Pool : ~Counts(f, r)
      BY <1>2, <2>2, <2>4, <2>5, Typed DEF Counts
    <3>3. ASSUME NEW r \in Pool
          PROVE  /\ server'[r].probe => server'[r].retry = "due"
                 /\ server'[r].retry # "none" =>
                      /\ server'[r].probe <=> \E g \in Lookups : Counts(g, r)'
                      /\ \A g, i \in Lookups : Counts(g, r)' /\ Counts(i, r)' => g = i
      <4>1. CASE r # s
        BY <2>5, <3>1, <4>1 DEF ServerInv
      <4>2. CASE r = s
        BY <2>4, <2>5, <3>1, <3>2, <4>2 DEF ServerInv
      <4> QED
        BY <4>1, <4>2
    <3> QED
      BY <2>6, <3>3 DEF ServerInv
  <2>10. UDPInv'
    BY <1>2, <2>1, <2>2, UDPKept
  <2>11. WaitInv'
    BY <1>2, <2>1, <2>2, PhasesApart, WaitKept
  <2> QED
    BY <2>7, <2>8, <2>9, <2>10, <2>11
<1> QED
  BY <1>3, <1>4

\* The server is asked by UDP, marked as probed if it is due, or by TCP.
LEMMA BeginUDPKeeps ==
  ASSUME DnsInv, NEW f \in Lookups, BeginUDP(f), servers' = servers
  PROVE  DnsInv'
<1> USE DEF DnsInv
<1>1. PICK s \in Pool : s = flight[f].at
  BY Typed, PhasesApart DEF BeginUDP, AskingInv
<1>2. flight[f].pc = "asking" /\ UNCHANGED <<server, inflight, caller>>
  BY DEF BeginUDP
<1>3. CASE Refuses(udp[s])
  <2> DEFINE F == [flight[f] EXCEPT !.pc = "tcp"]
  <2>1. flight' = [flight EXCEPT ![f] = F] /\ udp' = udp
    BY <1>1, <1>3, Typed DEF BeginUDP, Types
  <2>2. /\ F.pc = "tcp" /\ F.at = flight[f].at /\ F.sgen = flight[f].sgen
        /\ F.waiters = flight[f].waiters /\ F.host = flight[f].host
        /\ F.cancelled = flight[f].cancelled
    BY Typed DEF LookupRec
  <2>3. F \in LookupRec
    BY Typed, PhasesApart DEF LookupRec
  <2> HIDE DEF F
  <2> QED
    BY <1>2, <2>1, <2>2, <2>3, PhasesApart, LookupMoves
<1>4. CASE ~Refuses(udp[s])
  <2> DEFINE H == Begun(udp[s])
             F == [flight[f] EXCEPT !.pc = "udp", !.ugen = udp[s].gen]
  <2>1. /\ flight' = [flight EXCEPT ![f] = F]
        /\ udp' = [udp EXCEPT ![s] = H]
    BY <1>1, <1>4, Typed DEF BeginUDP, Types
  <2>2. /\ F.pc = "udp" /\ F.at = flight[f].at /\ F.sgen = flight[f].sgen
        /\ F.ugen = udp[s].gen
        /\ F.waiters = flight[f].waiters /\ F.host = flight[f].host
        /\ F.cancelled = flight[f].cancelled
    BY Typed DEF LookupRec
  <2>3. F \in LookupRec
    <3>1. flight[f] \in LookupRec /\ udp[s].gen \in Nat
      BY Typed DEF DnsInv
    <3> HIDE DEF DnsInv
    <3> QED
      BY <3>1 DEF LookupRec, Phases
  <2>4. /\ H \in Health /\ H.gen = udp[s].gen /\ H.retry = udp[s].retry
        /\ H.probe = (udp[s].retry # "none")
        /\ udp[s].retry \in {"none", "due"} /\ ~udp[s].probe
    <3>1. udp[s] \in Health /\ udp[s].retry \in {"none", "cooling", "due"}
      BY Typed
    <3> QED
      BY <1>4, <3>1 DEF Begun, Refuses, Health
  <2> HIDE DEF F, H
  <2>5. /\ flight'[f] = F /\ \A g \in Lookups : g # f => flight'[g] = flight[g]
        /\ udp'[s] = H /\ \A r \in Pool : r # s => udp'[r] = udp[r]
    BY <2>1 DEF Types
  <2>6. Pool' = Pool /\ LookupRec' = LookupRec
    BY DEF Pool, LookupRec
  <2>7. Types'
    BY <1>2, <2>1, <2>3, <2>4, <2>6 DEF Types
  <2>8. AskingInv'
    <3>1. \A r \in Pool : /\ server'[r].gen \in Nat /\ server[r].gen <= server'[r].gen
                          /\ udp'[r].gen \in Nat /\ udp[r].gen <= udp'[r].gen
      BY <1>2, <2>4, <2>5, Typed
    <3>2. /\ F.at # 0 <=> F.pc \in Asks4
          /\ F.at # 0 => F.sgen <= server'[F.at].gen
          /\ F.ugen <= udp'[F.at].gen
      BY <1>1, <1>2, <2>2, <2>4, <2>5, PhasesApart, Typed DEF AskingInv
    <3> QED
      BY <2>1, <2>2, <2>3, <3>1, <3>2, AskingMoves
  <2>9. ServerInv'
    BY <1>2, <2>1, <2>2, ServerKept
  <2>10. UDPInv'
    <3>1. \A g \in Lookups, r \in Pool :
             g # f \/ r # s => (CountsUDP(g, r)' <=> CountsUDP(g, r))
      <4>1. \A r \in Pool : udp'[r].gen = udp[r].gen
        BY <2>4, <2>5
      <4> QED
        BY <1>1, <2>2, <2>5, <4>1 DEF CountsUDP
    <3>2. CountsUDP(f, s)' /\ \A r \in Pool : ~CountsUDP(f, r)
      BY <1>1, <1>2, <2>2, <2>4, <2>5 DEF CountsUDP
    <3>3. ASSUME NEW r \in Pool
          PROVE  /\ udp'[r].probe => udp'[r].retry = "due"
                 /\ udp'[r].retry # "none" =>
                      /\ udp'[r].probe <=> \E g \in Lookups : CountsUDP(g, r)'
                      /\ \A g, i \in Lookups : CountsUDP(g, r)' /\ CountsUDP(i, r)' => g = i
      <4>1. CASE r # s
        BY <2>5, <3>1, <4>1 DEF UDPInv
      <4>2. CASE r = s
        BY <2>4, <2>5, <3>1, <3>2, <4>2 DEF UDPInv
      <4> QED
        BY <4>1, <4>2
    <3> QED
      BY <2>6, <3>3 DEF UDPInv
  <2>11. WaitInv'
    BY <1>2, <2>1, <2>2, PhasesApart, WaitKept
  <2> QED
    BY <2>7, <2>8, <2>9, <2>10, <2>11
<1> QED
  BY <1>3, <1>4

-----------------------------------------------------------------------------
(* Judgements of a server and of its UDP *)

\* What a judgement of h leaves, by a lookup that began with generation g: a late
\* one changes nothing; one in time takes the mark of a probe off, and either
\* leaves the health as it was, ends the cooldown or begins a new generation.
Judgement(h, g, R) ==
  /\ R \in Health /\ R.gen \in Nat /\ h.gen <= R.gen
  /\ R.probe => R = h /\ h.gen # g
  /\ R.retry # "none" =>
       \/ R.gen = h.gen /\ R.retry = h.retry /\ ~R.probe /\ h.gen = g
       \/ R = h /\ h.gen # g
       \/ R.gen = h.gen + 1 /\ ~R.probe

\* finishServer and finishUDP judge so.
LEMMA Judged ==
  ASSUME NEW h \in Health, NEW g \in Nat, NEW reply \in BOOLEAN, NEW cancelled \in BOOLEAN
  PROVE  /\ Judgement(h, g, FinishServer(h, g, reply, cancelled))
         /\ Judgement(h, g, FinishUDP(h, g, reply, cancelled))
<1>1. h.gen \in Nat /\ h.failures \in Nat /\ h.gen + 1 \in Nat
  BY DEF Health
<1>2. ASSUME h.gen # g
      PROVE  Judgement(h, g, h)
  BY <1>1, <1>2 DEF Judgement
<1>3. ASSUME h.gen = g
      PROVE  Judgement(h, g, [h EXCEPT !.probe = FALSE])
  <2> DEFINE R == [h EXCEPT !.probe = FALSE]
  <2>1. R \in Health /\ R.gen = h.gen /\ R.retry = h.retry /\ ~R.probe
    BY DEF Health
  <2> HIDE DEF R
  <2>2. Judgement(h, g, R)
    BY <1>1, <1>3, <2>1 DEF Judgement
  <2> QED
    BY <2>2 DEF R
<1>4. Judgement(h, g, Failed(h))
  <2> DEFINE R == Failed(h)
  <2>1. R \in Health /\ R.gen = h.gen + 1 /\ R.retry = "cooling" /\ ~R.probe
    BY <1>1 DEF Failed, Health
  <2> HIDE DEF R
  <2>2. Judgement(h, g, R)
    BY <1>1, <2>1 DEF Judgement
  <2> QED
    BY <2>2 DEF R
<1>5. ASSUME NEW n \in {h.gen, h.gen + 1}
      PROVE  Judgement(h, g, [Healthy EXCEPT !.gen = n])
  <2> DEFINE R == [Healthy EXCEPT !.gen = n]
  <2>1. R \in Health /\ R.gen = n /\ R.retry = "none" /\ ~R.probe
    BY <1>1 DEF Healthy, Health
  <2> HIDE DEF R
  <2>2. Judgement(h, g, R)
    BY <1>1, <2>1 DEF Judgement
  <2> QED
    BY <2>2 DEF R
<1>6. Judgement(h, g, FinishServer(h, g, reply, cancelled))
  BY <1>2, <1>3, <1>4, <1>5 DEF FinishServer
<1>7. Judgement(h, g, FinishUDP(h, g, reply, cancelled))
  BY <1>2, <1>3, <1>4, <1>5 DEF FinishUDP
<1> QED
  BY <1>6, <1>7

\* The UDP attempt ends and the UDP of the server is judged.
LEMMA UDPEndsKeeps ==
  ASSUME DnsInv, NEW f \in Lookups, UDPEnds(f), servers' = servers
  PROVE  DnsInv'
<1> USE DEF DnsInv
<1>1. PICK s \in Pool : s = flight[f].at
  BY Typed, PhasesApart DEF UDPEnds, AskingInv
<1>2. flight[f].pc = "udp" /\ UNCHANGED <<server, inflight, caller>>
  BY DEF UDPEnds
<1>3. PICK a \in Attempts, next \in {"asked", "tcp"} :
        /\ udp' = [udp EXCEPT ![flight[f].at] =
             FinishUDP(@, flight[f].ugen, a.reply, flight[f].cancelled \/ ~a.started)]
        /\ flight' = [flight EXCEPT ![f].attempt = a, ![f].ugen = 0, ![f].pc = next]
  BY DEF UDPEnds
<1> DEFINE H == FinishUDP(udp[s], flight[f].ugen, a.reply, flight[f].cancelled \/ ~a.started)
           F == [flight[f] EXCEPT !.attempt = a, !.ugen = 0, !.pc = next]
<1>4. a \in Ends /\ a.reply \in BOOLEAN /\ (flight[f].cancelled \/ ~a.started) \in BOOLEAN
  BY Typed DEF Attempts, Ends
<1>5. flight' = [flight EXCEPT ![f] = F] /\ udp' = [udp EXCEPT ![s] = H]
  BY <1>1, <1>3, Typed DEF Types
<1>6. /\ F.pc = next /\ F.at = flight[f].at /\ F.sgen = flight[f].sgen
      /\ F.waiters = flight[f].waiters /\ F.host = flight[f].host
      /\ F.cancelled = flight[f].cancelled
  BY Typed DEF LookupRec
<1>7. F \in LookupRec
  <2>1. flight[f] \in LookupRec
    BY Typed DEF DnsInv
  <2> HIDE DEF DnsInv
  <2> QED
    BY <2>1, <1>4, PhasesApart DEF LookupRec
<1>8. Judgement(udp[s], flight[f].ugen, H)
  BY <1>4, Typed, Judged
<1> HIDE DEF F, H
<1>9. /\ flight'[f] = F /\ \A g \in Lookups : g # f => flight'[g] = flight[g]
      /\ udp'[s] = H /\ \A r \in Pool : r # s => udp'[r] = udp[r]
  BY <1>5 DEF Types
<1>10. Pool' = Pool /\ LookupRec' = LookupRec
  BY DEF Pool, LookupRec
<1>11. Types'
  BY <1>2, <1>5, <1>7, <1>8, <1>10 DEF Types, Judgement
<1>12. AskingInv'
  <2>1. \A r \in Pool : /\ server'[r].gen \in Nat /\ server[r].gen <= server'[r].gen
                        /\ udp'[r].gen \in Nat /\ udp[r].gen <= udp'[r].gen
    BY <1>2, <1>8, <1>9, Typed DEF Judgement
  <2>2. /\ F.at # 0 <=> F.pc \in Asks4
        /\ F.at # 0 => F.sgen <= server'[F.at].gen
    BY <1>2, <1>6, PhasesApart DEF AskingInv
  <2> QED
    BY <1>5, <1>6, <1>7, <2>1, <2>2, AskingMoves
<1>13. ServerInv'
  BY <1>2, <1>5, <1>6, ServerKept
<1>14. UDPInv'
  <2>1. \A g \in Lookups, r \in Pool : g # f /\ r # s => (CountsUDP(g, r)' <=> CountsUDP(g, r))
    BY <1>9 DEF CountsUDP
  <2>2. /\ \A r \in Pool : ~CountsUDP(f, r)'
        /\ \A r \in Pool : r # s => ~CountsUDP(f, r)
        /\ CountsUDP(f, s) <=> flight[f].ugen = udp[s].gen
    BY <1>1, <1>2, <1>6, <1>9 DEF CountsUDP
  <2>3. H.gen = udp[s].gen =>
          \A g \in Lookups : g # f => (CountsUDP(g, s)' <=> CountsUDP(g, s))
    BY <1>9 DEF CountsUDP
  <2>4. H.gen = udp[s].gen + 1 => \A g \in Lookups : ~CountsUDP(g, s)'
    <3>1. ASSUME NEW g \in Lookups, g # f, flight[g].at = s, flight[g].pc = "udp"
          PROVE  flight[g].ugen \in Nat /\ flight[g].ugen <= udp[s].gen /\ udp[s].gen \in Nat
      BY <3>1, Typed DEF AskingInv
    <3> QED
      BY <1>9, <2>2, <3>1 DEF CountsUDP
  <2>5. ASSUME NEW r \in Pool
        PROVE  /\ udp'[r].probe => udp'[r].retry = "due"
               /\ udp'[r].retry # "none" =>
                    /\ udp'[r].probe <=> \E g \in Lookups : CountsUDP(g, r)'
                    /\ \A g, i \in Lookups : CountsUDP(g, r)' /\ CountsUDP(i, r)' => g = i
    <3>1. CASE r # s
      BY <1>9, <2>1, <2>2, <3>1 DEF UDPInv
    <3>2. CASE r = s
      <4>1. CASE H.gen = udp[s].gen + 1
        <5>1. ~H.probe
          <6>1. CASE H = udp[s]
            BY <4>1, <6>1, Typed
          <6> QED
            BY <1>8, <6>1 DEF Judgement
        <5> QED
          BY <1>9, <2>4, <3>2, <4>1, <5>1
      <4>2. CASE H = udp[s] /\ udp[s].gen # flight[f].ugen
        BY <1>9, <2>2, <2>3, <3>2, <4>2 DEF UDPInv
      <4>3. CASE H.gen = udp[s].gen /\ H.retry = udp[s].retry /\ ~H.probe
                 /\ udp[s].gen = flight[f].ugen
        BY <1>9, <2>2, <2>3, <3>2, <4>3 DEF UDPInv
      <4>4. CASE H.retry = "none"
        <5>1. ~H.probe
          BY <1>8, <4>4 DEF Judgement, UDPInv
        <5> QED
          BY <1>9, <3>2, <4>4, <5>1
      <4> QED
        BY <1>8, <4>1, <4>2, <4>3, <4>4 DEF Judgement
    <3> QED
      BY <3>1, <3>2
  <2> QED
    BY <1>10, <2>5 DEF UDPInv
<1>15. WaitInv'
  BY <1>2, <1>5, <1>6, PhasesApart, WaitKept
<1> QED
  BY <1>11, <1>12, <1>13, <1>14, <1>15

\* The server is judged, and the lookup turns to the next one or ends.
LEMMA ServerAskedKeeps ==
  ASSUME DnsInv, NEW f \in Lookups, ServerAsked(f), servers' = servers
  PROVE  DnsInv'
<1> USE DEF DnsInv
<1>1. PICK s \in Pool : s = flight[f].at
  BY Typed, PhasesApart DEF ServerAsked, AskingInv
<1>2. flight[f].pc = "asked" /\ UNCHANGED <<udp, inflight, caller>>
  BY DEF ServerAsked
<1> DEFINE a == flight[f].attempt
           over == flight[f].cancelled \/ a.answer
           todo == IF over THEN NoneLeft ELSE flight[f].todo
           next == IF over THEN "end" ELSE "next"
           H == FinishServer(server[s], flight[f].sgen, a.reply,
                             flight[f].cancelled \/ ~a.started)
           F == [flight[f] EXCEPT !.at = 0, !.sgen = 0, !.attempt = Nothing,
                                  !.todo = todo, !.pc = next]
<1>3. a \in Ends /\ a.reply \in BOOLEAN /\ (flight[f].cancelled \/ ~a.started) \in BOOLEAN
  BY Typed DEF Ends
<1>4. flight' = [flight EXCEPT ![f] = F] /\ server' = [server EXCEPT ![s] = H]
  BY <1>1, Typed DEF ServerAsked, Types
<1>5. /\ todo \in [due : SUBSET Pool, good : SUBSET Pool] /\ next \in {"end", "next"}
      /\ 0 \in 0..servers
  BY Typed, DnsAssumption DEF Types
<1> HIDE DEF todo, next
<1>6. /\ F.pc = next /\ F.at = 0
      /\ F.waiters = flight[f].waiters /\ F.host = flight[f].host
      /\ F.cancelled = flight[f].cancelled
  BY Typed DEF LookupRec
<1>7. F \in LookupRec
  <2>1. flight[f] \in LookupRec /\ Nothing \in Ends
    BY Typed DEF DnsInv
  <2> HIDE DEF DnsInv
  <2> QED
    BY <2>1, <1>5 DEF LookupRec, Phases
<1>8. Judgement(server[s], flight[f].sgen, H)
  BY <1>3, Typed, Judged
<1> HIDE DEF F, H
<1>9. /\ flight'[f] = F /\ \A g \in Lookups : g # f => flight'[g] = flight[g]
      /\ server'[s] = H /\ \A r \in Pool : r # s => server'[r] = server[r]
  BY <1>4 DEF Types
<1>10. Pool' = Pool /\ LookupRec' = LookupRec
  BY DEF Pool, LookupRec
<1>11. Types'
  BY <1>2, <1>4, <1>7, <1>8, <1>10 DEF Types, Judgement
<1>12. AskingInv'
  <2>1. \A r \in Pool : /\ server'[r].gen \in Nat /\ server[r].gen <= server'[r].gen
                        /\ udp'[r].gen \in Nat /\ udp[r].gen <= udp'[r].gen
    BY <1>2, <1>8, <1>9, Typed DEF Judgement
  <2>2. F.at = 0 /\ F.pc \notin Asks4 /\ F.pc # "udp"
    BY <1>5, <1>6, PhasesApart
  <2> QED
    BY <1>4, <1>7, <2>1, <2>2, AskingMoves
<1>13. ServerInv'
  <2>1. \A g \in Lookups, r \in Pool : g # f /\ r # s => (Counts(g, r)' <=> Counts(g, r))
    BY <1>9 DEF Counts
  <2>2. /\ \A r \in Pool : ~Counts(f, r)'
        /\ \A r \in Pool : r # s => ~Counts(f, r)
        /\ Counts(f, s) <=> flight[f].sgen = server[s].gen
    <3>1. \A r \in Pool : r # 0
      BY Typed
    <3> QED
      BY <1>1, <1>6, <1>9, <3>1 DEF Counts
  <2>3. H.gen = server[s].gen =>
          \A g \in Lookups : g # f => (Counts(g, s)' <=> Counts(g, s))
    BY <1>9 DEF Counts
  <2>4. H.gen = server[s].gen + 1 => \A g \in Lookups : ~Counts(g, s)'
    <3>1. ASSUME NEW g \in Lookups, g # f, flight[g].at = s
          PROVE  /\ flight[g].sgen \in Nat /\ flight[g].sgen <= server[s].gen
                 /\ server[s].gen \in Nat
      BY <3>1, Typed DEF AskingInv
    <3> QED
      BY <1>9, <2>2, <3>1 DEF Counts
  <2>5. ASSUME NEW r \in Pool
        PROVE  /\ server'[r].probe => server'[r].retry = "due"
               /\ server'[r].retry # "none" =>
                    /\ server'[r].probe <=> \E g \in Lookups : Counts(g, r)'
                    /\ \A g, i \in Lookups : Counts(g, r)' /\ Counts(i, r)' => g = i
    <3>1. CASE r # s
      BY <1>9, <2>1, <2>2, <3>1 DEF ServerInv
    <3>2. CASE r = s
      <4>1. CASE H.gen = server[s].gen + 1
        <5>1. ~H.probe
          <6>1. CASE H = server[s]
            BY <4>1, <6>1, Typed
          <6> QED
            BY <1>8, <6>1 DEF Judgement
        <5> QED
          BY <1>9, <2>4, <3>2, <4>1, <5>1
      <4>2. CASE H = server[s] /\ server[s].gen # flight[f].sgen
        BY <1>9, <2>2, <2>3, <3>2, <4>2 DEF ServerInv
      <4>3. CASE H.gen = server[s].gen /\ H.retry = server[s].retry /\ ~H.probe
                 /\ server[s].gen = flight[f].sgen
        BY <1>9, <2>2, <2>3, <3>2, <4>3 DEF ServerInv
      <4>4. CASE H.retry = "none"
        <5>1. ~H.probe
          BY <1>8, <4>4 DEF Judgement, ServerInv
        <5> QED
          BY <1>9, <3>2, <4>4, <5>1
      <4> QED
        BY <1>8, <4>1, <4>2, <4>3, <4>4 DEF Judgement
    <3> QED
      BY <3>1, <3>2
  <2> QED
    BY <1>10, <2>5 DEF ServerInv
<1>14. UDPInv'
  BY <1>2, <1>4, <1>5, <1>6, UDPKept
<1>15. WaitInv'
  BY <1>2, <1>4, <1>5, <1>6, PhasesApart, WaitKept
<1> QED
  BY <1>11, <1>12, <1>13, <1>14, <1>15

\* A cooldown ends: what cooled down was not being probed.
LEMMA ExpiresKeeps ==
  ASSUME DnsInv, NEW s \in Pool, Expires(s), servers' = servers
  PROVE  DnsInv'
<1> USE DEF DnsInv
<1>1. /\ \/ /\ server' = [server EXCEPT ![s].retry = "due"] /\ udp' = udp
            /\ server[s].retry = "cooling"
         \/ /\ udp' = [udp EXCEPT ![s].retry = "due"] /\ server' = server
            /\ udp[s].retry = "cooling"
      /\ UNCHANGED <<flight, inflight, caller>>
  BY DEF Expires, Expired, Cooling
<1>2. Pool' = Pool /\ LookupRec' = LookupRec
  BY DEF Pool, LookupRec
<1>3. /\ server' \in [Pool -> Health] /\ udp' \in [Pool -> Health]
      /\ \A r \in Pool :
           /\ server'[r].gen = server[r].gen /\ server'[r].probe = server[r].probe
           /\ \/ server'[r].retry = server[r].retry
              \/ server[r].retry = "cooling" /\ server'[r].retry = "due"
           /\ udp'[r].gen = udp[r].gen /\ udp'[r].probe = udp[r].probe
           /\ \/ udp'[r].retry = udp[r].retry
              \/ udp[r].retry = "cooling" /\ udp'[r].retry = "due"
  <2>1. ASSUME NEW h \in Health
        PROVE  /\ [h EXCEPT !.retry = "due"] \in Health
               /\ [h EXCEPT !.retry = "due"].gen = h.gen
               /\ [h EXCEPT !.retry = "due"].probe = h.probe
               /\ [h EXCEPT !.retry = "due"].retry = "due"
    BY DEF Health
  <2>2. CASE server' = [server EXCEPT ![s].retry = "due"] /\ udp' = udp
             /\ server[s].retry = "cooling"
    BY <2>1, <2>2, Typed DEF Types
  <2>3. CASE udp' = [udp EXCEPT ![s].retry = "due"] /\ server' = server
             /\ udp[s].retry = "cooling"
    BY <2>1, <2>3, Typed DEF Types
  <2> QED
    BY <1>1, <2>2, <2>3
<1>4. Types'
  BY <1>1, <1>2, <1>3 DEF Types
<1>5. AskingInv'
  <2>1. \A f \in Lookups : flight[f].at # 0 => flight[f].at \in Pool
    BY Typed
  <2>2. \A f \in Lookups : flight[f].pc = "udp" => flight[f].at # 0
    BY PhasesApart DEF AskingInv
  <2> QED
    BY <1>1, <1>3, <2>1, <2>2 DEF AskingInv
<1>6. ServerInv' /\ UDPInv'
  <2>1. \A f \in Lookups, r \in Pool : /\ Counts(f, r)' <=> Counts(f, r)
                                       /\ CountsUDP(f, r)' <=> CountsUDP(f, r)
    BY <1>1, <1>3 DEF Counts, CountsUDP
  <2>2. ServerInv'
    BY <1>2, <1>3, <2>1 DEF ServerInv
  <2>3. UDPInv'
    BY <1>2, <1>3, <2>1 DEF UDPInv
  <2> QED
    BY <2>2, <2>3
<1>7. WaitInv'
  BY <1>1 DEF WaitInv
<1> QED
  BY <1>4, <1>5, <1>6, <1>7

-----------------------------------------------------------------------------
(* Callers come, leave and take results *)

\* The result is published and the lookup leaves the table.
LEMMA LookupEndsKeeps ==
  ASSUME DnsInv, NEW f \in Lookups, LookupEnds(f), servers' = servers
  PROVE  DnsInv'
<1> USE DEF DnsInv
<1> DEFINE F == [flight[f] EXCEPT !.pc = "finished", !.host = "none"]
<1>1. /\ flight' = [flight EXCEPT ![f] = F] /\ flight[f].pc = "end"
      /\ inflight' = [h \in Hosts |-> IF inflight[h] = f THEN 0 ELSE inflight[h]]
      /\ UNCHANGED <<server, udp, caller>>
  BY Typed DEF LookupEnds, Types
<1>2. /\ F.pc = "finished" /\ F.at = flight[f].at /\ F.sgen = flight[f].sgen
      /\ F.waiters = flight[f].waiters /\ F.cancelled = flight[f].cancelled
  BY Typed DEF LookupRec
<1>3. F \in LookupRec
  <2>1. flight[f] \in LookupRec
    BY Typed DEF DnsInv
  <2> HIDE DEF DnsInv
  <2> QED
    BY <2>1 DEF LookupRec, Phases
<1> HIDE DEF F
<1>4. /\ flight'[f] = F /\ \A g \in Lookups : g # f => flight'[g] = flight[g]
      /\ "finished" \in Over /\ "finished" \notin Asks4 /\ "end" \notin Over
      /\ "end" \notin Asks4
  BY <1>1 DEF Types, Over, Asks4
<1>5. Pool' = Pool /\ LookupRec' = LookupRec
  BY DEF Pool, LookupRec
<1>6. Types'
  BY <1>1, <1>3, <1>5, DnsAssumption DEF Types
<1>7. AskingInv'
  <2>1. \A r \in Pool : /\ server'[r].gen \in Nat /\ server[r].gen <= server'[r].gen
                        /\ udp'[r].gen \in Nat /\ udp[r].gen <= udp'[r].gen
    BY <1>1, Typed
  <2>2. F.at = 0 /\ F.pc \notin Asks4 /\ F.pc # "udp"
    BY <1>1, <1>2, <1>4 DEF AskingInv
  <2> QED
    BY <1>1, <1>3, <2>1, <2>2, AskingMoves
<1>8. ServerInv' /\ UDPInv'
  BY <1>1, <1>2, ServerKept, UDPKept
<1>9. WaitInv'
  <2>1. PICK n \in 0..Flights : \A g \in Lookups : flight[g].pc # "none" <=> g <= n
    BY DEF WaitInv
  <2>2. \A g \in Lookups : flight'[g].pc # "none" <=> g <= n
    BY <1>1, <1>2, <1>4, <2>1
  <2>3. ASSUME NEW g \in Lookups
        PROVE  /\ flight'[g].pc = "none" => flight'[g].waiters = {}
               /\ flight'[g].waiters = {c \in Callers : caller'[c] = g}
               /\ flight'[g].cancelled => flight'[g].waiters = {}
               /\ flight'[g].pc \notin Over /\ ~flight'[g].cancelled =>
                    flight'[g].host \in Hosts /\ inflight'[flight'[g].host] = g
    <3>1. CASE g = f
      BY <1>1, <1>2, <1>4, <3>1 DEF WaitInv
    <3>2. CASE g # f
      BY <1>1, <1>4, <3>2 DEF WaitInv
    <3> QED
      BY <3>1, <3>2
  <2>4. ASSUME NEW h \in Hosts, inflight'[h] # 0
        PROVE  /\ flight'[inflight'[h]].pc \notin Over
               /\ ~flight'[inflight'[h]].cancelled
               /\ flight'[inflight'[h]].host = h
    <3>1. inflight'[h] = inflight[h] /\ inflight[h] # f /\ inflight[h] \in Lookups
      BY <1>1, <2>4, Typed
    <3> QED
      BY <1>4, <2>4, <3>1 DEF WaitInv
  <2> QED
    BY <2>2, <2>3, <2>4 DEF WaitInv
<1> QED
  BY <1>6, <1>7, <1>8, <1>9

\* The numbers of the lookups that were started are 1 to n.
LEMMA StartedCounted ==
  ASSUME NEW n \in 0..Flights, \A f \in Lookups : flight[f].pc # "none" <=> f <= n
  PROVE  Cardinality({f \in Lookups : flight[f].pc # "none"}) = n
<1>1. {f \in Lookups : flight[f].pc # "none"} = 1..n
  BY DnsAssumption DEF Lookups
<1>2. Cardinality(1..n) = n
  BY FS_Interval
<1> QED
  BY <1>1, <1>2

\* A caller joins the lookup of its name, or starts the next one.
LEMMA AsksKeeps ==
  ASSUME DnsInv, NEW c \in Callers, Asks(c), servers' = servers
  PROVE  DnsInv'
<1> USE DEF DnsInv
<1>1. PICK n \in 0..Flights : \A g \in Lookups : flight[g].pc # "none" <=> g <= n
  BY DEF WaitInv
<1>2. PICK h \in Hosts, f \in Lookups :
        /\ f = IF inflight[h] # 0 THEN inflight[h] ELSE n + 1
        /\ inflight' = [inflight EXCEPT ![h] = f]
        /\ flight' = IF inflight[h] # 0
                     THEN [flight EXCEPT ![f].waiters = @ \cup {c}]
                     ELSE [flight EXCEPT ![f] = [NoFlight EXCEPT
                             !.pc = "begun", !.host = h, !.waiters = {c}]]
        /\ caller' = [caller EXCEPT ![c] = f]
  BY <1>1, StartedCounted DEF Asks
<1>3. caller[c] = 0 /\ UNCHANGED <<server, udp>>
  BY DEF Asks
<1>4. Pool' = Pool /\ LookupRec' = LookupRec
  BY DEF Pool, LookupRec
<1>5. \A r \in Pool : /\ server'[r].gen \in Nat /\ server[r].gen <= server'[r].gen
                      /\ udp'[r].gen \in Nat /\ udp[r].gen <= udp'[r].gen
  BY <1>3, Typed
\* What the lookup becomes: one that c waits for, in the table under its name.
<1>6. PICK F \in LookupRec :
        /\ flight' = [flight EXCEPT ![f] = F]
        /\ F.waiters = flight[f].waiters \cup {c}
        /\ F.pc \notin Over /\ ~F.cancelled /\ F.host = h
        /\ F.at = flight[f].at /\ (F.at # 0 => F.sgen = flight[f].sgen)
        /\ F.at # 0 <=> F.pc \in Asks4
        /\ flight[f].pc = "udp" \/ F.pc = "udp" =>
             F.pc = flight[f].pc /\ F.at = flight[f].at /\ F.ugen = flight[f].ugen
        /\ \A g \in Lookups : g # f =>
             ~(flight[g].host = h /\ flight[g].pc \notin Over /\ ~flight[g].cancelled)
        /\ \E m \in 0..Flights : \A g \in Lookups :
             (IF g = f THEN F.pc ELSE flight[g].pc) # "none" <=> g <= m
  <2>1. CASE inflight[h] # 0
    <3> DEFINE F == [flight[f] EXCEPT !.waiters = flight[f].waiters \cup {c}]
    <3>1. f = inflight[h] /\ flight' = [flight EXCEPT ![f] = F]
      BY <1>2, <2>1, Typed DEF Types
    <3>2. F \in LookupRec
      BY Typed DEF LookupRec
    <3>3. /\ F.waiters = flight[f].waiters \cup {c} /\ F.pc = flight[f].pc
          /\ F.cancelled = flight[f].cancelled /\ F.host = flight[f].host
          /\ F.at = flight[f].at /\ F.sgen = flight[f].sgen /\ F.ugen = flight[f].ugen
      BY Typed DEF LookupRec
    <3> HIDE DEF F
    <3>4. /\ F.pc \notin Over /\ ~F.cancelled /\ F.host = h
          /\ F.at # 0 <=> F.pc \in Asks4
      BY <2>1, <3>1, <3>3 DEF WaitInv, AskingInv
    <3>5. \A g \in Lookups : g # f =>
             ~(flight[g].host = h /\ flight[g].pc \notin Over /\ ~flight[g].cancelled)
      BY <3>1 DEF WaitInv
    <3>6. \A g \in Lookups : (IF g = f THEN F.pc ELSE flight[g].pc) # "none" <=> g <= n
      BY <1>1, <3>3
    <3> QED
      BY <3>1, <3>2, <3>3, <3>4, <3>5, <3>6
  <2>2. CASE inflight[h] = 0
    <3> DEFINE F == [NoFlight EXCEPT !.pc = "begun", !.host = h, !.waiters = {c}]
    <3>1. f = n + 1 /\ flight' = [flight EXCEPT ![f] = F]
      BY <1>2, <2>2
    <3>2. F \in LookupRec /\ F.sgen \in Nat /\ F.ugen \in Nat
      BY Typed, PhasesApart DEF LookupRec, NoFlight
    <3>3. /\ F.waiters = {c} /\ F.pc = "begun" /\ ~F.cancelled /\ F.host = h /\ F.at = 0
      BY DEF NoFlight
    <3> HIDE DEF F
    <3>4. f \in 0..Flights /\ f \in Nat /\ n \in Nat /\ ~(f <= n)
      BY <3>1, Typed
    <3>5. flight[f].pc = "none"
      BY <1>1, <3>4
    <3>6. flight[f].waiters = {} /\ flight[f].at = 0
      BY <3>5 DEF WaitInv, AskingInv, Asks4
    <3>7. \A g \in Lookups : ~(flight[g].host = h /\ flight[g].pc \notin Over
                                 /\ ~flight[g].cancelled)
      BY <2>2, Typed DEF WaitInv
    <3>8. \A g \in Lookups : (IF g = f THEN F.pc ELSE flight[g].pc) # "none" <=> g <= f
      <4>1. \A g \in Lookups : g # f => (g <= n <=> g <= f)
        BY <3>1, <3>4, Typed
      <4> QED
        BY <1>1, <3>3, <3>4, <4>1
    <3> QED
      BY <3>1, <3>2, <3>3, <3>4, <3>5, <3>6, <3>7, <3>8, PhasesApart
  <2> QED
    BY <2>1, <2>2
<1>7. /\ flight'[f] = F /\ \A g \in Lookups : g # f => flight'[g] = flight[g]
      /\ inflight'[h] = f /\ \A i \in Hosts : i # h => inflight'[i] = inflight[i]
      /\ caller'[c] = f /\ \A d \in Callers : d # c => caller'[d] = caller[d]
      /\ f \in 0..Flights
  BY <1>2, <1>6, Typed DEF Types
<1>8. Types'
  <2>1. flight' \in [Lookups -> LookupRec]
    BY <1>6 DEF Types
  <2>2. /\ inflight' = [inflight EXCEPT ![h] = f] /\ caller' = [caller EXCEPT ![c] = f]
        /\ f \in 0..Flights
    BY <1>2, <1>7
  <2>3. inflight' \in [Hosts -> 0..Flights] /\ caller' \in [Callers -> 0..Flights]
    BY <2>2 DEF Types
  <2> QED
    BY <1>3, <1>4, <2>1, <2>3 DEF Types
<1>9. AskingInv'
  <2>1. F.at # 0 => F.sgen <= server'[F.at].gen
    BY <1>3, <1>6 DEF AskingInv
  <2>2. F.pc = "udp" => F.ugen <= udp'[F.at].gen
    BY <1>3, <1>6 DEF AskingInv
  <2> QED
    BY <1>5, <1>6, <2>1, <2>2, AskingMoves
<1>10. ServerInv' /\ UDPInv'
  BY <1>3, <1>6, ServerKept, UDPKept
<1>11. WaitInv'
  <2>1. \E m \in 0..Flights : \A g \in Lookups : flight'[g].pc # "none" <=> g <= m
    BY <1>6, <1>7
  <2>2. ASSUME NEW g \in Lookups
        PROVE  /\ flight'[g].pc = "none" => flight'[g].waiters = {}
               /\ flight'[g].waiters = {d \in Callers : caller'[d] = g}
               /\ flight'[g].cancelled => flight'[g].waiters = {}
               /\ flight'[g].pc \notin Over /\ ~flight'[g].cancelled =>
                    flight'[g].host \in Hosts /\ inflight'[flight'[g].host] = g
    <3>1. CASE g = f
      <4>1. flight[f].waiters = {d \in Callers : caller[d] = f}
        BY DEF WaitInv
      <4>2. F.waiters = {d \in Callers : caller'[d] = f}
        BY <1>6, <1>7, <4>1
      <4>3. F.pc # "none"
        BY <1>6 DEF Over
      <4> QED
        BY <1>6, <1>7, <3>1, <4>2, <4>3
    <3>2. CASE g # f
      <4>1. flight[g].waiters = {d \in Callers : caller[d] = g}
        BY DEF WaitInv
      <4>2. flight[g].waiters = {d \in Callers : caller'[d] = g}
        BY <1>3, <1>7, <3>2, <4>1, Typed
      <4>3. flight[g].pc \notin Over /\ ~flight[g].cancelled =>
              flight[g].host \in Hosts /\ flight[g].host # h /\ inflight[flight[g].host] = g
        BY <1>6, <3>2 DEF WaitInv
      <4> QED
        BY <1>7, <3>2, <4>2, <4>3 DEF WaitInv
    <3> QED
      BY <3>1, <3>2
  <2>3. ASSUME NEW i \in Hosts, inflight'[i] # 0
        PROVE  /\ flight'[inflight'[i]].pc \notin Over
               /\ ~flight'[inflight'[i]].cancelled
               /\ flight'[inflight'[i]].host = i
    <3>1. CASE i = h
      BY <1>6, <1>7, <3>1
    <3>2. CASE i # h
      <4>1. inflight[i] # 0 /\ inflight[i] \in Lookups /\ inflight'[i] = inflight[i]
        BY <1>7, <2>3, <3>2, Typed
      <4>2. /\ flight[inflight[i]].pc \notin Over /\ ~flight[inflight[i]].cancelled
            /\ flight[inflight[i]].host = i
        BY <4>1 DEF WaitInv
      <4>3. inflight[i] # f
        <5>1. CASE inflight[h] # 0
          BY <1>2, <3>2, <4>2, <5>1 DEF WaitInv
        <5>2. CASE inflight[h] = 0
          <6>1. flight[f].pc = "none"
            BY <1>1, <1>2, <5>2, Typed
          <6> QED
            BY <4>2, <6>1 DEF Over
        <5> QED
          BY <5>1, <5>2
      <4> QED
        BY <1>7, <4>1, <4>2, <4>3
    <3> QED
      BY <3>1, <3>2
  <2> QED
    BY <2>1, <2>2, <2>3 DEF WaitInv
<1> QED
  BY <1>8, <1>9, <1>10, <1>11

\* A caller leaves; the last one cancels its lookup unless it is finished.
LEMMA LeavesKeeps ==
  ASSUME DnsInv, NEW c \in Callers, GivesUp(c) \/ Gets(c), servers' = servers
  PROVE  DnsInv'
<1> USE DEF DnsInv
<1>1. PICK f \in Lookups :
        /\ f = caller[c] /\ Left(c, f) /\ caller' = [caller EXCEPT ![c] = 0]
        /\ UNCHANGED <<server, udp>>
  BY Typed DEF GivesUp, Gets
<1> DEFINE last == flight[f].waiters = {c} /\ flight[f].pc # "finished"
           F == [flight[f] EXCEPT !.waiters = flight[f].waiters \ {c},
                                  !.cancelled = flight[f].cancelled \/ last]
<1>2. /\ flight' = [flight EXCEPT ![f] = F]
      /\ inflight' = [h \in Hosts |-> IF last /\ inflight[h] = f THEN 0 ELSE inflight[h]]
  BY <1>1, Typed DEF Left, Types
<1>3. last \in BOOLEAN
  OBVIOUS
<1> HIDE DEF last
<1>4. /\ F.waiters = flight[f].waiters \ {c}
      /\ F.cancelled = (flight[f].cancelled \/ last)
      /\ F.pc = flight[f].pc /\ F.host = flight[f].host
      /\ F.at = flight[f].at /\ F.sgen = flight[f].sgen /\ F.ugen = flight[f].ugen
  BY Typed DEF LookupRec
<1>5. F \in LookupRec
  <2>1. flight[f] \in LookupRec
    BY Typed DEF DnsInv
  <2> HIDE DEF DnsInv
  <2> QED
    BY <2>1, <1>3 DEF LookupRec
<1> HIDE DEF F
<1>6. /\ flight'[f] = F /\ \A g \in Lookups : g # f => flight'[g] = flight[g]
      /\ caller'[c] = 0 /\ \A d \in Callers : d # c => caller'[d] = caller[d]
  BY <1>1, <1>2 DEF Types
<1>7. Pool' = Pool /\ LookupRec' = LookupRec
  BY DEF Pool, LookupRec
<1>8. Types'
  BY <1>1, <1>2, <1>5, <1>7, DnsAssumption DEF Types
<1>9. AskingInv'
  <2>1. \A r \in Pool : /\ server'[r].gen \in Nat /\ server[r].gen <= server'[r].gen
                        /\ udp'[r].gen \in Nat /\ udp[r].gen <= udp'[r].gen
    BY <1>1, Typed
  <2>2. /\ F.at # 0 <=> F.pc \in Asks4
        /\ F.at # 0 => F.sgen <= server'[F.at].gen
        /\ F.pc = "udp" => F.ugen <= udp'[F.at].gen
    BY <1>1, <1>4 DEF AskingInv
  <2> QED
    BY <1>2, <1>5, <2>1, <2>2, AskingMoves
<1>10. ServerInv' /\ UDPInv'
  BY <1>1, <1>2, <1>4, ServerKept, UDPKept
<1>11. WaitInv'
  <2>0. c \in flight[f].waiters /\ ~flight[f].cancelled
    BY <1>1 DEF WaitInv
  <2>1. PICK n \in 0..Flights : \A g \in Lookups : flight[g].pc # "none" <=> g <= n
    BY DEF WaitInv
  <2>2. \A g \in Lookups : flight'[g].pc # "none" <=> g <= n
    BY <1>4, <1>6, <2>1
  <2>3. ASSUME NEW g \in Lookups
        PROVE  /\ flight'[g].pc = "none" => flight'[g].waiters = {}
               /\ flight'[g].waiters = {d \in Callers : caller'[d] = g}
               /\ flight'[g].cancelled => flight'[g].waiters = {}
               /\ flight'[g].pc \notin Over /\ ~flight'[g].cancelled =>
                    flight'[g].host \in Hosts /\ inflight'[flight'[g].host] = g
    <3>0. g # 0
      BY Typed
    <3>1. CASE g = f
      <4>1. F.waiters = {d \in Callers : caller'[d] = f}
        BY <1>1, <1>4, <1>6, <3>0, <3>1 DEF WaitInv
      <4>2. F.cancelled => F.waiters = {}
        BY <1>4, <2>0 DEF last
      <4>3. F.pc = "none" => F.waiters = {}
        BY <1>4 DEF WaitInv
      <4>4. F.pc \notin Over /\ ~F.cancelled =>
              F.host \in Hosts /\ inflight'[F.host] = f
        BY <1>2, <1>4 DEF WaitInv
      <4> QED
        BY <1>6, <3>1, <4>1, <4>2, <4>3, <4>4
    <3>2. CASE g # f
      <4>1. flight[g].waiters = {d \in Callers : caller'[d] = g}
        BY <1>1, <1>6, <3>0, <3>2 DEF WaitInv
      <4> QED
        BY <1>2, <1>6, <3>2, <4>1 DEF WaitInv
    <3> QED
      BY <3>1, <3>2
  <2>4. ASSUME NEW h \in Hosts, inflight'[h] # 0
        PROVE  /\ flight'[inflight'[h]].pc \notin Over
               /\ ~flight'[inflight'[h]].cancelled
               /\ flight'[inflight'[h]].host = h
    <3>1. /\ inflight'[h] = inflight[h] /\ inflight[h] # 0
          /\ ~(last /\ inflight[h] = f) /\ inflight[h] \in Lookups
      BY <1>2, <2>4, Typed
    <3>2. /\ flight[inflight[h]].pc \notin Over /\ ~flight[inflight[h]].cancelled
          /\ flight[inflight[h]].host = h
      BY <3>1 DEF WaitInv
    <3>3. CASE inflight[h] = f
      BY <1>4, <1>6, <3>1, <3>2, <3>3
    <3>4. CASE inflight[h] # f
      BY <1>6, <3>1, <3>2, <3>4
    <3> QED
      BY <3>3, <3>4
  <2> QED
    BY <2>2, <2>3, <2>4 DEF WaitInv
<1> QED
  BY <1>8, <1>9, <1>10, <1>11

-----------------------------------------------------------------------------
(* The invariant holds in every state *)

\* Every step of Next keeps the invariant.
LEMMA DnsStep == DnsInv /\ [Next]_vars => DnsInv'
<1> SUFFICES ASSUME DnsInv, [Next]_vars PROVE DnsInv'
  OBVIOUS
<1>1. CASE UNCHANGED vars
  <2>1. Pool' = Pool /\ LookupRec' = LookupRec
    BY <1>1 DEF vars, Pool, LookupRec
  <2>2. \A f, s : /\ Counts(f, s)' <=> Counts(f, s)
                  /\ CountsUDP(f, s)' <=> CountsUDP(f, s)
    BY <1>1 DEF vars, Counts, CountsUDP
  <2>3. ServerInv' /\ UDPInv'
    BY <1>1, <2>1, <2>2 DEF vars, DnsInv, ServerInv, UDPInv
  <2> QED
    BY <1>1, <2>1, <2>3 DEF vars, DnsInv, Types, AskingInv, WaitInv
<1>2. ASSUME NEW s \in Pool, Expires(s), servers' = servers
      PROVE  DnsInv'
  BY <1>2, ExpiresKeeps
<1>3. ASSUME NEW f \in Lookups, Runs(f), servers' = servers
      PROVE  DnsInv'
  BY <1>3, PoolStartsKeeps, PoolEndsKeeps, BeginServerKeeps, BeginUDPKeeps,
     UDPEndsKeeps, TCPEndsKeeps, ServerAskedKeeps, LookupEndsKeeps DEF Runs
<1>4. ASSUME NEW c \in Callers, Asks(c) \/ GivesUp(c) \/ Gets(c), servers' = servers
      PROVE  DnsInv'
  BY <1>4, AsksKeeps, LeavesKeeps
<1> QED
  BY <1>1, <1>2, <1>3, <1>4 DEF Next, Step

\* In every state: the types, generations that no lookup is ahead of, marks of
\* probes that belong to just one lookup, and a table of the lookups that run
\* for somebody.
THEOREM DnsInvariant == Spec => []DnsInv
<1> QED
  BY DnsInit, DnsStep, PTL DEF Spec

\* A server, or its UDP, that failed is tried by one lookup at a time, and the
\* mark that keeps the others away belongs to a lookup that is under way.
THEOREM ProbesAreOwned == Spec => []ProbeOwned
<1>1. DnsInv => ProbeOwned
  <2> SUFFICES ASSUME DnsInv PROVE ProbeOwned
    OBVIOUS
  <2> USE DEF DnsInv
  <2>1. TypeOK
    BY Typed DEF TypeOK, Types, Phases, Ends
  <2>2. ASSUME NEW S, NEW probe \in BOOLEAN, probe <=> \E f : f \in S,
               \A f, g : f \in S /\ g \in S => f = g
        PROVE  Cardinality(S) = IF probe THEN 1 ELSE 0
    <3>1. CASE probe
      <4>1. PICK f : S = {f}
        BY <2>2, <3>1
      <4> QED
        BY <3>1, <4>1, FS_Singleton
    <3>2. CASE ~probe
      <4>1. S = {}
        BY <2>2, <3>2
      <4> QED
        BY <3>2, <4>1, FS_EmptySet
    <3> QED
      BY <3>1, <3>2
  <2>3. ASSUME NEW s \in Pool
        PROVE  OneProbe(server[s], Asking(s)) /\ OneProbe(udp[s], ByUDP(s))
    <3>1. /\ \A f : f \in Asking(s) <=> f \in Lookups /\ Counts(f, s)
          /\ \A f : f \in ByUDP(s) <=> f \in Lookups /\ CountsUDP(f, s)
      BY DEF Asking, ByUDP, Counts, CountsUDP
    <3>2. server[s].probe \in BOOLEAN /\ udp[s].probe \in BOOLEAN
      BY Typed
    <3>3. ASSUME server[s].retry # "none"
          PROVE  Cardinality(Asking(s)) = IF server[s].probe THEN 1 ELSE 0
      <4>1. /\ server[s].probe <=> \E f : f \in Asking(s)
            /\ \A f, g : f \in Asking(s) /\ g \in Asking(s) => f = g
        BY <3>1, <3>3 DEF ServerInv
      <4> QED
        BY <2>2, <3>2, <4>1
    <3>4. ASSUME udp[s].retry # "none"
          PROVE  Cardinality(ByUDP(s)) = IF udp[s].probe THEN 1 ELSE 0
      <4>1. /\ udp[s].probe <=> \E f : f \in ByUDP(s)
            /\ \A f, g : f \in ByUDP(s) /\ g \in ByUDP(s) => f = g
        BY <3>1, <3>4 DEF UDPInv
      <4> QED
        BY <2>2, <3>2, <4>1
    <3> QED
      BY <3>3, <3>4 DEF OneProbe, ServerInv, UDPInv
  <2> QED
    BY <2>1, <2>3 DEF ProbeOwned
<1> QED
  BY <1>1, DnsInvariant, PTL

\* A caller waits for a lookup that runs for it and was not given up, and a name
\* has one such lookup.
THEOREM NoWaiterIsCut == Spec => []NoWaiterCut
<1>1. DnsInv => NoWaiterCut
  <2> SUFFICES ASSUME DnsInv PROVE NoWaiterCut
    OBVIOUS
  <2> USE DEF DnsInv
  <2>1. ASSUME NEW c \in Callers, caller[c] # 0
        PROVE  c \in flight[caller[c]].waiters /\ ~flight[caller[c]].cancelled
    BY <2>1, Typed DEF WaitInv
  <2>2. ASSUME NEW f \in Lookups, flight[f].pc \notin {"none", "finished"},
               ~flight[f].cancelled
        PROVE  inflight[flight[f].host] = f
    BY <2>2 DEF WaitInv, Over
  <2> QED
    BY <2>1, <2>2 DEF NoWaiterCut
<1> QED
  BY <1>1, DnsInvariant, PTL

\* While a server or its UDP cools down no failure counts, and only a reply of
\* the server ends its cooldown before its time.
THEOREM CooldownIsKept == Spec => CooldownStands
<1> DEFINE Stands == \A s \in Pool :
       /\ server[s].retry = "cooling" =>
            \/ server'[s] = server[s] \/ server'[s] = [server[s] EXCEPT !.retry = "due"]
            \/ \E f \in Lookups : flight[f].at = s /\ flight[f].attempt.reply
                                    /\ server'[s].failures = 0
       /\ udp[s].retry = "cooling" =>
            \/ udp'[s] = udp[s] \/ udp'[s] = [udp[s] EXCEPT !.retry = "due"]
<1>1. DnsInv /\ [Next]_vars => Stands
  <2> SUFFICES ASSUME DnsInv, [Next]_vars, NEW s \in Pool
               PROVE  /\ server[s].retry = "cooling" =>
                           \/ server'[s] = server[s]
                           \/ server'[s] = [server[s] EXCEPT !.retry = "due"]
                           \/ \E f \in Lookups :
                                flight[f].at = s /\ flight[f].attempt.reply
                                  /\ server'[s].failures = 0
                      /\ udp[s].retry = "cooling" =>
                           \/ udp'[s] = udp[s]
                           \/ udp'[s] = [udp[s] EXCEPT !.retry = "due"]
    OBVIOUS
  <2> USE DEF DnsInv
  <2>1. CASE UNCHANGED <<server, udp>>
    BY <2>1
  <2>2. ASSUME NEW r \in Pool, Expires(r)
        PROVE  /\ server'[s] \in {server[s], [server[s] EXCEPT !.retry = "due"]}
               /\ udp'[s] \in {udp[s], [udp[s] EXCEPT !.retry = "due"]}
    BY <2>2 DEF Expires, Expired, Types
  <2>3. ASSUME NEW f \in Lookups, BeginServer(f)
        PROVE  udp' = udp /\ (server[s].retry = "cooling" => server'[s] = server[s])
    <3>1. \/ server' = server
          \/ \E r : ~Refuses(server[r]) /\ server' = [server EXCEPT ![r] = Begun(@)]
      BY <2>3 DEF BeginServer
    <3> QED
      BY <2>3, <3>1 DEF BeginServer, Refuses, Types
  <2>4. ASSUME NEW f \in Lookups, BeginUDP(f)
        PROVE  server' = server /\ (udp[s].retry = "cooling" => udp'[s] = udp[s])
    <3>1. \/ udp' = udp
          \/ \E r : ~Refuses(udp[r]) /\ udp' = [udp EXCEPT ![r] = Begun(@)]
      BY <2>4 DEF BeginUDP
    <3> QED
      BY <2>4, <3>1 DEF BeginUDP, Refuses, Types
  <2>5. ASSUME NEW f \in Lookups, UDPEnds(f)
        PROVE  server' = server /\ (udp[s].retry = "cooling" => udp'[s] = udp[s])
    <3>1. PICK a \in Attempts :
            udp' = [udp EXCEPT ![flight[f].at] =
              FinishUDP(@, flight[f].ugen, a.reply, flight[f].cancelled \/ ~a.started)]
      BY <2>5 DEF UDPEnds
    <3>2. CASE flight[f].at # s
      BY <2>5, <3>1, <3>2 DEF UDPEnds, Types
    <3>3. CASE flight[f].at = s
      <4>1. udp[s].retry = "cooling" => ~CountsUDP(f, s)
        BY DEF UDPInv
      <4>2. udp[s].retry = "cooling" => udp[s].gen # flight[f].ugen
        BY <2>5, <3>3, <4>1 DEF CountsUDP, UDPEnds
      <4> QED
        BY <2>5, <3>1, <3>3, <4>2 DEF UDPEnds, FinishUDP, Types
    <3> QED
      BY <3>2, <3>3
  <2>6. ASSUME NEW f \in Lookups, ServerAsked(f)
        PROVE  /\ udp' = udp
               /\ server[s].retry = "cooling" =>
                    \/ server'[s] = server[s]
                    \/ flight[f].at = s /\ flight[f].attempt.reply /\ server'[s].failures = 0
    <3>1. server' = [server EXCEPT ![flight[f].at] =
            FinishServer(@, flight[f].sgen, flight[f].attempt.reply,
                         flight[f].cancelled \/ ~flight[f].attempt.started)]
      BY <2>6 DEF ServerAsked
    <3>2. CASE flight[f].at # s
      BY <2>6, <3>1, <3>2 DEF ServerAsked, Types
    <3>3. CASE flight[f].at = s
      <4>1. server[s].retry = "cooling" => server[s].gen # flight[f].sgen
        BY <3>3 DEF ServerInv, Counts
      <4>2. \A g : [Healthy EXCEPT !.gen = g].failures = 0
        BY DEF Healthy
      <4> QED
        BY <2>6, <3>1, <3>3, <4>1, <4>2 DEF ServerAsked, FinishServer, Types
    <3> QED
      BY <3>2, <3>3
  <2>7. ASSUME NEW f \in Lookups,
               PoolStarts(f) \/ PoolEnds(f) \/ TCPEnds(f) \/ LookupEnds(f)
        PROVE  UNCHANGED <<server, udp>>
    BY <2>7 DEF PoolStarts, PoolEnds, TCPEnds, LookupEnds
  <2>8. ASSUME NEW c \in Callers, Asks(c) \/ GivesUp(c) \/ Gets(c)
        PROVE  UNCHANGED <<server, udp>>
    BY <2>8 DEF Asks, GivesUp, Gets
  <2>9. CASE UNCHANGED vars
    BY <2>9 DEF vars
  <2> QED
    BY <2>1, <2>2, <2>3, <2>4, <2>5, <2>6, <2>7, <2>8, <2>9 DEF Next, Step, Runs
<1> QED
  BY <1>1, DnsInvariant, PTL DEF Spec, CooldownStands

=============================================================================
