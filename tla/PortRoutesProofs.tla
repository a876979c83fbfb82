--------------------------- MODULE PortRoutesProofs ---------------------------
(***************************************************************************)
(* The safety properties of PortRoutes for any set of flows and any range   *)
(* of ports.                                                                *)
(***************************************************************************)
EXTENDS PortRoutes, WellFoundedInduction, TLAPS

\* Control points at which a TCP or UDP flow has a route of its own.
Routing == {"authorize", "bind", "dial", "open", "later", "linger", "quiet",
            "release", "unroute"}
Routed(f) == at[f] \in Routing /\ kind[f] \in {"tcp", "udp"}

\* What a flow is doing goes with what it is.
FlowKinds ==
  \A f \in Flows :
    /\ at[f] \notin {"idle", "over"} =>
         port[f] \in Ports /\ kind[f] \in {"tcp", "udp", "echo"}
    /\ kind[f] = "echo" => at[f] \in {"idle", "open", "unregister", "over"}
    /\ at[f] \in {"later", "linger", "quiet"} => kind[f] = "tcp"
    /\ f \in queue => at[f] # "idle"

\* A dead tunnel comes first, then the stack's end, then the endpoint's.
TeardownOrder ==
  /\ destroyed => ~alive
  /\ closed => destroyed /\ routes = <<>> /\ doomed \subseteq Ports
  /\ ~closed => doomed = Nobody

\* A registered port is its flow's, and says how far that flow is.
PortsOfFlows ==
  \A p \in DOMAIN conns :
    /\ conns[p] \in Flows /\ port[conns[p]] = p /\ at[conns[p]] # "idle"
    /\ at[conns[p]] = "over" =>
         ~alive /\ kind[conns[p]] # "echo" /\ (~closed => p \in DOMAIN routes)
    /\ closed /\ (Routed(conns[p]) \/ at[conns[p]] = "over") => p \in doomed

\* Until the endpoint is closed a flow has its port and its route.
Holding(f) ==
  \/ at[f] \in {"reserved", "unregister"}
  \/ at[f] = "open" /\ kind[f] = "echo"
  \/ Routed(f) /\ ~closed

FlowsHold ==
  \A f \in Flows :
    /\ Holding(f) => port[f] \in DOMAIN conns /\ conns[port[f]] = f
    /\ Routed(f) /\ ~closed => port[f] \in DOMAIN routes

\* A route is that of the flow that registered its port, under that flow's token.
RoutesOfFlows ==
  \A p \in DOMAIN routes :
    /\ p \in DOMAIN conns
    /\ Routed(conns[p]) \/ (at[conns[p]] = "over" /\ ~alive)
    /\ routes[p].token \in {conns[p], Pending}

\* What destroy has still to unregister belongs to flows that no longer will.
DoomedOfFlows ==
  closed => \A p \in doomed :
    /\ p \in DOMAIN conns /\ kind[conns[p]] # "echo"
    /\ Routed(conns[p]) \/ at[conns[p]] = "over"

\* While the tunnel lives, a flow with a packet in the FIFO has its route.
QueuedRouted ==
  alive => \A f \in queue : kind[f] = "tcp" =>
             at[f] \in {"dial", "open", "later", "linger", "quiet"}

SentByOwner ==
  /\ sending # Nobody => sending.flow \in Flows /\ at[sending.flow] # "idle"
  /\ OwnToken

PortsInv == /\ TypeOK /\ FlowKinds /\ TeardownOrder /\ PortsOfFlows /\ FlowsHold
            /\ RoutesOfFlows /\ DoomedOfFlows /\ QueuedRouted /\ SentByOwner

-----------------------------------------------------------------------------
\* ReserveConn finds a port whenever one is free: the distances from portNext
\* are natural numbers, and some free port is nearest.
LEMMA NextFreeIsFree ==
  ASSUME TypeOK, FreePorts # {}
  PROVE  NextFree \in FreePorts /\ NextFree \in Ports /\ NextFree \notin DOMAIN conns
         /\ After(NextFree) \in Ports
<1> DEFINE Distances == {Ahead(q) : q \in FreePorts}
<1>1. \A q \in FreePorts : Ahead(q) \in Nat
  BY PortAssumption DEF Ahead, FreePorts, Ports, TypeOK
<1>2. Distances \subseteq Nat /\ Distances # {}
  BY <1>1
<1>3. PICK d \in Distances : \A e \in Distances : ~ (<<e, d>> \in OpToRel(<, Nat))
  BY <1>2, NatLessThanWellFounded, WFMin
<1>4. \A e \in Distances : d <= e
  <2> SUFFICES ASSUME NEW e \in Distances PROVE ~ (e < d)
    BY <1>2
  <2>1. <<e, d>> \in Nat \X Nat
    BY <1>2
  <2> QED
    BY <1>3, <2>1 DEF OpToRel
<1>5. \E p \in FreePorts : \A q \in FreePorts : Ahead(p) <= Ahead(q)
  BY <1>4
<1>6. NextFree \in FreePorts
  BY <1>5 DEF NextFree
<1> HIDE DEF NextFree
<1>7. NextFree \in Ports /\ NextFree \notin DOMAIN conns
  BY <1>6 DEF FreePorts
<1>8. After(NextFree) \in Ports
  BY <1>7, PortAssumption DEF After, Ports
<1> QED
  BY <1>6, <1>7, <1>8

\* Nothing is registered at first.
LEMMA PortsInit == Init => PortsInv
<1> SUFFICES ASSUME Init PROVE PortsInv
  OBVIOUS
<1> USE PortAssumption DEF Init
<1>1. DOMAIN conns = {} /\ DOMAIN routes = {}
  OBVIOUS
<1>2. TypeOK
  <2>1. portNext \in Ports
    BY DEF Ports
  <2>2. at \in [Flows -> {"idle", "reserved", "authorize", "bind", "dial", "open",
                         "later", "linger", "quiet", "release", "unroute", "unregister",
                         "over"}]
    OBVIOUS
  <2> QED
    BY <1>1, <2>1, <2>2 DEF TypeOK
<1>3. FlowKinds /\ TeardownOrder /\ PortsOfFlows /\ FlowsHold
  BY <1>1 DEF FlowKinds, TeardownOrder, PortsOfFlows, FlowsHold, Holding, Routed, Routing
<1>4. RoutesOfFlows /\ DoomedOfFlows /\ QueuedRouted /\ SentByOwner
  BY <1>1 DEF RoutesOfFlows, DoomedOfFlows, QueuedRouted, SentByOwner, OwnToken
<1> QED
  BY <1>2, <1>3, <1>4 DEF PortsInv

\* Reserving, authorising and dialling.
LEMMA DialSteps ==
  ASSUME PortsInv, NEW f \in Flows,
         Reserve(f) \/ AddRoute(f) \/ Authorized(f) \/ BindRoute(f) \/
         Connects(f) \/ ConnectFails(f) \/ DialUDP(f) \/ Queues(f) \/ Close(f)
  PROVE  PortsInv'
<1> USE PortAssumption DEF PortsInv, Go, tunVars, stackVars, flowVars, sendVars
<1>1. CASE Reserve(f)
  <2>1. CASE FreePorts = {}
    <3>0. /\ at' = [at EXCEPT ![f] = "over"] /\ at[f] = "idle"
          /\ kind' \in {[kind EXCEPT ![f] = t] : t \in {"tcp", "udp", "echo"}}
          /\ UNCHANGED <<portNext, conns, port, alive, routes, closed, timers, destroyed,
                         doomed, queue, sending>>
      BY <1>1, <2>1 DEF Reserve
    <3>1. TypeOK'
      BY <3>0 DEF TypeOK, FlowKinds
    <3>2. FlowKinds'
      BY <3>0 DEF FlowKinds, TypeOK
    <3>3. TeardownOrder'
      BY <3>0 DEF TeardownOrder, TypeOK
    <3>4. PortsOfFlows'
      BY <3>0 DEF PortsOfFlows, FlowKinds, TeardownOrder, TypeOK, FlowsHold,
         Routed, Routing, Holding
    <3>5. FlowsHold'
      BY <3>0 DEF FlowsHold, Holding, PortsOfFlows, FlowKinds, TeardownOrder,
         TypeOK, RoutesOfFlows, DoomedOfFlows, Routed, Routing
    <3>6. RoutesOfFlows'
      BY <3>0 DEF RoutesOfFlows, FlowsHold, PortsOfFlows, TypeOK, TeardownOrder,
         Routed, Routing, Holding
    <3>7. DoomedOfFlows'
      BY <3>0 DEF DoomedOfFlows, FlowsHold, PortsOfFlows, TeardownOrder, TypeOK,
         Routed, Routing, Holding
    <3>8. QueuedRouted'
      BY <3>0 DEF QueuedRouted, TeardownOrder, FlowKinds, TypeOK
    <3>9. SentByOwner'
      BY <3>0 DEF SentByOwner, OwnToken, QueuedRouted, FlowKinds, RoutesOfFlows,
         FlowsHold, TypeOK, TeardownOrder, Routed, Routing, Holding
    <3> QED
      BY <3>1, <3>2, <3>3, <3>4, <3>5, <3>6, <3>7, <3>8, <3>9 DEF PortsInv
  <2>2. CASE FreePorts # {}
    <3> DEFINE n == NextFree
    <3>0. /\ n \in Ports /\ n \notin DOMAIN conns /\ After(n) \in Ports
          /\ n \notin DOMAIN routes /\ (closed => n \notin doomed)
      BY <2>2, NextFreeIsFree DEF RoutesOfFlows, DoomedOfFlows
    <3>a. /\ at[f] = "idle" /\ port' = [port EXCEPT ![f] = n]
          /\ portNext' = After(n) /\ conns' = With(conns, n, f)
          /\ kind' \in {[kind EXCEPT ![f] = t] : t \in {"tcp", "udp", "echo"}}
          /\ at' = [at EXCEPT ![f] = IF kind'[f] = "echo" THEN "open" ELSE "reserved"]
          /\ UNCHANGED <<alive, routes, closed, timers, destroyed, doomed, queue, sending>>
      BY <1>1, <2>2 DEF Reserve
    <3> HIDE DEF n
    <3>b. /\ DOMAIN conns' = DOMAIN conns \cup {n} /\ conns'[n] = f
          /\ \A p \in DOMAIN conns : conns'[p] = conns[p] /\ conns[p] # f
      BY <3>0, <3>a DEF PortsOfFlows, With
    <3>c. /\ \A g \in Flows : g # f => at'[g] = at[g] /\ kind'[g] = kind[g] /\ port'[g] = port[g]
          /\ kind'[f] \in {"tcp", "udp", "echo"} /\ port'[f] = n
          /\ at'[f] = IF kind'[f] = "echo" THEN "open" ELSE "reserved"
      BY <3>a DEF TypeOK
    <3>1. TypeOK'
      BY <3>0, <3>a, <3>b, <3>c DEF TypeOK, FlowKinds
    <3>2. FlowKinds'
      BY <3>0, <3>a, <3>b, <3>c DEF FlowKinds, TypeOK
    <3>3. TeardownOrder'
      BY <3>0, <3>a, <3>b, <3>c DEF TeardownOrder, TypeOK
    <3>4. PortsOfFlows'
      BY <3>0, <3>a, <3>b, <3>c DEF PortsOfFlows, FlowKinds, TeardownOrder,
         TypeOK, FlowsHold, Routed, Routing, Holding
    <3>5. FlowsHold'
      BY <3>0, <3>a, <3>b, <3>c DEF FlowsHold, Holding, PortsOfFlows, FlowKinds,
         TeardownOrder, TypeOK, RoutesOfFlows, DoomedOfFlows, Routed, Routing
    <3>6. RoutesOfFlows'
      BY <3>0, <3>a, <3>b, <3>c DEF RoutesOfFlows, FlowsHold, PortsOfFlows,
         TypeOK, TeardownOrder, Routed, Routing, Holding
    <3>7. DoomedOfFlows'
      BY <3>0, <3>a, <3>b, <3>c DEF DoomedOfFlows, FlowsHold, PortsOfFlows,
         TeardownOrder, TypeOK, Routed, Routing, Holding
    <3>8. QueuedRouted'
      BY <3>0, <3>a, <3>b, <3>c DEF QueuedRouted, TeardownOrder, FlowKinds,
         TypeOK
    <3>9. SentByOwner'
      BY <3>0, <3>a, <3>b, <3>c DEF SentByOwner, OwnToken, QueuedRouted,
         FlowKinds, RoutesOfFlows, FlowsHold, TypeOK, TeardownOrder, Routed,
         Routing, Holding
    <3> QED
      BY <3>1, <3>2, <3>3, <3>4, <3>5, <3>6, <3>7, <3>8, <3>9 DEF PortsInv
  <2> QED
    BY <2>1, <2>2
<1>2. CASE AddRoute(f)
  <2>1. CASE closed
    <3>0. /\ at' = [at EXCEPT ![f] = "unregister"] /\ at[f] = "reserved"
          /\ UNCHANGED <<portNext, conns, port, kind, alive, routes, closed, timers,
                         destroyed, doomed, queue, sending>>
      BY <1>2, <2>1 DEF AddRoute
    <3>1. TypeOK'
      BY <2>1, <3>0 DEF TypeOK, FlowKinds
    <3>2. FlowKinds'
      BY <2>1, <3>0 DEF FlowKinds, TypeOK
    <3>3. TeardownOrder'
      BY <2>1, <3>0 DEF TeardownOrder, TypeOK
    <3>4. PortsOfFlows'
      BY <2>1, <3>0 DEF PortsOfFlows, FlowKinds, TeardownOrder, TypeOK,
         FlowsHold, Routed, Routing, Holding
    <3>5. FlowsHold'
      BY <2>1, <3>0 DEF FlowsHold, Holding, PortsOfFlows, FlowKinds,
         TeardownOrder, TypeOK, RoutesOfFlows, DoomedOfFlows, Routed, Routing
    <3>6. RoutesOfFlows'
      BY <2>1, <3>0 DEF RoutesOfFlows, FlowsHold, PortsOfFlows, TypeOK,
         TeardownOrder, Routed, Routing, Holding
    <3>7. DoomedOfFlows'
      BY <2>1, <3>0 DEF DoomedOfFlows, FlowsHold, PortsOfFlows, TeardownOrder,
         TypeOK, Routed, Routing, Holding
    <3>8. QueuedRouted'
      BY <2>1, <3>0 DEF QueuedRouted, TeardownOrder, FlowKinds, TypeOK
    <3>9. SentByOwner'
      BY <2>1, <3>0 DEF SentByOwner, OwnToken, QueuedRouted, FlowKinds,
         RoutesOfFlows, FlowsHold, TypeOK, TeardownOrder, Routed, Routing, Holding
    <3> QED
      BY <3>1, <3>2, <3>3, <3>4, <3>5, <3>6, <3>7, <3>8, <3>9 DEF PortsInv
  <2>2. CASE ~closed
    <3>0. /\ at' = [at EXCEPT ![f] = "authorize"] /\ at[f] = "reserved"
          /\ routes' = With(routes, port[f], Route(Pending, "none"))
          /\ UNCHANGED <<portNext, conns, port, kind, alive, closed, timers,
                         destroyed, doomed, queue, sending>>
      BY <1>2, <2>2 DEF AddRoute
    <3>a. /\ port[f] \in DOMAIN conns /\ conns[port[f]] = f
          /\ port[f] \in Ports /\ kind[f] \in {"tcp", "udp"}
      BY <3>0 DEF FlowsHold, Holding, FlowKinds
    <3>b. /\ DOMAIN routes' = DOMAIN routes \cup {port[f]}
          /\ routes'[port[f]] = [token |-> Pending, due |-> "none"]
          /\ \A q \in DOMAIN routes \ {port[f]} : routes'[q] = routes[q]
      BY <3>0 DEF Route, With
    <3>1. TypeOK'
      BY <2>2, <3>0, <3>a, <3>b DEF TypeOK, FlowKinds
    <3>2. FlowKinds'
      BY <2>2, <3>0, <3>a, <3>b DEF FlowKinds, TypeOK
    <3>3. TeardownOrder'
      BY <2>2, <3>0, <3>a, <3>b DEF TeardownOrder, TypeOK
    <3>4. PortsOfFlows'
      BY <2>2, <3>0, <3>a, <3>b DEF PortsOfFlows, FlowKinds, TeardownOrder,
         TypeOK, FlowsHold, Routed, Routing, Holding
    <3>5. FlowsHold'
      BY <2>2, <3>0, <3>a, <3>b DEF FlowsHold, Holding, PortsOfFlows, FlowKinds,
         TeardownOrder, TypeOK, RoutesOfFlows, DoomedOfFlows, Routed, Routing
    <3>6. RoutesOfFlows'
      BY <2>2, <3>0, <3>a, <3>b DEF RoutesOfFlows, FlowsHold, PortsOfFlows,
         TypeOK, TeardownOrder, Routed, Routing, Holding
    <3>7. DoomedOfFlows'
      BY <2>2, <3>0, <3>a, <3>b DEF DoomedOfFlows, FlowsHold, PortsOfFlows,
         TeardownOrder, TypeOK, Routed, Routing, Holding
    <3>8. QueuedRouted'
      BY <2>2, <3>0, <3>a, <3>b DEF QueuedRouted, TeardownOrder, FlowKinds,
         TypeOK
    <3>9. SentByOwner'
      BY <2>2, <3>0, <3>a, <3>b DEF SentByOwner, OwnToken, QueuedRouted,
         FlowKinds, RoutesOfFlows, FlowsHold, TypeOK, TeardownOrder, Routed,
         Routing, Holding
    <3> QED
      BY <3>1, <3>2, <3>3, <3>4, <3>5, <3>6, <3>7, <3>8, <3>9 DEF PortsInv
  <2> QED
    BY <2>1, <2>2
<1>3. CASE Authorized(f)
  <2>1. TypeOK'
    BY <1>3 DEF Authorized, TypeOK, FlowKinds
  <2>2. FlowKinds'
    BY <1>3 DEF Authorized, FlowKinds, TypeOK
  <2>3. TeardownOrder'
    BY <1>3 DEF Authorized, TeardownOrder, TypeOK
  <2>4. PortsOfFlows'
    BY <1>3 DEF Authorized, PortsOfFlows, FlowKinds, TeardownOrder, TypeOK,
       FlowsHold, Routed, Routing, Holding
  <2>5. FlowsHold'
    BY <1>3 DEF Authorized, FlowsHold, Holding, PortsOfFlows, FlowKinds,
       TeardownOrder, TypeOK, RoutesOfFlows, DoomedOfFlows, Routed, Routing
  <2>6. RoutesOfFlows'
    BY <1>3 DEF Authorized, RoutesOfFlows, FlowsHold, PortsOfFlows, TypeOK,
       TeardownOrder, Routed, Routing, Holding
  <2>7. DoomedOfFlows'
    BY <1>3 DEF Authorized, DoomedOfFlows, FlowsHold, PortsOfFlows,
       TeardownOrder, TypeOK, Routed, Routing, Holding
  <2>8. QueuedRouted'
    BY <1>3 DEF Authorized, QueuedRouted, TeardownOrder, FlowKinds, TypeOK
  <2>9. SentByOwner'
    BY <1>3 DEF Authorized, SentByOwner, OwnToken, QueuedRouted, FlowKinds,
       RoutesOfFlows, FlowsHold, TypeOK, TeardownOrder, Routed, Routing, Holding
  <2> QED
    BY <2>1, <2>2, <2>3, <2>4, <2>5, <2>6, <2>7, <2>8, <2>9 DEF PortsInv
<1>4. CASE BindRoute(f)
  <2>1. TypeOK'
    BY <1>4 DEF BindRoute, Routable, Bind, Route, TypeOK, FlowKinds
  <2>2. FlowKinds'
    BY <1>4 DEF BindRoute, Routable, Bind, Route, FlowKinds, TypeOK
  <2>3. TeardownOrder'
    BY <1>4 DEF BindRoute, Routable, Bind, Route, TeardownOrder, TypeOK
  <2>4. PortsOfFlows'
    BY <1>4 DEF BindRoute, Routable, Bind, Route, PortsOfFlows, FlowKinds,
       TeardownOrder, TypeOK, FlowsHold, Routed, Routing, Holding
  <2>5. FlowsHold'
    BY <1>4 DEF BindRoute, Routable, Bind, Route, FlowsHold, Holding,
       PortsOfFlows, FlowKinds, TeardownOrder, TypeOK, RoutesOfFlows,
       DoomedOfFlows, Routed, Routing
  <2>6. RoutesOfFlows'
    <3>1. /\ DOMAIN routes' = DOMAIN routes
          /\ \A p \in DOMAIN routes :
               routes'[p] = routes[p] \/ (p = port[f] /\ ~closed /\ routes'[p].token = f)
      BY <1>4 DEF BindRoute, Routable, Bind, Route
    <3>2. \A p \in DOMAIN routes : p = port[f] /\ ~closed => conns[p] = f
      BY <1>4 DEF BindRoute, FlowsHold, Holding, Routed, Routing, FlowKinds
    <3>3. \A p \in DOMAIN routes : routes'[p].token \in {conns[p], Pending}
      BY <3>1, <3>2 DEF RoutesOfFlows
    <3>4. \A g \in Flows : Routed(g) => Routed(g)'
      BY <1>4 DEF BindRoute, Routed, Routing, TypeOK
    <3> QED
      BY <1>4, <3>1, <3>3, <3>4 DEF BindRoute, RoutesOfFlows, PortsOfFlows, TypeOK
  <2>7. DoomedOfFlows'
    BY <1>4 DEF BindRoute, Routable, Bind, Route, DoomedOfFlows, FlowsHold,
       PortsOfFlows, TeardownOrder, TypeOK, Routed, Routing, Holding
  <2>8. QueuedRouted'
    BY <1>4 DEF BindRoute, Routable, Bind, Route, QueuedRouted, TeardownOrder,
       FlowKinds, TypeOK
  <2>9. SentByOwner'
    BY <1>4 DEF BindRoute, Routable, Bind, Route, SentByOwner, OwnToken,
       QueuedRouted, FlowKinds, RoutesOfFlows, FlowsHold, TypeOK, TeardownOrder,
       Routed, Routing, Holding
  <2> QED
    BY <2>1, <2>2, <2>3, <2>4, <2>5, <2>6, <2>7, <2>8, <2>9 DEF PortsInv
<1>5. CASE Connects(f)
  <2>1. TypeOK'
    BY <1>5 DEF Connects, Routable, Bind, Route, TypeOK, FlowKinds
  <2>2. FlowKinds'
    BY <1>5 DEF Connects, Routable, Bind, Route, FlowKinds, TypeOK
  <2>3. TeardownOrder'
    BY <1>5 DEF Connects, Routable, Bind, Route, TeardownOrder, TypeOK
  <2>4. PortsOfFlows'
    BY <1>5 DEF Connects, Routable, Bind, Route, PortsOfFlows, FlowKinds,
       TeardownOrder, TypeOK, FlowsHold, Routed, Routing, Holding
  <2>5. FlowsHold'
    BY <1>5 DEF Connects, Routable, Bind, Route, FlowsHold, Holding,
       PortsOfFlows, FlowKinds, TeardownOrder, TypeOK, RoutesOfFlows,
       DoomedOfFlows, Routed, Routing
  <2>6. RoutesOfFlows'
    BY <1>5 DEF Connects, Routable, Bind, Route, RoutesOfFlows, FlowsHold,
       PortsOfFlows, TypeOK, TeardownOrder, Routed, Routing, Holding
  <2>7. DoomedOfFlows'
    BY <1>5 DEF Connects, Routable, Bind, Route, DoomedOfFlows, FlowsHold,
       PortsOfFlows, TeardownOrder, TypeOK, Routed, Routing, Holding
  <2>8. QueuedRouted'
    <3>1. alive => Routable(f)
      BY <1>5 DEF Connects, Routable, FlowsHold, Holding, Routed, Routing, TeardownOrder
    <3> QED
      BY <1>5, <3>1 DEF Connects, QueuedRouted, TypeOK
  <2>9. SentByOwner'
    BY <1>5 DEF Connects, Routable, Bind, Route, SentByOwner, OwnToken,
       QueuedRouted, FlowKinds, RoutesOfFlows, FlowsHold, TypeOK, TeardownOrder,
       Routed, Routing, Holding
  <2> QED
    BY <2>1, <2>2, <2>3, <2>4, <2>5, <2>6, <2>7, <2>8, <2>9 DEF PortsInv
<1>6. CASE ConnectFails(f)
  <2>1. TypeOK'
    BY <1>6 DEF ConnectFails, Routable, Bind, Route, TypeOK, FlowKinds
  <2>2. FlowKinds'
    BY <1>6 DEF ConnectFails, Routable, Bind, Route, FlowKinds, TypeOK
  <2>3. TeardownOrder'
    BY <1>6 DEF ConnectFails, Routable, Bind, Route, TeardownOrder, TypeOK
  <2>4. PortsOfFlows'
    BY <1>6 DEF ConnectFails, Routable, Bind, Route, PortsOfFlows, FlowKinds,
       TeardownOrder, TypeOK, FlowsHold, Routed, Routing, Holding
  <2>5. FlowsHold'
    BY <1>6 DEF ConnectFails, Routable, Bind, Route, FlowsHold, Holding,
       PortsOfFlows, FlowKinds, TeardownOrder, TypeOK, RoutesOfFlows,
       DoomedOfFlows, Routed, Routing
  <2>6. RoutesOfFlows'
    BY <1>6 DEF ConnectFails, Routable, Bind, Route, RoutesOfFlows, FlowsHold,
       PortsOfFlows, TypeOK, TeardownOrder, Routed, Routing, Holding
  <2>7. DoomedOfFlows'
    BY <1>6 DEF ConnectFails, Routable, Bind, Route, DoomedOfFlows, FlowsHold,
       PortsOfFlows, TeardownOrder, TypeOK, Routed, Routing, Holding
  <2>8. QueuedRouted'
    BY <1>6 DEF ConnectFails, Routable, Bind, Route, QueuedRouted,
       TeardownOrder, FlowKinds, TypeOK
  <2>9. SentByOwner'
    BY <1>6 DEF ConnectFails, Routable, Bind, Route, SentByOwner, OwnToken,
       QueuedRouted, FlowKinds, RoutesOfFlows, FlowsHold, TypeOK, TeardownOrder,
       Routed, Routing, Holding
  <2> QED
    BY <2>1, <2>2, <2>3, <2>4, <2>5, <2>6, <2>7, <2>8, <2>9 DEF PortsInv
<1>7. CASE DialUDP(f)
  <2>1. TypeOK'
    BY <1>7 DEF DialUDP, TypeOK, FlowKinds
  <2>2. FlowKinds'
    BY <1>7 DEF DialUDP, FlowKinds, TypeOK
  <2>3. TeardownOrder'
    BY <1>7 DEF DialUDP, TeardownOrder, TypeOK
  <2>4. PortsOfFlows'
    BY <1>7 DEF DialUDP, PortsOfFlows, FlowKinds, TeardownOrder, TypeOK,
       FlowsHold, Routed, Routing, Holding
  <2>5. FlowsHold'
    BY <1>7 DEF DialUDP, FlowsHold, Holding, PortsOfFlows, FlowKinds,
       TeardownOrder, TypeOK, RoutesOfFlows, DoomedOfFlows, Routed, Routing
  <2>6. RoutesOfFlows'
    BY <1>7 DEF DialUDP, RoutesOfFlows, FlowsHold, PortsOfFlows, TypeOK,
       TeardownOrder, Routed, Routing, Holding
  <2>7. DoomedOfFlows'
    BY <1>7 DEF DialUDP, DoomedOfFlows, FlowsHold, PortsOfFlows, TeardownOrder,
       TypeOK, Routed, Routing, Holding
  <2>8. QueuedRouted'
    BY <1>7 DEF DialUDP, QueuedRouted, TeardownOrder, FlowKinds, TypeOK
  <2>9. SentByOwner'
    BY <1>7 DEF DialUDP, SentByOwner, OwnToken, QueuedRouted, FlowKinds,
       RoutesOfFlows, FlowsHold, TypeOK, TeardownOrder, Routed, Routing, Holding
  <2> QED
    BY <2>1, <2>2, <2>3, <2>4, <2>5, <2>6, <2>7, <2>8, <2>9 DEF PortsInv
<1>8. CASE Queues(f)
  <2>1. TypeOK'
    BY <1>8 DEF Queues, TypeOK, FlowKinds
  <2>2. FlowKinds'
    BY <1>8 DEF Queues, FlowKinds, TypeOK
  <2>3. TeardownOrder'
    BY <1>8 DEF Queues, TeardownOrder, TypeOK
  <2>4. PortsOfFlows'
    BY <1>8 DEF Queues, PortsOfFlows, FlowKinds, TeardownOrder, TypeOK,
       FlowsHold, Routed, Routing, Holding
  <2>5. FlowsHold'
    BY <1>8 DEF Queues, FlowsHold, Holding, PortsOfFlows, FlowKinds,
       TeardownOrder, TypeOK, RoutesOfFlows, DoomedOfFlows, Routed, Routing
  <2>6. RoutesOfFlows'
    BY <1>8 DEF Queues, RoutesOfFlows, FlowsHold, PortsOfFlows, TypeOK,
       TeardownOrder, Routed, Routing, Holding
  <2>7. DoomedOfFlows'
    BY <1>8 DEF Queues, DoomedOfFlows, FlowsHold, PortsOfFlows, TeardownOrder,
       TypeOK, Routed, Routing, Holding
  <2>8. QueuedRouted'
    BY <1>8 DEF Queues, QueuedRouted, TeardownOrder, FlowKinds, TypeOK
  <2>9. SentByOwner'
    BY <1>8 DEF Queues, SentByOwner, OwnToken, QueuedRouted, FlowKinds,
       RoutesOfFlows, FlowsHold, TypeOK, TeardownOrder, Routed, Routing, Holding
  <2> QED
    BY <2>1, <2>2, <2>3, <2>4, <2>5, <2>6, <2>7, <2>8, <2>9 DEF PortsInv
<1>9. CASE Close(f)
  <2>1. TypeOK'
    BY <1>9 DEF Close, TypeOK, FlowKinds
  <2>2. FlowKinds'
    BY <1>9 DEF Close, FlowKinds, TypeOK
  <2>3. TeardownOrder'
    BY <1>9 DEF Close, TeardownOrder, TypeOK
  <2>4. PortsOfFlows'
    BY <1>9 DEF Close, PortsOfFlows, FlowKinds, TeardownOrder, TypeOK,
       FlowsHold, Routed, Routing, Holding
  <2>5. FlowsHold'
    BY <1>9 DEF Close, FlowsHold, Holding, PortsOfFlows, FlowKinds,
       TeardownOrder, TypeOK, RoutesOfFlows, DoomedOfFlows, Routed, Routing
  <2>6. RoutesOfFlows'
    BY <1>9 DEF Close, RoutesOfFlows, FlowsHold, PortsOfFlows, TypeOK,
       TeardownOrder, Routed, Routing, Holding
  <2>7. DoomedOfFlows'
    BY <1>9 DEF Close, DoomedOfFlows, FlowsHold, PortsOfFlows, TeardownOrder,
       TypeOK, Routed, Routing, Holding
  <2>8. QueuedRouted'
    BY <1>9 DEF Close, QueuedRouted, TeardownOrder, FlowKinds, TypeOK
  <2>9. SentByOwner'
    BY <1>9 DEF Close, SentByOwner, OwnToken, QueuedRouted, FlowKinds,
       RoutesOfFlows, FlowsHold, TypeOK, TeardownOrder, Routed, Routing, Holding
  <2> QED
    BY <2>1, <2>2, <2>3, <2>4, <2>5, <2>6, <2>7, <2>8, <2>9 DEF PortsInv
<1> QED
  BY <1>1, <1>2, <1>3, <1>4, <1>5, <1>6, <1>7, <1>8, <1>9

\* Giving a port back.
LEMMA ReleaseSteps ==
  ASSUME PortsInv, NEW f \in Flows,
         ReleaseLater(f) \/ EndpointEnds(f) \/ LingerEnds(f) \/ Release(f) \/
         RemoveRoute(f) \/ Unregister(f) \/ Lookup(f)
  PROVE  PortsInv'
<1> USE PortAssumption DEF PortsInv, Go, tunVars, stackVars, flowVars, sendVars
<1>1. CASE ReleaseLater(f)
  <2>1. TypeOK'
    BY <1>1 DEF ReleaseLater, TypeOK, FlowKinds
  <2>2. FlowKinds'
    BY <1>1 DEF ReleaseLater, FlowKinds, TypeOK
  <2>3. TeardownOrder'
    BY <1>1 DEF ReleaseLater, TeardownOrder, TypeOK
  <2>4. PortsOfFlows'
    BY <1>1 DEF ReleaseLater, PortsOfFlows, FlowKinds, TeardownOrder, TypeOK,
       FlowsHold, Routed, Routing, Holding
  <2>5. FlowsHold'
    BY <1>1 DEF ReleaseLater, FlowsHold, Holding, PortsOfFlows, FlowKinds,
       TeardownOrder, TypeOK, RoutesOfFlows, DoomedOfFlows, Routed, Routing
  <2>6. RoutesOfFlows'
    BY <1>1 DEF ReleaseLater, RoutesOfFlows, FlowsHold, PortsOfFlows, TypeOK,
       TeardownOrder, Routed, Routing, Holding
  <2>7. DoomedOfFlows'
    BY <1>1 DEF ReleaseLater, DoomedOfFlows, FlowsHold, PortsOfFlows,
       TeardownOrder, TypeOK, Routed, Routing, Holding
  <2>8. QueuedRouted'
    BY <1>1 DEF ReleaseLater, QueuedRouted, TeardownOrder, FlowKinds, TypeOK
  <2>9. SentByOwner'
    BY <1>1 DEF ReleaseLater, SentByOwner, OwnToken, QueuedRouted, FlowKinds,
       RoutesOfFlows, FlowsHold, TypeOK, TeardownOrder, Routed, Routing, Holding
  <2> QED
    BY <2>1, <2>2, <2>3, <2>4, <2>5, <2>6, <2>7, <2>8, <2>9 DEF PortsInv
<1>2. CASE EndpointEnds(f)
  <2>1. TypeOK'
    BY <1>2 DEF EndpointEnds, TypeOK, FlowKinds
  <2>2. FlowKinds'
    BY <1>2 DEF EndpointEnds, FlowKinds, TypeOK
  <2>3. TeardownOrder'
    BY <1>2 DEF EndpointEnds, TeardownOrder, TypeOK
  <2>4. PortsOfFlows'
    BY <1>2 DEF EndpointEnds, PortsOfFlows, FlowKinds, TeardownOrder, TypeOK,
       FlowsHold, Routed, Routing, Holding
  <2>5. FlowsHold'
    BY <1>2 DEF EndpointEnds, FlowsHold, Holding, PortsOfFlows, FlowKinds,
       TeardownOrder, TypeOK, RoutesOfFlows, DoomedOfFlows, Routed, Routing
  <2>6. RoutesOfFlows'
    BY <1>2 DEF EndpointEnds, RoutesOfFlows, FlowsHold, PortsOfFlows, TypeOK,
       TeardownOrder, Routed, Routing, Holding
  <2>7. DoomedOfFlows'
    BY <1>2 DEF EndpointEnds, DoomedOfFlows, FlowsHold, PortsOfFlows,
       TeardownOrder, TypeOK, Routed, Routing, Holding
  <2>8. QueuedRouted'
    BY <1>2 DEF EndpointEnds, QueuedRouted, TeardownOrder, FlowKinds, TypeOK
  <2>9. SentByOwner'
    BY <1>2 DEF EndpointEnds, SentByOwner, OwnToken, QueuedRouted, FlowKinds,
       RoutesOfFlows, FlowsHold, TypeOK, TeardownOrder, Routed, Routing, Holding
  <2> QED
    BY <2>1, <2>2, <2>3, <2>4, <2>5, <2>6, <2>7, <2>8, <2>9 DEF PortsInv
<1>3. CASE LingerEnds(f)
  <2>1. TypeOK'
    BY <1>3 DEF LingerEnds, TypeOK, FlowKinds
  <2>2. FlowKinds'
    BY <1>3 DEF LingerEnds, FlowKinds, TypeOK
  <2>3. TeardownOrder'
    BY <1>3 DEF LingerEnds, TeardownOrder, TypeOK
  <2>4. PortsOfFlows'
    BY <1>3 DEF LingerEnds, PortsOfFlows, FlowKinds, TeardownOrder, TypeOK,
       FlowsHold, Routed, Routing, Holding
  <2>5. FlowsHold'
    BY <1>3 DEF LingerEnds, FlowsHold, Holding, PortsOfFlows, FlowKinds,
       TeardownOrder, TypeOK, RoutesOfFlows, DoomedOfFlows, Routed, Routing
  <2>6. RoutesOfFlows'
    BY <1>3 DEF LingerEnds, RoutesOfFlows, FlowsHold, PortsOfFlows, TypeOK,
       TeardownOrder, Routed, Routing, Holding
  <2>7. DoomedOfFlows'
    BY <1>3 DEF LingerEnds, DoomedOfFlows, FlowsHold, PortsOfFlows,
       TeardownOrder, TypeOK, Routed, Routing, Holding
  <2>8. QueuedRouted'
    BY <1>3 DEF LingerEnds, QueuedRouted, TeardownOrder, FlowKinds, TypeOK
  <2>9. SentByOwner'
    BY <1>3 DEF LingerEnds, SentByOwner, OwnToken, QueuedRouted, FlowKinds,
       RoutesOfFlows, FlowsHold, TypeOK, TeardownOrder, Routed, Routing, Holding
  <2> QED
    BY <2>1, <2>2, <2>3, <2>4, <2>5, <2>6, <2>7, <2>8, <2>9 DEF PortsInv
<1>4. CASE Release(f)
  <2>1. TypeOK'
    BY <1>4 DEF Release, TypeOK, FlowKinds
  <2>2. FlowKinds'
    BY <1>4 DEF Release, FlowKinds, TypeOK
  <2>3. TeardownOrder'
    BY <1>4 DEF Release, TeardownOrder, TypeOK
  <2>4. PortsOfFlows'
    BY <1>4 DEF Release, PortsOfFlows, FlowKinds, TeardownOrder, TypeOK,
       FlowsHold, Routed, Routing, Holding
  <2>5. FlowsHold'
    BY <1>4 DEF Release, FlowsHold, Holding, PortsOfFlows, FlowKinds,
       TeardownOrder, TypeOK, RoutesOfFlows, DoomedOfFlows, Routed, Routing
  <2>6. RoutesOfFlows'
    BY <1>4 DEF Release, RoutesOfFlows, FlowsHold, PortsOfFlows, TypeOK,
       TeardownOrder, Routed, Routing, Holding
  <2>7. DoomedOfFlows'
    BY <1>4 DEF Release, DoomedOfFlows, FlowsHold, PortsOfFlows, TeardownOrder,
       TypeOK, Routed, Routing, Holding
  <2>8. QueuedRouted'
    BY <1>4 DEF Release, QueuedRouted, TeardownOrder, FlowKinds, TypeOK
  <2>9. SentByOwner'
    BY <1>4 DEF Release, SentByOwner, OwnToken, QueuedRouted, FlowKinds,
       RoutesOfFlows, FlowsHold, TypeOK, TeardownOrder, Routed, Routing, Holding
  <2> QED
    BY <2>1, <2>2, <2>3, <2>4, <2>5, <2>6, <2>7, <2>8, <2>9 DEF PortsInv
<1>5. CASE RemoveRoute(f)
  <2>1. TypeOK'
    BY <1>5 DEF RemoveRoute, Without, TypeOK, FlowKinds
  <2>2. FlowKinds'
    BY <1>5 DEF RemoveRoute, Without, FlowKinds, TypeOK
  <2>3. TeardownOrder'
    BY <1>5 DEF RemoveRoute, Without, TeardownOrder, TypeOK
  <2>4. PortsOfFlows'
    BY <1>5 DEF RemoveRoute, Without, PortsOfFlows, FlowKinds, TeardownOrder,
       TypeOK, FlowsHold, Routed, Routing, Holding
  <2>5. FlowsHold'
    BY <1>5 DEF RemoveRoute, Without, FlowsHold, Holding, PortsOfFlows,
       FlowKinds, TeardownOrder, TypeOK, RoutesOfFlows, DoomedOfFlows, Routed,
       Routing
  <2>6. RoutesOfFlows'
    BY <1>5 DEF RemoveRoute, Without, RoutesOfFlows, FlowsHold, PortsOfFlows,
       TypeOK, TeardownOrder, Routed, Routing, Holding
  <2>7. DoomedOfFlows'
    BY <1>5 DEF RemoveRoute, Without, DoomedOfFlows, FlowsHold, PortsOfFlows,
       TeardownOrder, TypeOK, Routed, Routing, Holding
  <2>8. QueuedRouted'
    BY <1>5 DEF RemoveRoute, Without, QueuedRouted, TeardownOrder, FlowKinds,
       TypeOK
  <2>9. SentByOwner'
    BY <1>5 DEF RemoveRoute, Without, SentByOwner, OwnToken, QueuedRouted,
       FlowKinds, RoutesOfFlows, FlowsHold, TypeOK, TeardownOrder, Routed, Routing,
       Holding
  <2> QED
    BY <2>1, <2>2, <2>3, <2>4, <2>5, <2>6, <2>7, <2>8, <2>9 DEF PortsInv
<1>6. CASE Unregister(f)
  <2>0. /\ at' = [at EXCEPT ![f] = "over"] /\ at[f] = "unregister"
        /\ conns' = Without(conns, port[f]) /\ port[f] \in DOMAIN conns
        /\ conns[port[f]] = f
        /\ UNCHANGED <<portNext, port, kind, alive, routes, closed, timers, destroyed,
                       doomed, queue, sending>>
    BY <1>6 DEF Unregister, FlowsHold, Holding
  <2>a. /\ DOMAIN conns' = DOMAIN conns \ {port[f]}
        /\ \A q \in DOMAIN conns' : conns'[q] = conns[q] /\ conns[q] # f
    BY <2>0 DEF PortsOfFlows, Without
  <2>b. port[f] \notin DOMAIN routes /\ (closed => port[f] \notin doomed)
    BY <2>0 DEF RoutesOfFlows, DoomedOfFlows, Routed, Routing
  <2>1. TypeOK'
    BY <2>0, <2>a, <2>b DEF TypeOK, FlowKinds
  <2>2. FlowKinds'
    BY <2>0, <2>a, <2>b DEF FlowKinds, TypeOK
  <2>3. TeardownOrder'
    BY <2>0, <2>a, <2>b DEF TeardownOrder, TypeOK
  <2>4. PortsOfFlows'
    BY <2>0, <2>a, <2>b DEF PortsOfFlows, FlowKinds, TeardownOrder, TypeOK,
       FlowsHold, Routed, Routing, Holding
  <2>5. FlowsHold'
    BY <2>0, <2>a, <2>b DEF FlowsHold, Holding, PortsOfFlows, FlowKinds,
       TeardownOrder, TypeOK, RoutesOfFlows, DoomedOfFlows, Routed, Routing
  <2>6. RoutesOfFlows'
    BY <2>0, <2>a, <2>b DEF RoutesOfFlows, FlowsHold, PortsOfFlows, TypeOK,
       TeardownOrder, Routed, Routing, Holding
  <2>7. DoomedOfFlows'
    BY <2>0, <2>a, <2>b DEF DoomedOfFlows, FlowsHold, PortsOfFlows,
       TeardownOrder, TypeOK, Routed, Routing, Holding
  <2>8. QueuedRouted'
    BY <2>0, <2>a, <2>b DEF QueuedRouted, TeardownOrder, FlowKinds, TypeOK
  <2>9. SentByOwner'
    BY <2>0, <2>a, <2>b DEF SentByOwner, OwnToken, QueuedRouted, FlowKinds,
       RoutesOfFlows, FlowsHold, TypeOK, TeardownOrder, Routed, Routing, Holding
  <2> QED
    BY <2>1, <2>2, <2>3, <2>4, <2>5, <2>6, <2>7, <2>8, <2>9 DEF PortsInv
<1>7. CASE Lookup(f)
  <2>1. TypeOK'
    BY <1>7 DEF Lookup, TypeOK, FlowKinds
  <2>2. FlowKinds'
    BY <1>7 DEF Lookup, FlowKinds, TypeOK
  <2>3. TeardownOrder'
    BY <1>7 DEF Lookup, TeardownOrder, TypeOK
  <2>4. PortsOfFlows'
    BY <1>7 DEF Lookup, PortsOfFlows, FlowKinds, TeardownOrder, TypeOK,
       FlowsHold, Routed, Routing, Holding
  <2>5. FlowsHold'
    BY <1>7 DEF Lookup, FlowsHold, Holding, PortsOfFlows, FlowKinds,
       TeardownOrder, TypeOK, RoutesOfFlows, DoomedOfFlows, Routed, Routing
  <2>6. RoutesOfFlows'
    BY <1>7 DEF Lookup, RoutesOfFlows, FlowsHold, PortsOfFlows, TypeOK,
       TeardownOrder, Routed, Routing, Holding
  <2>7. DoomedOfFlows'
    BY <1>7 DEF Lookup, DoomedOfFlows, FlowsHold, PortsOfFlows, TeardownOrder,
       TypeOK, Routed, Routing, Holding
  <2>8. QueuedRouted'
    BY <1>7 DEF Lookup, QueuedRouted, TeardownOrder, FlowKinds, TypeOK
  <2>9. SentByOwner'
    BY <1>7 DEF Lookup, SentByOwner, OwnToken, QueuedRouted, FlowKinds,
       RoutesOfFlows, FlowsHold, TypeOK, TeardownOrder, Routed, Routing, Holding
  <2> QED
    BY <2>1, <2>2, <2>3, <2>4, <2>5, <2>6, <2>7, <2>8, <2>9 DEF PortsInv
<1> QED
  BY <1>1, <1>2, <1>3, <1>4, <1>5, <1>6, <1>7

\* The tunnel and the stack end; the writer sends.
LEMMA TeardownSteps ==
  ASSUME PortsInv,
         Dies \/ Destroy \/ CloseRoutes \/ UnregisterDoomed \/ Send \/
         SendDrops
  PROVE  PortsInv'
<1> USE PortAssumption DEF PortsInv, Go, tunVars, stackVars, flowVars, sendVars
<1>1. CASE Dies
  <2>1. TypeOK'
    BY <1>1 DEF Dies, TypeOK, FlowKinds
  <2>2. FlowKinds'
    BY <1>1 DEF Dies, FlowKinds, TypeOK
  <2>3. TeardownOrder'
    BY <1>1 DEF Dies, TeardownOrder, TypeOK
  <2>4. PortsOfFlows'
    BY <1>1 DEF Dies, PortsOfFlows, FlowKinds, TeardownOrder, TypeOK, FlowsHold,
       Routed, Routing, Holding
  <2>5. FlowsHold'
    BY <1>1 DEF Dies, FlowsHold, Holding, PortsOfFlows, FlowKinds,
       TeardownOrder, TypeOK, RoutesOfFlows, DoomedOfFlows, Routed, Routing
  <2>6. RoutesOfFlows'
    BY <1>1 DEF Dies, RoutesOfFlows, FlowsHold, PortsOfFlows, TypeOK,
       TeardownOrder, Routed, Routing, Holding
  <2>7. DoomedOfFlows'
    BY <1>1 DEF Dies, DoomedOfFlows, FlowsHold, PortsOfFlows, TeardownOrder,
       TypeOK, Routed, Routing, Holding
  <2>8. QueuedRouted'
    BY <1>1 DEF Dies, QueuedRouted, TeardownOrder, FlowKinds, TypeOK
  <2>9. SentByOwner'
    BY <1>1 DEF Dies, SentByOwner, OwnToken, QueuedRouted, FlowKinds,
       RoutesOfFlows, FlowsHold, TypeOK, TeardownOrder, Routed, Routing, Holding
  <2> QED
    BY <2>1, <2>2, <2>3, <2>4, <2>5, <2>6, <2>7, <2>8, <2>9 DEF PortsInv
<1>2. CASE Destroy
  <2>1. TypeOK'
    BY <1>2 DEF Destroy, TypeOK, FlowKinds
  <2>2. FlowKinds'
    BY <1>2 DEF Destroy, FlowKinds, TypeOK
  <2>3. TeardownOrder'
    BY <1>2 DEF Destroy, TeardownOrder, TypeOK
  <2>4. PortsOfFlows'
    BY <1>2 DEF Destroy, PortsOfFlows, FlowKinds, TeardownOrder, TypeOK,
       FlowsHold, Routed, Routing, Holding
  <2>5. FlowsHold'
    BY <1>2 DEF Destroy, FlowsHold, Holding, PortsOfFlows, FlowKinds,
       TeardownOrder, TypeOK, RoutesOfFlows, DoomedOfFlows, Routed, Routing
  <2>6. RoutesOfFlows'
    BY <1>2 DEF Destroy, RoutesOfFlows, FlowsHold, PortsOfFlows, TypeOK,
       TeardownOrder, Routed, Routing, Holding
  <2>7. DoomedOfFlows'
    BY <1>2 DEF Destroy, DoomedOfFlows, FlowsHold, PortsOfFlows, TeardownOrder,
       TypeOK, Routed, Routing, Holding
  <2>8. QueuedRouted'
    BY <1>2 DEF Destroy, QueuedRouted, TeardownOrder, FlowKinds, TypeOK
  <2>9. SentByOwner'
    BY <1>2 DEF Destroy, SentByOwner, OwnToken, QueuedRouted, FlowKinds,
       RoutesOfFlows, FlowsHold, TypeOK, TeardownOrder, Routed, Routing, Holding
  <2> QED
    BY <2>1, <2>2, <2>3, <2>4, <2>5, <2>6, <2>7, <2>8, <2>9 DEF PortsInv
<1>3. CASE CloseRoutes
  <2>1. TypeOK'
    BY <1>3 DEF CloseRoutes, TypeOK, FlowKinds
  <2>2. FlowKinds'
    BY <1>3 DEF CloseRoutes, FlowKinds, TypeOK
  <2>3. TeardownOrder'
    BY <1>3 DEF CloseRoutes, TeardownOrder, TypeOK
  <2>4. PortsOfFlows'
    BY <1>3 DEF CloseRoutes, PortsOfFlows, FlowKinds, TeardownOrder, TypeOK,
       FlowsHold, Routed, Routing, Holding
  <2>5. FlowsHold'
    BY <1>3 DEF CloseRoutes, FlowsHold, Holding, PortsOfFlows, FlowKinds,
       TeardownOrder, TypeOK, RoutesOfFlows, DoomedOfFlows, Routed, Routing
  <2>6. RoutesOfFlows'
    BY <1>3 DEF CloseRoutes, RoutesOfFlows, FlowsHold, PortsOfFlows, TypeOK,
       TeardownOrder, Routed, Routing, Holding
  <2>7. DoomedOfFlows'
    <3>1. doomed' = DOMAIN routes /\ UNCHANGED <<conns, kind, at, port>>
      BY <1>3 DEF CloseRoutes
    <3> QED
      BY <3>1 DEF RoutesOfFlows, PortsOfFlows, FlowKinds, DoomedOfFlows, Routed
  <2>8. QueuedRouted'
    BY <1>3 DEF CloseRoutes, QueuedRouted, TeardownOrder, FlowKinds, TypeOK
  <2>9. SentByOwner'
    BY <1>3 DEF CloseRoutes, SentByOwner, OwnToken, QueuedRouted, FlowKinds,
       RoutesOfFlows, FlowsHold, TypeOK, TeardownOrder, Routed, Routing, Holding
  <2> QED
    BY <2>1, <2>2, <2>3, <2>4, <2>5, <2>6, <2>7, <2>8, <2>9 DEF PortsInv
<1>4. CASE UnregisterDoomed
  <2>0. PICK p \in doomed : conns' = Without(conns, p) /\ doomed' = doomed \ {p}
    BY <1>4 DEF UnregisterDoomed
  <2>a. /\ closed /\ p \in DOMAIN conns /\ DOMAIN conns' = DOMAIN conns \ {p}
        /\ \A q \in DOMAIN conns' : conns'[q] = conns[q]
        /\ UNCHANGED <<portNext, alive, routes, closed, timers, destroyed, kind, port,
                       queue, sending, at>>
    <3>1. closed /\ p \in DOMAIN conns
      BY <1>4, <2>0 DEF UnregisterDoomed, DoomedOfFlows
    <3>2. UNCHANGED <<portNext, alive, routes, closed, timers, destroyed, kind, port,
                      queue, sending, at>>
      BY <1>4 DEF UnregisterDoomed
    <3> QED
      BY <2>0, <3>1, <3>2 DEF Without
  <2>1. TypeOK'
    <3>1. doomed' \subseteq Ports
      BY <2>0, <2>a DEF TeardownOrder
    <3> QED
      BY <2>a, <3>1 DEF TypeOK
  <2>2. FlowKinds'
    BY <2>0, <2>a DEF FlowKinds, TypeOK
  <2>3. TeardownOrder'
    BY <2>0, <2>a DEF TeardownOrder, TypeOK
  <2>4. PortsOfFlows'
    BY <2>0, <2>a DEF PortsOfFlows, FlowKinds, TeardownOrder, TypeOK, FlowsHold,
       Routed, Routing, Holding
  <2>5. FlowsHold'
    BY <2>0, <2>a DEF FlowsHold, Holding, PortsOfFlows, FlowKinds,
       TeardownOrder, TypeOK, RoutesOfFlows, DoomedOfFlows, Routed, Routing
  <2>6. RoutesOfFlows'
    BY <2>0, <2>a DEF RoutesOfFlows, FlowsHold, PortsOfFlows, TypeOK,
       TeardownOrder, Routed, Routing, Holding
  <2>7. DoomedOfFlows'
    BY <2>0, <2>a DEF DoomedOfFlows, FlowsHold, PortsOfFlows, TeardownOrder,
       TypeOK, Routed, Routing, Holding
  <2>8. QueuedRouted'
    BY <2>0, <2>a DEF QueuedRouted, TeardownOrder, FlowKinds, TypeOK
  <2>9. SentByOwner'
    BY <2>0, <2>a DEF SentByOwner, OwnToken, QueuedRouted, FlowKinds,
       RoutesOfFlows, FlowsHold, TypeOK, TeardownOrder, Routed, Routing, Holding
  <2> QED
    BY <2>1, <2>2, <2>3, <2>4, <2>5, <2>6, <2>7, <2>8, <2>9 DEF PortsInv
<1>5. CASE Send
  <2>1. TypeOK'
    BY <1>5 DEF Send, TypeOK, FlowKinds
  <2>2. FlowKinds'
    BY <1>5 DEF Send, FlowKinds, TypeOK
  <2>3. TeardownOrder'
    BY <1>5 DEF Send, TeardownOrder, TypeOK
  <2>4. PortsOfFlows'
    BY <1>5 DEF Send, PortsOfFlows, FlowKinds, TeardownOrder, TypeOK, FlowsHold,
       Routed, Routing, Holding
  <2>5. FlowsHold'
    BY <1>5 DEF Send, FlowsHold, Holding, PortsOfFlows, FlowKinds,
       TeardownOrder, TypeOK, RoutesOfFlows, DoomedOfFlows, Routed, Routing
  <2>6. RoutesOfFlows'
    BY <1>5 DEF Send, RoutesOfFlows, FlowsHold, PortsOfFlows, TypeOK,
       TeardownOrder, Routed, Routing, Holding
  <2>7. DoomedOfFlows'
    BY <1>5 DEF Send, DoomedOfFlows, FlowsHold, PortsOfFlows, TeardownOrder,
       TypeOK, Routed, Routing, Holding
  <2>8. QueuedRouted'
    BY <1>5 DEF Send, QueuedRouted, TeardownOrder, FlowKinds, TypeOK
  <2>9. SentByOwner'
    BY <1>5 DEF Send, SentByOwner, OwnToken, QueuedRouted, FlowKinds,
       RoutesOfFlows, FlowsHold, TypeOK, TeardownOrder, Routed, Routing, Holding
  <2> QED
    BY <2>1, <2>2, <2>3, <2>4, <2>5, <2>6, <2>7, <2>8, <2>9 DEF PortsInv
<1>6. CASE SendDrops
  <2>1. TypeOK'
    BY <1>6 DEF SendDrops, TypeOK, FlowKinds
  <2>2. FlowKinds'
    BY <1>6 DEF SendDrops, FlowKinds, TypeOK
  <2>3. TeardownOrder'
    BY <1>6 DEF SendDrops, TeardownOrder, TypeOK
  <2>4. PortsOfFlows'
    BY <1>6 DEF SendDrops, PortsOfFlows, FlowKinds, TeardownOrder, TypeOK,
       FlowsHold, Routed, Routing, Holding
  <2>5. FlowsHold'
    BY <1>6 DEF SendDrops, FlowsHold, Holding, PortsOfFlows, FlowKinds,
       TeardownOrder, TypeOK, RoutesOfFlows, DoomedOfFlows, Routed, Routing
  <2>6. RoutesOfFlows'
    BY <1>6 DEF SendDrops, RoutesOfFlows, FlowsHold, PortsOfFlows, TypeOK,
       TeardownOrder, Routed, Routing, Holding
  <2>7. DoomedOfFlows'
    BY <1>6 DEF SendDrops, DoomedOfFlows, FlowsHold, PortsOfFlows,
       TeardownOrder, TypeOK, Routed, Routing, Holding
  <2>8. QueuedRouted'
    BY <1>6 DEF SendDrops, QueuedRouted, TeardownOrder, FlowKinds, TypeOK
  <2>9. SentByOwner'
    BY <1>6 DEF SendDrops, SentByOwner, OwnToken, QueuedRouted, FlowKinds,
       RoutesOfFlows, FlowsHold, TypeOK, TeardownOrder, Routed, Routing, Holding
  <2> QED
    BY <2>1, <2>2, <2>3, <2>4, <2>5, <2>6, <2>7, <2>8, <2>9 DEF PortsInv
<1> QED
  BY <1>1, <1>2, <1>3, <1>4, <1>5, <1>6

\* The invariant is inductive.
LEMMA PortsStep == PortsInv /\ [Next]_vars => PortsInv'
<1> SUFFICES ASSUME PortsInv, [Next]_vars PROVE PortsInv'
  OBVIOUS
<1>1. CASE Next
  BY <1>1, DialSteps, ReleaseSteps, TeardownSteps DEF Next, Dials, GivesBack, Destroys
<1>2. CASE UNCHANGED vars
  BY <1>2 DEF vars, PortsInv, TypeOK, FlowKinds, TeardownOrder, PortsOfFlows, FlowsHold,
     Holding, RoutesOfFlows, DoomedOfFlows, QueuedRouted, SentByOwner, OwnToken,
     Routed, Routing
<1> QED
  BY <1>1, <1>2

\* Ports, routes and flows agree, for any number of flows and ports
\* (Tunnel.conns and linkEndpoint.routes, each under its own lock).
THEOREM PortsInvariant == Spec => []PortsInv
BY PortsInit, PortsStep, PTL DEF Spec

-----------------------------------------------------------------------------

\* Every port has one owner, who alone gives it back, whichever of release, the
\* linger's timer and destroy comes first.
THEOREM EveryPortOwned == Spec => []PortsOwned
<1>1. PortsInv => PortKept
  BY DEF PortsInv, PortKept, Using, FlowKinds, FlowsHold, Holding, RoutesOfFlows, Routed,
     Routing
<1>2. PortsInv => FreesItsOwn
  BY DEF PortsInv, FreesItsOwn, FlowsHold, Holding, DoomedOfFlows, TeardownOrder
<1> QED
  BY <1>1, <1>2, PortsInvariant, PTL DEF PortsOwned, PortsInv

\* No packet of a TCP flow goes out under another flow's token while the tunnel
\* lives (WritePackets looks the route up before it writes).
THEOREM PacketsUnderOwnToken == Spec => []OwnToken
<1>1. PortsInv => OwnToken
  BY DEF PortsInv, SentByOwner
<1> QED
  BY <1>1, PortsInvariant, PTL

\* However a flow ends, its port does not stay registered, unless the tunnel is
\* dead and its teardown has yet to reach the port.
THEOREM NoPortLeaks == Spec => []NoLeak
<1>1. PortsInv => NoLeak
  BY DEF PortsInv, NoLeak, PortsOfFlows
<1> QED
  BY <1>1, PortsInvariant, PTL


=============================================================================
