------------------------------ MODULE PortRoutes ------------------------------
(***************************************************************************)
(* The virtual source ports of one tunnel and who may speak on them.       *)
(* Tunnel.conns (internal/tunnel/tunnel.go) hands out ports; a flow of the *)
(* IP stack (internal/l3/dialer.go, gvisor.go) also has a route, which     *)
(* binds the port to the connectToken of its authorisation, and gives the  *)
(* port back at once, after a linger, or when the tunnel dies; an ICMP     *)
(* exchange (icmp.go) takes a port and no route.                           *)
(*                                                                         *)
(* Flows are used once. A flow's token is the flow itself. The owner kept  *)
(* with a port in conns is the flow that reserved it: in the code that is  *)
(* the sink, shared by the flows of the stack.                             *)
(***************************************************************************)
EXTENDS Naturals, FiniteSets

CONSTANTS Flows,
          FirstSrcPort, LastSrcPort,
          Pending,         \* the token of a route that is not authorised yet
          Nobody

ASSUME PortAssumption ==
    /\ FirstSrcPort \in Nat /\ LastSrcPort \in Nat
    /\ FirstSrcPort <= LastSrcPort
    /\ Pending \notin Flows /\ Nobody \notin Flows

Ports == FirstSrcPort .. LastSrcPort

VARIABLES
    portNext,   \* Tunnel.portNext
    conns,      \* Tunnel.conns: port -> the flow that reserved it
    alive,      \* Tunnel.Alive()
    routes,     \* linkEndpoint.routes: port -> [token, due]
    closed,     \* linkEndpoint.closed
    timers,     \* tcpStack.timers: ports with a pending release
    destroyed,  \* tcpStack.destroyed
    kind,       \* what the flow is: "tcp", "udp" or "echo"
    port,       \* the flow's source port
    at,         \* the flow's control point
    queue,      \* flows with a packet in the outbound FIFO
    sending,    \* the packet WritePackets has looked a route up for
    doomed      \* ports destroy still has to give back, or Nobody

vars == <<portNext, conns, alive, routes, closed, timers, destroyed, kind, port,
          at, queue, sending, doomed>>
tunVars   == <<portNext, conns, alive>>
stackVars == <<routes, closed, timers, destroyed, doomed>>
flowVars  == <<kind, port>>
sendVars  == <<queue, sending>>

Init ==
    /\ portNext = FirstSrcPort /\ conns = <<>> /\ alive = TRUE
    /\ routes = <<>> /\ closed = FALSE
    /\ timers = {} /\ destroyed = FALSE /\ doomed = Nobody
    /\ kind = [f \in Flows |-> Nobody] /\ port = [f \in Flows |-> Nobody]
    /\ at = [f \in Flows |-> "idle"]
    /\ queue = {} /\ sending = Nobody

Go(f, p)    == at' = [at EXCEPT ![f] = p]
Without(g, p) == [q \in DOMAIN g \ {p} |-> g[q]]
With(g, p, v) == [q \in DOMAIN g \cup {p} |-> IF q = p THEN v ELSE g[q]]
Route(f, due) == [token |-> f, due |-> due]

\* updateRoute: refused once the endpoint is closed or the route is gone.
Routable(f)     == ~closed /\ port[f] \in DOMAIN routes
Bind(f, due)    == routes' = [routes EXCEPT ![port[f]] = Route(f, due)]

-----------------------------------------------------------------------------
(* Tunnel.ReserveConn and UnregisterConn.                                   *)

FreePorts == Ports \ DOMAIN conns

\* Distance of p ahead of portNext on the ring of ports.
Ahead(p) == IF p >= portNext THEN p - portNext
            ELSE p - portNext + (LastSrcPort - FirstSrcPort + 1)
\* Mutant of NextFree: the port is not looked up before it is taken.
NextFreeBlind == portNext

NextFree == CHOOSE p \in FreePorts : \A q \in FreePorts : Ahead(p) <= Ahead(q)
\* Mutant of After: no wrap at the last port.
AfterPast(p) == p + 1

After(p) == IF p = LastSrcPort THEN FirstSrcPort ELSE p + 1

\* The port and its sink are installed under one lock.
Reserve(f) ==
    /\ at[f] = "idle"
    /\ kind' \in {[kind EXCEPT ![f] = k] : k \in {"tcp", "udp", "echo"}}
    /\ IF FreePorts = {}
       THEN Go(f, "over") /\ UNCHANGED <<portNext, conns, port>>
       ELSE /\ port' = [port EXCEPT ![f] = NextFree]
            /\ portNext' = After(NextFree)
            /\ conns' = With(conns, NextFree, f)
            /\ Go(f, IF kind'[f] = "echo" THEN "open" ELSE "reserved")
    /\ UNCHANGED <<alive, stackVars, sendVars>>

Unregister(f) ==
    /\ at[f] = "unregister"
    /\ conns' = Without(conns, port[f])
    /\ Go(f, "over")
    /\ UNCHANGED <<portNext, alive, stackVars, flowVars, sendVars>>

-----------------------------------------------------------------------------
(* authorizeFlow: the route is added empty and authorised later.            *)

\* Mutant of AddRoute: the reservation is not taken back.
AddRouteForgets(f) ==
    /\ at[f] = "reserved"
    /\ IF closed THEN Go(f, "over") /\ UNCHANGED routes
       ELSE /\ routes' = With(routes, port[f], Route(Pending, "none"))
            /\ Go(f, "authorize")
    /\ UNCHANGED <<tunVars, closed, timers, destroyed, doomed, flowVars, sendVars>>

\* A reservation made while the stack was being destroyed is taken back here.
AddRoute(f) ==
    /\ at[f] = "reserved"
    /\ IF closed THEN Go(f, "unregister") /\ UNCHANGED routes
       ELSE /\ routes' = With(routes, port[f], Route(Pending, "none"))
            /\ Go(f, "authorize")
    /\ UNCHANGED <<tunVars, closed, timers, destroyed, doomed, flowVars, sendVars>>

\* RequestAuth returns an error or a refusal, or the gateway's token.
Authorized(f) ==
    /\ at[f] = "authorize"
    /\ \/ Go(f, "release")
       \/ Go(f, "bind")
    /\ UNCHANGED <<tunVars, stackVars, flowVars, sendVars>>

-----------------------------------------------------------------------------
(* dialOnce and dialUDPOnce.                                                *)

BindRoute(f) ==
    /\ at[f] = "bind"
    /\ IF Routable(f)
       THEN /\ Bind(f, IF kind[f] = "tcp" THEN "soon" ELSE "none")
            /\ Go(f, "dial")
       ELSE Go(f, "release") /\ UNCHANGED routes
    /\ UNCHANGED <<tunVars, closed, timers, destroyed, doomed, flowVars, sendVars>>

\* The stack queues a SYN, a segment, a FIN or a datagram of the flow.
Queues(f) ==
    /\ \/ at[f] = "dial" /\ kind[f] = "tcp"
       \/ at[f] = "open" /\ kind[f] # "echo"
       \/ at[f] \in {"later", "linger"} /\ kind[f] = "tcp"
    /\ ~destroyed
    /\ queue' = queue \cup {f}
    /\ UNCHANGED <<tunVars, stackVars, flowVars, sending, at>>

Connects(f) ==
    /\ at[f] = "dial" /\ kind[f] = "tcp"
    /\ IF Routable(f) THEN Bind(f, "none") /\ Go(f, "open")
       ELSE Go(f, "over") /\ UNCHANGED routes       \* conn.Close(), no release
    /\ UNCHANGED <<tunVars, closed, timers, destroyed, doomed, flowVars, sendVars>>

\* Refused, cancelled or out of time: the route expires, whatever became of it.
ConnectFails(f) ==
    /\ at[f] = "dial" /\ kind[f] = "tcp"
    /\ IF Routable(f) THEN Bind(f, "past") ELSE UNCHANGED routes
    /\ Go(f, "later")
    /\ UNCHANGED <<tunVars, closed, timers, destroyed, doomed, flowVars, sendVars>>

DialUDP(f) ==
    /\ at[f] = "dial" /\ kind[f] = "udp"
    /\ Go(f, "open") \/ Go(f, "release")
    /\ UNCHANGED <<tunVars, stackVars, flowVars, sendVars>>

-----------------------------------------------------------------------------
(* Giving the port back: Close, releaseLater and its timer, release.        *)

\* Mutant of Close: a TCP connection leaves no linger behind.
CloseAtOnce(f) ==
    /\ at[f] = "open"
    /\ Go(f, IF kind[f] = "echo" THEN "unregister" ELSE "release")
    /\ UNCHANGED <<tunVars, stackVars, flowVars, sendVars>>

Close(f) ==
    /\ at[f] = "open"
    /\ Go(f, CASE kind[f] = "tcp" -> "later" [] kind[f] = "udp" -> "release"
               [] OTHER -> "unregister")
    /\ UNCHANGED <<tunVars, stackVars, flowVars, sendVars>>

ReleaseLater(f) ==
    /\ at[f] = "later"
    /\ IF destroyed \/ ~alive THEN Go(f, "release") /\ UNCHANGED timers
       ELSE timers' = timers \cup {port[f]} /\ Go(f, "linger")
    /\ UNCHANGED <<tunVars, routes, closed, destroyed, doomed, flowVars, sendVars>>

\* The stack's own endpoint ends: FIN_WAIT_2 and TIME_WAIT are over.
EndpointEnds(f) ==
    /\ at[f] = "linger" /\ Go(f, "quiet")
    /\ UNCHANGED <<tunVars, stackVars, flowVars, sendVars>>

\* connectionLinger is the sum of both intervals and a margin for what is
\* still queued: it is taken to outlast the endpoint and its last packet.
LingerEnds(f) ==
    /\ at[f] = "quiet" /\ port[f] \in timers
    /\ f \notin queue /\ (sending # Nobody => sending.flow # f)
    /\ Go(f, "release")
    /\ UNCHANGED <<tunVars, stackVars, flowVars, sendVars>>

Release(f) ==
    /\ at[f] = "release"
    /\ timers' = timers \ {port[f]}
    /\ Go(f, "unroute")
    /\ UNCHANGED <<tunVars, routes, closed, destroyed, doomed, flowVars, sendVars>>

\* Mutant of RemoveRoute: the port is unregistered whoever removed the route.
RemoveRouteAlways(f) ==
    /\ at[f] = "unroute"
    /\ routes' = Without(routes, port[f])
    /\ Go(f, "unregister")
    /\ UNCHANGED <<tunVars, closed, timers, destroyed, doomed, flowVars, sendVars>>

\* removeRoute: only the one who finds the route unregisters the port.
RemoveRoute(f) ==
    /\ at[f] = "unroute"
    /\ routes' = Without(routes, port[f])
    /\ Go(f, IF port[f] \in DOMAIN routes THEN "unregister" ELSE "over")
    /\ UNCHANGED <<tunVars, closed, timers, destroyed, doomed, flowVars, sendVars>>

-----------------------------------------------------------------------------
(* The tunnel dies; stackFor's goroutine destroys the stack.                *)

Dies ==
    /\ alive /\ alive' = FALSE
    /\ UNCHANGED <<portNext, conns, stackVars, flowVars, sendVars, at>>

\* Timers that have not fired are stopped.
Destroy ==
    /\ ~alive /\ ~destroyed
    /\ destroyed' = TRUE /\ timers' = {}
    /\ at' = [f \in Flows |-> IF at[f] \in {"linger", "quiet"} /\ port[f] \in timers
                              THEN "over" ELSE at[f]]
    /\ UNCHANGED <<tunVars, routes, closed, doomed, flowVars, sendVars>>

CloseRoutes ==
    /\ destroyed /\ ~closed
    /\ closed' = TRUE /\ doomed' = DOMAIN routes /\ routes' = <<>>
    /\ queue' = {}
    /\ UNCHANGED <<tunVars, timers, destroyed, flowVars, sending, at>>

UnregisterDoomed ==
    /\ closed
    /\ \E p \in doomed : conns' = Without(conns, p) /\ doomed' = doomed \ {p}
    /\ UNCHANGED <<portNext, alive, routes, closed, timers, destroyed, flowVars,
                   sendVars, at>>

-----------------------------------------------------------------------------
(* WritePackets: the route is looked up, then the frame waits to be written. *)

Lookup(f) ==
    /\ f \in queue /\ sending = Nobody
    /\ queue' = queue \ {f}
    /\ sending' = IF /\ port[f] \in DOMAIN routes
                     /\ routes[port[f]].token # Pending
                     /\ routes[port[f]].due # "past"
                  THEN [flow |-> f, token |-> routes[port[f]].token,
                        due |-> routes[port[f]].due]
                  ELSE Nobody
    /\ UNCHANGED <<tunVars, stackVars, flowVars, at>>

\* SendData succeeds, or finds the tunnel dead or the deadline past.
Send ==
    /\ sending # Nobody /\ alive
    /\ sending' = Nobody
    /\ UNCHANGED <<tunVars, stackVars, flowVars, queue, at>>

SendDrops ==
    /\ sending # Nobody /\ (~alive \/ sending.due = "soon")
    /\ sending' = Nobody
    /\ UNCHANGED <<tunVars, stackVars, flowVars, queue, at>>

-----------------------------------------------------------------------------
Dials(f)    == AddRoute(f) \/ Authorized(f) \/ BindRoute(f) \/ DialUDP(f)
               \/ Connects(f) \/ ConnectFails(f)
GivesBack(f) == ReleaseLater(f) \/ EndpointEnds(f) \/ LingerEnds(f) \/ Release(f) \/ RemoveRoute(f)
               \/ Unregister(f)
Destroys    == Destroy \/ CloseRoutes \/ UnregisterDoomed

Next ==
    \/ \E f \in Flows : \/ Reserve(f) \/ Dials(f) \/ Queues(f) \/ Close(f)
                        \/ GivesBack(f) \/ Lookup(f)
    \/ Dies \/ Destroys \/ Send \/ SendDrops

Spec == Init /\ [][Next]_vars

-----------------------------------------------------------------------------
\* Every variable has its type.
TypeOK ==
    /\ portNext \in Ports /\ alive \in BOOLEAN /\ closed \in BOOLEAN
    /\ destroyed \in BOOLEAN
    /\ DOMAIN conns \subseteq Ports /\ \A p \in DOMAIN conns : conns[p] \in Flows
    /\ DOMAIN routes \subseteq Ports
    /\ \A p \in DOMAIN routes : routes[p] \in [token : Flows \cup {Pending},
                                               due : {"none", "soon", "past"}]
    /\ timers \subseteq Ports /\ queue \subseteq Flows
    /\ kind \in [Flows -> {"tcp", "udp", "echo", Nobody}]
    /\ port \in [Flows -> Ports \cup {Nobody}]
    /\ at \in [Flows -> {"idle", "reserved", "authorize", "bind", "dial", "open",
                         "later", "linger", "quiet", "release", "unroute", "unregister",
                         "over"}]
    /\ sending \in [flow : Flows, token : Flows, due : {"none", "soon"}] \cup {Nobody}
    /\ doomed = Nobody \/ doomed \subseteq Ports

Using(f) == at[f] \in {"reserved", "authorize", "bind", "dial", "open", "later",
                       "linger", "quiet"}

\* A flow keeps its port and its route to itself until it gives them back or its
\* stack is closed: no late timer, second release, destroy or ICMP exchange frees
\* them or hands them to another flow.
PortKept ==
    \A f \in Flows : Using(f) /\ (kind[f] = "echo" \/ at[f] = "reserved" \/ ~closed) =>
        /\ port[f] \in DOMAIN conns /\ conns[port[f]] = f
        /\ at[f] # "reserved" /\ kind[f] # "echo" =>
               /\ port[f] \in DOMAIN routes
               /\ routes[port[f]].token \in {f, Pending}

\* Whoever unregisters a port unregisters its own: the port is still that
\* flow's when the delete happens, also when a release, the linger's timer and
\* destroy race.
FreesItsOwn ==
    /\ \A f \in Flows : at[f] = "unregister" =>
            port[f] \in DOMAIN conns /\ conns[port[f]] = f
    /\ doomed # Nobody => \A p \in doomed :
            p \in DOMAIN conns /\ kind[conns[p]] # "echo"

\* Every port has one owner, who alone gives it back.
PortsOwned == TypeOK /\ PortKept /\ FreesItsOwn

\* A packet of a TCP flow goes out under no other flow's token, also when its
\* port was taken again. (A closed UDP flow leaves no linger behind.)
OwnToken ==
    alive /\ sending # Nobody /\ kind[sending.flow] = "tcp" => sending.token = sending.flow

\* A flow that is over, whichever way it ended, does not keep its port: no
\* failed reservation, lost race or dying tunnel leaks one. Only the teardown of
\* a dead tunnel may still be about to give it back.
NoLeak ==
    \A p \in DOMAIN conns : at[conns[p]] = "over" =>
        ~alive /\ (closed => p \in doomed)
=============================================================================
