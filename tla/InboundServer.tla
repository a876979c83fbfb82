----------------------------- MODULE InboundServer -----------------------------
(***************************************************************************)
(* The proxy server (inbound.Server): Run, an accept loop, and the handler of *)
(* one connection, which is a CONNECT, dialled (ProxyDial) and relayed        *)
(* (StreamRelay), or a UDP association (UdpFlows).  Run ends when its context  *)
(* does: it closes the listener, joins the accept loop, closes the connections *)
(* that are tracked, and joins the handlers.                                  *)
(***************************************************************************)
EXTENDS ProxyDial, StreamRelay, UdpFlows

VARIABLES
  run,      \* Run: "serve", "join", "close", "wait", "returned"
  accept,   \* the accept loop: "accept", "track" a connection, "done"
  tracked,  \* which connections of the handler are tracked
  handler   \* "none", "handshake", "dial", "relay", "udp", "over"

serverVars == <<run, accept, tracked, handler>>
vars == <<serverVars, dialVars, relayVars, flowVars>>

Init ==
  /\ DialInit /\ RelayInit /\ FlowsInit
  /\ run = "serve" /\ accept = "accept" /\ tracked = {} /\ handler = "none"

-----------------------------------------------------------------------------
(* Run *)

\* The context ends, and with it that of a UDP association; the listener is
\* closed, perhaps after another connection has been accepted.
ContextEnds ==
  /\ run = "serve" /\ run' = "join"
  /\ table' = [table EXCEPT !.cancelled = @ \/ handler = "udp"]
  /\ UNCHANGED <<accept, tracked, handler, dialVars, relayVars, flows, sender, socket>>

\* Mutant of Joins: the accept loop is not waited for.
JoinsAtOnce ==
  /\ run = "join" /\ run' = "close"
  /\ UNCHANGED <<accept, tracked, handler, dialVars, relayVars, flowVars>>

Joins ==
  /\ run = "join" /\ accept = "done" /\ run' = "close"
  /\ UNCHANGED <<accept, tracked, handler, dialVars, relayVars, flowVars>>

ClosesConns ==
  /\ run = "close" /\ run' = "wait"
  /\ client' = [client EXCEPT !.closed = @ \/ "client" \in tracked]
  /\ socket' = (socket /\ "socket" \notin tracked)
  /\ UNCHANGED <<accept, tracked, handler, dialVars, gate, wire, copy, conn, main, timer, ended, flows, table, sender>>

Returns ==
  /\ run = "wait" /\ handler \in {"none", "over"} /\ run' = "returned"
  /\ UNCHANGED <<accept, tracked, handler, dialVars, relayVars, flowVars>>

-----------------------------------------------------------------------------
(* acceptLoop *)

Accepts ==
  /\ accept = "accept" /\ handler = "none" /\ run \in {"serve", "join"}
  /\ accept' = "track"
  /\ UNCHANGED <<run, tracked, handler, dialVars, relayVars, flowVars>>

Tracks ==
  /\ accept = "track"
  /\ accept' = "accept" /\ tracked' = {"client"} /\ handler' = "handshake"
  /\ UNCHANGED <<run, dialVars, relayVars, flowVars>>

AcceptFails ==
  /\ accept = "accept" /\ run # "serve"
  /\ accept' = "done"
  /\ UNCHANGED <<run, tracked, handler, dialVars, relayVars, flowVars>>

-----------------------------------------------------------------------------
(* The handler *)

\* The handler returns; its connection is forgotten and closed.
Over == handler' = "over" /\ tracked' = {} /\ client' = [client EXCEPT !.closed = TRUE]

\* The client says nothing intelligible in time.
HandshakeFails ==
  /\ handler = "handshake" /\ Over
  /\ UNCHANGED <<run, accept, dialVars, gate, wire, copy, conn, main, timer, ended, flowVars>>

Connects ==
  /\ handler = "handshake" /\ ~client.closed
  /\ Requested /\ handler' = "dial"
  /\ UNCHANGED <<run, accept, tracked, relayVars, flowVars>>

Associates ==
  /\ handler = "handshake" /\ ~client.closed
  /\ handler' = "udp" /\ tracked' = {"client", "socket"}
  /\ table' = [table EXCEPT !.cancelled = run # "serve"]
  /\ UNCHANGED <<run, accept, dialVars, relayVars, flows, sender, socket>>

\* The dial goes on until its time is over or the context ends.
Dials ==
  /\ handler = "dial" /\ Dialling
  /\ UNCHANGED <<serverVars, relayVars, flowVars>>

DialEnds ==
  /\ handler = "dial" /\ SetupEnds
  /\ UNCHANGED <<serverVars, relayVars, flowVars>>

\* The relay starts once the client has been told.  (A stream over L3 is
\* relayed too, over a connection that is not modelled.)
Dialled ==
  /\ handler = "dial" /\ dial.pc \in {"refused", "direct stream", "L3 stream"}
  /\ input' = NoInput /\ dial' = NoDial
  /\ \/ Over
     \/ dial.pc = "direct stream" /\ ~client.closed /\ handler' = "relay" /\ UNCHANGED <<tracked, client>>
  /\ UNCHANGED <<run, accept, gate, wire, copy, conn, main, timer, ended, flowVars>>

RelayStep(A) == handler = "relay" /\ A /\ UNCHANGED <<serverVars, dialVars, flowVars>>

RelayOver ==
  /\ handler = "relay" /\ main = "end" /\ Over
  /\ wire' = <<>> /\ timer' = [age |-> 0, activity |-> FALSE, quiet |-> 0]
  /\ UNCHANGED <<run, accept, dialVars, gate, copy, conn, main, ended, flowVars>>

\* The goroutines that read the flows outlive the handler.
FlowStep(A) == (handler = "udp" \/ sender.pc = "over") /\ A /\ UNCHANGED <<serverVars, dialVars, relayVars>>

FlowsOver ==
  /\ handler = "udp" /\ sender.pc = "over" /\ Over
  /\ UNCHANGED <<run, accept, dialVars, gate, wire, copy, conn, main, timer, ended, flowVars>>

-----------------------------------------------------------------------------

Running == Joins \/ ClosesConns \/ Returns
Accepting == Tracks \/ AcceptFails
Handling == HandshakeFails \/ DialEnds \/ Dialled \/ RelayOver \/ FlowsOver

Next ==
  \/ ContextEnds \/ Running \/ Accepts \/ Accepting \/ Connects \/ Associates \/ Dials \/ Handling
  \/ RelayStep(RelayNext) \/ FlowStep(FlowsNext)

Spec == Init /\ [][Next]_vars

\* The goroutines run; a handshake, a dial and a write on a flow have deadlines.
\* Nothing obliges a client to connect or a peer to send, to read or to end.
FairSpec ==
  /\ Spec
  /\ WF_vars(Running) /\ WF_vars(Accepting) /\ WF_vars(Handling)
  /\ WF_vars(RelayStep(Uploads)) /\ WF_vars(RelayStep(Downloads))
  /\ WF_vars(RelayStep(Closing)) /\ WF_vars(RelayStep(Relays)) /\ WF_vars(RelayStep(Tick))
  /\ WF_vars(FlowStep(Sending)) /\ WF_vars(FlowStep(TableCloses))
  /\ \A f \in 1..MaxDials : WF_vars(FlowStep(f \in DOMAIN flows /\ Reading(f)))

-----------------------------------------------------------------------------
(* Properties *)

\* An upload that waits for a gateway that reads nothing.
UploadStalled == handler = "relay" /\ copy.up = "writing" /\ gate.stalled

\* The server stops: a connection that is accepted while it does is closed with
\* the others, dials are given up, relays and associations end, and Run returns
\* -- unless an upload waits for a gateway, which closing the client does not
\* end.  And an association whose client is gone keeps no flow open.
HandlersUnwind ==
  /\ run # "serve" ~> run = "returned" \/ UploadStalled
  /\ ~socket ~> \A f \in DOMAIN flows : ~flows[f].open

\* What the comments of Run say: closing the connections forces the relays to
\* unwind, and Run ends after its context.
RunReturns == run # "serve" ~> run = "returned"

=============================================================================
