------------------------------- MODULE UdpFlows -------------------------------
(***************************************************************************)
(* The flows of one SOCKS5 UDP association (udpFlowTable).  The handler's    *)
(* goroutine reads datagrams from the client's socket and sends each over    *)
(* the flow of its target, which it dials when there is none, evicting the   *)
(* flow used longest ago from a full table.  A goroutine per flow reads what *)
(* comes back.  Whoever ends first closes the table: the context, a reader   *)
(* that cannot deliver, or the handler.                                      *)
(***************************************************************************)
EXTENDS Naturals, FiniteSets, Sequences

CONSTANTS Targets,   \* targets the client sends to
          MaxFlows,  \* flows the table holds
          MaxDials   \* bound: flows dialled

ASSUME FlowsAssumption == MaxFlows \in Nat \ {0} /\ MaxDials \in Nat

VARIABLES
  flows,   \* what was dialled: the target, whether the connection is open, and
           \* where the goroutine that reads it stands
  table,   \* the flows in the table; whether its context is cancelled, it is
           \* closed; its closeOnce, and the flows Close has still to close
  sender,  \* the handler: where it stands, its target, flow and attempt
  socket   \* whether the client's UDP socket is open

flowVars == <<flows, table, sender, socket>>

Ids == 1..MaxDials

Idle == [pc |-> "read", target |-> "none", flow |-> 0, attempt |-> 0]

FlowsInit ==
  /\ flows = <<>>
  /\ table = [flows |-> {}, cancelled |-> FALSE, closed |-> FALSE, once |-> "no", doomed |-> {}]
  /\ sender = Idle
  /\ socket = TRUE

For(target) == {f \in table.flows : flows[f].target = target}

Shut(open, f) == [open EXCEPT ![f].open = FALSE]

-----------------------------------------------------------------------------
(* The handler: Send *)

\* A read of the socket fails once it is closed; then the handler returns.
Receives ==
  /\ sender.pc = "read"
  /\ \/ /\ socket
        /\ \E t \in Targets : sender' = [pc |-> "look", target |-> t, flow |-> 0, attempt |-> 0]
     \/ ~socket /\ sender' = [sender EXCEPT !.pc = "close table"]
  /\ UNCHANGED <<flows, table, socket>>

Finds ==
  /\ sender.pc = "look"
  /\ sender' = IF table.closed THEN Idle
               ELSE IF For(sender.target) = {} THEN [sender EXCEPT !.pc = "dial"]
               ELSE [sender EXCEPT !.pc = "write", !.flow = CHOOSE f \in For(sender.target) : TRUE]
  /\ UNCHANGED <<flows, table, socket>>

\* The target is not found, cannot be dialled in time, or is.
FlowDials ==
  /\ sender.pc = "dial"
  /\ \/ sender' = Idle /\ UNCHANGED flows
     \/ /\ Len(flows) < MaxDials
        /\ flows' = Append(flows, [target |-> sender.target, open |-> TRUE, reader |-> "none"])
        /\ sender' = [sender EXCEPT !.pc = "enter", !.flow = Len(flows')]
  /\ UNCHANGED <<table, socket>>

Entered(evicted) ==
  /\ table' = [table EXCEPT !.flows = (@ \ evicted) \cup {sender.flow}]
  /\ flows' = [f \in DOMAIN flows |-> IF f \in evicted THEN [flows[f] EXCEPT !.open = FALSE]
                                    ELSE IF f = sender.flow THEN [flows[f] EXCEPT !.reader = "read"]
                                    ELSE flows[f]]
  /\ sender' = [sender EXCEPT !.pc = "write"]

\* Which flow was used longest ago is left open.
Evicted ==
  IF Cardinality(table.flows) < MaxFlows THEN {{}} ELSE {{f} : f \in table.flows}

\* Mutant of Enters: a table that was closed during the dial takes the flow.
EntersClosed ==
  /\ sender.pc = "enter" /\ \E F \in Evicted : Entered(F)
  /\ UNCHANGED socket

\* The handler alone opens flows, so none for its target came meanwhile.
Enters ==
  /\ sender.pc = "enter"
  /\ IF table.closed
     THEN flows' = Shut(flows, sender.flow) /\ sender' = Idle /\ UNCHANGED table
     ELSE \E F \in Evicted : Entered(F)
  /\ UNCHANGED socket

\* Writes have a deadline.
Writes ==
  /\ sender.pc = "write"
  /\ \/ flows[sender.flow].open /\ sender' = Idle
     \/ sender' = [sender EXCEPT !.pc = "remove"]
  /\ UNCHANGED <<flows, table, socket>>

\* Mutant of Without: the entry of the target is removed, whoever has it.
WithoutTarget(f) == [table EXCEPT !.flows = @ \ For(flows[f].target)]

\* remove: f's entry, if it is still its own.
Without(f) == [table EXCEPT !.flows = @ \ {f}]

Removes ==
  /\ sender.pc = "remove"
  /\ table' = Without(sender.flow)
  /\ sender' = [sender EXCEPT !.pc = "close"]
  /\ UNCHANGED <<flows, socket>>

\* A datagram is tried on a second flow, unless the table is ending.
Retries ==
  /\ sender.pc = "close"
  /\ flows' = Shut(flows, sender.flow)
  /\ sender' = IF table.cancelled \/ sender.attempt = 1
               THEN Idle
               ELSE [sender EXCEPT !.pc = "look", !.flow = 0, !.attempt = 1]
  /\ UNCHANGED <<table, socket>>

\* The deferred Close of the table, then of the socket.
Leaves ==
  /\ sender.pc = "close table" /\ table.once = "done"
  /\ sender' = [Idle EXCEPT !.pc = "over"] /\ socket' = FALSE
  /\ UNCHANGED <<flows, table>>

Sending == Receives \/ Finds \/ FlowDials \/ Enters \/ Writes \/ Removes \/ Retries \/ Leaves

-----------------------------------------------------------------------------
(* readFlow *)

Reader(f, from, to) == flows[f].reader = from /\ flows' = [flows EXCEPT ![f].reader = to]

\* A datagram comes back and is delivered, or the socket cannot take it.
Arrives(f) ==
  /\ flows[f].open
  /\ \/ Reader(f, "read", "read") /\ socket /\ UNCHANGED socket
     \/ Reader(f, "read", "close table") /\ socket' = FALSE
  /\ UNCHANGED <<table, sender>>

\* The connection was closed, was idle for too long, or failed.
ReadFails(f) == Reader(f, "read", "remove") /\ UNCHANGED <<table, sender, socket>>

ReaderRemoves(f) ==
  /\ Reader(f, "remove", "close") /\ table' = Without(f)
  /\ UNCHANGED <<sender, socket>>

ReaderCloses(f) ==
  /\ flows[f].reader = "close"
  /\ flows' = [flows EXCEPT ![f].reader = "over", ![f].open = FALSE]
  /\ UNCHANGED <<table, sender, socket>>

ReaderLeaves(f) ==
  /\ table.once = "done" /\ Reader(f, "close table", "over")
  /\ UNCHANGED <<table, sender, socket>>

Reading(f) == Arrives(f) \/ ReadFails(f) \/ ReaderRemoves(f) \/ ReaderCloses(f) \/ ReaderLeaves(f)

-----------------------------------------------------------------------------
(* Close, and the end of the client *)

TableCloseBegins ==
  /\ table.once = "no"
  /\ \/ table.cancelled \/ sender.pc = "close table"
     \/ \E f \in DOMAIN flows : flows[f].reader = "close table"
  /\ table' = [flows |-> {}, cancelled |-> TRUE, closed |-> TRUE, once |-> "begun", doomed |-> table.flows]
  /\ UNCHANGED <<flows, sender, socket>>

CloseFlow ==
  /\ table.once = "begun"
  /\ IF table.doomed = {}
     THEN table' = [table EXCEPT !.once = "done"] /\ UNCHANGED flows
     ELSE \E f \in table.doomed : /\ flows' = Shut(flows, f)
                                  /\ table' = [table EXCEPT !.doomed = @ \ {f}]
  /\ UNCHANGED <<sender, socket>>

\* The control connection ends, and the goroutine that watches it closes the
\* socket.
ControlEnds == socket /\ socket' = FALSE /\ UNCHANGED <<flows, table, sender>>

TableCloses == TableCloseBegins \/ CloseFlow

FlowsNext ==
  Sending \/ (\E f \in DOMAIN flows : Reading(f)) \/ TableCloses \/ ControlEnds

-----------------------------------------------------------------------------
(* Properties *)

FlowsTypeOK ==
  /\ Len(flows) <= MaxDials
  /\ \A f \in DOMAIN flows :
       /\ flows[f].target \in Targets /\ flows[f].open \in BOOLEAN
       /\ flows[f].reader \in {"none", "read", "remove", "close", "close table", "over"}
  /\ table.flows \cup table.doomed \subseteq DOMAIN flows
  /\ sender.pc \in {"read", "look", "dial", "enter", "write", "remove", "close", "close table", "over"}
  /\ socket \in BOOLEAN

\* No flow is lost or shared.  The table holds at most one flow per target and
\* no more than it may, each with its reader; and a connection that is open
\* and not in the table is in the hands of somebody who is about to close it or
\* to enter it.
FlowsOwned ==
  /\ FlowsTypeOK
  /\ Cardinality(table.flows) <= MaxFlows
  /\ \A f, g \in table.flows : flows[f].target = flows[g].target => f = g
  /\ \A f \in table.flows : flows[f].reader \notin {"none", "close", "over"}
  /\ \A f \in DOMAIN flows : flows[f].open =>
       \/ f \in table.flows \cup table.doomed
       \/ sender.flow = f /\ sender.pc \in {"enter", "close"}
       \/ flows[f].reader = "close"

=============================================================================
