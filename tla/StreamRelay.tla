------------------------------ MODULE StreamRelay ------------------------------
(***************************************************************************)
(* relayPair between a client's TCP connection and a direct TCP stream of    *)
(* the tunnel (tcpTunnelConn): two copying goroutines, half-closes, the idle *)
(* timeout after the first of them, and Close, which may come from the relay *)
(* and from the end of the session while a frame is being written.           *)
(*                                                                         *)
(* A chunk is one read and one frame.  The frame being written stands on the *)
(* wire as "part" until its last byte is out.  Time is counted in halves of  *)
(* the idle timeout, by Tick.                                                *)
(***************************************************************************)
EXTENDS Naturals, Sequences

CONSTANT MaxChunks  \* bound: chunks read from each side

ASSUME RelayAssumption == MaxChunks \in Nat

VARIABLES
  client,  \* the client and its connection
  gate,    \* the gateway and its TLS connection
  wire,    \* what was put on the TLS connection: "data", "close", "part"
  copy,    \* the copying goroutines
  conn,    \* tcpTunnelConn: writeMu, writeClosed, closeWriteErr, and the once
           \* of the ownedConn around it
  main,    \* relayPair: "first", "idle", "close a", "close b", "wait", "end"
  timer,   \* its timer, and its activity channel
  ended    \* whether the session the stream belongs to has ended

relayVars == <<client, gate, wire, copy, conn, main, timer, ended>>

\* read: chunks read from a side, which sends some and then ends, in order
\* ("fin"; the gateway also by a close frame), broken off ("reset") or, from the
\* gateway, in a frame that is invalid or cut short ("bad"), after which it may
\* still be written to; it may stop reading.  closed: our end of the connection is
\* closed.
Side == [read |-> 0, end |-> "open", stalled |-> FALSE, closed |-> FALSE]

RelayInit ==
  /\ client = Side /\ gate = Side /\ wire = <<>>
  /\ copy = [up |-> "read", down |-> "read"]
  /\ conn = [lock |-> "free", closed |-> FALSE, failed |-> FALSE, once |-> "no"]
  /\ main = "first"
  /\ timer = [age |-> 0, activity |-> FALSE, quiet |-> 0]
  /\ ended = FALSE

Done(d) == copy[d] \in {"ok", "err"}

-----------------------------------------------------------------------------
(* The client, the gateway and the session *)

Changes(side, ends) ==
  {[side EXCEPT !.end = e] : e \in IF side.end = "open" THEN ends ELSE {}}
    \cup {[side EXCEPT !.stalled = TRUE]}

Peers ==
  /\ \/ client' \in Changes(client, {"fin", "reset"}) /\ UNCHANGED <<gate, ended>>
     \/ gate' \in Changes(gate, {"fin", "reset", "bad"}) /\ UNCHANGED <<client, ended>>
     \/ ended' = TRUE /\ UNCHANGED <<client, gate>>
  /\ UNCHANGED <<wire, copy, conn, main, timer>>

-----------------------------------------------------------------------------
(* copyStream: "up" from the client to the gateway, "down" back *)

\* What a read of a chunk leaves behind: a token in the activity channel.
\* quiet: halves since a chunk was last read, until the timer fires.
Active == [timer EXCEPT !.activity = TRUE, !.quiet = IF timer.age < 2 THEN 0 ELSE @]

\* A chunk, once the client sends one.
UpReads ==
  /\ copy.up = "read" /\ client.end = "open" /\ client.read < MaxChunks /\ ~client.closed
  /\ client' = [client EXCEPT !.read = @ + 1]
  /\ copy' = [copy EXCEPT !.up = "write"] /\ timer' = Active
  /\ UNCHANGED <<gate, wire, conn, main, ended>>

UpReadEnds ==
  /\ copy.up = "read"
  /\ \/ client.end = "fin" /\ ~client.closed /\ copy' = [copy EXCEPT !.up = "fin"]
     \/ (client.end = "reset" \/ client.closed) /\ copy' = [copy EXCEPT !.up = "err"]
  /\ UNCHANGED <<client, gate, wire, conn, main, timer, ended>>

\* Write takes writeMu and keeps it while the frame is written.
UpLocks ==
  /\ copy.up \in {"write", "fin"} /\ conn.lock = "free"
  /\ IF copy.up = "write"
     THEN IF conn.closed
          THEN copy' = [copy EXCEPT !.up = "err"] /\ UNCHANGED <<conn, wire>>
          ELSE /\ copy' = [copy EXCEPT !.up = "writing"]
               /\ conn' = [conn EXCEPT !.lock = "up"]
               /\ wire' = Append(wire, "part")
     ELSE IF conn.closed
          THEN copy' = [copy EXCEPT !.up = IF conn.failed THEN "err" ELSE "ok"] /\ UNCHANGED <<conn, wire>>
          ELSE /\ copy' = [copy EXCEPT !.up = "finning"]
               /\ conn' = [conn EXCEPT !.lock = "up", !.closed = TRUE]
               /\ UNCHANGED wire
  /\ UNCHANGED <<client, gate, main, timer, ended>>

Broken == gate.closed \/ gate.end = "reset"

UpWrites ==
  /\ copy.up = "writing" /\ UNCHANGED <<client, main, timer, ended>>
  /\ \/ /\ ~gate.stalled /\ ~Broken
        /\ wire' = [wire EXCEPT ![Len(wire)] = "data"]
        /\ conn' = [conn EXCEPT !.lock = "free"]
        /\ copy' = [copy EXCEPT !.up = "read"] /\ UNCHANGED gate
     \/ /\ Broken
        /\ conn' = [conn EXCEPT !.lock = "free", !.closed = TRUE, !.failed = TRUE]
        /\ gate' = [gate EXCEPT !.closed = TRUE]
        /\ copy' = [copy EXCEPT !.up = "err"] /\ UNCHANGED wire

\* CloseWrite: the close frame, for which there is little time.
UpFins ==
  /\ copy.up = "finning" /\ UNCHANGED <<client, main, timer, ended>>
  /\ \/ /\ ~Broken
        /\ wire' = Append(wire, "close")
        /\ conn' = [conn EXCEPT !.lock = "free"]
        /\ copy' = [copy EXCEPT !.up = "ok"] /\ UNCHANGED gate
     \/ /\ Broken \/ gate.stalled
        /\ conn' = [conn EXCEPT !.lock = "free", !.failed = TRUE]
        /\ gate' = [gate EXCEPT !.closed = TRUE]
        /\ copy' = [copy EXCEPT !.up = "err"] /\ UNCHANGED wire

\* What has been buffered can be read though the connection is closed.
DownReads ==
  /\ copy.down = "read" /\ gate.end = "open" /\ gate.read < MaxChunks
  /\ gate' = [gate EXCEPT !.read = @ + 1]
  /\ copy' = [copy EXCEPT !.down = "write"] /\ timer' = Active
  /\ UNCHANGED <<client, wire, conn, main, ended>>

DownReadEnds ==
  /\ copy.down = "read"
  /\ \/ gate.end = "fin" /\ ~gate.closed /\ copy' = [copy EXCEPT !.down = "fin"]
     \/ (gate.end \in {"reset", "bad"} \/ gate.closed) /\ copy' = [copy EXCEPT !.down = "err"]
  /\ UNCHANGED <<client, gate, wire, conn, main, timer, ended>>

Gone == client.closed \/ client.end = "reset"

DownWrites ==
  /\ copy.down \in {"write", "fin"}
  /\ \/ copy.down = "write" /\ ~client.stalled /\ ~Gone /\ copy' = [copy EXCEPT !.down = "read"]
     \/ copy.down = "fin" /\ ~Gone /\ copy' = [copy EXCEPT !.down = "ok"]
     \/ Gone /\ copy' = [copy EXCEPT !.down = "err"]
  /\ UNCHANGED <<client, gate, wire, conn, main, timer, ended>>

-----------------------------------------------------------------------------
(* ownedConn.Close and tcpTunnelConn.Close *)

\* Mutant of CloseTries: the close frame is sent whoever is writing.
CloseForces ==
  IF conn.closed
  THEN [conn EXCEPT !.once = "done"]
  ELSE [conn EXCEPT !.once = "frame", !.lock = "close", !.closed = TRUE]

\* TryLock: only a stream nobody is writing to is closed with a close frame.
CloseTries ==
  IF conn.lock # "free" \/ conn.closed
  THEN [conn EXCEPT !.once = "done"]
  ELSE [conn EXCEPT !.once = "frame", !.lock = "close", !.closed = TRUE]

\* Mutant of CloseBegins: Close waits for the writer.
CloseWaits ==
  /\ conn.once = "no" /\ (main = "close b" \/ ended) /\ conn.lock = "free"
  /\ conn' = CloseTries
  /\ gate' = [gate EXCEPT !.closed = @ \/ conn'.once = "done"]
  /\ UNCHANGED <<client, wire, copy, main, timer, ended>>

\* By the relay, or by the end of the session.
CloseBegins ==
  /\ conn.once = "no" /\ (main = "close b" \/ ended)
  /\ conn' = CloseTries
  /\ gate' = [gate EXCEPT !.closed = @ \/ conn'.once = "done"]
  /\ UNCHANGED <<client, wire, copy, main, timer, ended>>

CloseFrames ==
  /\ conn.once = "frame"
  /\ \/ ~Broken /\ wire' = Append(wire, "close") /\ conn' = [conn EXCEPT !.once = "done", !.lock = "free"]
     \/ /\ Broken \/ gate.stalled
        /\ conn' = [conn EXCEPT !.once = "done", !.lock = "free", !.failed = TRUE]
        /\ UNCHANGED wire
  /\ gate' = [gate EXCEPT !.closed = TRUE]
  /\ UNCHANGED <<client, copy, main, timer, ended>>

-----------------------------------------------------------------------------
(* relayPair *)

\* The first direction is over.  In order, and the timeout of the other one
\* begins, without what was active before; otherwise both are closed.
FirstDone ==
  /\ main = "first"
  /\ \E d \in {"up", "down"} :
       /\ Done(d)
       /\ main' = IF copy[d] = "err" THEN "close a" ELSE "idle"
       /\ timer' = IF copy[d] = "err" THEN timer
                   ELSE [age |-> 0, activity |-> FALSE, quiet |-> 0]
  /\ UNCHANGED <<client, gate, wire, copy, conn, ended>>

\* Mutant of Activity: the timer runs on.
ActivityIgnored ==
  /\ main = "idle" /\ timer.activity
  /\ timer' = [timer EXCEPT !.activity = FALSE]
  /\ UNCHANGED <<client, gate, wire, copy, conn, main, ended>>

Activity ==
  /\ main = "idle" /\ timer.activity
  /\ timer' = [timer EXCEPT !.activity = FALSE, !.age = 0]
  /\ UNCHANGED <<client, gate, wire, copy, conn, main, ended>>

SecondDone ==
  /\ main = "idle" /\ Done("up") /\ Done("down")
  /\ main' = "close a"
  /\ UNCHANGED <<client, gate, wire, copy, conn, timer, ended>>

TimesOut ==
  /\ main = "idle" /\ timer.age = 2
  /\ main' = "close a"
  /\ UNCHANGED <<client, gate, wire, copy, conn, timer, ended>>

ClosesA ==
  /\ main = "close a"
  /\ main' = "close b" /\ client' = [client EXCEPT !.closed = TRUE]
  /\ UNCHANGED <<gate, wire, copy, conn, timer, ended>>

ClosedB ==
  /\ main = "close b" /\ conn.once = "done"
  /\ main' = "wait"
  /\ UNCHANGED <<client, gate, wire, copy, conn, timer, ended>>

Waits ==
  /\ main = "wait" /\ Done("up") /\ Done("down")
  /\ main' = "end"
  /\ UNCHANGED <<client, gate, wire, copy, conn, timer, ended>>

\* Half an idle timeout passes.  The relay takes an activity from its
\* channel before the next half begins.
Tick ==
  /\ main = "idle" /\ timer.age < 2 /\ ~timer.activity
  /\ timer' = [timer EXCEPT !.age = @ + 1, !.quiet = IF @ < 2 THEN @ + 1 ELSE 2]
  /\ UNCHANGED <<client, gate, wire, copy, conn, main, ended>>

Reads     == UpReads \/ DownReads
Uploads   == UpReadEnds \/ UpLocks \/ UpWrites \/ UpFins
Downloads == DownReadEnds \/ DownWrites
Closing   == CloseBegins \/ CloseFrames
Relays    == FirstDone \/ Activity \/ SecondDone \/ TimesOut \/ ClosesA \/ ClosedB \/ Waits

RelayNext == Peers \/ Reads \/ Uploads \/ Downloads \/ Closing \/ Relays \/ Tick

-----------------------------------------------------------------------------
(* Properties *)

RelayTypeOK ==
  /\ \A s \in {client, gate} :
       /\ s.read \in 0..MaxChunks
       /\ s.end \in {"open", "fin", "reset", "bad"} /\ s.stalled \in BOOLEAN /\ s.closed \in BOOLEAN
  /\ copy.up \in {"read", "write", "writing", "fin", "finning", "ok", "err"}
  /\ copy.down \in {"read", "write", "fin", "ok", "err"}
  /\ conn.lock \in {"free", "up", "close"} /\ conn.once \in {"no", "frame", "done"}
  /\ main \in {"first", "idle", "close a", "close b", "wait", "end"}
  /\ timer.age \in 0..2 /\ timer.quiet \in 0..2

\* The stream the gateway reads is whole frames: nothing follows a close frame
\* or a frame that was broken off, and an upload that ends in order has been
\* sent in full before its close frame.
WireWellFormed ==
  /\ RelayTypeOK
  /\ \A i \in DOMAIN wire : i < Len(wire) => wire[i] = "data"
  /\ copy.up = "ok" /\ ~conn.failed /\ conn.once = "no" =>
       Len(wire) = client.read + 1 /\ wire[Len(wire)] = "close"

\* The direction that is still open is cut for idleness only when nothing has
\* been read from it for a whole timeout.
IdleIsIdle ==
  [][main = "idle" /\ main' = "close a" =>
       timer.quiet = 2 \/ (Done("up") /\ Done("down"))]_main

\* Once a direction has ended the relay ends, though a peer may never send,
\* read or close again; once the session has, unless the client reads nothing.
RelayEnds ==
  /\ Done("up") \/ Done("down") ~> main = "end"
  /\ ended ~> main = "end" \/ client.stalled

=============================================================================
