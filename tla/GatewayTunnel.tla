---------------------------- MODULE GatewayTunnel ----------------------------
(***************************************************************************)
(* One live gateway connection (internal/tunnel/tunnel.go, Tunnel): many   *)
(* callers ask for per-connection authorisation or send data over it, one  *)
(* reader hands each reply to the request that waits for it, one keeper    *)
(* sends heartbeats and watches for silence, and whoever finds the         *)
(* connection broken first runs markDead.                                  *)
(*                                                                         *)
(* A channel of RequestAuth is its serial number; the gateway's reply      *)
(* carries the identifier it echoes (conntrackHash) and, as a history      *)
(* field, the request it was computed for.                                 *)
(***************************************************************************)
EXTENDS Naturals, Sequences

CONSTANTS Callers,      \* goroutines that authorise flows and send packets
          MaxRequests,  \* bound: RequestAuth calls of a behaviour
          MaxDown,      \* bound: auth replies in flight towards the reader
          Reader, Keeper, Closer,   \* readLoop, keepAlive, the manager's Close
          Free, Empty, Died, Gone, Nobody

ASSUME TunnelAssumption ==
    /\ MaxRequests \in Nat \ {0} /\ MaxDown \in Nat \ {0}
    /\ Reader \notin {Keeper, Closer, Free} /\ Keeper \notin {Closer, Free}
    /\ Closer # Free /\ {Reader, Keeper, Closer, Free} \cap Callers = {}
    /\ Empty \notin {Died, Gone, Nobody} /\ Died \notin {Gone, Nobody}
    /\ Gone # Nobody
    /\ {Empty, Died, Gone, Nobody} \cap (1 .. MaxRequests) = {}

Serials == 1 .. MaxRequests
Writers == Callers \cup {Keeper}
Actors  == Writers \cup {Reader, Closer}

VARIABLES
    authCounter,  \* Tunnel.authCounter
    serial,       \* RequestAuth calls made so far: names their channels
    pending,      \* Tunnel.pending: identifier -> channel
    slot,         \* channel -> the one buffered result
    gate,         \* holder of Tunnel.writeGate
    wire,         \* what the byte stream to the gateway looks like
    asked,        \* requests the gateway has received whole
    down,         \* auth replies on their way to the reader
    silent,       \* the gateway has stopped sending for good
    quiet,        \* lastRecv is older than livenessLimit
    once,         \* progress of closeOnce.Do in markDead
    taken,        \* channels markDead still has to fail
    held,         \* the result the reader has claimed a channel for
    at,           \* control point of every actor
    call,         \* the caller's operation: its identifier and channel
    outcome       \* what the caller's RequestAuth is about to return

vars == <<authCounter, serial, pending, slot, gate, wire, asked, down, silent,
          quiet, once, taken, held, at, call, outcome>>
deathVars == <<once, taken>>
peerVars  == <<asked, down, silent, quiet>>
idVars    == <<authCounter, serial, call>>

Data == [id |-> 0, ch |-> Nobody]       \* an operation that is SendData
Dead == once # "open"                   \* Tunnel.dead is closed
Hung == once \in {"hung", "failing", "done"}  \* conn.Close was called

Init ==
    /\ authCounter = 0 /\ serial = 0
    /\ pending = <<>> /\ slot = [s \in Serials |-> Empty]
    /\ gate = Free /\ wire = "clean" /\ asked = {} /\ down = <<>>
    /\ silent = FALSE /\ quiet = FALSE
    /\ once = "open" /\ taken = {} /\ held = Nobody
    /\ at = [a \in Actors |-> CASE a = Reader -> "read" [] a = Keeper -> "select"
                                [] OTHER -> "idle"]
    /\ call = [c \in Callers |-> Data]
    /\ outcome = [c \in Callers |-> Nobody]

Move(a, p) == at' = [at EXCEPT ![a] = p]
Asks(a)    == a \in Callers /\ call[a] # Data

-----------------------------------------------------------------------------
(* RequestAuth, up to the write; SendData and the heartbeat join at "gate". *)

\* Mutant of NextAuthID: the identifier does not change from call to call.
NextAuthIDStuck == 1

NextAuthID == authCounter + 1

StartAuth(c) ==
    /\ at[c] = "idle" /\ serial < MaxRequests
    /\ authCounter' = NextAuthID /\ serial' = serial + 1
    /\ call' = [call EXCEPT ![c] = [id |-> authCounter', ch |-> serial']]
    /\ Move(c, "register")
    /\ UNCHANGED <<pending, slot, gate, wire, held, outcome, peerVars, deathVars>>

\* The entry is installed before anything is written, and also when the
\* tunnel is already dead.
Register(c) ==
    /\ at[c] = "register"
    /\ pending' = [i \in DOMAIN pending \cup {call[c].id} |->
                      IF i = call[c].id THEN call[c].ch ELSE pending[i]]
    /\ Move(c, "gate")
    /\ UNCHANGED <<slot, gate, wire, held, outcome, idVars, peerVars, deathVars>>

StartData(c) ==
    /\ at[c] = "idle" /\ Move(c, "gate")
    /\ UNCHANGED <<pending, slot, gate, wire, held, outcome, idVars, peerVars, deathVars>>

Beat ==
    /\ at[Keeper] = "select" /\ Move(Keeper, "gate")
    /\ UNCHANGED <<pending, slot, gate, wire, held, outcome, idVars, peerVars, deathVars>>

-----------------------------------------------------------------------------
(* writeFrame: the gate, the checks under it, the write.                    *)

\* Mutant of AfterFailure: RequestAuth tries again on the same tunnel.
AfterFailureRetries(w) ==
    CASE Asks(w)    -> "gate"
      [] w = Keeper -> "kill"
      [] OTHER      -> "idle"

\* Where an operation goes when its write failed: RequestAuth returns the error
\* through its deferred delete, SendData returns, keepAlive calls markDead.
AfterFailure(w) ==
    CASE Asks(w)    -> "leave"
      [] w = Keeper -> "kill"
      [] OTHER      -> "idle"

AfterWrite(w) ==
    CASE Asks(w)    -> "wait"
      [] w = Keeper -> "select"
      [] OTHER      -> "idle"

Fails(w, why) ==
    /\ Move(w, AfterFailure(w))
    /\ outcome' = IF Asks(w) THEN [outcome EXCEPT ![w] = why] ELSE outcome

Acquire(w) ==
    /\ at[w] = "gate" /\ gate = Free
    /\ gate' = w /\ Move(w, "held")
    /\ UNCHANGED <<pending, slot, wire, held, outcome, idVars, peerVars, deathVars>>

\* acquireWrite returns because the tunnel died while the gate was taken.
GateDies(w) ==
    /\ at[w] = "gate" /\ Dead
    /\ Fails(w, Died)
    /\ UNCHANGED <<pending, slot, gate, wire, held, idVars, peerVars, deathVars>>

\* The context ends or the deadline passes before the gate is free, or after
\* it but before the first byte is written: the tunnel survives.
WriteExpires(w) ==
    /\ at[w] \in {"gate", "held"}
    /\ gate' = IF gate = w THEN Free ELSE gate
    /\ Fails(w, Gone)
    /\ UNCHANGED <<pending, slot, wire, held, idVars, peerVars, deathVars>>

CheckAlive(w) ==
    /\ at[w] = "held"
    /\ IF Dead THEN gate' = Free /\ Fails(w, Died)
               ELSE Move(w, "write") /\ UNCHANGED <<gate, outcome>>
    /\ UNCHANGED <<pending, slot, wire, held, idVars, peerVars, deathVars>>

\* A byte after a partial frame can no longer be framed by the gateway.
Puts(next) == wire' = IF wire = "clean" THEN next ELSE "garbled"

\* Mutant of WriteWhole: a heartbeat sent counts as a sign of life.
WriteWholeIsLife(w) ==
    /\ at[w] = "write" /\ ~Hung
    /\ Puts("clean")
    /\ asked' = IF Asks(w) THEN asked \cup {call[w]} ELSE asked
    /\ quiet' = (quiet /\ w # Keeper)
    /\ gate' = Free /\ Move(w, AfterWrite(w))
    /\ UNCHANGED <<pending, slot, held, outcome, down, silent, idVars, deathVars>>

WriteWhole(w) ==
    /\ at[w] = "write" /\ ~Hung
    /\ Puts("clean")
    /\ asked' = IF Asks(w) THEN asked \cup {call[w]} ELSE asked
    /\ gate' = Free /\ Move(w, AfterWrite(w))
    /\ UNCHANGED <<pending, slot, held, outcome, down, silent, quiet, idVars, deathVars>>

\* Mutant of WriteFails: the gate is freed before markDead.
WriteFailsUngated(w) ==
    /\ at[w] = "write"
    /\ wire' \in {wire, IF Hung THEN wire ELSE IF wire = "clean" THEN "torn" ELSE "garbled"}
    /\ gate' = Free /\ Move(w, "kill")
    /\ UNCHANGED <<pending, slot, held, outcome, idVars, peerVars, deathVars>>

\* An error, a short write or a stall past the deadline: the caller runs
\* markDead and keeps the gate until that returns.
WriteFails(w) ==
    /\ at[w] = "write"
    /\ \/ UNCHANGED wire
       \/ ~Hung /\ Puts("torn")
    /\ Move(w, "kill")
    /\ UNCHANGED <<pending, slot, gate, held, outcome, idVars, peerVars, deathVars>>

-----------------------------------------------------------------------------
(* markDead, run once; later callers wait inside closeOnce.Do.              *)

Kill(a) ==
    /\ at[a] = "kill" /\ once = "open"
    /\ once' = "closing" /\ Move(a, "killing")
    /\ UNCHANGED <<pending, slot, gate, wire, held, outcome, taken, idVars, peerVars>>

HangUp(a) ==
    /\ at[a] = "killing" /\ once = "closing"
    /\ once' = "hung"
    /\ UNCHANGED <<pending, slot, gate, wire, held, outcome, taken, at, idVars, peerVars>>

\* Mutant of TakePending: the entries stay in the map.
TakePendingKeeps(a) ==
    /\ at[a] = "killing" /\ once = "hung"
    /\ taken' = {pending[i] : i \in DOMAIN pending}
    /\ once' = "failing"
    /\ UNCHANGED <<pending, slot, gate, wire, held, outcome, at, idVars, peerVars>>

\* The map is replaced, so a request that registers from now on is never in it.
TakePending(a) ==
    /\ at[a] = "killing" /\ once = "hung"
    /\ taken' = {pending[i] : i \in DOMAIN pending}
    /\ pending' = <<>>
    /\ once' = "failing"
    /\ UNCHANGED <<slot, gate, wire, held, outcome, at, idVars, peerVars>>

FailOne(a) ==
    /\ at[a] = "killing" /\ once = "failing"
    /\ \E ch \in taken :
        /\ taken' = taken \ {ch}
        /\ slot' = IF slot[ch] = Empty THEN [slot EXCEPT ![ch] = Died] ELSE slot
    /\ UNCHANGED <<pending, gate, wire, held, outcome, once, at, idVars, peerVars>>

\* What follows markDead in each of its callers.
AfterKill(a) ==
    CASE a \in Callers -> AfterFailure(a)
      [] OTHER         -> "done"

Killed(a) ==
    /\ \/ at[a] = "killing" /\ once = "failing" /\ taken = {} /\ once' = "done"
       \/ at[a] = "kill" /\ once = "done" /\ once' = once
    /\ gate' = IF gate = a THEN Free ELSE gate
    /\ Move(a, AfterKill(a))
    /\ outcome' = IF Asks(a) THEN [outcome EXCEPT ![a] = Gone] ELSE outcome
    /\ UNCHANGED <<pending, slot, wire, held, taken, idVars, peerVars>>

-----------------------------------------------------------------------------
(* RequestAuth's select and its deferred delete.                            *)

Returns(c, r) == outcome' = [outcome EXCEPT ![c] = r] /\ Move(c, "leave")

Answered(c) ==
    /\ at[c] = "wait" /\ slot[call[c].ch] # Empty
    /\ Returns(c, slot[call[c].ch])
    /\ slot' = [slot EXCEPT ![call[c].ch] = Empty]
    /\ UNCHANGED <<pending, gate, wire, held, idVars, peerVars, deathVars>>

Abandoned(c) ==
    /\ at[c] = "wait" /\ Dead
    /\ Returns(c, Died)
    /\ UNCHANGED <<pending, slot, gate, wire, held, idVars, peerVars, deathVars>>

\* The timer fires or the context ends.
Expires(c) ==
    /\ at[c] = "wait"
    /\ Returns(c, Gone)
    /\ UNCHANGED <<pending, slot, gate, wire, held, idVars, peerVars, deathVars>>

Leave(c) ==
    /\ at[c] = "leave"
    /\ pending' = [i \in DOMAIN pending \ {call[c].id} |-> pending[i]]
    /\ call' = [call EXCEPT ![c] = Data]
    /\ outcome' = [outcome EXCEPT ![c] = Nobody]
    /\ Move(c, "idle")
    /\ UNCHANGED <<authCounter, serial, slot, gate, wire, held, peerVars, deathVars>>

-----------------------------------------------------------------------------
(* The gateway, which answers late, twice and in any order, or falls silent. *)

Reply ==
    /\ ~silent /\ ~Hung /\ Len(down) < MaxDown
    /\ \E r \in asked : down' = Append(down, r)
    /\ UNCHANGED <<pending, slot, gate, wire, held, outcome, asked, silent, quiet,
                   at, idVars, deathVars>>

FallsSilent ==
    /\ ~silent /\ silent' = TRUE
    /\ UNCHANGED <<pending, slot, gate, wire, held, outcome, asked, down, quiet,
                   at, idVars, deathVars>>

TimePasses ==
    /\ ~quiet /\ quiet' = TRUE
    /\ UNCHANGED <<pending, slot, gate, wire, held, outcome, asked, down, silent,
                   at, idVars, deathVars>>

-----------------------------------------------------------------------------
(* readLoop and handleAuthResponse: the entry is claimed under pendingMu and *)
(* the result is sent to its channel afterwards.                             *)

\* Mutant of ReadAuth: a reply nobody waits for is delivered all the same.
ReadAuthUnclaimed ==
    /\ at[Reader] = "read" /\ down # <<>>
    /\ down' = Tail(down) /\ quiet' = FALSE
    /\ LET r == Head(down) IN
       /\ held' = [ch |-> IF r.id \in DOMAIN pending THEN pending[r.id] ELSE Nobody,
                   for |-> r.ch]
       /\ pending' = [i \in DOMAIN pending \ {r.id} |-> pending[i]]
       /\ Move(Reader, "deliver")
    /\ UNCHANGED <<slot, gate, wire, outcome, asked, silent, idVars, deathVars>>

ReadAuth ==
    /\ at[Reader] = "read" /\ down # <<>>
    /\ down' = Tail(down) /\ quiet' = FALSE
    /\ LET r == Head(down) IN
       \/ /\ r.id \in DOMAIN pending
          /\ held' = [ch |-> pending[r.id], for |-> r.ch]
          /\ pending' = [i \in DOMAIN pending \ {r.id} |-> pending[i]]
          /\ Move(Reader, "deliver")
       \/ /\ r.id \notin DOMAIN pending
          /\ UNCHANGED <<held, pending, at>>
    /\ UNCHANGED <<slot, gate, wire, outcome, asked, silent, idVars, deathVars>>

\* Sending to a buffered channel blocks while the slot is taken.
Deliver ==
    /\ at[Reader] = "deliver" /\ slot[held.ch] = Empty
    /\ slot' = [slot EXCEPT ![held.ch] = held.for]
    /\ held' = Nobody /\ Move(Reader, "read")
    /\ UNCHANGED <<pending, gate, wire, outcome, idVars, peerVars, deathVars>>

\* Data frames and heartbeat replies only refresh lastRecv here.
ReadOther ==
    /\ at[Reader] = "read" /\ ~silent /\ ~Hung /\ quiet
    /\ quiet' = FALSE
    /\ UNCHANGED <<pending, slot, gate, wire, held, outcome, asked, down, silent,
                   at, idVars, deathVars>>

\* The connection was closed here or by the gateway, or a frame is malformed.
ReadEnds ==
    /\ at[Reader] = "read"
    /\ Move(Reader, "kill")
    /\ UNCHANGED <<pending, slot, gate, wire, held, outcome, idVars, peerVars, deathVars>>

-----------------------------------------------------------------------------
(* keepAlive's watchdog and exit, and the manager's Close.                  *)

Watch ==
    /\ at[Keeper] = "select" /\ quiet
    /\ Move(Keeper, "kill")
    /\ UNCHANGED <<pending, slot, gate, wire, held, outcome, idVars, peerVars, deathVars>>

KeeperLeaves ==
    /\ at[Keeper] = "select" /\ Dead
    /\ Move(Keeper, "done")
    /\ UNCHANGED <<pending, slot, gate, wire, held, outcome, idVars, peerVars, deathVars>>

Close ==
    /\ at[Closer] = "idle"
    /\ Move(Closer, "kill")
    /\ UNCHANGED <<pending, slot, gate, wire, held, outcome, idVars, peerVars, deathVars>>

-----------------------------------------------------------------------------
Writes(w)   == Acquire(w) \/ GateDies(w) \/ CheckAlive(w) \/ WriteWhole(w) \/ WriteFails(w)
MarkDead(a) == Kill(a) \/ HangUp(a) \/ TakePending(a) \/ FailOne(a) \/ Killed(a)

Next ==
    \/ \E c \in Callers : \/ StartAuth(c) \/ Register(c) \/ StartData(c)
                          \/ Answered(c) \/ Abandoned(c) \/ Expires(c) \/ Leave(c)
    \/ \E w \in Writers : Writes(w) \/ WriteExpires(w)
    \/ \E a \in Actors : MarkDead(a)
    \/ Beat \/ Watch \/ KeeperLeaves \/ Close
    \/ ReadAuth \/ Deliver \/ ReadOther \/ ReadEnds
    \/ Reply \/ FallsSilent \/ TimePasses

Spec == Init /\ [][Next]_vars

\* Goroutines run and a write ends (writeTimeout). A caller's own timer and
\* context are not assumed: only the heartbeat always has a deadline. The two
\* tickers of keepAlive are both served again and again.
FairSpec ==
    /\ Spec
    /\ \A c \in Callers : /\ WF_vars(Register(c)) /\ WF_vars(Leave(c))
                          /\ WF_vars(Answered(c) \/ Abandoned(c))
    /\ \A w \in Writers : WF_vars(Writes(w))
    /\ \A a \in Actors : WF_vars(MarkDead(a))
    /\ WF_vars(WriteExpires(Keeper))
    /\ WF_vars(ReadAuth) /\ WF_vars(Deliver)
    /\ WF_vars(Hung /\ ReadEnds)
    /\ WF_vars(KeeperLeaves) /\ SF_vars(Watch)
    /\ WF_vars(TimePasses)

-----------------------------------------------------------------------------
Results == Serials \cup {Empty, Died}

\* Every variable has its type; a claimed result has a channel to go to.
TypeOK ==
    /\ authCounter \in 0 .. MaxRequests /\ serial \in 0 .. MaxRequests
    /\ DOMAIN pending \subseteq Serials
    /\ \A i \in DOMAIN pending : pending[i] \in Serials
    /\ slot \in [Serials -> Results]
    /\ gate \in Writers \cup {Free}
    /\ wire \in {"clean", "torn", "garbled"}
    /\ asked \subseteq [id : Serials, ch : Serials]
    /\ Len(down) <= MaxDown /\ \A i \in DOMAIN down : down[i] \in asked
    /\ silent \in BOOLEAN /\ quiet \in BOOLEAN
    /\ once \in {"open", "closing", "hung", "failing", "done"}
    /\ taken \subseteq Serials
    /\ at[Reader] = "deliver" => held \in [ch : Serials, for : Serials]
    /\ call \in [Callers -> {Data} \cup [id : Serials, ch : Serials]]
    /\ outcome \in [Callers -> Serials \cup {Died, Gone, Nobody}]

\* The reader never waits on a full slot: whatever markDead, a duplicate reply
\* or a late one does, the channel of a claimed entry is empty, so one slow
\* request can not stop the multiplexed stream (tunnel.go:582-595).
DeliveryNeverBlocks == at[Reader] = "deliver" => slot[held.ch] = Empty

\* A reply that RequestAuth returns is the gateway's answer to that very call,
\* also when an earlier call of the same flow timed out and its answer is late.
OwnReply ==
    \A c \in Callers :
        outcome[c] \in Serials => outcome[c] = call[c].ch

\* Nothing is ever written after a partial frame: the writer that failed holds
\* the gate until the tunnel is dead (tunnel.go:446-449).
FramesWhole == wire # "garbled"

\* Once the tunnel is dead every operation on it returns without waiting for
\* its own timer or context, those that registered after the map was taken
\* included.
DeadReturns ==
    \A c \in Callers : (Dead /\ at[c] # "idle") ~> at[c] = "idle"

\* A gateway that stops sending is found out, even while writers stall.
SilentDies == silent ~> Dead

\* The stream of the tunnel stays sound: no reader is stopped and no frame torn.
StreamSound == TypeOK /\ DeliveryNeverBlocks /\ FramesWhole

\* Nobody waits on a tunnel that is dead or silent.
NobodyHangs == DeadReturns /\ SilentDies

=============================================================================
