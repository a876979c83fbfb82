-------------------------- MODULE GatewayTunnelProofs --------------------------
(***************************************************************************)
(* Theorems about GatewayTunnel for any set of callers, any number of       *)
(* requests and any number of replies in flight.                            *)
(***************************************************************************)
EXTENDS GatewayTunnel, SequenceTheorems, TLAPS

-----------------------------------------------------------------------------
(* The inductive invariant *)

Request == [id : Serials, ch : Serials]
Points  == {"idle", "register", "gate", "held", "write", "wait", "leave",
            "kill", "killing", "done", "read", "deliver", "select"}
Onces   == {"open", "closing", "hung", "failing", "done"}

\* The types of TypeOK, with those of the control points and of the queue.
Types ==
  /\ authCounter \in 0 .. MaxRequests /\ serial \in 0 .. MaxRequests
  /\ DOMAIN pending \subseteq Serials
  /\ slot \in [Serials -> Results]
  /\ gate \in Writers \cup {Free}
  /\ wire \in {"clean", "torn", "garbled"}
  /\ asked \subseteq Request
  /\ down \in Seq(asked) /\ Len(down) <= MaxDown
  /\ silent \in BOOLEAN /\ quiet \in BOOLEAN
  /\ once \in Onces
  /\ taken \subseteq Serials
  /\ held \in {Nobody} \cup [ch : Serials, for : Serials]
  /\ at \in [Actors -> Points]
  /\ call \in [Callers -> {Data} \cup Request]
  /\ outcome \in [Callers -> Serials \cup {Died, Gone, Nobody}]

\* Identifiers are as unique as the calls they were given to, so that an entry
\* of the map, a request, a claimed reply and a result each name one call.
PairsInv ==
  /\ authCounter = serial
  /\ \A c \in Callers :
       call[c] # Data => call[c].id = call[c].ch /\ call[c].ch <= serial
  /\ \A i \in DOMAIN pending : pending[i] = i
  /\ \A r \in asked : r.id = r.ch
  /\ at[Reader] = "deliver" =>
       held \in [ch : Serials, for : Serials] /\ held.ch = held.for
  /\ \A s \in Serials : slot[s] \in {Empty, Died, s}
  /\ \A c \in Callers :
       outcome[c] \in Serials => at[c] = "leave" /\ outcome[c] = call[c].ch
  /\ \A c \in Callers :
       at[c] \in {"register", "wait", "leave"} => call[c] # Data

\* s has been handed to a RequestAuth that has registered it.
Known(s) ==
  s <= serial /\ \A c \in Callers :
                   at[c] = "register" => call[c].ch # s

Held(s) == at[Reader] = "deliver" /\ held.ch = s

\* Two callers never hold the same channel.
ApartInv ==
  \A c, d \in Callers :
    c # d /\ call[c] # Data /\ call[d] # Data => call[c].ch # call[d].ch

\* A registered channel is in one place at a time: in the map, taken by
\* markDead, claimed by the reader, or filled.  An unregistered one is in none.
PlaceInv ==
  /\ \A i \in DOMAIN pending :
       Known(i) /\ i \notin taken /\ ~Held(i) /\ slot[i] = Empty
  /\ \A s \in taken : Known(s) /\ ~Held(s) /\ slot[s] = Empty
  /\ \A s \in Serials : Held(s) => Known(s) /\ slot[s] = Empty
  /\ \A s \in Serials : slot[s] # Empty => Known(s)

\* The gate names its holder, who frees it only by leaving; a torn frame is the
\* last on the wire, because the writer that tore it keeps the gate until the
\* connection is closed.
GateInv ==
  /\ \A w \in Writers : at[w] \in {"held", "write"} => gate = w
  /\ \A w \in Writers :
       gate = w => at[w] \in {"held", "write", "kill", "killing"}
  /\ wire # "garbled"
  /\ wire = "torn" /\ ~Hung =>
       gate \in Writers /\ at[gate] \in {"kill", "killing"}
  /\ \A a \in Actors : at[a] = "killing" => Dead

TunnelInv == Types /\ PairsInv /\ ApartInv /\ PlaceInv /\ GateInv

-----------------------------------------------------------------------------
(* Initial states, and the types *)

LEMMA TunnelInit == Init => TunnelInv
<1> SUFFICES ASSUME Init PROVE TunnelInv
  OBVIOUS
<1> USE TunnelAssumption DEF Init, Serials
<1>a. /\ DOMAIN pending = {} /\ asked = {} /\ taken = {} /\ held = Nobody
      /\ pending = <<>>
  OBVIOUS
<1>b. /\ \A c \in Callers : at[c] = "idle" /\ call[c] = Data
      /\ at[Reader] = "read"
      /\ \A a \in Actors : at[a] \in {"idle", "read", "select"}
  BY DEF Actors, Writers
<1>c. at \in [Actors -> Points]
  BY DEF Points
<1>1. /\ DOMAIN pending = {} /\ asked = {} /\ taken = {} /\ held = Nobody
      /\ \A c \in Callers : at[c] = "idle" /\ call[c] = Data
      /\ at[Reader] = "read" /\ at \in [Actors -> Points]
      /\ \A a \in Actors : at[a] \in {"idle", "read", "select"}
  BY <1>a, <1>b, <1>c
<1>2. Types
  <2>1. authCounter \in 0 .. MaxRequests /\ serial \in 0 .. MaxRequests
    OBVIOUS
  <2>2. slot \in [Serials -> Results]
    BY DEF Results
  <2>3. down \in Seq(asked) /\ Len(down) <= MaxDown
    OBVIOUS
  <2>4. gate \in Writers \cup {Free} /\ wire = "clean" /\ once \in Onces
    BY DEF Onces
  <2>5. /\ call \in [Callers -> {Data} \cup Request]
        /\ outcome \in [Callers -> Serials \cup {Died, Gone, Nobody}]
    OBVIOUS
  <2> QED
    BY <1>1, <2>1, <2>2, <2>3, <2>4, <2>5 DEF Types
<1>3. PairsInv
  BY <1>1 DEF PairsInv
<1>4. ApartInv /\ PlaceInv
  BY <1>1 DEF ApartInv, PlaceInv, Held
<1>5. GateInv
  BY <1>1 DEF GateInv, Writers, Actors
<1> QED
  BY <1>2, <1>3, <1>4, <1>5 DEF TunnelInv

\* Where the operations go next.
LEMMA PointsNext ==
  /\ \A w \in Writers : AfterFailure(w) \in {"leave", "kill", "idle"}
  /\ \A w \in Writers : AfterWrite(w) \in {"wait", "select", "idle"}
  /\ \A a \in Actors : AfterKill(a) \in {"leave", "idle", "done"}
  /\ \A a \in Actors, l \in Points :
       at \in [Actors -> Points] /\ Move(a, l) => at' \in [Actors -> Points]
  BY TunnelAssumption DEF AfterFailure, AfterWrite, AfterKill, Actors, Writers, Move

LEMMA TypesCall ==
  ASSUME Types, PairsInv, NEW c \in Callers,
         \/ StartAuth(c) \/ Register(c) \/ StartData(c) \/ Answered(c)
         \/ Abandoned(c) \/ Expires(c) \/ Leave(c)
  PROVE  Types'
<1> USE DEF Types, Move, Points, Actors, Writers, peerVars, deathVars, idVars
<1>1. CASE StartAuth(c)
  <2> DEFINE new == [id |-> authCounter', ch |-> serial']
  <2>1. authCounter' \in Serials /\ serial' \in Serials
    BY <1>1, TunnelAssumption DEF StartAuth, NextAuthID, Serials, PairsInv
  <2>2. new \in Request /\ call' = [call EXCEPT ![c] = new]
    BY <1>1, <2>1 DEF StartAuth, Request
  <2>3. authCounter' \in 0 .. MaxRequests /\ serial' \in 0 .. MaxRequests
    BY <2>1, TunnelAssumption DEF Serials
  <2>4. call' \in [Callers -> {Data} \cup Request]
    BY <2>2
  <2> QED
    BY <1>1, <2>3, <2>4 DEF StartAuth
<1>2. CASE Register(c)
  <2>1. call[c].id \in Serials
    BY <1>2 DEF Register, PairsInv, Request
  <2> QED
    BY <1>2, <2>1 DEF Register
<1>3. CASE StartData(c)
  BY <1>3 DEF StartData
<1>4. CASE Abandoned(c) \/ Expires(c)
  BY <1>4 DEF Abandoned, Expires, Returns
<1>6. CASE Answered(c)
  <2>1. call[c].ch \in Serials
    BY <1>6 DEF Answered, PairsInv, Request
  <2>2. slot[call[c].ch] \in Serials \cup {Died}
    BY <1>6, <2>1 DEF Answered, Results
  <2>3. slot' \in [Serials -> Results]
    BY <1>6 DEF Answered, Results
  <2> QED
    BY <1>6, <2>2, <2>3 DEF Answered, Returns
<1>5. CASE Leave(c)
  BY <1>5 DEF Leave
<1> QED
  BY <1>1, <1>2, <1>3, <1>4, <1>5, <1>6

LEMMA TypesWrite ==
  ASSUME Types, PairsInv, NEW w \in Writers, Writes(w) \/ WriteExpires(w)
  PROVE  Types'
<1>1. AfterFailure(w) \in Points /\ AfterWrite(w) \in Points /\ w \in Actors
  BY PointsNext DEF Points, Actors
<1> HIDE DEF AfterFailure, AfterWrite
<1> USE DEF Types, Points, Move, peerVars, deathVars, idVars
<1>2. CASE Acquire(w)
  BY <1>1, <1>2 DEF Acquire
<1>3. CASE GateDies(w) \/ WriteExpires(w)
  BY <1>1, <1>3 DEF GateDies, WriteExpires, Fails
<1>4. CASE CheckAlive(w)
  BY <1>1, <1>4 DEF CheckAlive, Fails
<1>5. CASE WriteWhole(w)
  <2>1. asked' \subseteq Request /\ asked \subseteq asked'
    BY <1>5 DEF WriteWhole, Asks, Request
  <2>2. down' \in Seq(asked')
    BY <1>5, <2>1 DEF WriteWhole
  <2> QED
    BY <1>1, <1>5, <2>1, <2>2 DEF WriteWhole, Puts
<1>6. CASE WriteFails(w)
  BY <1>1, <1>6 DEF WriteFails, Puts
<1> QED
  BY <1>2, <1>3, <1>4, <1>5, <1>6 DEF Writes

LEMMA TypesDeath ==
  ASSUME Types, PairsInv, NEW a \in Actors, MarkDead(a)
  PROVE  Types'
<1> USE DEF Types, Move, Onces, peerVars, deathVars, idVars
<1>1. CASE Kill(a) \/ HangUp(a)
  BY <1>1 DEF Kill, HangUp, Points
<1>2. CASE TakePending(a)
  <2>1. taken' \subseteq Serials
    BY <1>2 DEF TakePending, PairsInv
  <2> QED
    BY <1>2, <2>1 DEF TakePending
<1>3. CASE FailOne(a)
  BY <1>3 DEF FailOne, Results
<1>4. CASE Killed(a)
  <2>1. AfterKill(a) \in Points
    BY PointsNext DEF Points
  <2> QED
    BY <1>4, <2>1 DEF Killed
<1> QED
  BY <1>1, <1>2, <1>3, <1>4 DEF MarkDead

LEMMA TypesRead ==
  ASSUME Types, PairsInv,
         \/ Beat \/ Watch \/ KeeperLeaves \/ Close
         \/ ReadAuth \/ Deliver \/ ReadOther \/ ReadEnds
         \/ Reply \/ FallsSilent \/ TimePasses
  PROVE  Types'
<1>a. {Reader, Keeper, Closer} \subseteq Actors
  BY DEF Actors, Writers
<1> USE DEF Types, Points, Move, peerVars, deathVars, idVars
<1>1. CASE Beat \/ Watch \/ KeeperLeaves \/ Close \/ ReadEnds
  BY <1>1, <1>a DEF Beat, Watch, KeeperLeaves, Close, ReadEnds
<1>2. CASE ReadOther \/ FallsSilent \/ TimePasses
  BY <1>2 DEF ReadOther, FallsSilent, TimePasses
<1>3. CASE Reply
  <2>1. PICK r \in asked : down' = Append(down, r)
    BY <1>3 DEF Reply
  <2>2. down' \in Seq(asked) /\ Len(down') = Len(down) + 1
    BY <2>1, AppendProperties
  <2>3. Len(down') <= MaxDown
    BY <1>3, <2>2, TunnelAssumption, LenProperties DEF Reply
  <2> QED
    BY <1>3, <2>2, <2>3 DEF Reply
<1>4. CASE ReadAuth
  <2>1. /\ Head(down) \in asked /\ down' = Tail(down)
        /\ down' \in Seq(asked) /\ Len(down') = Len(down) - 1
    BY <1>4, HeadTailProperties DEF ReadAuth
  <2>2. Len(down') <= MaxDown
    BY <2>1, TunnelAssumption, LenProperties
  <2>3. Head(down).id \in Serials /\ Head(down).ch \in Serials
    BY <2>1 DEF Request
  <2>4. /\ DOMAIN pending' \subseteq Serials
        /\ held' \in {Nobody} \cup [ch : Serials, for : Serials]
    BY <1>4, <2>3 DEF ReadAuth, PairsInv
  <2>5. at' \in [Actors -> Points]
    BY <1>4, <1>a DEF ReadAuth
  <2> QED
    BY <1>4, <2>1, <2>2, <2>4, <2>5 DEF ReadAuth
<1>5. CASE Deliver
  <2>1. held.for \in Serials
    BY <1>5 DEF Deliver, PairsInv
  <2>2. slot' \in [Serials -> Results]
    BY <1>5, <2>1 DEF Deliver, Results
  <2> QED
    BY <1>5, <1>a, <2>2 DEF Deliver
<1> QED
  BY <1>1, <1>2, <1>3, <1>4, <1>5

\* The steps of Next, in four groups.
CallStep(c) ==
  \/ StartAuth(c) \/ Register(c) \/ StartData(c) \/ Answered(c)
  \/ Abandoned(c) \/ Expires(c) \/ Leave(c)

ReadStep ==
  \/ Beat \/ Watch \/ KeeperLeaves \/ Close
  \/ ReadAuth \/ Deliver \/ ReadOther \/ ReadEnds
  \/ Reply \/ FallsSilent \/ TimePasses

LEMMA StepCases ==
  ASSUME [Next]_vars
  PROVE  \/ UNCHANGED vars
         \/ \E c \in Callers : CallStep(c)
         \/ \E w \in Writers : Writes(w) \/ WriteExpires(w)
         \/ \E a \in Actors : MarkDead(a)
         \/ ReadStep
  BY DEF Next, CallStep, ReadStep

LEMMA TypesStep == Types /\ PairsInv /\ [Next]_vars => Types'
<1> SUFFICES ASSUME Types, PairsInv, [Next]_vars PROVE Types'
  OBVIOUS
<1>1. CASE UNCHANGED vars
  BY <1>1 DEF vars, Types
<1>2. ASSUME NEW c \in Callers, CallStep(c) PROVE Types'
  BY <1>2, TypesCall DEF CallStep
<1>3. ASSUME NEW w \in Writers, Writes(w) \/ WriteExpires(w) PROVE Types'
  BY <1>3, TypesWrite
<1>4. ASSUME NEW a \in Actors, MarkDead(a) PROVE Types'
  BY <1>4, TypesDeath
<1>5. CASE ReadStep
  BY <1>5, TypesRead DEF ReadStep
<1> QED
  BY <1>1, <1>2, <1>3, <1>4, <1>5, StepCases

-----------------------------------------------------------------------------
(* What the groups of steps do *)

LEMMA ActorFacts ==
  /\ Callers \subseteq Writers /\ Writers \subseteq Actors
  /\ {Reader, Keeper, Closer} \subseteq Actors
  /\ Reader \notin Writers /\ Closer \notin Writers /\ Free \notin Writers
  /\ Keeper \in Writers /\ Keeper \notin Callers /\ Reader # Closer
  BY TunnelAssumption DEF Actors, Writers

LEMMA MoveFacts ==
  ASSUME Types, NEW a \in Actors, NEW l, Move(a, l)
  PROVE  at'[a] = l /\ \A b \in Actors \ {a} : at'[b] = at[b]
  BY DEF Types, Move

\* A write: the channels stay where they are, and who comes out of it without
\* an answer has a reason.
LEMMA WriteEffect ==
  ASSUME Types, NEW w \in Writers, Writes(w) \/ WriteExpires(w)
  PROVE  /\ UNCHANGED <<authCounter, serial, call, pending, slot, held, taken,
                        once>>
         /\ \A b \in Actors \ {w} : at'[b] = at[b]
         /\ at[w] \in {"gate", "held", "write"}
         /\ at'[w] \in {"held", "write", "kill", "leave", "wait", "select",
                        "idle"}
         /\ at'[w] \in {"leave", "wait"} => Asks(w)
         /\ \A c \in Callers :
              outcome'[c] = outcome[c] \/ outcome'[c] \in {Died, Gone}
         /\ asked' = asked \/ (Asks(w) /\ asked' = asked \cup {call[w]})
<1> USE ActorFacts, MoveFacts DEF idVars, deathVars, peerVars
<1>1. /\ AfterFailure(w) \in {"leave", "kill", "idle"}
      /\ AfterWrite(w) \in {"wait", "select", "idle"}
      /\ AfterFailure(w) = "leave" => Asks(w)
      /\ AfterWrite(w) = "wait" => Asks(w)
  BY DEF AfterFailure, AfterWrite
<1>2. ASSUME NEW why \in {Died, Gone}, Fails(w, why)
      PROVE  /\ at'[w] = AfterFailure(w)
             /\ \A b \in Actors \ {w} : at'[b] = at[b]
             /\ \A c \in Callers :
                  outcome'[c] = outcome[c] \/ outcome'[c] \in {Died, Gone}
  BY <1>2 DEF Fails, Types
<1>3. CASE Acquire(w)
  BY <1>3 DEF Acquire
<1>4. CASE GateDies(w)
  BY <1>1, <1>2, <1>4 DEF GateDies
<1>5. CASE WriteExpires(w)
  BY <1>1, <1>2, <1>5 DEF WriteExpires
<1>6. CASE CheckAlive(w)
  BY <1>1, <1>2, <1>6 DEF CheckAlive
<1>7. CASE WriteWhole(w)
  BY <1>1, <1>7 DEF WriteWhole
<1>8. CASE WriteFails(w)
  BY <1>8 DEF WriteFails
<1> QED
  BY <1>3, <1>4, <1>5, <1>6, <1>7, <1>8 DEF Writes

\* The channels of a map that gives every identifier the channel of its name.
LEMMA ImageOfIdentity ==
  ASSUME NEW f, \A i \in DOMAIN f : f[i] = i
  PROVE  {f[i] : i \in DOMAIN f} = DOMAIN f
  OBVIOUS

\* markDead: an entry of the map becomes one to fail, one to fail becomes a
\* result.
LEMMA DeathEffect ==
  ASSUME Types, PairsInv, NEW a \in Actors, MarkDead(a)
  PROVE  /\ UNCHANGED <<authCounter, serial, call, asked, held, wire>>
         /\ \A b \in Actors \ {a} : at'[b] = at[b]
         /\ at[a] \in {"kill", "killing"}
         /\ at'[a] \in {"killing", "leave", "idle", "done"}
         /\ at'[a] = "leave" => Asks(a)
         /\ \A c \in Callers :
              outcome'[c] = outcome[c] \/ outcome'[c] = Gone
         /\ \A s \in Serials :
              \/ slot'[s] = slot[s]
              \/ s \in taken \ taken' /\ slot[s] = Empty /\ slot'[s] = Died
         /\ \/ pending' = pending /\ taken' \subseteq taken
            \/ DOMAIN pending' = {} /\ taken' = DOMAIN pending /\ slot' = slot
         /\ Dead' /\ (Hung => Hung')
         /\ gate' = gate \/ (gate = a /\ gate' = Free /\ Hung)
<1> USE ActorFacts, MoveFacts DEF idVars, deathVars, peerVars, Dead, Hung
<1>1. CASE Kill(a)
  BY <1>1 DEF Kill
<1>2. CASE HangUp(a)
  BY <1>2 DEF HangUp
<1>3. CASE TakePending(a)
  <2>1. pending' = <<>> /\ taken' = {pending[i] : i \in DOMAIN pending}
    BY <1>3 DEF TakePending
  <2>2. DOMAIN pending' = {}
    BY <2>1
  <2>3. \A i \in DOMAIN pending : pending[i] = i
    BY DEF PairsInv
  <2>4. taken' = DOMAIN pending
    BY <2>1, <2>3, ImageOfIdentity
  <2> QED
    BY <1>3, <2>2, <2>4 DEF TakePending
<1>4. CASE FailOne(a)
  <2>1. PICK ch \in taken :
          /\ taken' = taken \ {ch}
          /\ slot' = IF slot[ch] = Empty THEN [slot EXCEPT ![ch] = Died] ELSE slot
    BY <1>4 DEF FailOne
  <2> QED
    BY <1>4, <2>1 DEF FailOne, Types
<1>5. CASE Killed(a)
  <2>1. /\ AfterKill(a) \in {"leave", "idle", "done", "kill"}
        /\ AfterKill(a) = "leave" => Asks(a) 
        /\ AfterKill(a) # "kill"
    BY DEF AfterKill, AfterFailure
  <2> QED
    BY <1>5, <2>1 DEF Killed, Types
<1> QED
  BY <1>1, <1>2, <1>3, <1>4, <1>5 DEF MarkDead

-----------------------------------------------------------------------------
(* Where the channels are *)

ChannelInv == PairsInv /\ ApartInv /\ PlaceInv

LEMMA ChannelsStart ==
  ASSUME Types, ChannelInv, NEW c \in Callers, StartAuth(c)
  PROVE  ChannelInv'
<1> USE ActorFacts, MoveFacts DEF idVars, deathVars, peerVars
<1> DEFINE new == [id |-> serial + 1, ch |-> serial + 1]
<1>1. /\ at[c] = "idle" /\ at'[c] = "register"
      /\ \A b \in Actors \ {c} : at'[b] = at[b]
      /\ authCounter' = serial + 1 /\ serial' = serial + 1 /\ serial \in Nat
      /\ UNCHANGED <<pending, slot, held, outcome, asked, taken>>
  BY TunnelAssumption DEF StartAuth, NextAuthID, ChannelInv, PairsInv, Types
<1>2. /\ call'[c] = new /\ \A d \in Callers \ {c} : call'[d] = call[d]
      /\ new # Data /\ new.id = serial + 1 /\ new.ch = serial + 1
  <2>1. call' = [call EXCEPT ![c] = new]
    BY <1>1 DEF StartAuth
  <2> QED
    BY <1>1, <2>1 DEF Types, Data
<1> HIDE DEF new
<1>3. \A d \in Callers : call[d] # Data => call[d].ch \in Nat /\ call[d].ch <= serial
  BY DEF ChannelInv, PairsInv, Types, Request, Serials
<1>4. PairsInv'
  BY <1>1, <1>2, <1>3 DEF ChannelInv, PairsInv
<1>5. ApartInv'
  BY <1>1, <1>2, <1>3 DEF ChannelInv, ApartInv
<1>6. \A s : Held(s)' = Held(s)
  BY <1>1 DEF Held
<1>7. \A s \in Serials : Known(s) => Known(s)'
  BY <1>1, <1>2 DEF Known, Serials
<1>8. PlaceInv'
  BY <1>1, <1>6, <1>7 DEF ChannelInv, PlaceInv, Types
<1> QED
  BY <1>4, <1>5, <1>8 DEF ChannelInv

LEMMA ChannelsRegister ==
  ASSUME Types, ChannelInv, NEW c \in Callers, Register(c)
  PROVE  ChannelInv'
<1> USE ActorFacts, MoveFacts DEF idVars, deathVars, peerVars
<1>0. PICK s : s = call[c].ch
  OBVIOUS
<1>1. /\ at[c] = "register" /\ at'[c] = "gate"
      /\ \A b \in Actors \ {c} : at'[b] = at[b]
      /\ UNCHANGED <<slot, held, outcome, asked, taken, call, serial, authCounter>>
  BY DEF Register
<1>2. /\ call[c] # Data /\ call[c].id = s /\ s \in Serials /\ s <= serial
      /\ DOMAIN pending' = DOMAIN pending \cup {s} /\ pending'[s] = s
      /\ \A i \in DOMAIN pending \ {s} : pending'[i] = pending[i]
  BY <1>0, <1>1 DEF Register, ChannelInv, PairsInv, Types, Request
<1>3. ~Known(s)
  BY <1>0, <1>1 DEF Known
<1>4. \A d \in Callers \ {c} : at[d] = "register" => call[d].ch # s
  BY <1>0, <1>1, <1>2 DEF ChannelInv, PairsInv, ApartInv
<1>5. Known(s)' /\ \A q \in Serials : Known(q) => Known(q)'
  <2>1. \A d \in Callers : at'[d] = "register" => d # c /\ at[d] = "register"
    BY <1>1
  <2>2. \A d \in Callers : at'[d] = "register" => call'[d].ch # s
    BY <1>1, <1>4, <2>1
  <2>3. Known(s)'
    BY <1>1, <1>2, <2>2 DEF Known
  <2>4. \A q \in Serials : Known(q) => Known(q)'
    BY <1>1, <2>1 DEF Known
  <2> QED
    BY <2>3, <2>4
<1>6. \A q : Held(q)' = Held(q)
  BY <1>1 DEF Held
<1>7. PairsInv' /\ ApartInv'
  BY <1>1, <1>2 DEF ChannelInv, PairsInv, ApartInv
<1>8. s \notin taken /\ ~Held(s) /\ slot[s] = Empty
  BY <1>2, <1>3 DEF ChannelInv, PlaceInv
<1>9. PlaceInv'
  <2>1. \A i \in DOMAIN pending' :
          Known(i)' /\ i \notin taken' /\ ~Held(i)' /\ slot'[i] = Empty
    <3> SUFFICES ASSUME NEW i \in DOMAIN pending'
                 PROVE  Known(i)' /\ i \notin taken' /\ ~Held(i)' /\ slot'[i] = Empty
      OBVIOUS
    <3>1. CASE i = s
      BY <1>1, <1>5, <1>6, <1>8, <3>1
    <3>2. CASE i # s
      <4>1. i \in DOMAIN pending /\ i \in Serials
        BY <1>2, <3>2 DEF Types
      <4> QED
        BY <1>1, <1>5, <1>6, <4>1 DEF ChannelInv, PlaceInv
    <3> QED
      BY <3>1, <3>2
  <2>2. \A q \in taken' : Known(q)' /\ ~Held(q)' /\ slot'[q] = Empty
    BY <1>1, <1>5, <1>6 DEF ChannelInv, PlaceInv, Types
  <2>3. /\ \A q \in Serials : Held(q)' => Known(q)' /\ slot'[q] = Empty
        /\ \A q \in Serials : slot'[q] # Empty => Known(q)'
    BY <1>1, <1>5, <1>6 DEF ChannelInv, PlaceInv
  <2> QED
    BY <2>1, <2>2, <2>3 DEF PlaceInv
<1> QED
  BY <1>7, <1>9 DEF ChannelInv

LEMMA ChannelsWait ==
  ASSUME Types, ChannelInv, NEW c \in Callers,
         StartData(c) \/ Answered(c) \/ Abandoned(c) \/ Expires(c) \/ Leave(c)
  PROVE  ChannelInv'
<1> USE ActorFacts, MoveFacts DEF idVars, deathVars, peerVars
<1>1. /\ at[c] # "register" /\ at'[c] # "register" /\ at'[c] # "wait"
      /\ \A b \in Actors \ {c} : at'[b] = at[b]
      /\ UNCHANGED <<held, asked, taken, serial, authCounter>>
  BY DEF StartData, Answered, Abandoned, Expires, Leave, Returns
<1>2. \A s \in Serials : slot'[s] \in {slot[s], Empty}
  BY DEF StartData, Answered, Abandoned, Expires, Leave, Returns, Types
<1>3. /\ DOMAIN pending' \subseteq DOMAIN pending
      /\ \A i \in DOMAIN pending' : pending'[i] = pending[i]
  BY DEF StartData, Answered, Abandoned, Expires, Leave, Returns
<1>4. /\ \A d \in Callers \ {c} : call'[d] = call[d] /\ outcome'[d] = outcome[d]
      /\ call'[c] = call[c] \/ call'[c] = Data
  BY DEF StartData, Answered, Abandoned, Expires, Leave, Returns, Types
<1>5. at'[c] = "leave" => call'[c] = call[c] /\ call[c] # Data
  BY DEF StartData, Answered, Abandoned, Expires, Leave, Returns, ChannelInv,
     PairsInv
<1>6. outcome'[c] \in Serials => at'[c] = "leave" /\ outcome'[c] = call'[c].ch
  <2>1. CASE Answered(c)
    <3>1. call[c] # Data /\ call[c].ch \in Serials /\ call' = call
      BY <2>1 DEF Answered, ChannelInv, PairsInv, Types, Request
    <3>2. slot[call[c].ch] \in {Empty, Died, call[c].ch}
      BY <3>1 DEF ChannelInv, PairsInv
    <3>3. outcome'[c] = slot[call[c].ch] /\ at'[c] = "leave"
      BY <2>1 DEF Answered, Returns, Types
    <3> QED
      BY <3>1, <3>2, <3>3, TunnelAssumption DEF Serials
  <2>2. CASE Abandoned(c) \/ Expires(c) \/ Leave(c)
    BY <2>2, TunnelAssumption
       DEF Abandoned, Expires, Leave, Returns, Types, Serials
  <2>3. CASE StartData(c)
    BY <2>3 DEF StartData, ChannelInv, PairsInv
  <2> QED
    BY <2>1, <2>2, <2>3
<1>7. PairsInv'
  <2>1. \A d \in Callers :
          call'[d] # Data => call'[d].id = call'[d].ch /\ call'[d].ch <= serial'
    BY <1>1, <1>4 DEF ChannelInv, PairsInv
  <2>2. \A d \in Callers :
          at'[d] \in {"register", "wait", "leave"} => call'[d] # Data
    BY <1>1, <1>4, <1>5 DEF ChannelInv, PairsInv
  <2>3. \A d \in Callers :
          outcome'[d] \in Serials =>
            at'[d] = "leave" /\ outcome'[d] = call'[d].ch
    BY <1>1, <1>4, <1>6 DEF ChannelInv, PairsInv
  <2> QED
    BY <1>1, <1>2, <1>3, <2>1, <2>2, <2>3 DEF ChannelInv, PairsInv
<1>8. ApartInv'
  BY <1>4 DEF ChannelInv, ApartInv
<1>9. \A s : Held(s)' = Held(s)
  BY <1>1 DEF Held
<1>10. \A s \in Serials : Known(s) => Known(s)'
  BY <1>1, <1>4 DEF Known
<1>11. PlaceInv'
  BY <1>1, <1>2, <1>3, <1>9, <1>10 DEF ChannelInv, PlaceInv, Types
<1> QED
  BY <1>7, <1>8, <1>11 DEF ChannelInv

LEMMA ChannelsWrite ==
  ASSUME Types, ChannelInv, NEW w \in Writers, Writes(w) \/ WriteExpires(w)
  PROVE  ChannelInv'
<1> USE ActorFacts
<1>1. /\ UNCHANGED <<authCounter, serial, call, pending, slot, held, taken>>
      /\ \A b \in Actors \ {w} : at'[b] = at[b]
      /\ at[w] \notin {"register", "leave"} /\ at'[w] # "register"
      /\ at'[w] \in {"leave", "wait"} => Asks(w)
      /\ \A c \in Callers :
           outcome'[c] = outcome[c] \/ outcome'[c] \in {Died, Gone}
      /\ asked' = asked \/ (Asks(w) /\ asked' = asked \cup {call[w]})
  BY WriteEffect
<1>2. PairsInv'
  <2>1. \A r \in asked' : r.id = r.ch
    BY <1>1 DEF ChannelInv, PairsInv, Asks
  <2>2. \A c \in Callers :
          at'[c] \in {"register", "wait", "leave"} => call'[c] # Data
    BY <1>1 DEF ChannelInv, PairsInv, Asks
  <2>3. \A c \in Callers :
          outcome'[c] \in Serials =>
            at'[c] = "leave" /\ outcome'[c] = call'[c].ch
    BY <1>1, TunnelAssumption DEF ChannelInv, PairsInv, Serials
  <2> QED
    BY <1>1, <2>1, <2>2, <2>3 DEF ChannelInv, PairsInv
<1>3. ApartInv'
  BY <1>1 DEF ChannelInv, ApartInv
<1>4. \A s : Held(s)' = Held(s)
  BY <1>1 DEF Held
<1>5. \A s \in Serials : Known(s) => Known(s)'
  BY <1>1 DEF Known
<1>6. PlaceInv'
  BY <1>1, <1>4, <1>5 DEF ChannelInv, PlaceInv, Types
<1> QED
  BY <1>2, <1>3, <1>6 DEF ChannelInv

LEMMA ChannelsDeath ==
  ASSUME Types, ChannelInv, NEW a \in Actors, MarkDead(a)
  PROVE  ChannelInv'
<1> USE ActorFacts
<1>1. /\ UNCHANGED <<authCounter, serial, call, asked, held>>
      /\ \A b \in Actors \ {a} : at'[b] = at[b]
      /\ at[a] \in {"kill", "killing"}
      /\ at'[a] \in {"killing", "leave", "idle", "done"}
      /\ at'[a] = "leave" => Asks(a)
      /\ \A c \in Callers : outcome'[c] = outcome[c] \/ outcome'[c] = Gone
  BY DeathEffect DEF ChannelInv
<1>2. /\ \A s \in Serials :
           \/ slot'[s] = slot[s]
           \/ s \in taken \ taken' /\ slot[s] = Empty /\ slot'[s] = Died
      /\ \/ pending' = pending /\ taken' \subseteq taken
         \/ DOMAIN pending' = {} /\ taken' = DOMAIN pending /\ slot' = slot
  BY DeathEffect DEF ChannelInv
<1>3. PairsInv'
  <2>1. \A c \in Callers :
          at'[c] \in {"register", "wait", "leave"} => call'[c] # Data
    BY <1>1 DEF ChannelInv, PairsInv, Asks
  <2>2. \A c \in Callers :
          outcome'[c] \in Serials =>
            at'[c] = "leave" /\ outcome'[c] = call'[c].ch
    BY <1>1, TunnelAssumption DEF ChannelInv, PairsInv, Serials
  <2>3. at'[Reader] = "deliver" => at[Reader] = "deliver"
    BY <1>1
  <2> QED
    BY <1>1, <1>2, <2>1, <2>2, <2>3 DEF ChannelInv, PairsInv
<1>4. ApartInv'
  BY <1>1 DEF ChannelInv, ApartInv
<1>5. \A s : Held(s)' = Held(s)
  BY <1>1 DEF Held
<1>6. \A s \in Serials : Known(s) => Known(s)'
  BY <1>1 DEF Known
<1>7. PlaceInv'
  BY <1>2, <1>5, <1>6 DEF ChannelInv, PlaceInv, Types
<1> QED
  BY <1>3, <1>4, <1>7 DEF ChannelInv

LEMMA ChannelsRead ==
  ASSUME Types, ChannelInv, ReadStep
  PROVE  ChannelInv'
<1> USE ActorFacts, MoveFacts DEF idVars, deathVars, peerVars
<1>1. /\ UNCHANGED <<authCounter, serial, call, asked, taken, outcome>>
      /\ \A c \in Callers : at'[c] = at[c]
  BY DEF ReadStep, Beat, Watch, KeeperLeaves, Close, ReadAuth, Deliver,
     ReadOther, ReadEnds, Reply, FallsSilent, TimePasses
<1>2. \A s : Known(s)' = Known(s)
  BY <1>1 DEF Known
<1>3. ApartInv'
  BY <1>1 DEF ChannelInv, ApartInv
<1>4. CASE ReadAuth
  <2> DEFINE r == Head(down)
  <2>1. r \in asked /\ r.id = r.ch /\ slot' = slot
    BY <1>4, HeadTailProperties DEF ReadAuth, ChannelInv, PairsInv, Types
  <2>2. CASE /\ r.id \in DOMAIN pending
             /\ held' = [ch |-> pending[r.id], for |-> r.ch]
             /\ pending' = [i \in DOMAIN pending \ {r.id} |-> pending[i]]
             /\ Move(Reader, "deliver")
    <3>1. /\ held'.ch = r.id /\ held'.for = r.id
          /\ held' \in [ch : Serials, for : Serials]
          /\ r.id \in Serials /\ at'[Reader] = "deliver"
          /\ at[Reader] = "read"
      <4>1. held' = [ch |-> r.id, for |-> r.id] /\ r.id \in Serials
        BY <2>1, <2>2 DEF ChannelInv, PairsInv, Types
      <4> QED
        BY <1>4, <2>2, <4>1 DEF ReadAuth
    <3> HIDE DEF r
    <3>2. PairsInv'
      BY <1>1, <2>1, <2>2, <3>1 DEF ChannelInv, PairsInv
    <3>3. \A s : Held(s)' <=> s = r.id
      BY <3>1 DEF Held
    <3>4. PlaceInv'
      BY <1>1, <1>2, <2>1, <2>2, <3>1, <3>3 DEF ChannelInv, PlaceInv, Types
    <3> QED
      BY <1>3, <3>2, <3>4 DEF ChannelInv
  <2>3. CASE UNCHANGED <<held, pending, at>>
    <3>1. \A s : Held(s)' = Held(s)
      BY <2>3 DEF Held
    <3> QED
      BY <1>1, <1>2, <1>3, <2>1, <2>3, <3>1
         DEF ChannelInv, PairsInv, PlaceInv
  <2> QED
    BY <1>4, <2>2, <2>3 DEF ReadAuth
<1>5. CASE Deliver
  <2> DEFINE h == held.ch
  <2>1. /\ Held(h) /\ h \in Serials /\ held.for = h
        /\ pending' = pending /\ at'[Reader] = "read"
    BY <1>5 DEF Deliver, Held, ChannelInv, PairsInv, Types
  <2>2. slot'[h] = h /\ \A s \in Serials \ {h} : slot'[s] = slot[s]
    BY <1>5, <2>1 DEF Deliver, Types
  <2> HIDE DEF h
  <2>3. \A s : ~Held(s)'
    BY <2>1 DEF Held
  <2>4. PairsInv'
    BY <1>1, <2>1, <2>2 DEF ChannelInv, PairsInv
  <2>5. PlaceInv'
    BY <1>1, <1>2, <2>1, <2>2, <2>3 DEF ChannelInv, PlaceInv, Types
  <2> QED
    BY <1>3, <2>4, <2>5 DEF ChannelInv
<1>6. CASE ~ReadAuth /\ ~Deliver
  <2>1. /\ UNCHANGED <<pending, slot, held>>
        /\ at'[Reader] = "deliver" <=> at[Reader] = "deliver"
    BY <1>6
       DEF ReadStep, Beat, Watch, KeeperLeaves, Close, ReadOther, ReadEnds,
           Reply, FallsSilent, TimePasses
  <2>2. \A s : Held(s)' = Held(s)
    BY <2>1 DEF Held
  <2> QED
    BY <1>1, <1>2, <1>3, <2>1, <2>2 DEF ChannelInv, PairsInv, PlaceInv
<1> QED
  BY <1>4, <1>5, <1>6

LEMMA ChannelsStep == Types /\ ChannelInv /\ [Next]_vars => ChannelInv'
<1> SUFFICES ASSUME Types, ChannelInv, [Next]_vars PROVE ChannelInv'
  OBVIOUS
<1>1. CASE UNCHANGED vars
  BY <1>1 DEF vars, ChannelInv, PairsInv, ApartInv, PlaceInv, Known, Held
<1>2. ASSUME NEW c \in Callers, CallStep(c) PROVE ChannelInv'
  BY <1>2, ChannelsStart, ChannelsRegister, ChannelsWait DEF CallStep
<1>3. ASSUME NEW w \in Writers, Writes(w) \/ WriteExpires(w) PROVE ChannelInv'
  BY <1>3, ChannelsWrite
<1>4. ASSUME NEW a \in Actors, MarkDead(a) PROVE ChannelInv'
  BY <1>4, ChannelsDeath
<1>5. CASE ReadStep
  BY <1>5, ChannelsRead
<1> QED
  BY <1>1, <1>2, <1>3, <1>4, <1>5, StepCases

-----------------------------------------------------------------------------
(* The gate and the wire *)

\* Who is neither in a write nor in markDead leaves the gate alone.
LEMMA GateKept ==
  ASSUME Types, GateInv, NEW a \in Actors,
         UNCHANGED <<gate, wire, once>>,
         \A b \in Actors \ {a} : at'[b] = at[b],
         at[a] \notin {"held", "write", "kill", "killing"},
         at'[a] \notin {"held", "write", "killing"}
  PROVE  GateInv'
  BY ActorFacts DEF GateInv, Types, Dead, Hung

LEMMA GateWrite ==
  ASSUME Types, GateInv, NEW w \in Writers, Writes(w) \/ WriteExpires(w)
  PROVE  GateInv'
<1> USE ActorFacts, MoveFacts DEF idVars, deathVars, peerVars, Dead, Hung
<1>1. /\ \A b \in Actors \ {w} : at'[b] = at[b]
      /\ at[w] \in {"gate", "held", "write"} /\ once' = once
      /\ at'[w] # "killing"
  BY WriteEffect
<1>2. \A v \in Writers \ {w} : gate = w => at[v] \notin {"held", "write"}
  BY DEF GateInv
<1>3. at[w] = "gate" => gate # w
  BY DEF GateInv
<1>4. CASE Acquire(w)
  <2>1. at'[w] = "held" /\ gate' = w /\ gate = Free /\ wire' = wire
    BY <1>4 DEF Acquire
  <2> QED
    BY <1>1, <2>1 DEF GateInv, Types
<1>5. CASE GateDies(w) \/ WriteExpires(w)
  <2>1. /\ at'[w] \notin {"held", "write", "killing"} /\ wire' = wire
        /\ gate' = IF gate = w THEN Free ELSE gate
        /\ at[w] \in {"gate", "held"}
    BY <1>3, <1>5 DEF GateDies, WriteExpires, Fails, AfterFailure
  <2>2. wire = "torn" /\ ~Hung => gate # w
    BY <1>3, <2>1 DEF GateInv
  <2> QED
    BY <1>1, <2>1, <2>2 DEF GateInv, Types
<1>6. CASE CheckAlive(w)
  <2>1. /\ at[w] = "held" /\ gate = w /\ wire' = wire
        /\ \/ gate' = Free /\ at'[w] \notin {"held", "write", "killing"}
           \/ gate' = gate /\ at'[w] = "write"
    BY <1>6 DEF CheckAlive, Fails, AfterFailure, GateInv
  <2>2. wire = "torn" => Hung
    BY <2>1 DEF GateInv
  <2> QED
    BY <1>1, <1>2, <2>1, <2>2 DEF GateInv, Types
<1>7. CASE WriteWhole(w)
  <2>1. /\ at[w] = "write" /\ gate = w /\ gate' = Free /\ ~Hung
        /\ at'[w] \notin {"held", "write", "killing"}
    BY <1>7 DEF WriteWhole, AfterWrite, GateInv
  <2>2. wire = "clean" /\ wire' = "clean"
    BY <1>7, <2>1 DEF WriteWhole, Puts, GateInv, Types
  <2> QED
    BY <1>1, <1>2, <2>1, <2>2 DEF GateInv, Types
<1>8. CASE WriteFails(w)
  <2>1. at[w] = "write" /\ gate = w /\ gate' = w /\ at'[w] = "kill"
    BY <1>8 DEF WriteFails, GateInv
  <2>2. wire' = wire \/ wire' = "torn"
    BY <1>8, <2>1 DEF WriteFails, Puts, GateInv, Types
  <2> QED
    BY <1>1, <2>1, <2>2 DEF GateInv, Types
<1> QED
  BY <1>4, <1>5, <1>6, <1>7, <1>8 DEF Writes

LEMMA GateDeath ==
  ASSUME Types, PairsInv, GateInv, NEW a \in Actors, MarkDead(a)
  PROVE  GateInv'
<1> USE ActorFacts
<1>1. /\ \A b \in Actors \ {a} : at'[b] = at[b]
      /\ at[a] \in {"kill", "killing"} /\ wire' = wire
      /\ at'[a] \in {"killing", "leave", "idle", "done"}
      /\ Dead' /\ (Hung => Hung')
      /\ gate' = gate \/ (gate = a /\ gate' = Free /\ Hung)
  BY DeathEffect
<1>2. gate' = a => at'[a] = "killing"
  <2>1. CASE Killed(a)
    BY <2>1, TunnelAssumption DEF Killed, Actors, Writers
  <2>2. CASE Kill(a)
    BY <2>2, MoveFacts DEF Kill
  <2>3. CASE HangUp(a) \/ TakePending(a) \/ FailOne(a)
    BY <2>3 DEF HangUp, TakePending, FailOne
  <2> QED
    BY <2>1, <2>2, <2>3 DEF MarkDead
<1>3. wire' = "torn" /\ ~Hung' => gate' \in Writers /\ at'[gate'] \in {"kill", "killing"}
  BY <1>1, <1>2 DEF GateInv
<1> QED
  BY <1>1, <1>2, <1>3 DEF GateInv

LEMMA GateStep == Types /\ PairsInv /\ GateInv /\ [Next]_vars => GateInv'
<1> SUFFICES ASSUME Types, PairsInv, GateInv, [Next]_vars PROVE GateInv'
  OBVIOUS
<1> USE ActorFacts, MoveFacts DEF idVars, deathVars, peerVars
<1>1. CASE UNCHANGED vars
  BY <1>1 DEF vars, GateInv, Dead, Hung
<1>2. ASSUME NEW c \in Callers, CallStep(c) PROVE GateInv'
  <2>1. /\ UNCHANGED <<gate, wire, once>>
        /\ \A b \in Actors \ {c} : at'[b] = at[b]
        /\ at[c] \notin {"held", "write", "kill", "killing"}
        /\ at'[c] \notin {"held", "write", "killing"}
    BY <1>2 DEF CallStep, StartAuth, Register, StartData, Answered, Abandoned,
       Expires, Leave, Returns
  <2> QED
    BY <2>1, GateKept
<1>3. ASSUME NEW w \in Writers, Writes(w) \/ WriteExpires(w) PROVE GateInv'
  BY <1>3, GateWrite
<1>4. ASSUME NEW a \in Actors, MarkDead(a) PROVE GateInv'
  BY <1>4, GateDeath
<1>5. CASE ReadStep
  <2>1. UNCHANGED <<gate, wire, once>>
    BY <1>5 DEF ReadStep, Beat, Watch, KeeperLeaves, Close, ReadAuth, Deliver,
       ReadOther, ReadEnds, Reply, FallsSilent, TimePasses
  <2>2. \E a \in Actors :
          /\ \A b \in Actors \ {a} : at'[b] = at[b]
          /\ \/ at'[a] = at[a]
             \/ /\ at[a] \notin {"held", "write", "kill", "killing"}
                /\ at'[a] \notin {"held", "write", "killing"}
    <3>1. CASE Beat \/ Watch \/ KeeperLeaves
      BY <3>1 DEF Beat, Watch, KeeperLeaves
    <3>2. CASE Close
      BY <3>2 DEF Close
    <3>3. CASE ReadAuth
      BY <3>3 DEF ReadAuth
    <3>4. CASE Deliver \/ ReadEnds
      BY <3>4 DEF Deliver, ReadEnds
    <3>5. CASE ReadOther \/ Reply \/ FallsSilent \/ TimePasses
      BY <3>5 DEF ReadOther, Reply, FallsSilent, TimePasses
    <3> QED
      BY <1>5, <3>1, <3>2, <3>3, <3>4, <3>5 DEF ReadStep
  <2>3. PICK a \in Actors :
          /\ \A b \in Actors \ {a} : at'[b] = at[b]
          /\ \/ at'[a] = at[a]
             \/ /\ at[a] \notin {"held", "write", "kill", "killing"}
                /\ at'[a] \notin {"held", "write", "killing"}
    BY <2>2
  <2>4. CASE at'[a] = at[a]
    BY <2>1, <2>3, <2>4 DEF GateInv, Dead, Hung
  <2>5. CASE at'[a] # at[a]
    BY <2>1, <2>3, <2>5, GateKept
  <2> QED
    BY <2>4, <2>5
<1> QED
  BY <1>1, <1>2, <1>3, <1>4, <1>5, StepCases

-----------------------------------------------------------------------------
(* The theorems *)

\* Every reachable state of a gateway tunnel satisfies the invariant.
THEOREM TunnelInvariant == Spec => []TunnelInv
<1>1. Init => TunnelInv
  BY TunnelInit
<1>2. TunnelInv /\ [Next]_vars => TunnelInv'
  BY TypesStep, ChannelsStep, GateStep DEF TunnelInv, ChannelInv
<1> QED
  BY <1>1, <1>2, PTL DEF Spec

\* The multiplexed stream stays sound with any number of callers: the reader
\* never blocks on a result channel (handleAuthResponse against markDead, late
\* and duplicate replies) and nothing follows a partial frame (writeFrame).
THEOREM StreamStaysSound == Spec => []StreamSound
<1>1. TunnelInv => TypeOK
  <2> SUFFICES ASSUME TunnelInv PROVE TypeOK
    OBVIOUS
  <2>1. \A i \in DOMAIN pending : pending[i] \in Serials
    BY DEF TunnelInv, PairsInv, Types
  <2>2. \A i \in DOMAIN down : down[i] \in asked
    BY ElementOfSeq, LenProperties DEF TunnelInv, Types
  <2>3. at[Reader] = "deliver" => held \in [ch : Serials, for : Serials]
    BY DEF TunnelInv, PairsInv, Types
  <2> QED
    BY <2>1, <2>2, <2>3 DEF TunnelInv, Types, TypeOK, Onces, Request
<1>2. TunnelInv => DeliveryNeverBlocks
  BY DEF TunnelInv, Types, PairsInv, PlaceInv, Held, DeliveryNeverBlocks
<1>3. TunnelInv => FramesWhole
  BY DEF TunnelInv, GateInv, FramesWhole
<1> QED
  BY <1>1, <1>2, <1>3, TunnelInvariant, PTL DEF StreamSound

\* RequestAuth returns the gateway's answer to that very call, whatever earlier
\* call timed out and however late its answer comes (nextAuthID, pending).
THEOREM RepliesAreOwn == Spec => []OwnReply
<1>1. TunnelInv => OwnReply
  BY DEF TunnelInv, PairsInv, OwnReply
<1> QED
  BY <1>1, TunnelInvariant, PTL

=============================================================================
