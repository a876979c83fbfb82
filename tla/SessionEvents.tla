---------------------------- MODULE SessionEvents ----------------------------
(***************************************************************************)
(* Lifecycle events of a session, from the provider that queues them under  *)
(* its lock to the two observers one drainer goroutine calls in turn: the   *)
(* panel's Hub, which believes each event, and the Runtime, which looks at  *)
(* the provider again before it does.  Both pass what they show on to       *)
(* readers that may be slow.                                                *)
(*                                                                         *)
(* The acquisition is reduced to what it emits.  login_success and          *)
(* restore_success are one kind, login_failed and interaction_required are   *)
(* another: the observers treat them alike.                                 *)
(***************************************************************************)
EXTENDS Integers, Sequences

CONSTANTS
  MaxQueue,   \* capacity of the event queue, 256
  StreamSize, \* capacity of a panel stream, 8
  MaxOps      \* bound: acquisitions, restarts, invalidations and connects

ASSUME EventsAssumption ==
  /\ MaxOps \in Nat
  /\ MaxQueue \in Nat \ {0} /\ StreamSize \in Nat \ {0}

VARIABLES
  mode,     \* the program: "panel" (geektrust run) or "library"
  cur,      \* generation served, 0 for none
  issued,   \* last generation issued
  rev,      \* revision
  closed,   \* the provider and its dispatcher are closed
  acq,      \* the acquisition under way
  queue,    \* what waits for the drainer
  turn,     \* the drainer and the event in its hands
  hub,      \* Hub
  stream,   \* one subscriber of the Hub
  status,   \* Runtime.status
  shut,     \* Runtime.closed
  lock,     \* holder of Runtime.mu and the session it read
  conn,     \* one goroutine in Runtime.Connect: the generation it was given
  feed,     \* one subscriber of the Runtime
  ops       \* counter for the bound

provider   == <<cur, issued, rev, closed, acq>>
runtime    == <<status, shut, lock, conn, feed>>
hubs       == <<hub, stream>>
eventsVars == <<mode, provider, queue, turn, hubs, runtime, ops>>

NoAcq    == [phase |-> "none", rev |-> 0, forced |-> FALSE, gone |-> FALSE,
             good |-> FALSE]
Rest     == [at |-> "rest", kind |-> "none", gen |-> 0]
Unlocked == [by |-> "nobody", saw |-> 0]

EventsInit ==
  /\ mode \in {"panel", "library"}
  /\ cur = 0 /\ issued = 0 /\ rev = 0 /\ closed = FALSE /\ acq = NoAcq
  /\ queue = <<>> /\ turn = Rest
  /\ hub = [acquiring |-> FALSE, active |-> FALSE, error |-> FALSE,
            gen |-> 0, user |-> 0, count |-> 0]
  /\ stream = [open |-> FALSE, buf |-> <<>>, seen |-> 0]
  /\ status = [state |-> "idle", session |-> 0, rev |-> 0]
  /\ shut = FALSE /\ lock = Unlocked /\ conn = 0
  /\ feed = [open |-> FALSE, buf |-> <<>>, seen |-> 0]
  /\ ops = 0

-----------------------------------------------------------------------------
(* The dispatcher's queue *)

Event(kind, g) == [kind |-> kind, gen |-> g]

\* Mutant of Emit: the queue has no limit.
EmitGrows(kind, g) ==
  IF closed THEN UNCHANGED queue
  ELSE queue' = Append(queue, Event(kind, g))

\* Mutant of Emit: a full queue drops the event that is new.
EmitDropsNew(kind, g) ==
  IF closed THEN UNCHANGED queue
  ELSE LET full == Len(queue) = MaxQueue
       IN  queue' = IF full THEN queue ELSE Append(queue, Event(kind, g))

\* A full queue drops its oldest event.
Emit(kind, g) ==
  IF closed THEN UNCHANGED queue
  ELSE LET full == Len(queue) = MaxQueue
       IN  queue' = Append(IF full THEN Tail(queue) ELSE queue,
                          Event(kind, g))

Spend == ops < MaxOps /\ ops' = ops + 1

-----------------------------------------------------------------------------
(* The provider *)

ProviderOnly == UNCHANGED <<turn, hubs, runtime>>

\* clearSessionLocked, with or without the force flag.
Clears ==
  /\ cur' = 0 /\ rev' = rev + 1
  /\ Emit("invalidated", 0)

Leads(forced) ==
  acq' = [NoAcq EXCEPT !.phase = "begun", !.rev = rev', !.forced = forced]

CredentialLeads ==
  /\ acq = NoAcq /\ ~closed /\ cur = 0 /\ Spend
  /\ UNCHANGED <<cur, rev, queue>>
  /\ Leads(FALSE)
  /\ UNCHANGED <<issued, closed>> /\ ProviderOnly

\* ForceLogin of the library, TryForceRelogin of the panel.
ForcedLeads ==
  /\ acq = NoAcq /\ ~closed /\ Spend
  /\ Clears
  /\ Leads(TRUE)
  /\ UNCHANGED <<issued, closed>> /\ ProviderOnly

\* ForgetSession of the library, at any time.
Forget ==
  /\ mode = "library" /\ Spend
  /\ Clears
  /\ UNCHANGED <<issued, closed, acq>> /\ ProviderOnly

\* A check or a gateway has found the served session dead.
InvalidateIfCurrent ==
  /\ cur # 0
  /\ Clears
  /\ UNCHANGED <<issued, closed, acq, ops>> /\ ProviderOnly

LeaderLeaves ==
  /\ acq.phase # "none" /\ ~acq.gone
  /\ acq' = [acq EXCEPT !.gone = TRUE]
  /\ UNCHANGED <<cur, issued, rev, closed, queue, ops>> /\ ProviderOnly

MayGoOn == acq.rev = rev /\ ~closed /\ ~acq.gone

AcqEnds(good) ==
  /\ acq' = [acq EXCEPT !.phase = "ended", !.good = good]
  /\ UNCHANGED <<cur, issued, rev, closed, queue, ops>> /\ ProviderOnly

\* The stored session is good, or the acquisition was overtaken meanwhile.
Restores == acq.phase = "begun" /\ ~acq.forced /\ AcqEnds(TRUE)
BeginFails == acq.phase = "begun" /\ AcqEnds(FALSE)

LoginStarts ==
  /\ acq.phase = "begun" /\ MayGoOn
  /\ acq' = [acq EXCEPT !.phase = "login"]
  /\ Emit("start", 0)
  /\ UNCHANGED <<cur, issued, rev, closed, ops>> /\ ProviderOnly

\* The code prompt has outlived its login session: the login starts again,
\* overtaken or not.
LoginRestarts ==
  /\ acq.phase = "login" /\ ~acq.gone /\ Spend
  /\ Emit("start", 0)
  /\ UNCHANGED <<cur, issued, rev, closed, acq>> /\ ProviderOnly

LoginEnds == acq.phase = "login" /\ \E good \in BOOLEAN : AcqEnds(good)

FinishPublishes ==
  /\ acq.phase = "ended" /\ acq.good /\ MayGoOn
  /\ issued' = issued + 1 /\ cur' = issued + 1
  /\ Emit("success", issued + 1)
  /\ acq' = NoAcq
  /\ UNCHANGED <<rev, closed, ops>> /\ ProviderOnly

FinishFails ==
  /\ acq.phase = "ended" /\ acq.rev = rev /\ ~closed
  /\ ~acq.good \/ acq.gone
  /\ Emit("failed", 0)
  /\ acq' = NoAcq
  /\ UNCHANGED <<cur, issued, rev, closed, ops>> /\ ProviderOnly

\* An overtaken acquisition ends without a word.
FinishSilently ==
  /\ acq.phase = "ended" /\ (acq.rev # rev \/ closed)
  /\ acq' = NoAcq
  /\ UNCHANGED <<cur, issued, rev, closed, queue, ops>> /\ ProviderOnly

\* Second half of Runtime.Close; the queue is discarded.
ProviderClose ==
  /\ shut /\ ~closed
  /\ closed' = TRUE /\ cur' = 0 /\ rev' = rev + 1 /\ queue' = <<>>
  /\ UNCHANGED <<issued, acq, ops>> /\ ProviderOnly

-----------------------------------------------------------------------------
(* The drainer and the Hub *)

Dequeue ==
  /\ turn.at = "rest" /\ queue # <<>> /\ ~closed
  /\ LET e == Head(queue)
     IN  turn' = [at |-> IF mode = "panel" THEN "hub" ELSE "runtime", kind |-> e.kind,
                  gen |-> e.gen]
  /\ queue' = Tail(queue)
  /\ UNCHANGED <<provider, hubs, runtime, ops>>

\* Mutant of Broadcast: a stream that is full misses a snapshot.
BroadcastSkips(v) ==
  stream' = IF stream.open /\ Len(stream.buf) < StreamSize
            THEN [stream EXCEPT !.buf = Append(@, v)] ELSE stream

\* A stream that is full is cut off.
Broadcast(v) ==
  stream' = IF ~stream.open THEN stream
            ELSE IF Len(stream.buf) < StreamSize
                 THEN [stream EXCEPT !.buf = Append(@, v)]
                 ELSE [stream EXCEPT !.open = FALSE]

\* What the Hub makes of an event.
HubShows(e) ==
  CASE e.kind = "start" -> [hub EXCEPT !.acquiring = TRUE, !.error = FALSE]
    [] e.kind = "success" ->
         [hub EXCEPT !.acquiring = FALSE, !.active = TRUE, !.error = FALSE,
                     !.gen = e.gen, !.user = e.gen]
    [] e.kind = "failed" ->
         [hub EXCEPT !.acquiring = FALSE, !.active = FALSE, !.error = TRUE,
                     !.user = 0]
    [] e.kind = "invalidated" -> [hub EXCEPT !.active = FALSE, !.user = 0]

HubObserves ==
  /\ turn.at = "hub"
  /\ hub' = [HubShows(turn) EXCEPT !.count = @ + 1]
  /\ Broadcast(hub.count + 1)
  /\ turn' = [turn EXCEPT !.at = "runtime"]
  /\ UNCHANGED <<provider, queue, runtime, ops>>

StreamOpens ==
  /\ mode = "panel" /\ ~stream.open /\ Spend
  /\ stream' = [open |-> TRUE, buf |-> <<>>, seen |-> hub.count]
  /\ UNCHANGED <<provider, queue, turn, hub, runtime>>

StreamReads ==
  /\ stream.buf # <<>>
  /\ stream' = [stream EXCEPT !.buf = Tail(@), !.seen = Head(stream.buf)]
  /\ UNCHANGED <<provider, queue, turn, hub, runtime, ops>>

-----------------------------------------------------------------------------
(* The Runtime: whoever holds its mutex reads the provider, then acts *)

RuntimeOnly == UNCHANGED <<provider, queue, hubs>>

\* Mutant of Publish: a reader that lags misses the newest status.
PublishKeepsOld(st) ==
  LET new == [st EXCEPT !.rev = status.rev + 1]
  IN  /\ status' = new
      /\ feed' = IF feed.open /\ feed.buf = <<>>
                 THEN [feed EXCEPT !.buf = <<new.rev>>] ELSE feed

\* A reader that lags gets the newest status in place of the one waiting.
Publish(st) ==
  LET new == [st EXCEPT !.rev = status.rev + 1]
  IN  /\ status' = new
      /\ feed' = IF feed.open THEN [feed EXCEPT !.buf = <<new.rev>>] ELSE feed

RuntimeLooks ==
  /\ turn.at = "runtime" /\ lock = Unlocked /\ ~shut
  /\ lock' = [by |-> "observer", saw |-> cur]
  /\ UNCHANGED <<turn, status, shut, conn, feed, ops>> /\ RuntimeOnly

\* The event is out of date: it speaks of the end of a session although one
\* is served, or of another session than the one served, or was shown already.
Stale ==
  \/ turn.kind # "success" /\ lock.saw # 0
  \/ turn.kind = "success" /\ turn.gen # lock.saw
  \/ turn.kind = "success" /\ status.state = "ready"
       /\ status.session = turn.gen

Shows(st) ==
  CASE turn.kind = "start"   -> [st EXCEPT !.state = "authenticating"]
    [] turn.kind = "success" -> [st EXCEPT !.state = "ready",
                                           !.session = lock.saw]
    [] turn.kind = "failed"  -> [st EXCEPT !.state = "failed"]
    [] turn.kind = "invalidated" -> [st EXCEPT !.state = "idle",
                                               !.session = 0]

RuntimeObserves ==
  /\ lock.by = "observer"
  /\ IF Stale THEN UNCHANGED <<status, feed>> ELSE Publish(Shows(status))
  /\ lock' = Unlocked /\ turn' = Rest
  /\ UNCHANGED <<shut, conn, ops>> /\ RuntimeOnly

\* A closed Runtime takes no notice.
RuntimeIgnores ==
  /\ turn.at = "runtime" /\ lock = Unlocked /\ shut
  /\ turn' = Rest
  /\ UNCHANGED <<runtime, ops>> /\ RuntimeOnly

\* Connect is given the served session, and looks again once it has the mutex.
ConnectGiven ==
  /\ conn = 0 /\ cur # 0 /\ Spend
  /\ conn' = cur
  /\ UNCHANGED <<turn, status, shut, lock, feed>> /\ RuntimeOnly

\* Mutant of ConnectLooks: Connect trusts the session it was given.
ConnectTrusts ==
  /\ conn # 0 /\ lock = Unlocked
  /\ IF shut THEN conn' = 0 /\ UNCHANGED lock
     ELSE lock' = [by |-> "connect", saw |-> conn] /\ UNCHANGED conn
  /\ UNCHANGED <<turn, status, shut, feed, ops>> /\ RuntimeOnly

ConnectLooks ==
  /\ conn # 0 /\ lock = Unlocked
  /\ IF shut \/ cur # conn THEN conn' = 0 /\ UNCHANGED lock
     ELSE lock' = [by |-> "connect", saw |-> conn] /\ UNCHANGED conn
  /\ UNCHANGED <<turn, status, shut, feed, ops>> /\ RuntimeOnly

ConnectReady ==
  /\ lock.by = "connect"
  /\ Publish([status EXCEPT !.state = "ready", !.session = lock.saw])
  /\ lock' = Unlocked /\ conn' = 0
  /\ UNCHANGED <<turn, shut, ops>> /\ RuntimeOnly

\* First half of Runtime.Close: the readers get a last event.
RuntimeClose ==
  /\ ~shut /\ lock = Unlocked
  /\ shut' = TRUE
  /\ Publish([status EXCEPT !.state = "closed"])
  /\ UNCHANGED <<turn, lock, conn, ops>> /\ RuntimeOnly

\* Only the library hands its status on.
Subscribe ==
  /\ mode = "library" /\ ~feed.open /\ ~shut /\ lock = Unlocked /\ Spend
  /\ feed' = [open |-> TRUE, buf |-> <<status.rev>>, seen |-> 0]
  /\ UNCHANGED <<turn, status, shut, lock, conn>> /\ RuntimeOnly

FeedReads ==
  /\ feed.buf # <<>>
  /\ feed' = [feed EXCEPT !.buf = <<>>, !.seen = Head(feed.buf)]
  /\ UNCHANGED <<turn, status, shut, lock, conn, ops>> /\ RuntimeOnly

-----------------------------------------------------------------------------

Acquisition ==
  \/ CredentialLeads \/ ForcedLeads \/ LeaderLeaves \/ Restores \/ BeginFails
  \/ LoginStarts \/ LoginRestarts \/ LoginEnds
  \/ FinishPublishes \/ FinishFails \/ FinishSilently

Drainer == Dequeue \/ HubObserves \/ RuntimeLooks \/ RuntimeObserves
           \/ RuntimeIgnores

Connecting == ConnectLooks \/ ConnectReady

Steps ==
  \/ Acquisition \/ Forget \/ InvalidateIfCurrent \/ ProviderClose
  \/ Drainer \/ StreamOpens \/ StreamReads
  \/ ConnectGiven \/ Connecting \/ RuntimeClose \/ Subscribe \/ FeedReads

EventsNext == Steps /\ UNCHANGED mode

EventsSpec == EventsInit /\ [][EventsNext]_eventsVars

\* The drainer runs whenever it can, and nobody keeps the mutex.
FairEvents ==
  /\ EventsSpec
  /\ WF_eventsVars(Drainer /\ UNCHANGED mode)
  /\ WF_eventsVars(ConnectReady /\ UNCHANGED mode)

-----------------------------------------------------------------------------
(* Properties *)

\* Every variable has its type.
EventsTyped ==
  /\ cur \in {0, issued} /\ issued \in Nat /\ rev \in Nat /\ closed \in BOOLEAN
  /\ DOMAIN acq = DOMAIN NoAcq
  /\ acq.phase \in {"none", "begun", "login", "ended"} /\ acq.rev \in 0..rev
  /\ Len(queue) <= MaxQueue
  /\ turn.at \in {"rest", "hub", "runtime"}
  /\ hub.gen \in 0..issued /\ hub.user \in {0, hub.gen}
  /\ Len(stream.buf) <= StreamSize
  /\ status.state \in {"idle", "authenticating", "ready", "failed", "closed"}
  /\ status.session \in 0..issued /\ shut \in BOOLEAN
  /\ lock.by \in {"nobody", "observer", "connect"} /\ conn \in 0..issued
  /\ Len(feed.buf) <= 1

\* Nothing is on its way to the observers.
Drained == queue = <<>> /\ turn = Rest /\ lock = Unlocked /\ ~closed /\ ~shut

\* Once its events are delivered and no acquisition is under way, the panel
\* shows a session exactly while one is served, shows that one, and is not stuck
\* in "connecting", although a full queue loses events.
PanelAgrees ==
  mode = "panel" /\ Drained /\ acq = NoAcq =>
    /\ hub.active = (cur # 0)
    /\ hub.user = cur
    /\ ~hub.acquiring

\* Once its events are delivered the Runtime is ready exactly while a session
\* is served, and shows that one, whatever Connect wrote in between.
StatusAgrees ==
  Drained => /\ (status.state = "ready") = (cur # 0)
             /\ cur # 0 => status.session = cur

\* An open stream that is read to its end has seen the newest panel: no
\* snapshot is ever skipped on it.
StreamCurrent ==
  stream.open =>
    IF stream.buf = <<>> THEN stream.seen = hub.count
    ELSE \A i \in 1..Len(stream.buf) : stream.buf[i] = stream.seen + i

\* A reader that takes what waits for it has the newest status, up to and
\* including the closing one.
FeedCurrent ==
  feed.open =>
    status.rev = IF feed.buf = <<>> THEN feed.seen ELSE Head(feed.buf)

\* Every reader is current: of the panel's stream, and of the Runtime's feed.
ReadersCurrent == EventsTyped /\ StreamCurrent /\ FeedCurrent

\* A session that stays served is eventually the one the Runtime shows.
ServedIsShown ==
  \A g \in 1..MaxOps :
    cur = g ~> (status.state = "ready" /\ status.session = g)
                 \/ cur # g \/ shut

=============================================================================
