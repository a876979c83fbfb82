---------------------------- MODULE TunnelManager ----------------------------
(***************************************************************************)
(* tunnel.Manager: callers of Tunnel share one connect attempt, which runs  *)
(* in a goroutine of its own, authenticates the session the provider serves *)
(* on one gateway line after the other, and gives the session up once every *)
(* line was tried and some line rejected it.                                *)
(*                                                                         *)
(* The provider is any that keeps SessionContract.  A connectCall, its      *)
(* goroutine and the tunnel it builds share one name; names are used again  *)
(* once nothing refers to them.  Which eligible line wins the race is left  *)
(* open, and so is when a line's cooldown ends.                             *)
(***************************************************************************)
EXTENDS Integers, FiniteSets

CONSTANTS Procs,       \* callers
          Impatient,   \* bound: those whose contexts may end
          Conns,       \* bound: names of connect calls and their tunnels
          NoConn,      \* nil
          Lines,       \* the gateway line pool
          MaxAttempts, \* Manager.MaxAttempts
          MaxCalls,    \* bound: calls of Tunnel
          MaxSessions, \* bound: sessions served
          MaxFaults    \* bound: tunnels that break, line switches and resets

ASSUME ManagerAssumption ==
  /\ NoConn \notin Conns /\ Lines # {} /\ Impatient \subseteq Procs
  /\ MaxAttempts \in Nat \ {0} /\ MaxCalls \in Nat /\ MaxSessions \in Nat
  /\ MaxFaults \in Nat

VARIABLES
  session, sid, issued, barred, over,  \* the provider, see SessionContract
  closed,      \* m.closed
  cur,         \* m.cur
  connecting,  \* m.connecting
  call,        \* the connectCalls
  work,        \* their goroutines: runConnect and connect
  alive,       \* the tunnels that are open
  failed,      \* lines in cooldown
  caller,      \* the goroutines in Tunnel
  calls, faults  \* counters for the bounds

provider == <<session, sid, issued, barred, over>>
manager  == <<closed, cur, connecting>>
counters == <<calls, faults>>
vars     == <<provider, manager, call, work, alive, failed, caller, counters>>

Session == INSTANCE SessionContract

NoCred == [gen |-> 0, sid |-> 0]
Served == [gen |-> session, sid |-> sid]

Idle == [pc         |-> "idle",  \* where the caller is
         expect     |-> 0,       \* generation its context expects, 0 for none
         gone       |-> FALSE,   \* its context has ended
         cred       |-> NoCred,  \* its credential
         conn       |-> NoConn,  \* the call it joined or the tunnel it has
         barredThen |-> {}]      \* history: sids barred when the call began

\* A call that nobody waits for.
NoCall == [waiters |-> 0, finished |-> FALSE, err |-> FALSE]

Ended == [pc       |-> "ended", \* where the goroutine is
          stopped  |-> FALSE,   \* the call's context has ended
          bound    |-> 0,       \* generation its context expects
          attempt  |-> 0,
          cred     |-> NoCred,  \* the session of this attempt
          rejects  |-> {},      \* lines in authRejects
          tried    |-> {},      \* lines in tried
          evidence |-> {},      \* history: sids the lines in rejects refused
          line     |-> NoConn]  \* line dialled last

Running == {"try", "dial", "auth", "judge", "backoff", "built", "gaveUp"}

Init ==
  /\ Session!Init
  /\ closed = FALSE /\ cur = NoConn /\ connecting = NoConn
  /\ call = [k \in Conns |-> NoCall]
  /\ work = [k \in Conns |-> Ended]
  /\ alive = {} /\ failed = {}
  /\ caller = [p \in Procs |-> Idle]
  /\ calls = 0 /\ faults = 0

-----------------------------------------------------------------------------
(* The provider *)

\* A session of an earlier id or of a new one; ids are numbered as they come.
Serves ==
  /\ issued < MaxSessions
  /\ sid' \in 1..(issued + 1)
  /\ Session!Serve
  /\ UNCHANGED <<manager, call, work, alive, failed, caller, counters>>

\* Someone else drops the session.  A closed provider is left out: callers
\* only see its Credential fail, and it may fail in any state.
Withdraws ==
  /\ session # 0
  /\ session' = 0 /\ sid' = 0
  /\ barred' \in {barred, barred \cup {sid}}
  /\ over' = over
  /\ Session!Withdraw
  /\ UNCHANGED <<manager, call, work, alive, failed, caller, counters>>

\* Provider.Credential answers a context that expects generation g.
Answers(g) == session # 0 /\ ~over /\ g \in {0, session}

-----------------------------------------------------------------------------
(* Manager.Tunnel *)

At(p, l) == caller[p].pc = l

\* A caller that is bound to a session carries its generation.  One that is
\* stale from the start only fails, as CredentialFails may do anyway.
BeginTunnel(p) ==
  /\ At(p, "idle") /\ calls < MaxCalls
  /\ calls' = calls + 1
  /\ \E g \in {0, session} :
       caller' = [caller EXCEPT ![p].pc = "loop", ![p].expect = g,
                                ![p].barredThen = barred]
  /\ UNCHANGED <<provider, manager, call, work, alive, failed, faults>>

\* The context of p ends.  Under the lock nobody looks at it: one that ends there
\* is as good as one that ends when the wait begins.
CallerLeaves(p) ==
  /\ At(p, "loop") \/ At(p, "waiting")
  /\ ~caller[p].gone
  /\ p \in Impatient
  /\ caller' = [caller EXCEPT ![p].gone = TRUE]
  /\ UNCHANGED <<provider, manager, call, work, alive, failed, counters>>

\* Tunnel returns tunnel k.
Returns(p, k) ==
  /\ caller' = [caller EXCEPT ![p].pc = "returned", ![p].conn = k]
  /\ UNCHANGED <<provider, manager, call, work, alive, failed, counters>>

\* Tunnel returns an error, of a kind that is left out.
ReturnsError(p) ==
  /\ caller' = [caller EXCEPT ![p] = Idle]
  /\ UNCHANGED <<provider, manager, call, work, alive, failed, counters>>

LoopRefused(p) ==
  At(p, "loop") /\ (caller[p].gone \/ closed) /\ ReturnsError(p)

\* The acquisition fails, or the session the context expects is gone.
CredentialFails(p) == At(p, "loop") /\ ReturnsError(p)

CredentialGiven(p) ==
  /\ At(p, "loop") /\ ~caller[p].gone /\ Answers(caller[p].expect)
  /\ caller' = [caller EXCEPT ![p].pc = "lock", ![p].cred = Served]
  /\ UNCHANGED <<provider, manager, call, work, alive, failed, counters>>

LockClosed(p) == At(p, "lock") /\ closed /\ ReturnsError(p)

Usable(p) == cur \in alive /\ work[cur].cred.sid = caller[p].cred.sid

\* Mutant of TunnelReused: a live tunnel is good for any session.
TunnelReusedForAny(p) ==
  At(p, "lock") /\ ~closed /\ cur \in alive /\ Returns(p, cur)

TunnelReused(p) ==
  At(p, "lock") /\ ~closed /\ Usable(p) /\ Returns(p, cur)

\* The tunnel of another session, or a dead one, is dropped.
MustConnect(p) ==
  /\ At(p, "lock") /\ ~closed /\ ~Usable(p)
  /\ cur' = NoConn /\ alive' = alive \ {cur}

\* p waits for call k, and will ask for its credential again.
Waits(p, k) ==
  caller' = [caller EXCEPT ![p].pc = "waiting", ![p].conn = k,
                           ![p].cred = NoCred]

\* Mutant of Joins: the waiter is not counted.
JoinsUncounted(p) ==
  /\ MustConnect(p) /\ connecting # NoConn
  /\ Waits(p, connecting)
  /\ UNCHANGED <<provider, closed, connecting, call, work, failed, counters>>

Joins(p) ==
  /\ MustConnect(p) /\ connecting # NoConn
  /\ call' = [call EXCEPT ![connecting].waiters = @ + 1]
  /\ Waits(p, connecting)
  /\ UNCHANGED <<provider, closed, connecting, work, failed, counters>>

\* Nothing refers to k any more, once a dead current tunnel is dropped.
Unused(k) ==
  /\ work[k].pc = "ended" /\ connecting # k /\ k \notin alive
  /\ \A p \in Procs : caller[p].conn # k

StartsConnect(p) ==
  /\ MustConnect(p) /\ connecting = NoConn
  /\ \E k \in Conns :
       /\ Unused(k)
       /\ connecting' = k
       /\ call' = [call EXCEPT ![k] = [NoCall EXCEPT !.waiters = 1]]
       /\ work' = [work EXCEPT ![k] = [Ended EXCEPT !.pc = "try",
                                          !.bound = caller[p].expect]]
       /\ Waits(p, k)
  /\ UNCHANGED <<provider, closed, failed, counters>>

\* Mutant of LeavesCall: the abandoned call keeps its place and its context.
LeavesCallRunning(k) ==
  /\ call' = [call EXCEPT ![k].waiters = @ - 1]
  /\ UNCHANGED <<connecting, work>>

\* The last waiter to leave an unfinished call ends it; nobody reads the
\* error of a finished one after that.
LeavesCall(k) ==
  LET last == call[k].waiters = 1
      abandoned == last /\ ~call[k].finished
  IN  /\ call' = [call EXCEPT ![k].waiters = @ - 1,
                              ![k].err = @ /\ ~last]
      /\ connecting' = IF abandoned /\ connecting = k THEN NoConn
                       ELSE connecting
      /\ work' = [work EXCEPT ![k].stopped = @ \/ abandoned]

\* waitConnect ends: with the caller's own context, the call's error, or for
\* another round.
WaitEnds(p) ==
  LET k == caller[p].conn
  IN  /\ At(p, "waiting")
      /\ \/ /\ caller[p].gone \/ (call[k].finished /\ call[k].err)
            /\ caller' = [caller EXCEPT ![p] = Idle]
         \/ /\ ~caller[p].gone /\ call[k].finished /\ ~call[k].err
            /\ caller' = [caller EXCEPT ![p].pc = "loop", ![p].conn = NoConn]
      /\ LeavesCall(k)
      /\ UNCHANGED <<provider, closed, cur, alive, failed, counters>>

\* The caller is done with its tunnel.
Done(p) ==
  /\ At(p, "returned")
  /\ caller' = [caller EXCEPT ![p] = Idle]
  /\ UNCHANGED <<provider, manager, call, work, alive, failed, counters>>

-----------------------------------------------------------------------------
(* connect *)

Doing(k, l) == work[k].pc = l /\ ~work[k].stopped

ConnectOnly == UNCHANGED <<provider, manager, call, caller, counters>>

\* connect returns with tunnel k, or without one.
ConnectReturns(k, l) ==
  work' = [work EXCEPT ![k] =
             [Ended EXCEPT !.pc = l, !.stopped = work[k].stopped,
                           !.cred = IF l = "built" THEN work[k].cred ELSE @,
                           !.line = IF l = "built" THEN work[k].line ELSE @]]

\* The shared budget of the call runs out.
BudgetEnds(k) ==
  /\ work[k].pc \in Running /\ ~work[k].stopped
  /\ work' = [work EXCEPT ![k].stopped = TRUE]
  /\ UNCHANGED <<alive, failed>> /\ ConnectOnly

LastAttempt(k) == work[k].attempt + 1 = MaxAttempts

\* The context has ended, or the last attempt has failed.
GivesUp(k) ==
  /\ \/ work[k].pc \in {"try", "dial", "auth", "backoff"} /\ work[k].stopped
     \/ work[k].pc = "backoff" /\ LastAttempt(k)
  /\ ConnectReturns(k, "gaveUp")
  /\ UNCHANGED <<alive, failed>> /\ ConnectOnly

TryFails(k) ==
  /\ Doing(k, "try")
  /\ work' = [work EXCEPT ![k].pc = "backoff"]
  /\ UNCHANGED <<alive, failed>> /\ ConnectOnly

\* Mutant of TryUses: the rejections of an earlier session still count.
TryKeepsRejects(k) ==
  /\ Doing(k, "try") /\ Answers(work[k].bound)
  /\ work' = [work EXCEPT ![k].pc = "dial", ![k].cred = Served]
  /\ UNCHANGED <<alive, failed>> /\ ConnectOnly

\* Another session than the last attempt's: its rejections start afresh.
TryUses(k) ==
  LET same == work[k].cred.sid = sid
  IN  /\ Doing(k, "try") /\ Answers(work[k].bound)
      /\ work' = [work EXCEPT
                    ![k].pc = "dial", ![k].cred = Served,
                    ![k].rejects = IF same THEN @ ELSE {},
                    ![k].tried = IF same THEN @ ELSE {},
                    ![k].evidence = IF same THEN @ ELSE {}]
      /\ UNCHANGED <<alive, failed>> /\ ConnectOnly

\* Lines in cooldown are passed over unless all are.
Eligible == IF Lines \ failed = {} THEN Lines ELSE Lines \ failed

\* A line wins the race; some lines may have failed before.
DialWins(k) ==
  /\ work[k].pc = "dial"
  /\ \E l \in Eligible : \E slow \in SUBSET (Eligible \ {l}) :
       /\ work' = [work EXCEPT ![k].pc = "auth", ![k].line = l]
       /\ failed' = (failed \cup slow) \ {l}
  /\ UNCHANGED alive /\ ConnectOnly

DialFails(k) ==
  /\ Doing(k, "dial")
  /\ work' = [work EXCEPT ![k].pc = "judge"]
  /\ failed' = failed \cup Eligible
  /\ UNCHANGED alive /\ ConnectOnly

AuthAccepts(k) ==
  /\ Doing(k, "auth")
  /\ ConnectReturns(k, "built")
  /\ alive' = alive \cup {k}
  /\ UNCHANGED failed /\ ConnectOnly

\* The line fails or asks for another line, or it rejects the session.
AuthFails(k) ==
  /\ Doing(k, "auth")
  /\ \E rejecting \in SUBSET {work[k].line} :
       work' = [work EXCEPT
                  ![k].pc = "judge", ![k].tried = @ \cup {work[k].line},
                  ![k].rejects = @ \cup rejecting,
                  ![k].evidence = IF rejecting = {} THEN @
                                  ELSE @ \cup {work[k].cred.sid}]
  /\ failed' = failed \cup {work[k].line}
  /\ UNCHANGED alive /\ ConnectOnly

\* Every line was tried and at least one rejected the session.
Refused(k) == work[k].rejects # {} /\ Lines \subseteq work[k].tried \cup failed

\* InvalidateIfCurrent: the session used is given up if it is still served.
SessionRefused(k) ==
  /\ work[k].pc = "judge" /\ Refused(k)
  /\ IF session # 0 /\ session = work[k].cred.gen
       THEN session' = 0 /\ sid' = 0 /\ barred' = barred \cup {sid}
       ELSE UNCHANGED <<session, sid, barred>>
  /\ work' = [work EXCEPT ![k].pc = "backoff", ![k].rejects = {},
                          ![k].tried = {}, ![k].evidence = {}]
  /\ UNCHANGED <<issued, over, manager, call, alive, failed, caller, counters>>

NotYetRefused(k) ==
  /\ work[k].pc = "judge" /\ ~Refused(k)
  /\ work' = [work EXCEPT ![k].pc = "backoff"]
  /\ UNCHANGED <<alive, failed>> /\ ConnectOnly

Backoff(k) ==
  /\ Doing(k, "backoff") /\ ~LastAttempt(k)
  /\ work' = [work EXCEPT ![k].pc = "try", ![k].attempt = @ + 1]
  /\ UNCHANGED <<alive, failed>> /\ ConnectOnly

-----------------------------------------------------------------------------
(* runConnect hands the outcome over *)

\* The manager is closed, or the call was reset, abandoned or taken over.
Unwanted(k) == closed \/ connecting # k \/ call[k].waiters = 0

\* Mutant of Publishes: whoever still waits, the tunnel is handed over.
PublishesAnyway(k) ==
  /\ work[k].pc = "built"
  /\ work' = [work EXCEPT ![k].pc = "ended", ![k].stopped = TRUE]
  /\ cur' = k
  /\ connecting' = IF connecting = k THEN NoConn ELSE connecting
  /\ call' = [call EXCEPT ![k].finished = TRUE]
  /\ UNCHANGED <<provider, closed, alive, failed, caller, counters>>

Publishes(k) ==
  /\ work[k].pc = "built" /\ ~Unwanted(k)
  /\ work' = [work EXCEPT ![k].pc = "ended", ![k].stopped = TRUE]
  /\ cur' = k /\ connecting' = NoConn
  /\ call' = [call EXCEPT ![k].finished = TRUE]
  /\ UNCHANGED <<provider, closed, alive, failed, caller, counters>>

\* Mutant of FinishesWithout: the waiters are not told of a failure.
FinishesSilently(k) ==
  /\ work[k].pc = "gaveUp" \/ (work[k].pc = "built" /\ Unwanted(k))
  /\ work' = [work EXCEPT ![k] = Ended]
  /\ alive' = alive \ {k}
  /\ connecting' = IF connecting = k THEN NoConn ELSE connecting
  /\ UNCHANGED <<provider, closed, cur, call, failed, caller, counters>>

\* The connect failed, or its tunnel is unwanted and closed again.
FinishesWithout(k) ==
  /\ work[k].pc = "gaveUp" \/ (work[k].pc = "built" /\ Unwanted(k))
  /\ work' = [work EXCEPT ![k] = Ended]
  /\ alive' = alive \ {k}
  /\ connecting' = IF connecting = k THEN NoConn ELSE connecting
  /\ call' = IF call[k].finished THEN call
             ELSE [call EXCEPT ![k].finished = TRUE, ![k].err = TRUE]
  /\ UNCHANGED <<provider, closed, cur, failed, caller, counters>>

-----------------------------------------------------------------------------
(* Close, Reset, SwitchLine and what happens to lines and tunnels *)

\* The call under way ends with an error; the tunnel is closed.
Clear ==
  /\ connecting' = NoConn /\ cur' = NoConn
  /\ alive' = alive \ {cur}
  /\ IF connecting = NoConn THEN UNCHANGED <<call, work>>
     ELSE /\ call' = [call EXCEPT ![connecting].finished = TRUE,
                                  ![connecting].err = TRUE]
          /\ work' = [work EXCEPT ![connecting].stopped = TRUE]

\* The tunnel is dead from here on; the code closes it after the unlock, when
\* nobody can get it from the manager any more.
ManagerClose ==
  /\ ~closed /\ closed' = TRUE
  /\ Clear
  /\ UNCHANGED <<provider, failed, caller, counters>>

\* Runs when the session ends or changes.
Reset ==
  /\ faults < MaxFaults /\ faults' = faults + 1
  /\ Clear
  /\ UNCHANGED <<provider, closed, failed, caller, calls>>

\* A flow's authorization asks for another line: the current tunnel, which
\* may have replaced the flow's own, is noted first and killed later.
BeginSwitchLine(p) ==
  /\ At(p, "returned")
  /\ faults < MaxFaults /\ faults' = faults + 1
  /\ caller' = [caller EXCEPT ![p].pc = "switching", ![p].conn = cur]
  /\ UNCHANGED <<provider, manager, call, work, alive, failed, calls>>

EndSwitchLine(p) ==
  /\ At(p, "switching")
  /\ failed' = IF caller[p].conn = NoConn THEN failed
               ELSE failed \cup {work[caller[p].conn].line}
  /\ alive' = alive \ {caller[p].conn}
  /\ caller' = [caller EXCEPT ![p] = Idle]
  /\ UNCHANGED <<provider, manager, call, work, counters>>

CooldownEnds(l) ==
  /\ l \in failed
  /\ failed' = failed \ {l}
  /\ UNCHANGED <<provider, manager, call, work, alive, caller, counters>>

\* The connection breaks or its heartbeat is lost.
TunnelDies(k) ==
  /\ k \in alive /\ faults < MaxFaults
  /\ faults' = faults + 1
  /\ alive' = alive \ {k}
  /\ UNCHANGED <<provider, manager, call, work, failed, caller, calls>>

-----------------------------------------------------------------------------

CallerStep(p) ==
  \/ LoopRefused(p) \/ CredentialFails(p) \/ CredentialGiven(p)
  \/ LockClosed(p) \/ TunnelReused(p) \/ Joins(p) \/ StartsConnect(p)
  \/ WaitEnds(p) \/ Done(p) \/ EndSwitchLine(p)

WorkerStep(k) ==
  \/ GivesUp(k) \/ TryFails(k) \/ TryUses(k)
  \/ DialWins(k) \/ DialFails(k) \/ AuthAccepts(k) \/ AuthFails(k)
  \/ SessionRefused(k) \/ NotYetRefused(k) \/ Backoff(k)
  \/ Publishes(k) \/ FinishesWithout(k)

Next ==
  \/ Serves \/ Withdraws \/ ManagerClose \/ Reset
  \/ \E p \in Procs : \/ CallerStep(p) \/ BeginTunnel(p) \/ CallerLeaves(p)
                      \/ BeginSwitchLine(p)
  \/ \E k \in Conns : WorkerStep(k) \/ BudgetEnds(k) \/ TunnelDies(k)
  \/ \E l \in Lines : CooldownEnds(l)

Spec == Init /\ [][Next]_vars

\* Goroutines run; credentials, dials and gateways answer or time out.
Fairness ==
  /\ \A p \in Procs : WF_vars(CallerStep(p))
  /\ \A k \in Conns : WF_vars(WorkerStep(k))
FairSpec == Spec /\ Fairness

-----------------------------------------------------------------------------
(* Properties *)

Creds == [gen : Nat, sid : Nat]

\* Every variable has its type.
TypeOK ==
  /\ session \in Nat /\ sid \in Nat /\ issued \in Nat
  /\ barred \subseteq Nat /\ over \in BOOLEAN
  /\ closed \in BOOLEAN
  /\ cur \in Conns \cup {NoConn} /\ connecting \in Conns \cup {NoConn}
  /\ call \in [Conns -> [waiters : Nat, finished : BOOLEAN, err : BOOLEAN]]
  /\ \A k \in Conns :
       /\ DOMAIN work[k] = DOMAIN Ended
       /\ work[k].pc \in Running \cup {"ended"} /\ work[k].stopped \in BOOLEAN
       /\ work[k].bound \in Nat /\ work[k].attempt \in 0..(MaxAttempts - 1)
       /\ work[k].cred \in Creds /\ work[k].evidence \subseteq Nat
       /\ work[k].rejects \subseteq work[k].tried
       /\ work[k].tried \subseteq Lines
       /\ work[k].line \in Lines \cup {NoConn}
  /\ alive \subseteq Conns /\ failed \subseteq Lines
  /\ \A p \in Procs :
       /\ DOMAIN caller[p] = DOMAIN Idle
       /\ caller[p].pc \in {"idle", "loop", "lock", "waiting", "returned",
                            "switching"}
       /\ caller[p].expect \in Nat /\ caller[p].gone \in BOOLEAN
       /\ caller[p].cred \in Creds /\ caller[p].conn \in Conns \cup {NoConn}
       /\ caller[p].barredThen \subseteq Nat
  /\ calls \in Nat /\ faults \in Nat

\* One connect at most runs with a live context, and only while someone is
\* counted as waiting for it; and who waits for an unfinished call waits for the
\* connect that is under way, whatever mix of answers, cancellations, resets and
\* abandoned calls he came or others left by.
SingleFlight ==
  /\ \A k \in Conns :
       work[k].pc \in Running /\ ~work[k].stopped =>
         connecting = k /\ call[k].waiters > 0
  /\ \A p \in Procs : LET k == caller[p].conn IN
       At(p, "waiting") /\ ~call[k].finished =>
         connecting = k /\ work[k].pc \in Running

\* Every open tunnel is the current one of an open manager or still in the hands
\* of the connect that built it: none is lost to an abandoned call, a reset or
\* Close.
NoOrphanTunnel ==
  \A k \in alive : (cur = k /\ ~closed) \/ work[k].pc = "built"

\* No connect, waiter or tunnel is left without the one who looks after it.
FlightOwned == TypeOK /\ SingleFlight /\ NoOrphanTunnel

\* A caller is never given a tunnel of a session that was already declared
\* dead when it called, and one bound to a session gets that session's tunnel.
TunnelOfSession ==
  \A p \in Procs :
    At(p, "returned") =>
      LET used == work[caller[p].conn].cred.sid
      IN  /\ used \notin caller[p].barredThen
          /\ used = caller[p].cred.sid
          /\ caller[p].expect \in {0, caller[p].cred.gen}

\* The session is given up only on the evidence of lines that rejected that
\* very session, and only while it is the served one.
GivenUpOnEvidence ==
  [][\A k \in Conns :
       session # 0 /\ session' = 0
         /\ work[k].pc = "judge" /\ work'[k].pc = "backoff"
         => work[k].cred.gen = session /\ work[k].evidence = {sid}]_vars

\* What the Runtime sees of the manager, see TunnelGroups.  A connect that has
\* not read its credential, or is done with it, is merely begun.
Attempting == connecting # NoConn /\ work[connecting].pc \in {"dial", "auth", "built"}
Seen == [closed  |-> closed,
         tunnel  |-> IF cur \in alive THEN work[cur].cred.sid ELSE 0,
         connect |-> IF connecting = NoConn THEN "no"
                     ELSE IF Attempting THEN "building" ELSE "begun",
         sid     |-> IF Attempting THEN work[connecting].cred.sid ELSE 0]

Groups == INSTANCE TunnelGroups WITH
  MaxManagers <- 1, managers <- <<Seen>>, group <- 0

\* To the Runtime the manager is one of TunnelGroups, however many callers and
\* connects that were given up, overtaken or reset are still under way in it: its
\* tunnel is of the session its one connect has read while that was served, and
\* what it cuts stays cut.
SeenAsManager ==
  Groups!GroupsInit /\ [][Groups!ManagerNext(Groups!Root, sid)]_<<Seen>>

\* Every call of Tunnel returns, also when its session changes under it.
CallReturns == \A p \in Procs : ~At(p, "idle") ~> At(p, "idle")

=============================================================================
