--------------------------- MODULE RuntimeLifetime ---------------------------
(***************************************************************************)
(* What internal/runtime ties together: its operations, the connections it  *)
(* hands out, the session each belongs to, and Close.  A connection ends    *)
(* with its session (context.AfterFunc on Credential.Lifetime), with        *)
(* ForgetSession or the logout of this device (resetConnections), with the  *)
(* Runtime, or when its user closes it; Close waits for every operation.    *)
(*                                                                         *)
(* The provider is any that keeps SessionContract; Credential.Lifetime of   *)
(* generation g has ended once g is not served.  An operation and the       *)
(* connection it dials share one name.  A call that blocks (prepare, the    *)
(* resolver, Credential, the dialer, the controller) may fail at any time.  *)
(* A dial goes over a direct stream, or over a tunnel of the manager of its  *)
(* application's group (TunnelGroups).  Every session served is taken to have *)
(* a session id of its own, by which a manager compares them.                *)
(***************************************************************************)
EXTENDS TunnelGroups, FiniteSets

CONSTANTS Ops,         \* bound: operations, each used once
          Nobody,
          MaxSessions  \* bound: sessions served

ASSUME LifetimeAssumption == Nobody \notin Ops /\ MaxSessions \in Nat

VARIABLES
  session, issued, over, \* the provider, see SessionContract
  mu,        \* the operation inside Runtime.mu across a call, or Nobody
  closed,    \* Runtime.closed; its context ends at the same time
  tasks,     \* CheckLoop and tasksDone: "idle", "running", "done"
  running,   \* Runtime.ops: the operations it counts
  conns,     \* Runtime.conns
  shutdown,  \* where Close is: "no", "conns", "provider", "managers",
             \* "groups" (which holds groupsMu), "wait", "done"
  doomed,    \* connections Close still has to close
  op,        \* the operations
  conn,      \* the dialled connections: "none", "open", "closed"
  armed,     \* connections with an AfterFunc on their session
  once       \* ownedConn.once: "no", "closing", "closed", "done"

provider == <<session, issued, over>>
closing  == <<shutdown, doomed>>
owned    == <<conns, conn, armed, once>>
vars     == <<provider, mu, closed, tasks, running, closing, op, owned, groupVars>>

Session == INSTANCE SessionContract WITH sid <- session, barred <- {}

NoOp == [kind |-> "none",
         pc   |-> "idle",
         res  |-> 0,       \* session its target was resolved in
         gen  |-> 0,       \* session of its credential
         mgr  |-> 0,       \* manager it asks for a tunnel
         via  |-> 0,       \* session of its stream, or of the tunnel it asks for
         todo |-> {}]      \* connections resetConnections has to close

Init ==
  /\ Session!Init /\ GroupsInit
  /\ mu = Nobody /\ closed = FALSE /\ tasks = "idle" /\ running = {}
  /\ shutdown = "no" /\ doomed = {}
  /\ op = [o \in Ops |-> NoOp]
  /\ conns = {} /\ armed = {}
  /\ conn = [o \in Ops |-> "none"] /\ once = [o \in Ops |-> "no"]

At(o, l)    == op[o].pc = l
Goes(o, l)  == op' = [op EXCEPT ![o].pc = l]
Served(g)   == session = g /\ g # 0
SharedOnly  == UNCHANGED <<provider, mu, closed, tasks, closing, groupVars>>

-----------------------------------------------------------------------------
(* The provider *)

Serves ==
  /\ issued < MaxSessions
  /\ Session!Serve
  /\ UNCHANGED <<mu, closed, tasks, running, closing, op, owned, groupVars>>

Withdraws ==
  /\ session # 0 /\ session' = 0 /\ over' = over /\ Session!Withdraw
  /\ UNCHANGED <<mu, closed, tasks, running, closing, op, owned, groupVars>>

-----------------------------------------------------------------------------
(* Operations *)

\* Mutant of WithLifetime: a closed Runtime counts operations too.
WithLifetimeAlways(o) ==
  /\ At(o, "idle") /\ mu = Nobody
  /\ running' = running \cup {o}
  /\ \E k \in {"dial", "connect", "query", "forget", "logout"} :
       op' = [op EXCEPT ![o].kind = k, ![o].pc = "prepare"]
  /\ SharedOnly /\ UNCHANGED owned

\* A closed Runtime refuses; otherwise the operation is counted under the
\* mutex that Close takes.
WithLifetime(o) ==
  /\ At(o, "idle") /\ mu = Nobody /\ ~closed
  /\ running' = running \cup {o}
  /\ \E k \in {"dial", "connect", "query", "forget", "logout"} :
       op' = [op EXCEPT ![o].kind = k, ![o].pc = "prepare"]
  /\ SharedOnly /\ UNCHANGED owned

\* The deferred done() of the operation, when it returns.
Returns(o, result) ==
  /\ op' = [op EXCEPT ![o] = IF result = "over" THEN [NoOp EXCEPT !.pc = "over"]
                             ELSE [@ EXCEPT !.pc = result, !.mgr = 0]]
  /\ running' = running \ {o}

\* A call that blocks, or the wait for the session store.
Blocking == {"prepare", "resolve", "credential", "dial", "direct", "forapp", "tunnel",
             "share", "wait", "stream", "call", "invalidate"}

\* Nobody else waits for the connect o waits for.
LastWaiter(o) ==
  At(o, "wait") /\ \A p \in Ops \ {o} : ~(At(p, "wait") /\ op[p].mgr = op[o].mgr)

\* Its error is returned.  A connect that nobody waits for any more is given up.
Fails(o) ==
  /\ op[o].pc \in Blocking
  /\ Returns(o, "over")
  /\ managers' = IF LastWaiter(o) THEN [managers EXCEPT ![op[o].mgr] = GivenUp(@)] ELSE managers
  /\ UNCHANGED <<provider, mu, closed, tasks, closing, owned, group>>

\* The context an operation waits with: it ends with the Runtime, with the
\* session it is bound to, and after the operation's timeout.  Connect waits
\* for a person and has no timeout.
ContextEnded(o) ==
  \/ closed
  \/ op[o].kind # "connect"

Prepared(o) ==
  /\ At(o, "prepare") /\ ~closed
  /\ Goes(o, IF op[o].kind = "dial" THEN "resolve"
             ELSE IF op[o].kind = "forget" THEN "invalidate" ELSE "credential")
  /\ SharedOnly /\ UNCHANGED <<running, owned>>

\* The resolution carries the generation of the policy it was made with.
Resolves(o) ==
  /\ At(o, "resolve") /\ session # 0
  /\ op' = [op EXCEPT ![o].pc = "credential", ![o].res = session]
  /\ SharedOnly /\ UNCHANGED <<running, owned>>

\* Credential answers with the served session.
Credential(o) ==
  /\ At(o, "credential") /\ session # 0 /\ op[o].kind \in {"connect", "query"}
  /\ op' = [op EXCEPT ![o].gen = session,
              ![o].pc = IF op[o].kind = "connect" THEN "connect" ELSE "call"]
  /\ SharedOnly /\ UNCHANGED <<running, owned>>

\* A device operation takes the served session and never acquires one.
DeviceSession(o) ==
  /\ At(o, "credential") /\ session # 0 /\ op[o].kind = "logout"
  /\ op' = [op EXCEPT ![o].gen = session, ![o].pc = "call"]
  /\ SharedOnly /\ UNCHANGED <<running, owned>>

\* Mutant of DialResolved: an old resolution is used under a new session.
DialAnyway(o) ==
  /\ At(o, "credential") /\ session # 0 /\ op[o].kind = "dial"
  /\ op' = [op EXCEPT ![o].gen = session, ![o].pc = "dial"]
  /\ SharedOnly /\ UNCHANGED <<running, owned>>

\* A target resolved in another session is refused (Fails).
DialResolved(o) ==
  /\ At(o, "credential") /\ Served(op[o].res) /\ op[o].kind = "dial"
  /\ op' = [op EXCEPT ![o].gen = session, ![o].pc = "dial"]
  /\ SharedOnly /\ UNCHANGED <<running, owned>>

\* The dialer reads the credential again: for a direct stream, and, if that is
\* not what the application prefers or it fails, for the manager of its group.
DirectBegins(o) ==
  /\ At(o, "dial") /\ session # 0
  /\ op' = [op EXCEPT ![o].pc = "direct", ![o].via = session]
  /\ SharedOnly /\ UNCHANGED <<running, owned>>

AppCredential(o) ==
  /\ At(o, "dial") \/ At(o, "direct")
  /\ session # 0 /\ ~Closed(Root)
  /\ \/ op' = [op EXCEPT ![o].pc = "forapp", ![o].via = 0]
     \/ op' = [op EXCEPT ![o].pc = "tunnel", ![o].via = 0, ![o].mgr = Root]   \* it has no group
  /\ SharedOnly /\ UNCHANGED <<running, owned>>

ForApp(o) ==
  /\ At(o, "forapp") /\ shutdown # "groups"
  /\ FindsGroup
  /\ op' = [op EXCEPT ![o].pc = "tunnel", ![o].mgr = group']
  /\ UNCHANGED <<provider, mu, closed, tasks, running, closing, owned>>

\* OpenTransport asks the root.
OpensTransport(o) ==
  /\ At(o, "call") /\ op[o].kind = "query"
  /\ op' = [op EXCEPT ![o].pc = "tunnel", ![o].mgr = Root]
  /\ SharedOnly /\ UNCHANGED <<running, owned>>

\* Manager.Tunnel; a closed manager refuses (Fails).
TunnelCredential(o) ==
  /\ At(o, "tunnel") /\ session # 0 /\ ~Closed(op[o].mgr)
  /\ op' = [op EXCEPT ![o].pc = "share", ![o].via = session]
  /\ SharedOnly /\ UNCHANGED <<running, owned>>

\* Mutant of Shares: any tunnel will do.
SharesAny(o) ==
  /\ At(o, "share") /\ ~Closed(op[o].mgr)
  /\ IF managers[op[o].mgr].tunnel # 0
     THEN op' = [op EXCEPT ![o].pc = "stream", ![o].via = managers[op[o].mgr].tunnel]
          /\ UNCHANGED managers
     ELSE Goes(o, "wait") /\ Asks(op[o].mgr)
  /\ UNCHANGED <<provider, mu, closed, tasks, running, closing, owned, group>>

Shares(o) ==
  /\ At(o, "share") /\ ~Closed(op[o].mgr)
  /\ IF managers[op[o].mgr].tunnel = op[o].via
     THEN Goes(o, "stream") /\ UNCHANGED managers
     ELSE Goes(o, "wait") /\ Asks(op[o].mgr)
  /\ UNCHANGED <<provider, mu, closed, tasks, running, closing, owned, group>>

\* The connect is over; Tunnel looks again.
Woken(o) ==
  /\ At(o, "wait") /\ managers[op[o].mgr].connect = "no"
  /\ op' = [op EXCEPT ![o].pc = "tunnel", ![o].via = 0]
  /\ SharedOnly /\ UNCHANGED <<running, owned>>

\* The dialer ends with a connection, whatever became of the session.
Dialled(o) ==
  /\ At(o, "direct") \/ (At(o, "stream") /\ op[o].kind = "dial")
  /\ conn' = [conn EXCEPT ![o] = "open"]
  /\ Goes(o, "look")
  /\ SharedOnly /\ UNCHANGED <<running, conns, armed, once>>

\* The connection is given up and the error returned.
GivesUp(o) ==
  /\ conn' = [conn EXCEPT ![o] = "closed"]
  /\ Returns(o, "over")
  /\ SharedOnly /\ UNCHANGED <<conns, armed, once>>

LooksAgain(o) ==
  /\ At(o, "look")
  /\ IF Served(op[o].gen)
     THEN Goes(o, "own") /\ SharedOnly /\ UNCHANGED <<running, owned>>
     ELSE GivesUp(o)

\* ownConnection: refused under the mutex by a closed Runtime, and by a
\* session that was replaced.
OwnRefused(o) ==
  /\ At(o, "own") /\ mu = Nobody
  /\ closed \/ ~Served(op[o].gen)
  /\ GivesUp(o)

\* Mutant of OwnAccepted: the session is not looked at again.
OwnUnseen(o) ==
  /\ At(o, "own") /\ mu = Nobody /\ ~closed
  /\ mu' = o /\ Goes(o, "arm")
  /\ UNCHANGED <<provider, closed, tasks, running, closing, owned, groupVars>>

OwnAccepted(o) ==
  /\ At(o, "own") /\ mu = Nobody /\ ~closed /\ Served(op[o].gen)
  /\ mu' = o /\ Goes(o, "arm")
  /\ UNCHANGED <<provider, closed, tasks, running, closing, owned, groupVars>>

\* Mutant of Own: the connection does not follow its session.
OwnUnarmed(o) ==
  /\ At(o, "arm")
  /\ conns' = conns \cup {o} /\ mu' = Nobody
  /\ Returns(o, "handed")
  /\ UNCHANGED <<provider, closed, tasks, closing, conn, armed, once, groupVars>>

\* The connection is entered and armed; its session may have ended since, and
\* AfterFunc then runs at once.
Own(o) ==
  /\ At(o, "arm")
  /\ conns' = conns \cup {o} /\ armed' = armed \cup {o} /\ mu' = Nobody
  /\ Returns(o, "handed")
  /\ UNCHANGED <<provider, closed, tasks, closing, conn, once, groupVars>>

\* Connect starts CheckLoop under the mutex.
Connects(o) ==
  /\ At(o, "connect") /\ mu = Nobody
  /\ tasks' = IF ~closed /\ Served(op[o].gen) /\ tasks = "idle"
              THEN "running" ELSE tasks
  /\ Returns(o, "over")
  /\ UNCHANGED <<provider, mu, closed, closing, owned, groupVars>>

\* CheckLoop ends with the Runtime's context.
LoopEnds ==
  /\ tasks = "running" /\ closed
  /\ tasks' = "done"
  /\ UNCHANGED <<provider, mu, closed, running, closing, op, owned, groupVars>>

\* OpenTransport, LookupContextHost, ExchangeICMPEcho and the device queries.
Answered(o) ==
  /\ At(o, "call") \/ At(o, "stream")
  /\ op[o].kind = "query"
  /\ Returns(o, "over")
  /\ SharedOnly /\ UNCHANGED owned

-----------------------------------------------------------------------------
(* ForgetSession and the logout of this device *)

Invalidates(o) ==
  /\ At(o, "invalidate")
  /\ over' = over /\ session' = 0 /\ Session!Withdraw
  /\ op' = [op EXCEPT ![o].pc = "reset", ![o].gen = issued]
  /\ UNCHANGED <<mu, closed, tasks, running, closing, owned, groupVars>>

\* The controller has logged this device out; InvalidateIfCurrent.  This is
\* LogoutDevice, which counts as an operation until the reset is over; the
\* LogoutTrustDevice in it, when called alone, counts only until the controller
\* has answered.
LoggedOut(o) ==
  /\ At(o, "call") /\ op[o].kind = "logout"
  /\ IF Served(op[o].gen)
     THEN over' = over /\ session' = 0 /\ Session!Withdraw /\ Goes(o, "reset") /\ UNCHANGED running
     ELSE UNCHANGED provider /\ Returns(o, "over")
  /\ UNCHANGED <<mu, closed, tasks, closing, owned, groupVars>>

\* resetConnections takes the table under the mutex and closes outside of it.
Resets(o) ==
  /\ At(o, "reset") /\ mu = Nobody
  /\ op' = [op EXCEPT ![o].pc = "resetting", ![o].todo = conns]
  /\ SharedOnly /\ UNCHANGED <<running, owned>>

\* A connection whose Close has returned leaves the list.
ResetNext(o) ==
  \E k \in op[o].todo :
    /\ once[k] = "done"
    /\ op' = [op EXCEPT ![o].todo = @ \ {k}]
    /\ SharedOnly /\ UNCHANGED <<running, owned>>

\* Manager.Reset of the root, then of the groups.
ResetsRoot(o) ==
  /\ At(o, "resetting") /\ op[o].todo = {}
  /\ Goes(o, "reset groups")
  /\ managers' = Cut(Root, FALSE)
  /\ UNCHANGED <<provider, mu, closed, tasks, running, closing, owned, group>>

HasReset(o) ==
  /\ At(o, "reset groups") /\ shutdown # "groups"
  /\ Returns(o, "cut")
  /\ CutsGroups
  /\ UNCHANGED <<provider, mu, closed, tasks, closing, owned>>

-----------------------------------------------------------------------------
(* ownedConn.Close *)

\* Who may call it: the user, a Read or Write that finds its session gone, the
\* AfterFunc of the session, resetConnections and Runtime.Close.
MayClose(k) ==
  \/ At(k, "handed")
  \/ k \in armed /\ ~Served(op[k].gen)
  \/ k \in doomed
  \/ \E o \in Ops : k \in op[o].todo

\* Those of them that do not depend on the user.
MustClose(k) ==
  \/ k \in armed /\ ~Served(op[k].gen)
  \/ k \in doomed
  \/ \E o \in Ops : k \in op[o].todo

Step(k, from, to) == once[k] = from /\ once' = [once EXCEPT ![k] = to]

CloseBegins(k) ==
  /\ k \in conns /\ MayClose(k)
  /\ Step(k, "no", "closing")
  /\ armed' = armed \ {k}
  /\ SharedOnly /\ UNCHANGED <<running, op, conns, conn>>

Closes(k) ==
  /\ Step(k, "closing", "closed")
  /\ conn' = [conn EXCEPT ![k] = "closed"]
  /\ SharedOnly /\ UNCHANGED <<running, op, conns, armed>>

Leaves(k) ==
  /\ mu = Nobody
  /\ Step(k, "closed", "done")
  /\ conns' = conns \ {k}
  /\ SharedOnly /\ UNCHANGED <<running, op, conn, armed>>

-----------------------------------------------------------------------------
(* Runtime.Close *)

Close ==
  /\ mu = Nobody /\ ~closed
  /\ closed' = TRUE /\ doomed' = conns /\ shutdown' = "conns"
  /\ UNCHANGED <<provider, mu, tasks, running, op, owned, groupVars>>

CloseNext ==
  \E k \in doomed :
    /\ once[k] = "done"
    /\ doomed' = doomed \ {k}
    /\ UNCHANGED <<provider, mu, closed, tasks, running, shutdown, op, owned, groupVars>>

\* Mutant of ClosesTasks: tasksDone is left to a loop that never started.
ClosesNoTasks ==
  /\ shutdown = "conns" /\ doomed = {}
  /\ shutdown' = "provider"
  /\ UNCHANGED <<provider, mu, closed, tasks, running, doomed, op, owned, groupVars>>

\* startOnce: a CheckLoop that never started never will.
ClosesTasks ==
  /\ shutdown = "conns" /\ doomed = {}
  /\ tasks' = IF tasks = "idle" THEN "done" ELSE tasks
  /\ shutdown' = "provider"
  /\ UNCHANGED <<provider, mu, closed, running, doomed, op, owned, groupVars>>

ClosesProvider ==
  /\ shutdown = "provider"
  /\ over' = TRUE /\ session' = 0 /\ UNCHANGED issued
  /\ shutdown' = "managers"
  /\ UNCHANGED <<mu, closed, tasks, running, doomed, op, owned, groupVars>>

\* Manager.Close of the root, which holds groupsMu until the groups are closed.
ClosesRoot ==
  /\ shutdown = "managers" /\ shutdown' = "groups"
  /\ managers' = Cut(Root, TRUE)
  /\ UNCHANGED <<provider, mu, closed, tasks, running, doomed, op, owned, group>>

ClosesGroups ==
  /\ shutdown = "groups" /\ shutdown' = "wait"
  /\ CutsGroups
  /\ UNCHANGED <<provider, mu, closed, tasks, running, doomed, op, owned>>

\* The goroutine that closes shutdownDone.
Waited ==
  /\ shutdown = "wait" /\ tasks = "done" /\ running = {}
  /\ shutdown' = "done"
  /\ UNCHANGED <<provider, mu, closed, tasks, running, doomed, op, owned, groupVars>>

-----------------------------------------------------------------------------

\* Steps that do not wait for anything but the mutex.
Prompt(o) ==
  \/ LooksAgain(o) \/ OwnRefused(o) \/ OwnAccepted(o) \/ Own(o) \/ Connects(o)
  \/ Resets(o) \/ ResetNext(o) \/ ResetsRoot(o) \/ HasReset(o)

Proceeds(o) ==
  \/ WithLifetime(o) \/ Prepared(o) \/ Resolves(o) \/ Credential(o)
  \/ DirectBegins(o) \/ AppCredential(o) \/ ForApp(o) \/ OpensTransport(o)
  \/ TunnelCredential(o) \/ Shares(o) \/ Woken(o)
  \/ DeviceSession(o) \/ DialResolved(o) \/ Dialled(o) \/ Answered(o) \/ LoggedOut(o)
  \/ Invalidates(o) \/ Fails(o)

Closing == CloseNext \/ ClosesTasks \/ ClosesProvider \/ ClosesRoot \/ ClosesGroups \/ Waited \/ LoopEnds

\* What the managers do by themselves.
Connecting(m) ==
  /\ ConnectReads(m, session) \/ ConnectEnds(m) \/ TunnelDies(m)
  /\ UNCHANGED <<provider, mu, closed, tasks, running, closing, op, owned>>

Next ==
  \/ Serves \/ Withdraws \/ Close \/ Closing
  \/ \E m \in DOMAIN managers : Connecting(m)
  \/ \E o \in Ops : Prompt(o) \/ Proceeds(o)
                      \/ CloseBegins(o) \/ Closes(o) \/ Leaves(o)

Spec == Init /\ [][Next]_vars

\* Goroutines run, a call returns once its context has ended, and nobody holds
\* the mutex for ever.  Nothing obliges the user to close anything.
FairSpec ==
  /\ Spec /\ WF_vars(Closing)
  /\ \A o \in Ops :
       /\ WF_vars(Prompt(o))
       /\ WF_vars(ContextEnded(o) /\ Fails(o))
       /\ WF_vars(MustClose(o) /\ CloseBegins(o))
       /\ WF_vars(Closes(o)) /\ WF_vars(Leaves(o))

-----------------------------------------------------------------------------
(* Properties *)

TypeOK ==
  /\ session \in {0, issued} /\ issued \in 0..MaxSessions /\ over \in BOOLEAN
  /\ mu \in Ops \cup {Nobody} /\ closed \in BOOLEAN
  /\ tasks \in {"idle", "running", "done"}
  /\ running \subseteq Ops /\ conns \subseteq Ops /\ armed \subseteq conns
  /\ shutdown \in {"no", "conns", "provider", "managers", "groups", "wait", "done"}
  /\ doomed \subseteq Ops
  /\ \A o \in Ops : /\ op[o].res \in 0..issued /\ op[o].gen \in 0..issued
                    /\ op[o].via \in 0..issued /\ op[o].mgr \in 0..Len(managers)
                    /\ op[o].todo \subseteq Ops
  /\ Len(managers) <= MaxManagers /\ group \in 0..Len(managers) \ {Root}
  /\ \A m \in DOMAIN managers : managers[m].tunnel \in 0..issued /\ managers[m].sid \in 0..issued
  /\ conn \in [Ops -> {"none", "open", "closed"}]
  /\ once \in [Ops -> {"no", "closing", "closed", "done"}]

Handed(k) == At(k, "handed")

\* Whoever is handed a connection has it from one session: the target was
\* resolved by the policy of the session it was dialled in, and that session is
\* the one its stream or its tunnel was authenticated with.
OneSession == \A k \in Ops : Handed(k) => op[k].res = op[k].gen /\ op[k].via = op[k].gen

\* When ForgetSession or the logout of this device returns, every connection
\* that was handed out in the session it ended, or in an earlier one, is closed,
\* dials that were under way included; no tunnel of any manager is of such a
\* session or will be; and no dial mixes two sessions.
ForgetCuts ==
  /\ TypeOK /\ OneSession
  /\ \A o, k \in Ops :
       At(o, "cut") /\ Handed(k) /\ op[k].gen <= op[o].gen => conn[k] = "closed"
  /\ \A o \in Ops, m \in DOMAIN managers : At(o, "cut") =>
       (0..op[o].gen) \cap {managers[m].tunnel, managers[m].sid} \subseteq {0}

\* When Shutdown reports completion nothing is left: no operation runs, no
\* connection is open, no manager has a tunnel or builds one, the check loop has
\* ended and no session is served.
ShutdownIsFinal ==
  shutdown = "done" =>
    /\ \A o \in Ops : op[o].pc \in {"idle", "handed", "cut", "over"}
    /\ \A o \in Ops : conn[o] # "open"
    /\ tasks = "done" /\ session = 0
    /\ \A m \in DOMAIN managers : managers[m].tunnel = 0 /\ managers[m].connect = "no"

\* A dialled connection whose session ends, or whose Runtime is closed, is
\* closed eventually, even if nobody reads, writes or closes it.
EndedConnsClose ==
  \A k \in Ops :
    conn[k] = "open" /\ (closed \/ ~Served(op[k].gen)) ~> conn[k] = "closed"

\* Close completes, whatever was under way: it waits for nothing that waits
\* for it.
ShutdownCompletes == closed ~> shutdown = "done"

\* What has ended is gone in the end: connections, and the Runtime.
RuntimeEnds == EndedConnsClose /\ ShutdownCompletes

=============================================================================
