------------------------ MODULE RuntimeLifetimeProofs ------------------------
(***************************************************************************)
(* Theorems about RuntimeLifetime for any set of operations, any number of   *)
(* sessions and any number of managers.                                     *)
(***************************************************************************)
EXTENDS RuntimeLifetime, SequenceTheorems, TLAPS

-----------------------------------------------------------------------------
(* The inductive invariant: operations and connections *)

Kinds  == {"none", "dial", "connect", "query", "forget", "logout"}
\* The operation has returned or not begun.
Rest   == {"idle", "handed", "cut", "over"}
\* Only a dial gets there.
Dials  == {"resolve", "dial", "direct", "forapp", "look", "own", "arm", "handed"}
\* The dial has a session.
Bound  == {"dial", "direct", "forapp", "tunnel", "share", "wait", "stream", "look",
           "own", "arm", "handed"}
\* It asks with, or has, a credential of its own.
Asking == {"direct", "share", "wait", "stream", "look"}
\* The session has ended and what depends on it is being ended.
Ending == {"reset", "resetting", "reset groups", "cut"}
Points == Rest \cup Dials \cup Bound \cup Asking \cup Ending
            \cup {"prepare", "credential", "call", "connect", "invalidate"}
Phases == {"no", "conns", "provider", "managers", "groups", "wait", "done"}

Operation == [kind : Kinds, pc : Points, res : Nat, gen : Nat, mgr : Nat, via : Nat,
              todo : SUBSET Ops]

Types ==
  /\ session \in Nat /\ issued \in Nat /\ session \in {0, issued}
  /\ issued <= MaxSessions /\ over \in BOOLEAN
  /\ mu \in Ops \cup {Nobody} /\ closed \in BOOLEAN
  /\ tasks \in {"idle", "running", "done"}
  /\ running \subseteq Ops /\ conns \subseteq Ops /\ armed \subseteq Ops
  /\ shutdown \in Phases /\ doomed \subseteq Ops
  /\ op \in [Ops -> Operation]
  /\ conn \in [Ops -> {"none", "open", "closed"}]
  /\ once \in [Ops -> {"no", "closing", "closed", "done"}]

\* An operation by itself: a dial goes on with the session its target was
\* resolved in; a credential read later is of no earlier session, and once the
\* dial has looked again it is of the same one.
Sound(F, n) ==
  /\ F.res <= n /\ F.gen <= n /\ F.via <= n
  /\ F.pc \in Dials => F.kind = "dial"
  /\ F.pc \in Bound /\ F.kind = "dial" => F.res = F.gen
  /\ F.pc \in Asking => F.gen <= F.via
  /\ F.pc \in {"own", "arm", "handed"} => F.via = F.gen
  /\ F.todo # {} => F.pc = "resetting"

\* Close waits for the operations that run; the mutex is kept while one enters
\* its connection.
OpsInv ==
  /\ \A o \in Ops : Sound(op[o], issued)
  /\ \A o \in Ops : op[o].pc \in Rest <=> o \notin running
  /\ \A o \in Ops : (op[o].pc = "arm") <=> mu = o

\* The table holds just the connections that were handed out and whose Close has
\* not returned; only those and dials at their end have an open connection.
ConnsInv ==
  /\ armed \subseteq conns
  /\ \A k \in Ops :
       k \in conns <=> op[k].pc = "handed" /\ once[k] # "done"
  /\ \A k \in Ops : once[k] # "no" => op[k].pc = "handed" /\ k \notin armed
  /\ \A k \in Ops : once[k] \in {"closed", "done"} => conn[k] = "closed"
  /\ \A k \in Ops : conn[k] = "open" => op[k].pc \in {"look", "own", "arm", "handed"}

\* A session that was ended is never served again; nobody enters a connection
\* of it once the table was taken, and those of the table are on the list.
ResetInv ==
  /\ \A o \in Ops : op[o].pc \in Ending => session = 0 \/ op[o].gen < session
  /\ \A o, k \in Ops :
       op[o].pc \in Ending \ {"reset"} /\ op[k].gen <= op[o].gen =>
         /\ op[k].pc # "arm"
         /\ op[k].pc = "handed" => conn[k] = "closed" \/ k \in op[o].todo

\* A closed Runtime has nobody inside its mutex and Close has every connection
\* on its list but those of dials that will give theirs up.
CloseInv ==
  /\ closed <=> shutdown # "no"
  /\ closed => mu = Nobody
  /\ \A k \in Ops :
       closed /\ conn[k] = "open" => k \in doomed \/ op[k].pc \in {"look", "own"}
  /\ shutdown \notin {"no", "conns"} => doomed = {}
  /\ shutdown = "done" => tasks = "done" /\ running = {}
  /\ shutdown \in {"managers", "groups", "wait", "done"} => over /\ session = 0

OpsPart == Types /\ OpsInv /\ ConnsInv /\ ResetInv /\ CloseInv

-----------------------------------------------------------------------------
(* The inductive invariant: managers *)

Managers == [closed : BOOLEAN, tunnel : Nat, connect : {"no", "begun", "building"},
             sid : Nat]

\* A closed manager has no tunnel and will have none; every manager but the root
\* and the one of the group is closed.
Whole(M, n) ==
  /\ M.tunnel <= n /\ M.sid <= n
  /\ M.closed => M.tunnel = 0 /\ M.sid = 0 /\ M.connect = "no"

ManagersInv ==
  /\ managers \in Seq(Managers) /\ Len(managers) \in 1 .. MaxManagers
  /\ group \in 0 .. Len(managers) /\ group # Root
  /\ \A m \in DOMAIN managers : Whole(managers[m], issued)
  /\ \A m \in DOMAIN managers \ {Root, group} : Closed(m)

\* Neither a tunnel nor a connect of M is of a session up to g.
Clean(M, g) == (M.tunnel = 0 \/ g < M.tunnel) /\ (M.sid = 0 \/ g < M.sid)

\* An operation names one of n managers, and does so when it asks for a tunnel.
Named(F, n) ==
  /\ F.mgr \in 0 .. n
  /\ F.pc \in {"tunnel", "share", "wait"} => F.mgr # 0

\* Operations name managers that exist, and what ended a session left none of
\* them with a tunnel of it.
CutInv ==
  /\ \A o \in Ops : Named(op[o], Len(managers))
  /\ \A o \in Ops :
       op[o].pc \in {"reset groups", "cut"} => Clean(managers[Root], op[o].gen)
  /\ \A o \in Ops, m \in DOMAIN managers :
       op[o].pc = "cut" => Clean(managers[m], op[o].gen)

\* Close of the Runtime closes the root, and then the group for good.
GroupsInv ==
  /\ shutdown \in {"groups", "wait", "done"} => Closed(Root)
  /\ shutdown \in {"wait", "done"} => group = 0

ManagersPart == ManagersInv /\ CutInv /\ GroupsInv

LifetimeInv == OpsPart /\ ManagersPart

-----------------------------------------------------------------------------
(* Initial states *)

LEMMA Names ==
  /\ Points = {"idle", "handed", "cut", "over", "resolve", "dial", "direct",
               "forapp", "look", "own", "arm", "tunnel", "share", "wait",
               "stream", "reset", "resetting", "reset groups", "prepare",
               "credential", "call", "connect", "invalidate"}
  /\ Rest \cap Asking = {} /\ Rest \cap {"own", "arm"} = {}
  BY DEF Points, Rest, Dials, Bound, Asking, Ending

LEMMA NoOpIs == NoOp \in Operation /\ [NoOp EXCEPT !.pc = "over"] \in Operation
  BY Names DEF NoOp, Operation, Kinds

LEMMA LifetimeInit == Init => LifetimeInv
<1> SUFFICES ASSUME Init PROVE LifetimeInv
  OBVIOUS
<1>1. /\ session = 0 /\ issued = 0 /\ over = FALSE
      /\ managers = <<Manager>> /\ group = 0
      /\ mu = Nobody /\ closed = FALSE /\ tasks = "idle" /\ running = {}
      /\ shutdown = "no" /\ doomed = {} /\ conns = {} /\ armed = {}
      /\ op \in [Ops -> {NoOp}] /\ conn \in [Ops -> {"none"}] /\ once \in [Ops -> {"no"}]
  BY DEF Init, Session!Init, GroupsInit
<1>2. Types
  <2>1. op \in [Ops -> Operation]
    BY <1>1, NoOpIs
  <2>2. /\ conn \in [Ops -> {"none", "open", "closed"}]
        /\ once \in [Ops -> {"no", "closing", "closed", "done"}]
    BY <1>1
  <2>3. session \in Nat /\ issued \in Nat /\ issued <= MaxSessions
    BY <1>1, LifetimeAssumption
  <2> QED
    BY <1>1, <2>1, <2>2, <2>3 DEF Types, Phases
<1>3. \A o \in Ops : op[o] = NoOp /\ op[o].pc = "idle" /\ op[o].mgr = 0
  BY <1>1 DEF NoOp
<1>4. OpsInv
  BY <1>1, <1>3, LifetimeAssumption
     DEF OpsInv, Sound, NoOp, Rest, Dials, Bound, Asking
<1>5. ConnsInv /\ ResetInv /\ CloseInv
  BY <1>1, <1>3 DEF ConnsInv, ResetInv, CloseInv, Ending
<1>6. ManagersInv
  <2>1. Manager \in Managers /\ Whole(Manager, issued)
    BY <1>1 DEF Manager, Managers, Whole
  <2>2. managers \in Seq(Managers) /\ Len(managers) = 1 /\ managers[1] = Manager
    BY <1>1, <2>1
  <2>3. DOMAIN managers = {1}
    BY <2>2, LenProperties
  <2> QED
    BY <1>1, <2>1, <2>2, <2>3, GroupsAssumption DEF ManagersInv, Root
<1>7. CutInv /\ GroupsInv
  BY <1>1, <1>3, <1>6 DEF CutInv, GroupsInv, ManagersInv, Named
<1> QED
  BY <1>2, <1>4, <1>5, <1>6, <1>7 DEF LifetimeInv, OpsPart, ManagersPart

-----------------------------------------------------------------------------
(* The shapes of a step *)

\* Operation o goes on as F, with the connection c: it neither holds the mutex
\* nor ends a session, and counts unless it returns.
Moves(o, F, c) ==
  /\ op' = [op EXCEPT ![o] = F] /\ conn' = [conn EXCEPT ![o] = c]
  /\ op[o].pc \notin {"arm", "handed"} \cup Ending
  /\ F.pc \notin {"arm", "handed"} \cup Ending
  /\ c \in {"none", "open", "closed"} /\ (c = "open" => F.pc \in {"look", "own"})
  /\ running' = IF F.pc \in Rest THEN running \ {o} ELSE running \cup {o}
  /\ closed => running' \subseteq running
  /\ tasks' \in {"idle", "running", "done"} /\ (tasks = "done" => tasks' = "done")
  /\ UNCHANGED <<provider, mu, closed, closing, conns, armed, once>>

LEMMA OpMoves ==
  ASSUME OpsPart, NEW o \in Ops, NEW F \in Operation, Sound(F, issued), NEW c, Moves(o, F, c)
  PROVE  OpsPart'
<1> USE DEF OpsPart
<1>1. /\ op'[o] = F /\ \A p \in Ops \ {o} : op'[p] = op[p]
      /\ conn'[o] = c /\ \A p \in Ops \ {o} : conn'[p] = conn[p]
      /\ op' \in [Ops -> Operation]
      /\ conn' \in [Ops -> {"none", "open", "closed"}]
  BY DEF Types, Moves
<1>0. /\ session' = session /\ issued' = issued /\ over' = over
      /\ shutdown' = shutdown /\ doomed' = doomed /\ mu' = mu /\ closed' = closed
      /\ conns' = conns /\ armed' = armed /\ once' = once
      /\ F.pc \notin {"arm", "handed", "resetting", "reset groups", "cut", "reset"}
      /\ op[o].pc \notin {"arm", "handed", "resetting", "reset groups", "cut", "reset"}
      /\ (c = "open" => F.pc \in {"look", "own"})
  BY DEF Moves, provider, closing, Ending
<1>a. /\ running' = IF F.pc \in Rest THEN running \ {o} ELSE running \cup {o}
      /\ closed => running' \subseteq running
      /\ tasks' \in {"idle", "running", "done"} /\ (tasks = "done" => tasks' = "done")
  BY DEF Moves
<1>2. Types'
  BY <1>0, <1>1, <1>a DEF Types
<1>3. OpsInv'
  <2>1. \A p \in Ops : Sound(op'[p], issued')
    BY <1>0, <1>1 DEF OpsInv
  <2>2. \A p \in Ops : op'[p].pc \in Rest <=> p \notin running'
    BY <1>1, <1>a DEF OpsInv
  <2>3. \A p \in Ops : (op'[p].pc = "arm") <=> mu' = p
    BY <1>0, <1>1 DEF OpsInv
  <2> QED
    BY <2>1, <2>2, <2>3 DEF OpsInv
<1>4. ConnsInv'
  <2>1. o \notin conns /\ once[o] = "no" /\ o \notin armed
    BY <1>0 DEF ConnsInv, Types
  <2>2. armed' \subseteq conns'
    BY <1>0 DEF ConnsInv
  <2>3. ASSUME NEW k \in Ops
        PROVE  /\ k \in conns' <=> op'[k].pc = "handed" /\ once'[k] # "done"
               /\ once'[k] # "no" => op'[k].pc = "handed" /\ k \notin armed'
    <3>1. CASE k = o
      BY <1>0, <1>1, <2>1, <3>1
    <3>2. CASE k # o
      BY <1>0, <1>1, <3>2 DEF ConnsInv
    <3> QED
      BY <3>1, <3>2
  <2>4. \A k \in Ops : once'[k] \in {"closed", "done"} => conn'[k] = "closed"
    BY <1>0, <1>1, <2>1 DEF ConnsInv
  <2>5. \A k \in Ops : conn'[k] = "open" => op'[k].pc \in {"look", "own", "arm", "handed"}
    BY <1>0, <1>1, <2>1 DEF ConnsInv
  <2> QED
    BY <2>2, <2>3, <2>4, <2>5 DEF ConnsInv
<1>5. ResetInv'
  BY <1>0, <1>1 DEF ResetInv, Ending
<1>6. CloseInv'
  BY <1>0, <1>1, <1>a DEF CloseInv, Types
<1> QED
  BY <1>2, <1>3, <1>4, <1>5, <1>6

\* No operation comes to the end of a reset.
NothingCut ==
  \A p \in Ops :
    /\ Named(op'[p], Len(managers))
    /\ op'[p].pc \in {"reset groups", "cut"} =>
         op[p].pc = op'[p].pc /\ op[p].gen = op'[p].gen

\* A step in which no operation reaches the end of a reset and Close of the
\* Runtime does not come to the managers leaves what is known of them.
LEMMA ManagersKept ==
  ASSUME ManagersPart, UNCHANGED <<managers, group>>,
         issued \in Nat, issued' \in Nat, issued <= issued',
         NothingCut,
         shutdown' \in {"groups", "wait", "done"} =>
           shutdown' = shutdown \/ (shutdown' = "done" /\ shutdown = "wait")
  PROVE  ManagersPart'
<1> USE DEF ManagersPart
<1>1. ManagersInv'
  <2>1. \A m \in DOMAIN managers : Whole(managers[m], issued')
    <3> SUFFICES ASSUME NEW m \in DOMAIN managers PROVE Whole(managers[m], issued')
      OBVIOUS
    <3>1. managers[m] \in Managers /\ Whole(managers[m], issued)
      BY ElementOfSeq, LenProperties DEF ManagersInv
    <3>2. managers[m].tunnel \in Nat /\ managers[m].sid \in Nat
      BY <3>1 DEF Managers
    <3> HIDE DEF ManagersPart
    <3> QED
      BY <3>1, <3>2 DEF Whole
  <2> QED
    BY <2>1 DEF ManagersInv, Closed
<1>2. CutInv'
  BY DEF CutInv, Clean, NothingCut
<1>3. GroupsInv'
  BY DEF GroupsInv, Closed
<1> QED
  BY <1>1, <1>2, <1>3

\* One manager changes: it takes no session but the one that is served.
LEMMA ManagerMoves ==
  ASSUME ManagersPart, ResetInv, UNCHANGED <<issued, shutdown, group>>,
         issued \in Nat, session \in Nat, session <= issued,
         NEW m \in DOMAIN managers, NEW M \in Managers,
         managers' = [managers EXCEPT ![m] = M], Whole(M, issued),
         managers[m].closed => M.closed,
         M.tunnel \in {0, managers[m].tunnel, managers[m].sid},
         M.sid \in {0, managers[m].sid, session},
         NothingCut
  PROVE  ManagersPart'
<1> USE DEF ManagersPart
<1>0. managers \in Seq(Managers) /\ Len(managers) \in Nat /\ 1 <= Len(managers)
  BY DEF ManagersInv
<1>1. /\ managers' \in Seq(Managers) /\ Len(managers') = Len(managers)
      /\ DOMAIN managers' = DOMAIN managers
      /\ managers'[m] = M /\ \A n \in DOMAIN managers \ {m} : managers'[n] = managers[n]
  <2> HIDE DEF ManagersPart
  <2> QED
    BY <1>0, ExceptSeq, LenProperties
<1>2. ManagersInv'
  BY <1>1 DEF ManagersInv, Whole, Closed
<1>3. \A p \in Ops : op[p].pc \in {"reset groups", "cut"} /\ Clean(managers[m], op[p].gen) =>
                       Clean(M, op[p].gen)
  BY DEF Clean, ResetInv, Ending
<1>4. Root \in DOMAIN managers
  <2> HIDE DEF ManagersPart
  <2> QED
    BY <1>0, LenProperties DEF Root
<1>5. CutInv'
  <2>1. ASSUME NEW p \in Ops, op'[p].pc \in {"reset groups", "cut"}
        PROVE  Clean(managers'[Root], op'[p].gen)
    <3>1. op[p].pc = op'[p].pc /\ op[p].gen = op'[p].gen
      BY <2>1 DEF NothingCut
    <3>2. Clean(managers[Root], op[p].gen)
      BY <2>1, <3>1 DEF CutInv
    <3> QED
      BY <1>1, <1>3, <1>4, <2>1, <3>1, <3>2
  <2>2. ASSUME NEW p \in Ops, NEW n \in DOMAIN managers', op'[p].pc = "cut"
        PROVE  Clean(managers'[n], op'[p].gen)
    <3>1. op[p].pc = op'[p].pc /\ op[p].gen = op'[p].gen
      BY <2>2 DEF NothingCut
    <3>2. Clean(managers[n], op[p].gen)
      BY <1>1, <2>2, <3>1 DEF CutInv
    <3> QED
      BY <1>1, <1>3, <2>2, <3>1, <3>2
  <2>3. \A p \in Ops : Named(op'[p], Len(managers'))
    BY <1>1 DEF NothingCut
  <2> QED
    BY <2>1, <2>2, <2>3 DEF CutInv, Clean
<1>6. GroupsInv'
  <2>1. Closed(Root) => managers'[Root].closed
    BY <1>1, <1>4 DEF Closed
  <2> QED
    BY <2>1 DEF GroupsInv, Closed
<1> QED
  BY <1>2, <1>5, <1>6

-----------------------------------------------------------------------------
(* The steps of an operation up to its connection *)

\* It goes on.
LEMMA GoesOn ==
  ASSUME OpsPart, NEW o \in Ops, NEW F \in Operation,
         op' = [op EXCEPT ![o] = F],
         op[o].pc \notin Rest \cup Ending \cup {"look", "own", "arm"},
         F.pc \notin Rest \cup Ending \cup {"arm"},
         UNCHANGED <<provider, mu, closed, tasks, closing, running, conns, conn,
                     armed, once>>
  PROVE  Moves(o, F, conn[o])
<1> USE DEF OpsPart
<1>1. o \in running /\ running' = running
  BY DEF OpsInv
<1>2. conn[o] # "open"
  BY DEF ConnsInv, Rest
<1>3. conn[o] \in {"none", "open", "closed"} /\ conn' = [conn EXCEPT ![o] = conn[o]]
  BY DEF Types
<1>4. tasks' = tasks /\ tasks \in {"idle", "running", "done"}
  BY DEF Types
<1> HIDE DEF OpsPart
<1> QED
  BY <1>1, <1>2, <1>3, <1>4 DEF Moves, Rest

\* It returns, and gives up the connection it may have.
LEMMA Stops ==
  ASSUME OpsPart, NEW o \in Ops, Returns(o, "over"),
         op[o].pc \notin Ending \cup {"arm", "handed"},
         \/ conn' = conn /\ op[o].pc \notin {"look", "own"}
         \/ conn' = [conn EXCEPT ![o] = "closed"],
         tasks' \in {"idle", "running", "done"}, tasks = "done" => tasks' = "done",
         UNCHANGED <<provider, mu, closed, closing, conns, armed, once>>
  PROVE  /\ [NoOp EXCEPT !.pc = "over"] \in Operation
         /\ Sound([NoOp EXCEPT !.pc = "over"], issued)
         /\ \E c : Moves(o, [NoOp EXCEPT !.pc = "over"], c)
<1> DEFINE F == [NoOp EXCEPT !.pc = "over"]
<1>1. F \in Operation /\ F.pc = "over"
  BY NoOpIs DEF NoOp
<1>2. Sound(F, issued)
  BY DEF Sound, NoOp, Dials, Bound, Asking, OpsPart, Types
<1>3. op' = [op EXCEPT ![o] = F] /\ running' = running \ {o}
  BY DEF Returns
<1> HIDE DEF F
<1>4. PICK c \in {"none", "closed"} : conn' = [conn EXCEPT ![o] = c]
  <2>1. CASE conn' = conn /\ op[o].pc \notin {"look", "own"}
    <3>1. conn[o] \in {"none", "closed"}
      BY <2>1 DEF OpsPart, ConnsInv, Types, Ending
    <3> QED
      BY <2>1, <3>1 DEF OpsPart, Types
  <2>2. CASE conn' = [conn EXCEPT ![o] = "closed"]
    BY <2>2
  <2> QED
    BY <2>1, <2>2
<1>5. Moves(o, F, c)
  BY <1>1, <1>3, <1>4 DEF Moves, Rest, Ending
<1> QED
  BY <1>1, <1>2, <1>5 DEF F

\* The steps that change nothing but the operation and its connection.
OpStep(o) ==
  \/ WithLifetime(o) \/ Prepared(o) \/ Resolves(o) \/ Credential(o)
  \/ DeviceSession(o) \/ DialResolved(o) \/ DirectBegins(o) \/ AppCredential(o)
  \/ OpensTransport(o) \/ TunnelCredential(o) \/ Woken(o) \/ Dialled(o)
  \/ Answered(o) \/ LooksAgain(o) \/ OwnRefused(o) \/ Connects(o)

LEMMA OpStepMoves ==
  ASSUME OpsPart, ManagersPart, NEW o \in Ops, OpStep(o)
  PROVE  /\ UNCHANGED <<provider, closing, groupVars>>
         /\ \E F \in Operation : \E c :
              Sound(F, issued) /\ Moves(o, F, c) /\ Named(F, Len(managers))
<1>a. /\ op[o] \in Operation /\ Sound(op[o], issued) /\ Named(op[o], Len(managers))
      /\ session \in Nat /\ issued \in Nat /\ session \in {0, issued}
      /\ Root \in 0 .. Len(managers) /\ 0 \in 0 .. Len(managers) /\ Root \in Nat /\ Root # 0
      /\ op \in [Ops -> Operation] /\ conn[o] \in {"none", "open", "closed"}
      /\ tasks \in {"idle", "running", "done"}
  <2>1. /\ op[o] \in Operation /\ Sound(op[o], issued)
        /\ session \in Nat /\ issued \in Nat /\ session \in {0, issued}
        /\ op \in [Ops -> Operation] /\ conn[o] \in {"none", "open", "closed"}
        /\ tasks \in {"idle", "running", "done"}
    BY DEF OpsPart, OpsInv, Types
  <2>2. Named(op[o], Len(managers))
    BY DEF ManagersPart, CutInv
  <2>3. Len(managers) \in Nat /\ 1 <= Len(managers)
    BY GroupsAssumption DEF ManagersPart, ManagersInv
  <2> QED
    BY <2>1, <2>2, <2>3 DEF Root
<1>b. /\ op[o].kind \in Kinds /\ op[o].pc \in Points /\ op[o].res \in Nat
      /\ op[o].gen \in Nat /\ op[o].mgr \in Nat /\ op[o].via \in Nat
      /\ op[o].todo \in SUBSET Ops
  BY <1>a DEF Operation
<1>c. op[o].pc # "resetting" => op[o].todo = {}
  BY <1>a DEF Sound
<1>d. Named([NoOp EXCEPT !.pc = "over"], Len(managers))
  BY <1>a DEF NoOp, Named
<1> HIDE DEF OpsPart, ManagersPart, Operation
<1>1. CASE Prepared(o)
  <2>0. PICK l \in {"resolve", "invalidate", "credential"} :
          l = IF op[o].kind = "dial" THEN "resolve"
              ELSE IF op[o].kind = "forget" THEN "invalidate" ELSE "credential"
    OBVIOUS
  <2> DEFINE F == [op[o] EXCEPT !.pc = l]
  <2>1. /\ F \in Operation
        /\ F.kind = op[o].kind
        /\ F.pc = l
        /\ F.res = op[o].res /\ F.gen = op[o].gen /\ F.mgr = op[o].mgr
        /\ F.via = op[o].via /\ F.todo = op[o].todo
    BY <1>a, <1>b, Names DEF Operation
  <2>2. /\ op' = [op EXCEPT ![o] = F]
        /\ UNCHANGED <<provider, mu, closed, tasks, closing, running, conns, conn,
                        armed, once, groupVars>>
    BY <1>a, <1>1, <2>0 DEF Prepared, Goes, SharedOnly, owned
  <2>3. Sound(F, issued)
    BY <1>a, <1>b, <1>c, <1>1, <2>0, <2>1 DEF Sound, Prepared, Goes, At, Dials, Bound, Asking
  <2>4. /\ op[o].pc \notin Rest \cup Ending \cup {"look", "own", "arm"}
        /\ F.pc \notin Rest \cup Ending \cup {"arm"}
    BY <1>1, <2>0, <2>1 DEF Prepared, Goes, At, Rest, Ending
  <2>n. Named(F, Len(managers))
    BY <1>a, <1>b, <1>1, <2>0, <2>1 DEF Named, Prepared, At
  <2> HIDE DEF F
  <2>5. Moves(o, F, conn[o])
    BY <2>1, <2>2, <2>4, GoesOn
  <2> QED
    BY <1>a, <2>n, <2>1, <2>2, <2>3, <2>5
<1>2. CASE Resolves(o)
  <2> DEFINE F == [op[o] EXCEPT !.pc = "credential", !.res = session]
  <2>1. /\ F \in Operation
        /\ F.kind = op[o].kind /\ F.pc = "credential" /\ F.res = session
        /\ F.gen = op[o].gen /\ F.mgr = op[o].mgr /\ F.via = op[o].via
        /\ F.todo = op[o].todo
    BY <1>a, <1>b, Names DEF Operation
  <2>2. /\ op' = [op EXCEPT ![o] = F]
        /\ UNCHANGED <<provider, mu, closed, tasks, closing, running, conns, conn,
                        armed, once, groupVars>>
    BY <1>a, <1>2 DEF Resolves, SharedOnly, owned
  <2>3. Sound(F, issued)
    BY <1>a, <1>b, <1>c, <1>2, <2>1 DEF Sound, Resolves, At, Dials, Bound, Asking
  <2>4. /\ op[o].pc \notin Rest \cup Ending \cup {"look", "own", "arm"}
        /\ F.pc \notin Rest \cup Ending \cup {"arm"}
    BY <1>2, <2>1 DEF Resolves, At, Rest, Ending
  <2>n. Named(F, Len(managers))
    BY <1>a, <1>b, <1>2, <2>1 DEF Named, Resolves, At
  <2> HIDE DEF F
  <2>5. Moves(o, F, conn[o])
    BY <2>1, <2>2, <2>4, GoesOn
  <2> QED
    BY <1>a, <2>n, <2>1, <2>2, <2>3, <2>5
<1>3. CASE Credential(o)
  <2>0. PICK l \in {"connect", "call"} :
          l = IF op[o].kind = "connect" THEN "connect" ELSE "call"
    OBVIOUS
  <2> DEFINE F == [op[o] EXCEPT !.gen = session, !.pc = l]
  <2>1. /\ F \in Operation
        /\ F.kind = op[o].kind
        /\ F.pc = l
        /\ F.res = op[o].res /\ F.gen = session /\ F.mgr = op[o].mgr
        /\ F.via = op[o].via /\ F.todo = op[o].todo
    BY <1>a, <1>b, Names DEF Operation
  <2>2. /\ op' = [op EXCEPT ![o] = F]
        /\ UNCHANGED <<provider, mu, closed, tasks, closing, running, conns, conn,
                        armed, once, groupVars>>
    BY <1>a, <1>3, <2>0 DEF Credential, SharedOnly, owned
  <2>3. Sound(F, issued)
    BY <1>a, <1>b, <1>c, <1>3, <2>0, <2>1 DEF Sound, Credential, At, Dials, Bound, Asking
  <2>4. /\ op[o].pc \notin Rest \cup Ending \cup {"look", "own", "arm"}
        /\ F.pc \notin Rest \cup Ending \cup {"arm"}
    BY <1>3, <2>0, <2>1 DEF Credential, At, Rest, Ending
  <2>n. Named(F, Len(managers))
    BY <1>a, <1>b, <1>3, <2>0, <2>1 DEF Named, Credential, At
  <2> HIDE DEF F
  <2>5. Moves(o, F, conn[o])
    BY <2>1, <2>2, <2>4, GoesOn
  <2> QED
    BY <1>a, <2>n, <2>1, <2>2, <2>3, <2>5
<1>4. CASE DeviceSession(o)
  <2> DEFINE F == [op[o] EXCEPT !.gen = session, !.pc = "call"]
  <2>1. /\ F \in Operation
        /\ F.kind = op[o].kind /\ F.pc = "call" /\ F.res = op[o].res
        /\ F.gen = session /\ F.mgr = op[o].mgr /\ F.via = op[o].via
        /\ F.todo = op[o].todo
    BY <1>a, <1>b, Names DEF Operation
  <2>2. /\ op' = [op EXCEPT ![o] = F]
        /\ UNCHANGED <<provider, mu, closed, tasks, closing, running, conns, conn,
                        armed, once, groupVars>>
    BY <1>a, <1>4 DEF DeviceSession, SharedOnly, owned
  <2>3. Sound(F, issued)
    BY <1>a, <1>b, <1>c, <1>4, <2>1 DEF Sound, DeviceSession, At, Dials, Bound, Asking
  <2>4. /\ op[o].pc \notin Rest \cup Ending \cup {"look", "own", "arm"}
        /\ F.pc \notin Rest \cup Ending \cup {"arm"}
    BY <1>4, <2>1 DEF DeviceSession, At, Rest, Ending
  <2>n. Named(F, Len(managers))
    BY <1>a, <1>b, <1>4, <2>1 DEF Named, DeviceSession, At
  <2> HIDE DEF F
  <2>5. Moves(o, F, conn[o])
    BY <2>1, <2>2, <2>4, GoesOn
  <2> QED
    BY <1>a, <2>n, <2>1, <2>2, <2>3, <2>5
<1>5. CASE DialResolved(o)
  <2> DEFINE F == [op[o] EXCEPT !.gen = session, !.pc = "dial"]
  <2>1. /\ F \in Operation
        /\ F.kind = op[o].kind /\ F.pc = "dial" /\ F.res = op[o].res
        /\ F.gen = session /\ F.mgr = op[o].mgr /\ F.via = op[o].via
        /\ F.todo = op[o].todo
    BY <1>a, <1>b, Names DEF Operation
  <2>2. /\ op' = [op EXCEPT ![o] = F]
        /\ UNCHANGED <<provider, mu, closed, tasks, closing, running, conns, conn,
                        armed, once, groupVars>>
    BY <1>a, <1>5 DEF DialResolved, Served, SharedOnly, owned
  <2>3. Sound(F, issued)
    BY <1>a, <1>b, <1>c, <1>5, <2>1 DEF Sound, DialResolved, Served, At, Dials, Bound, Asking
  <2>4. /\ op[o].pc \notin Rest \cup Ending \cup {"look", "own", "arm"}
        /\ F.pc \notin Rest \cup Ending \cup {"arm"}
    BY <1>5, <2>1 DEF DialResolved, Served, At, Rest, Ending
  <2>n. Named(F, Len(managers))
    BY <1>a, <1>b, <1>5, <2>1 DEF Named, DialResolved, At
  <2> HIDE DEF F
  <2>5. Moves(o, F, conn[o])
    BY <2>1, <2>2, <2>4, GoesOn
  <2> QED
    BY <1>a, <2>n, <2>1, <2>2, <2>3, <2>5
<1>6. CASE DirectBegins(o)
  <2> DEFINE F == [op[o] EXCEPT !.pc = "direct", !.via = session]
  <2>1. /\ F \in Operation
        /\ F.kind = op[o].kind /\ F.pc = "direct" /\ F.res = op[o].res
        /\ F.gen = op[o].gen /\ F.mgr = op[o].mgr /\ F.via = session
        /\ F.todo = op[o].todo
    BY <1>a, <1>b, Names DEF Operation
  <2>2. /\ op' = [op EXCEPT ![o] = F]
        /\ UNCHANGED <<provider, mu, closed, tasks, closing, running, conns, conn,
                        armed, once, groupVars>>
    BY <1>a, <1>6 DEF DirectBegins, SharedOnly, owned
  <2>3. Sound(F, issued)
    BY <1>a, <1>b, <1>c, <1>6, <2>1 DEF Sound, DirectBegins, At, Dials, Bound, Asking
  <2>4. /\ op[o].pc \notin Rest \cup Ending \cup {"look", "own", "arm"}
        /\ F.pc \notin Rest \cup Ending \cup {"arm"}
    BY <1>6, <2>1 DEF DirectBegins, At, Rest, Ending
  <2>n. Named(F, Len(managers))
    BY <1>a, <1>b, <1>6, <2>1 DEF Named, DirectBegins, At
  <2> HIDE DEF F
  <2>5. Moves(o, F, conn[o])
    BY <2>1, <2>2, <2>4, GoesOn
  <2> QED
    BY <1>a, <2>n, <2>1, <2>2, <2>3, <2>5
<1>7. CASE OpensTransport(o)
  <2> DEFINE F == [op[o] EXCEPT !.pc = "tunnel", !.mgr = Root]
  <2>1. /\ F \in Operation
        /\ F.kind = op[o].kind /\ F.pc = "tunnel" /\ F.res = op[o].res
        /\ F.gen = op[o].gen /\ F.mgr = Root /\ F.via = op[o].via
        /\ F.todo = op[o].todo
    BY <1>a, <1>b, Names DEF Operation
  <2>2. /\ op' = [op EXCEPT ![o] = F]
        /\ UNCHANGED <<provider, mu, closed, tasks, closing, running, conns, conn,
                        armed, once, groupVars>>
    BY <1>a, <1>7 DEF OpensTransport, SharedOnly, owned
  <2>3. Sound(F, issued)
    BY <1>a, <1>b, <1>c, <1>7, <2>1 DEF Sound, OpensTransport, At, Dials, Bound, Asking
  <2>4. /\ op[o].pc \notin Rest \cup Ending \cup {"look", "own", "arm"}
        /\ F.pc \notin Rest \cup Ending \cup {"arm"}
    BY <1>7, <2>1 DEF OpensTransport, At, Rest, Ending
  <2>n. Named(F, Len(managers))
    BY <1>a, <1>b, <1>7, <2>1 DEF Named, OpensTransport, At
  <2> HIDE DEF F
  <2>5. Moves(o, F, conn[o])
    BY <2>1, <2>2, <2>4, GoesOn
  <2> QED
    BY <1>a, <2>n, <2>1, <2>2, <2>3, <2>5
<1>8. CASE TunnelCredential(o)
  <2> DEFINE F == [op[o] EXCEPT !.pc = "share", !.via = session]
  <2>1. /\ F \in Operation
        /\ F.kind = op[o].kind /\ F.pc = "share" /\ F.res = op[o].res
        /\ F.gen = op[o].gen /\ F.mgr = op[o].mgr /\ F.via = session
        /\ F.todo = op[o].todo
    BY <1>a, <1>b, Names DEF Operation
  <2>2. /\ op' = [op EXCEPT ![o] = F]
        /\ UNCHANGED <<provider, mu, closed, tasks, closing, running, conns, conn,
                        armed, once, groupVars>>
    BY <1>a, <1>8 DEF TunnelCredential, SharedOnly, owned
  <2>3. Sound(F, issued)
    BY <1>a, <1>b, <1>c, <1>8, <2>1 DEF Sound, TunnelCredential, At, Dials, Bound, Asking
  <2>4. /\ op[o].pc \notin Rest \cup Ending \cup {"look", "own", "arm"}
        /\ F.pc \notin Rest \cup Ending \cup {"arm"}
    BY <1>8, <2>1 DEF TunnelCredential, At, Rest, Ending
  <2>n. Named(F, Len(managers))
    BY <1>a, <1>b, <1>8, <2>1 DEF Named, TunnelCredential, At
  <2> HIDE DEF F
  <2>5. Moves(o, F, conn[o])
    BY <2>1, <2>2, <2>4, GoesOn
  <2> QED
    BY <1>a, <2>n, <2>1, <2>2, <2>3, <2>5
<1>9. CASE Woken(o)
  <2> DEFINE F == [op[o] EXCEPT !.pc = "tunnel", !.via = 0]
  <2>1. /\ F \in Operation
        /\ F.kind = op[o].kind /\ F.pc = "tunnel" /\ F.res = op[o].res
        /\ F.gen = op[o].gen /\ F.mgr = op[o].mgr /\ F.via = 0
        /\ F.todo = op[o].todo
    BY <1>a, <1>b, Names DEF Operation
  <2>2. /\ op' = [op EXCEPT ![o] = F]
        /\ UNCHANGED <<provider, mu, closed, tasks, closing, running, conns, conn,
                        armed, once, groupVars>>
    BY <1>a, <1>9 DEF Woken, SharedOnly, owned
  <2>3. Sound(F, issued)
    BY <1>a, <1>b, <1>c, <1>9, <2>1 DEF Sound, Woken, At, Dials, Bound, Asking
  <2>4. /\ op[o].pc \notin Rest \cup Ending \cup {"look", "own", "arm"}
        /\ F.pc \notin Rest \cup Ending \cup {"arm"}
    BY <1>9, <2>1 DEF Woken, At, Rest, Ending
  <2>n. Named(F, Len(managers))
    BY <1>a, <1>b, <1>9, <2>1 DEF Named, Woken, At
  <2> HIDE DEF F
  <2>5. Moves(o, F, conn[o])
    BY <2>1, <2>2, <2>4, GoesOn
  <2> QED
    BY <1>a, <2>n, <2>1, <2>2, <2>3, <2>5
<1>10. CASE AppCredential(o)
  <2>1. PICK F \in { [op[o] EXCEPT !.pc = "forapp", !.via = 0],
                     [op[o] EXCEPT !.pc = "tunnel", !.via = 0, !.mgr = Root] } :
          op' = [op EXCEPT ![o] = F]
    BY <1>a, <1>10 DEF AppCredential
  <2>2. /\ F \in Operation
        /\ F.kind = op[o].kind /\ F.pc \in {"forapp", "tunnel"}
        /\ F.res = op[o].res /\ F.gen = op[o].gen /\ F.mgr \in {op[o].mgr, Root}
        /\ F.pc = "tunnel" => F.mgr = Root
        /\ F.via = 0 /\ F.todo = op[o].todo
    <3>1. CASE F = [op[o] EXCEPT !.pc = "forapp", !.via = 0]
      BY <1>a, <1>b, <3>1, Names DEF Operation
    <3>2. CASE F = [op[o] EXCEPT !.pc = "tunnel", !.via = 0, !.mgr = Root]
      BY <1>a, <1>b, <3>2, Names DEF Operation
    <3> QED
      BY <2>1, <3>1, <3>2
  <2>3. /\ op[o].pc \in {"dial", "direct"}
        /\ UNCHANGED <<provider, mu, closed, tasks, closing, running, conns, conn,
                       armed, once, groupVars>>
    BY <1>10 DEF AppCredential, At, SharedOnly, owned
  <2>4. Sound(F, issued)
    BY <1>a, <1>b, <1>c, <2>2, <2>3 DEF Sound, Dials, Bound, Asking
  <2>5. /\ op[o].pc \notin Rest \cup Ending \cup {"look", "own", "arm"}
        /\ F.pc \notin Rest \cup Ending \cup {"arm"}
    BY <2>2, <2>3 DEF Rest, Ending
  <2>n. Named(F, Len(managers))
    BY <1>a, <1>b, <2>2 DEF Named
  <2>6. Moves(o, F, conn[o])
    BY <2>1, <2>2, <2>3, <2>5, GoesOn
  <2> QED
    BY <1>a, <2>n, <2>2, <2>3, <2>4, <2>6
<1>11. CASE WithLifetime(o)
  <2>1. PICK k \in {"dial", "connect", "query", "forget", "logout"} :
          op' = [op EXCEPT ![o].kind = k, ![o].pc = "prepare"]
    BY <1>11 DEF WithLifetime
  <2> DEFINE F == [op[o] EXCEPT !.kind = k, !.pc = "prepare"]
  <2>2. /\ F \in Operation
        /\ F.kind = k /\ F.pc = "prepare" /\ F.res = op[o].res
        /\ F.gen = op[o].gen /\ F.mgr = op[o].mgr /\ F.via = op[o].via
        /\ F.todo = op[o].todo
    BY <1>a, <1>b, Names DEF Operation, Kinds
  <2>3. op' = [op EXCEPT ![o] = F]
    BY <1>a, <2>1
  <2>4. /\ op[o].pc = "idle" /\ running' = running \cup {o} /\ ~closed
        /\ UNCHANGED <<provider, mu, closed, tasks, closing, conns, conn, armed,
                       once, groupVars>>
    BY <1>11 DEF WithLifetime, At, SharedOnly, owned
  <2>5. Sound(F, issued)
    BY <1>a, <1>b, <1>c, <2>2, <2>4 DEF Sound, Dials, Bound, Asking
  <2>6. conn[o] # "open"
    BY <2>4 DEF OpsPart, ConnsInv
  <2>7. conn' = [conn EXCEPT ![o] = conn[o]]
    BY <2>4 DEF OpsPart, Types
  <2>n. Named(F, Len(managers))
    BY <1>a, <1>b, <1>11, <2>2 DEF Named, WithLifetime, At
  <2> HIDE DEF F
  <2>8. Moves(o, F, conn[o])
    BY <1>a, <2>2, <2>3, <2>4, <2>6, <2>7 DEF Moves, Rest, Ending
  <2> QED
    BY <1>a, <2>n, <2>2, <2>4, <2>5, <2>8
<1>12. CASE Dialled(o)
  <2> DEFINE F == [op[o] EXCEPT !.pc = "look"]
  <2>1. /\ F \in Operation
        /\ F.kind = op[o].kind /\ F.pc = "look" /\ F.res = op[o].res
        /\ F.gen = op[o].gen /\ F.mgr = op[o].mgr /\ F.via = op[o].via
        /\ F.todo = op[o].todo
    BY <1>a, <1>b, Names DEF Operation
  <2>2. /\ op' = [op EXCEPT ![o] = F] /\ conn' = [conn EXCEPT ![o] = "open"]
        /\ op[o].pc = "direct" \/ (op[o].pc = "stream" /\ op[o].kind = "dial")
        /\ UNCHANGED <<provider, mu, closed, tasks, closing, running, conns, armed,
                       once, groupVars>>
    BY <1>a, <1>12 DEF Dialled, Goes, At, SharedOnly
  <2>3. Sound(F, issued)
    BY <1>a, <1>b, <1>c, <2>1, <2>2 DEF Sound, Dials, Bound, Asking
  <2>4. o \in running
    BY <2>2 DEF OpsPart, OpsInv, Rest
  <2>n. Named(F, Len(managers))
    BY <1>a, <1>b, <1>12, <2>1 DEF Named, Dialled, At
  <2> HIDE DEF F
  <2>5. Moves(o, F, "open")
    BY <1>a, <2>1, <2>2, <2>4 DEF Moves, Rest, Ending
  <2> QED
    BY <1>a, <2>n, <2>1, <2>2, <2>3, <2>5
<1>13. CASE Answered(o)
  <2>1. /\ Returns(o, "over") /\ op[o].pc \in {"call", "stream"}
        /\ UNCHANGED <<provider, mu, closed, tasks, closing, conn, conns, armed,
                       once, groupVars>>
    BY <1>13 DEF Answered, At, SharedOnly, owned
  <2> QED
    BY <1>a, <1>d, <2>1, Stops DEF Ending
<1>14. CASE OwnRefused(o)
  <2>1. /\ Returns(o, "over") /\ op[o].pc = "own"
        /\ conn' = [conn EXCEPT ![o] = "closed"]
        /\ UNCHANGED <<provider, mu, closed, tasks, closing, conns, armed, once,
                       groupVars>>
    BY <1>14 DEF OwnRefused, GivesUp, At, SharedOnly
  <2> QED
    BY <1>a, <1>d, <2>1, Stops DEF Ending
<1>15. CASE LooksAgain(o) /\ ~Served(op[o].gen)
  <2>1. /\ Returns(o, "over") /\ op[o].pc = "look"
        /\ conn' = [conn EXCEPT ![o] = "closed"]
        /\ UNCHANGED <<provider, mu, closed, tasks, closing, conns, armed, once,
                       groupVars>>
    BY <1>15 DEF LooksAgain, GivesUp, At, SharedOnly
  <2> QED
    BY <1>a, <1>d, <2>1, Stops DEF Ending
<1>16. CASE LooksAgain(o) /\ Served(op[o].gen)
  <2> DEFINE F == [op[o] EXCEPT !.pc = "own"]
  <2>1. /\ F \in Operation
        /\ F.kind = op[o].kind /\ F.pc = "own" /\ F.res = op[o].res
        /\ F.gen = op[o].gen /\ F.mgr = op[o].mgr /\ F.via = op[o].via
        /\ F.todo = op[o].todo
    BY <1>a, <1>b, Names DEF Operation
  <2>2. /\ op' = [op EXCEPT ![o] = F] /\ op[o].pc = "look"
        /\ session = op[o].gen /\ session # 0
        /\ UNCHANGED <<provider, mu, closed, tasks, closing, running, conns, conn,
                       armed, once, groupVars>>
    BY <1>a, <1>16 DEF LooksAgain, Served, Goes, At, SharedOnly, owned
  <2>3. op[o].via = op[o].gen
    BY <1>a, <1>b, <2>2 DEF Sound, Asking
  <2>4. Sound(F, issued)
    BY <1>a, <1>b, <1>c, <2>1, <2>2, <2>3 DEF Sound, Dials, Bound, Asking
  <2>5. o \in running /\ conn' = [conn EXCEPT ![o] = conn[o]]
    BY <2>2 DEF OpsPart, OpsInv, Rest, Types
  <2>n. Named(F, Len(managers))
    BY <1>a, <1>b, <1>16, <2>1 DEF Named, LooksAgain, At
  <2> HIDE DEF F
  <2>6. Moves(o, F, conn[o])
    BY <1>a, <2>1, <2>2, <2>5 DEF Moves, Rest, Ending
  <2> QED
    BY <1>a, <2>n, <2>1, <2>2, <2>4, <2>6
<1>17. CASE Connects(o)
  <2>1. /\ Returns(o, "over") /\ op[o].pc = "connect"
        /\ tasks' \in {"idle", "running", "done"} /\ (tasks = "done" => tasks' = "done")
        /\ UNCHANGED <<provider, mu, closed, closing, conn, conns, armed, once,
                       groupVars>>
    BY <1>a, <1>17 DEF Connects, At, owned
  <2> QED
    BY <1>a, <1>d, <2>1, Stops DEF Ending
<1> QED
  BY <1>1, <1>2, <1>3, <1>4, <1>5, <1>6, <1>7, <1>8, <1>9, <1>10, <1>11, <1>12,
     <1>13, <1>14, <1>15, <1>16, <1>17 DEF OpStep

\* None of them ends a reset.
LEMMA MovesCutNothing ==
  ASSUME OpsPart, ManagersPart, NEW o \in Ops, NEW F \in Operation, NEW c,
         Moves(o, F, c), Named(F, Len(managers))
  PROVE  NothingCut
<1>1. op \in [Ops -> Operation] /\ op' = [op EXCEPT ![o] = F] /\ F.pc \notin Ending
  BY DEF OpsPart, Types, Moves
<1>2. \A p \in Ops : Named(op[p], Len(managers))
  BY DEF ManagersPart, CutInv
<1>3. op'[o] = F /\ \A p \in Ops \ {o} : op'[p] = op[p]
  BY <1>1
<1> HIDE DEF OpsPart, ManagersPart
<1> QED
  BY <1>1, <1>2, <1>3 DEF NothingCut, Ending

LEMMA OpStepKeeps ==
  ASSUME LifetimeInv, NEW o \in Ops, OpStep(o)
  PROVE  LifetimeInv'
<1>1. OpsPart /\ ManagersPart
  BY DEF LifetimeInv
<1>2. PICK F \in Operation, c \in {"none", "open", "closed"} :
        /\ UNCHANGED <<provider, closing, groupVars>>
        /\ Sound(F, issued) /\ Moves(o, F, c) /\ Named(F, Len(managers))
  <2>1. \E F \in Operation : \E c :
          /\ UNCHANGED <<provider, closing, groupVars>>
          /\ Sound(F, issued) /\ Moves(o, F, c) /\ Named(F, Len(managers))
    BY <1>1, OpStepMoves
  <2> QED
    BY <2>1 DEF Moves
<1>3. OpsPart'
  BY <1>1, <1>2, OpMoves
<1>4. NothingCut
  BY <1>1, <1>2, MovesCutNothing
<1>5. /\ issued \in Nat /\ issued' \in Nat /\ issued <= issued'
      /\ UNCHANGED <<managers, group>> /\ shutdown' = shutdown
  BY <1>1, <1>2 DEF OpsPart, Types, provider, closing, groupVars
<1>6. ManagersPart'
  BY <1>1, <1>4, <1>5, ManagersKept
<1> QED
  BY <1>3, <1>6 DEF LifetimeInv

-----------------------------------------------------------------------------
(* The steps of an operation that concern the managers *)

LEMMA FailsKeeps ==
  ASSUME LifetimeInv, NEW o \in Ops, Fails(o)
  PROVE  LifetimeInv'
<1>1. OpsPart /\ ManagersPart
  BY DEF LifetimeInv
<1>2. /\ Returns(o, "over") /\ op[o].pc \in Blocking
      /\ UNCHANGED <<provider, mu, closed, tasks, closing, conns, conn, armed, once, group>>
  BY DEF Fails, owned
<1> DEFINE F == [NoOp EXCEPT !.pc = "over"]
<1>3. /\ F \in Operation /\ Sound(F, issued) /\ F.mgr = 0 /\ F.pc = "over"
      /\ \E c : Moves(o, F, c)
  <2>1. op[o].pc \notin Ending \cup {"arm", "handed", "look", "own"}
    BY <1>2 DEF Blocking, Ending
  <2>2. tasks \in {"idle", "running", "done"}
    BY <1>1 DEF OpsPart, Types
  <2>3. F.mgr = 0 /\ F.pc = "over"
    BY DEF NoOp
  <2> HIDE DEF F
  <2> QED
    BY <1>1, <1>2, <2>1, <2>2, <2>3, Stops DEF F
<1> HIDE DEF F
<1>4. PICK c : Moves(o, F, c)
  BY <1>3
<1>5. OpsPart'
  BY <1>1, <1>3, <1>4, OpMoves
<1>6. /\ managers \in Seq(Managers) /\ Len(managers) \in Nat
      /\ DOMAIN managers = 1 .. Len(managers)
  BY <1>1, LenProperties, GroupsAssumption DEF ManagersPart, ManagersInv
<1>7. NothingCut
  <2>1. Named(F, Len(managers))
    BY <1>3, <1>6 DEF Named
  <2> QED
    BY <1>1, <1>3, <1>4, <2>1, MovesCutNothing
<1>8. /\ issued \in Nat /\ session \in Nat /\ session <= issued
      /\ issued' = issued /\ shutdown' = shutdown /\ group' = group /\ ResetInv
  BY <1>1, <1>2 DEF OpsPart, Types, provider, closing
<1>9. ManagersPart'
  <2>1. CASE LastWaiter(o)
    <3>1. op[o].mgr \in DOMAIN managers
      <4>1. op[o].mgr \in 0 .. Len(managers) /\ op[o].mgr # 0
        BY <1>1, <2>1 DEF ManagersPart, CutInv, Named, LastWaiter, At
      <4> QED
        BY <1>6, <4>1
    <3>2. PICK m \in DOMAIN managers : m = op[o].mgr
      BY <3>1
    <3>3. PICK M : M = GivenUp(managers[m])
      OBVIOUS
    <3>4. managers' = [managers EXCEPT ![m] = M]
      BY <2>1, <3>2, <3>3 DEF Fails
    <3>5. managers[m] \in Managers /\ Whole(managers[m], issued)
      BY <1>1, <1>6, ElementOfSeq DEF ManagersPart, ManagersInv
    <3>6. /\ M \in Managers /\ M.closed = managers[m].closed
          /\ M.tunnel = managers[m].tunnel /\ M.sid = 0 /\ M.connect = "no"
      BY <3>3, <3>5 DEF GivenUp, Managers
    <3>7. Whole(M, issued)
      BY <1>8, <3>5, <3>6 DEF Whole
    <3> QED
      BY <1>1, <1>7, <1>8, <3>4, <3>6, <3>7, ManagerMoves
  <2>2. CASE ~LastWaiter(o)
    <3>1. managers' = managers
      BY <2>2 DEF Fails
    <3> QED
      BY <1>1, <1>7, <1>8, <3>1, ManagersKept
  <2> QED
    BY <2>1, <2>2
<1> QED
  BY <1>5, <1>9 DEF LifetimeInv

LEMMA ForAppKeeps ==
  ASSUME LifetimeInv, NEW o \in Ops, ForApp(o)
  PROVE  LifetimeInv'
<1>1. OpsPart /\ ManagersPart
  BY DEF LifetimeInv
<1>2. /\ op[o].pc = "forapp" /\ FindsGroup
      /\ op' = [op EXCEPT ![o].pc = "tunnel", ![o].mgr = group']
      /\ UNCHANGED <<provider, mu, closed, tasks, running, closing, conns, conn, armed, once>>
  BY DEF ForApp, At, owned
<1>3. /\ op \in [Ops -> Operation] /\ op[o] \in Operation /\ Sound(op[o], issued)
      /\ issued \in Nat /\ session \in Nat /\ session <= issued
  BY <1>1 DEF OpsPart, OpsInv, Types
<1>4. /\ managers \in Seq(Managers) /\ Len(managers) \in Nat \ {0}
      /\ DOMAIN managers = 1 .. Len(managers) /\ group \in 0 .. Len(managers)
      /\ Root \in DOMAIN managers /\ \A m \in DOMAIN managers : managers[m] \in Managers
  <2>1. /\ managers \in Seq(Managers) /\ Len(managers) \in Nat /\ 1 <= Len(managers)
        /\ group \in 0 .. Len(managers)
    BY <1>1, GroupsAssumption DEF ManagersPart, ManagersInv
  <2> QED
    BY <2>1, LenProperties, ElementOfSeq DEF Root
<1>5. /\ group' \in 1 .. Len(managers') /\ Len(managers') \in Nat
      /\ \/ group # 0 /\ UNCHANGED groupVars
         \/ /\ group = 0 /\ managers' = Append(managers, Manager)
            /\ Len(managers') = Len(managers) + 1 /\ group' = Len(managers')
            /\ Len(managers) < MaxManagers
  <2>1. CASE group # 0
    <3>1. UNCHANGED groupVars
      BY <1>2, <2>1 DEF FindsGroup
    <3>2. group' = group /\ managers' = managers
      BY <3>1 DEF groupVars
    <3>3. group \in 1 .. Len(managers)
      BY <1>4, <2>1
    <3> QED
      BY <1>4, <2>1, <3>1, <3>2, <3>3
  <2>2. CASE group = 0
    <3>1. Manager \in Managers
      BY DEF Manager, Managers
    <3> QED
      BY <1>2, <1>4, <2>2, <3>1, AppendProperties DEF FindsGroup
  <2> QED
    BY <2>1, <2>2
<1>6. PICK F \in Operation :
        /\ op' = [op EXCEPT ![o] = F]
        /\ F.kind = op[o].kind /\ F.pc = "tunnel" /\ F.res = op[o].res
        /\ F.gen = op[o].gen /\ F.mgr = group' /\ F.via = op[o].via /\ F.todo = op[o].todo
  <2> DEFINE G == [op[o] EXCEPT !.pc = "tunnel", !.mgr = group']
  <2>1. group' \in Nat
    BY <1>5
  <2>2. /\ G \in Operation
        /\ G.kind = op[o].kind /\ G.pc = "tunnel" /\ G.res = op[o].res
        /\ G.gen = op[o].gen /\ G.mgr = group' /\ G.via = op[o].via /\ G.todo = op[o].todo
    BY <1>3, <2>1, Names DEF Operation
  <2>3. op' = [op EXCEPT ![o] = G]
    BY <1>2, <1>3
  <2> QED
    BY <2>2, <2>3
<1>7. Sound(F, issued)
  BY <1>2, <1>3, <1>6 DEF Sound, Dials, Bound, Asking
<1>8. Moves(o, F, conn[o])
  <2>1. /\ op[o].pc \notin Rest \cup Ending \cup {"look", "own", "arm"}
        /\ F.pc \notin Rest \cup Ending \cup {"arm"}
    BY <1>2, <1>6 DEF Rest, Ending
  <2> QED
    BY <1>1, <1>2, <1>6, <2>1, GoesOn
<1>9. OpsPart'
  BY <1>1, <1>6, <1>7, <1>8, OpMoves
<1>10. Named(F, Len(managers'))
  BY <1>5, <1>6 DEF Named
<1>11. issued' = issued /\ shutdown' = shutdown
  BY <1>2 DEF provider, closing
<1>12. CASE group # 0 /\ UNCHANGED groupVars
  <2>1. UNCHANGED <<managers, group>> /\ Named(F, Len(managers))
    BY <1>10, <1>12 DEF groupVars
  <2>2. NothingCut
    BY <1>1, <1>6, <1>8, <2>1, MovesCutNothing
  <2>3. ManagersPart'
    BY <1>1, <1>3, <1>11, <2>1, <2>2, ManagersKept
  <2> QED
    BY <1>9, <2>3 DEF LifetimeInv
<1>13. CASE /\ group = 0 /\ managers' = Append(managers, Manager)
            /\ Len(managers') = Len(managers) + 1 /\ group' = Len(managers')
            /\ Len(managers) < MaxManagers
  <2>1. Manager \in Managers /\ Whole(Manager, issued) /\ \A g \in Nat : Clean(Manager, g)
    BY <1>3 DEF Manager, Managers, Whole, Clean
  <2>2. /\ managers' \in Seq(Managers) /\ DOMAIN managers' = 1 .. Len(managers) + 1
        /\ \A m \in DOMAIN managers : managers'[m] = managers[m]
        /\ managers'[Len(managers) + 1] = Manager
    BY <1>4, <1>13, <2>1, AppendProperties
  <2>3. /\ \A m \in DOMAIN managers : Whole(managers[m], issued)
        /\ \A m \in DOMAIN managers \ {Root} : managers[m].closed
    BY <1>1, <1>4, <1>13 DEF ManagersPart, ManagersInv, Closed
  <2>4. ManagersInv'
    <3>1. Len(managers') \in 1 .. MaxManagers
      BY <1>4, <1>13, GroupsAssumption
    <3>2. group' \in 0 .. Len(managers') /\ group' # Root
      BY <1>4, <1>13 DEF Root
    <3>3. \A m \in DOMAIN managers' : Whole(managers'[m], issued')
      BY <1>4, <1>11, <2>1, <2>2, <2>3
    <3>4. \A m \in DOMAIN managers' \ {Root, group'} : managers'[m].closed
      BY <1>4, <1>13, <2>2, <2>3
    <3> QED
      BY <2>2, <3>1, <3>2, <3>3, <3>4 DEF ManagersInv, Closed
  <2>5. \A p \in Ops \ {o} : op'[p] = op[p]
    BY <1>3, <1>6
  <2>6. op'[o] = F
    BY <1>3, <1>6
  <2>7. CutInv'
    <3>1. \A p \in Ops : Named(op'[p], Len(managers'))
      <4>1. \A p \in Ops : Named(op[p], Len(managers))
        BY <1>1 DEF ManagersPart, CutInv
      <4> QED
        BY <1>4, <1>10, <1>13, <2>5, <2>6, <4>1 DEF Named
    <3>2. ASSUME NEW p \in Ops, op'[p].pc \in {"reset groups", "cut"}
          PROVE  Clean(managers'[Root], op'[p].gen)
      <4>1. op'[p] = op[p]
        BY <1>6, <2>5, <2>6, <3>2
      <4> QED
        BY <1>1, <1>4, <2>2, <3>2, <4>1 DEF ManagersPart, CutInv
    <3>3. ASSUME NEW p \in Ops, op'[p].pc = "cut", NEW m \in DOMAIN managers'
          PROVE  Clean(managers'[m], op'[p].gen)
      <4>1. op'[p] = op[p]
        BY <1>6, <2>5, <2>6, <3>3
      <4>2. op[p].gen \in Nat
        BY <1>3 DEF Operation
      <4>3. CASE m \in DOMAIN managers
        BY <1>1, <2>2, <3>3, <4>1, <4>3 DEF ManagersPart, CutInv
      <4>4. CASE m = Len(managers) + 1
        BY <2>1, <2>2, <4>1, <4>2, <4>4
      <4> QED
        BY <1>4, <2>2, <4>3, <4>4
    <3> QED
      BY <3>1, <3>2, <3>3 DEF CutInv, Clean
  <2>8. GroupsInv'
    <3>1. ~Closed(Root)
      BY <1>2 DEF FindsGroup
    <3>2. shutdown \notin {"groups", "wait", "done"}
      BY <1>1, <3>1 DEF ManagersPart, GroupsInv
    <3> QED
      BY <1>11, <3>2 DEF GroupsInv
  <2> QED
    BY <1>9, <2>4, <2>7, <2>8 DEF LifetimeInv, ManagersPart
<1> QED
  BY <1>5, <1>12, <1>13

LEMMA SharesKeeps ==
  ASSUME LifetimeInv, NEW o \in Ops, Shares(o)
  PROVE  LifetimeInv'
<1>1. OpsPart /\ ManagersPart
  BY DEF LifetimeInv
<1>2. /\ op[o].pc = "share" /\ ~managers[op[o].mgr].closed
      /\ UNCHANGED <<provider, mu, closed, tasks, running, closing, conns, conn, armed,
                     once, group>>
  BY DEF Shares, At, Closed, owned
<1>3. /\ op \in [Ops -> Operation] /\ op[o] \in Operation /\ Sound(op[o], issued)
      /\ issued \in Nat /\ session \in Nat /\ session <= issued /\ ResetInv
      /\ issued' = issued /\ shutdown' = shutdown
  BY <1>1, <1>2 DEF OpsPart, OpsInv, Types, provider, closing
<1>4. Named(op[o], Len(managers))
  BY <1>1 DEF ManagersPart, CutInv
<1>5. PICK l \in {"stream", "wait"} :
        /\ op' = [op EXCEPT ![o].pc = l]
        /\ \/ l = "stream" /\ managers' = managers
           \/ l = "wait" /\ Asks(op[o].mgr)
  BY DEF Shares, Goes
<1>6. PICK F \in Operation :
        /\ op' = [op EXCEPT ![o] = F]
        /\ F.kind = op[o].kind /\ F.pc = l /\ F.res = op[o].res
        /\ F.gen = op[o].gen /\ F.mgr = op[o].mgr /\ F.via = op[o].via /\ F.todo = op[o].todo
  <2> DEFINE G == [op[o] EXCEPT !.pc = l]
  <2>1. /\ G \in Operation
        /\ G.kind = op[o].kind /\ G.pc = l /\ G.res = op[o].res
        /\ G.gen = op[o].gen /\ G.mgr = op[o].mgr /\ G.via = op[o].via /\ G.todo = op[o].todo
    BY <1>3, Names DEF Operation
  <2>2. op' = [op EXCEPT ![o] = G]
    BY <1>3, <1>5
  <2> QED
    BY <2>1, <2>2
<1>7. Sound(F, issued)
  BY <1>2, <1>3, <1>6 DEF Sound, Dials, Bound, Asking
<1>8. Moves(o, F, conn[o])
  <2>1. /\ op[o].pc \notin Rest \cup Ending \cup {"look", "own", "arm"}
        /\ F.pc \notin Rest \cup Ending \cup {"arm"}
    BY <1>2, <1>6 DEF Rest, Ending
  <2> QED
    BY <1>1, <1>2, <1>6, <2>1, GoesOn
<1>9. OpsPart'
  BY <1>1, <1>6, <1>7, <1>8, OpMoves
<1>10. NothingCut
  <2>1. Named(F, Len(managers))
    BY <1>2, <1>4, <1>6 DEF Named
  <2> QED
    BY <1>1, <1>6, <1>8, <2>1, MovesCutNothing
<1>11. ManagersPart'
  <2>1. CASE managers' = managers
    BY <1>1, <1>2, <1>3, <1>10, <2>1, ManagersKept
  <2>2. CASE Asks(op[o].mgr)
    <3>1. /\ managers \in Seq(Managers) /\ Len(managers) \in Nat
          /\ DOMAIN managers = 1 .. Len(managers)
      BY <1>1, LenProperties, GroupsAssumption DEF ManagersPart, ManagersInv
    <3>2. PICK m \in DOMAIN managers : m = op[o].mgr
      <4>1. op[o].mgr \in 0 .. Len(managers) /\ op[o].mgr # 0
        BY <1>2, <1>4 DEF Named
      <4> QED
        BY <3>1, <4>1
    <3>3. managers[m] \in Managers /\ Whole(managers[m], issued)
      BY <1>1, <3>1, ElementOfSeq DEF ManagersPart, ManagersInv
    <3>4. PICK M : M = [managers[m] EXCEPT !.tunnel = 0, !.connect = IF @ = "no" THEN "begun" ELSE @]
      OBVIOUS
    <3>5. /\ M \in Managers /\ M.closed = managers[m].closed /\ M.tunnel = 0
          /\ M.sid = managers[m].sid
      BY <3>3, <3>4 DEF Managers
    <3>6. managers' = [managers EXCEPT ![m] = M]
      BY <2>2, <3>2, <3>4 DEF Asks
    <3>7. Whole(M, issued)
      BY <1>2, <1>3, <3>2, <3>3, <3>5 DEF Whole
    <3> QED
      BY <1>1, <1>2, <1>3, <1>10, <3>5, <3>6, <3>7, ManagerMoves
  <2> QED
    BY <1>5, <2>1, <2>2
<1> QED
  BY <1>9, <1>11 DEF LifetimeInv

-----------------------------------------------------------------------------
(* ForgetSession and the logout of this device *)

\* Operation o, which has no connection, goes on as F: it ends its session or
\* what depends on it.
Ends(o, F) ==
  /\ op' = [op EXCEPT ![o] = F] /\ F.pc \in Ending
  /\ op[o].pc \notin Rest \cup {"look", "own", "arm"}
  /\ running' = IF F.pc \in Rest THEN running \ {o} ELSE running
  /\ UNCHANGED <<issued, over, mu, closed, tasks, closing, conns, conn, armed, once>>
  /\ session' \in {0, session} /\ (session' = 0 \/ F.gen < session')

LEMMA EndMoves ==
  ASSUME OpsPart, NEW o \in Ops, NEW F \in Operation, Sound(F, issued), Ends(o, F),
         F.pc # "reset" => \A k \in Ops : op[k].gen <= F.gen =>
                             /\ op[k].pc # "arm"
                             /\ op[k].pc = "handed" => conn[k] = "closed" \/ k \in F.todo
  PROVE  OpsPart'
<1> USE DEF OpsPart
<1>0. /\ issued' = issued /\ over' = over /\ shutdown' = shutdown /\ doomed' = doomed
      /\ mu' = mu /\ closed' = closed /\ tasks' = tasks /\ conns' = conns /\ conn' = conn
      /\ armed' = armed /\ once' = once
      /\ F.pc \in {"reset", "resetting", "reset groups", "cut"}
      /\ op[o].pc \notin {"idle", "handed", "cut", "over", "look", "own", "arm"}
      /\ running' = IF F.pc \in Rest THEN running \ {o} ELSE running
      /\ session' \in {0, session} /\ (session' = 0 \/ F.gen < session')
  BY DEF Ends, closing, Ending, Rest
<1>1. /\ op'[o] = F /\ \A p \in Ops \ {o} : op'[p] = op[p]
      /\ op' \in [Ops -> Operation]
  BY DEF Types, Ends
<1>2. o \in running /\ running' \subseteq running /\ running \subseteq Ops
  BY <1>0, <1>1 DEF OpsInv, Types, Rest
<1>3. conn[o] # "open" /\ o \notin conns /\ once[o] = "no"
  BY <1>0 DEF ConnsInv, Types
<1>4. Types'
  <2>0. session \in Nat /\ session \in {0, issued}
    BY DEF Types
  <2>9. session' = 0 \/ session' = session
    BY DEF Ends
  <2>1. session' \in Nat /\ session' \in {0, issued}
    <3> HIDE DEF OpsPart
    <3> QED
      BY <2>9, <2>0
  <2> QED
    BY <1>0, <1>1, <1>2, <2>1 DEF Types
<1>5. OpsInv'
  <2>1. \A p \in Ops : Sound(op'[p], issued')
    BY <1>0, <1>1 DEF OpsInv
  <2>2. \A p \in Ops : op'[p].pc \in Rest <=> p \notin running'
    <3>1. F.pc \in Rest <=> o \notin running'
      BY <1>0, <1>2
    <3>2. \A p \in Ops \ {o} : p \in running' <=> p \in running
      BY <1>0
    <3> QED
      BY <1>1, <3>1, <3>2 DEF OpsInv
  <2>3. \A p \in Ops : (op'[p].pc = "arm") <=> mu' = p
    BY <1>0, <1>1 DEF OpsInv
  <2> QED
    BY <2>1, <2>2, <2>3 DEF OpsInv
<1>6. ConnsInv'
  <2>1. armed' \subseteq conns'
    BY <1>0 DEF ConnsInv
  <2>2. ASSUME NEW k \in Ops
        PROVE  /\ k \in conns' <=> op'[k].pc = "handed" /\ once'[k] # "done"
               /\ once'[k] # "no" => op'[k].pc = "handed" /\ k \notin armed'
    <3>1. CASE k = o
      BY <1>0, <1>1, <1>3, <3>1
    <3>2. CASE k # o
      BY <1>0, <1>1, <3>2 DEF ConnsInv
    <3> QED
      BY <3>1, <3>2
  <2>3. \A k \in Ops : once'[k] \in {"closed", "done"} => conn'[k] = "closed"
    BY <1>0 DEF ConnsInv
  <2>4. \A k \in Ops : conn'[k] = "open" => op'[k].pc \in {"look", "own", "arm", "handed"}
    BY <1>0, <1>1, <1>3 DEF ConnsInv
  <2> QED
    BY <2>1, <2>2, <2>3, <2>4 DEF ConnsInv
<1>7. ResetInv'
  <2>1. ASSUME NEW p \in Ops, op'[p].pc \in Ending
        PROVE  session' = 0 \/ op'[p].gen < session'
    BY <1>0, <1>1, <2>1 DEF ResetInv
  <2>2. ASSUME NEW p \in Ops, NEW k \in Ops, op'[p].pc \in Ending \ {"reset"},
               op'[k].gen <= op'[p].gen
        PROVE  /\ op'[k].pc # "arm"
               /\ op'[k].pc = "handed" => conn'[k] = "closed" \/ k \in op'[p].todo
    <3>1. CASE k = o
      BY <1>0, <1>1, <3>1
    <3>2. CASE k # o /\ p = o
      BY <1>0, <1>1, <2>2, <3>2
    <3>3. CASE k # o /\ p # o
      BY <1>0, <1>1, <2>2, <3>3 DEF ResetInv
    <3> QED
      BY <3>1, <3>2, <3>3
  <2> QED
    BY <2>1, <2>2 DEF ResetInv
<1>8. CloseInv'
  <2>1. CloseInv /\ closed \in BOOLEAN /\ over \in BOOLEAN
    BY DEF Types
  <2> HIDE DEF OpsPart
  <2>2. /\ closed' <=> shutdown' # "no"
        /\ closed' => mu' = Nobody
        /\ shutdown' \notin {"no", "conns"} => doomed' = {}
    BY <1>0, <2>1 DEF CloseInv
  <2>3. \A k \in Ops : closed' /\ conn'[k] = "open" => k \in doomed' \/ op'[k].pc \in {"look", "own"}
    BY <1>0, <1>1, <1>3, <2>1 DEF CloseInv
  <2>4. shutdown' \in {"managers", "groups", "wait", "done"} => over' /\ session' = 0
    BY <1>0, <2>1 DEF CloseInv
  <2>5. shutdown' = "done" => tasks' = "done" /\ running' = {}
    BY <1>0, <1>2, <2>1 DEF CloseInv
  <2> QED
    BY <2>2, <2>3, <2>4, <2>5 DEF CloseInv
<1> QED
  BY <1>4, <1>5, <1>6, <1>7, <1>8

LEMMA InvalidatesKeeps ==
  ASSUME LifetimeInv, NEW o \in Ops, Invalidates(o)
  PROVE  LifetimeInv'
<1>1. OpsPart /\ ManagersPart
  BY DEF LifetimeInv
<1>2. /\ op[o].pc = "invalidate" /\ session' = 0
      /\ op' = [op EXCEPT ![o].pc = "reset", ![o].gen = issued]
      /\ UNCHANGED <<issued, over, mu, closed, tasks, running, closing, conns, conn,
                     armed, once, managers, group>>
  BY DEF Invalidates, At, Session!Withdraw, owned, groupVars
<1>3. /\ op \in [Ops -> Operation] /\ op[o] \in Operation /\ Sound(op[o], issued)
      /\ issued \in Nat
  BY <1>1 DEF OpsPart, OpsInv, Types
<1>4. PICK F \in Operation :
        /\ op' = [op EXCEPT ![o] = F]
        /\ F.kind = op[o].kind /\ F.pc = "reset" /\ F.res = op[o].res
        /\ F.gen = issued /\ F.mgr = op[o].mgr /\ F.via = op[o].via /\ F.todo = op[o].todo
  <2> DEFINE G == [op[o] EXCEPT !.pc = "reset", !.gen = issued]
  <2>1. /\ G \in Operation
        /\ G.kind = op[o].kind /\ G.pc = "reset" /\ G.res = op[o].res
        /\ G.gen = issued /\ G.mgr = op[o].mgr /\ G.via = op[o].via /\ G.todo = op[o].todo
    BY <1>3, Names DEF Operation
  <2>2. op' = [op EXCEPT ![o] = G]
    BY <1>2, <1>3
  <2> QED
    BY <2>1, <2>2
<1>5. Sound(F, issued)
  BY <1>2, <1>3, <1>4 DEF Sound, Dials, Bound, Asking
<1>6. OpsPart'
  <2>1. /\ F.pc \in Ending /\ F.pc \notin Rest
        /\ op[o].pc \notin Rest \cup {"look", "own", "arm"}
    BY <1>2, <1>4 DEF Ending, Rest
  <2> QED
    BY <1>1, <1>2, <1>4, <1>5, <2>1, EndMoves DEF Ends
<1>7. NothingCut
  BY <1>1, <1>3, <1>4 DEF NothingCut, Named, ManagersPart, CutInv
<1>8. ManagersPart'
  BY <1>1, <1>2, <1>3, <1>7, ManagersKept DEF closing
<1> QED
  BY <1>6, <1>8 DEF LifetimeInv

LEMMA LoggedOutKeeps ==
  ASSUME LifetimeInv, NEW o \in Ops, LoggedOut(o)
  PROVE  LifetimeInv'
<1>1. OpsPart /\ ManagersPart
  BY DEF LifetimeInv
<1>2. /\ op[o].pc = "call"
      /\ UNCHANGED <<mu, closed, tasks, closing, conns, conn, armed, once, managers, group>>
  BY DEF LoggedOut, At, owned, groupVars
<1>3. /\ op \in [Ops -> Operation] /\ op[o] \in Operation /\ Sound(op[o], issued)
      /\ issued \in Nat /\ tasks \in {"idle", "running", "done"}
  BY <1>1 DEF OpsPart, OpsInv, Types
<1>4. CASE Served(op[o].gen)
  <2>1. /\ session' = 0 /\ op' = [op EXCEPT ![o].pc = "reset"]
        /\ UNCHANGED <<issued, over, running>>
    BY <1>4 DEF LoggedOut, Session!Withdraw, Goes
  <2>2. PICK F \in Operation :
          /\ op' = [op EXCEPT ![o] = F]
          /\ F.kind = op[o].kind /\ F.pc = "reset" /\ F.res = op[o].res
          /\ F.gen = op[o].gen /\ F.mgr = op[o].mgr /\ F.via = op[o].via /\ F.todo = op[o].todo
    <3> DEFINE G == [op[o] EXCEPT !.pc = "reset"]
    <3>1. /\ G \in Operation
          /\ G.kind = op[o].kind /\ G.pc = "reset" /\ G.res = op[o].res
          /\ G.gen = op[o].gen /\ G.mgr = op[o].mgr /\ G.via = op[o].via /\ G.todo = op[o].todo
      BY <1>3, Names DEF Operation
    <3>2. op' = [op EXCEPT ![o] = G]
      BY <1>3, <2>1
    <3> QED
      BY <3>1, <3>2
  <2>3. Sound(F, issued)
    BY <1>2, <1>3, <2>2 DEF Sound, Dials, Bound, Asking
  <2>4. OpsPart'
    <3>1. /\ F.pc \in Ending /\ F.pc \notin Rest
          /\ op[o].pc \notin Rest \cup {"look", "own", "arm"}
      BY <1>2, <2>2 DEF Ending, Rest
    <3> QED
      BY <1>1, <1>2, <2>1, <2>2, <2>3, <3>1, EndMoves DEF Ends
  <2>5. NothingCut
    BY <1>1, <1>3, <2>2 DEF NothingCut, Named, ManagersPart, CutInv
  <2>6. ManagersPart'
    BY <1>1, <1>2, <1>3, <2>1, <2>5, ManagersKept DEF closing
  <2> QED
    BY <2>4, <2>6 DEF LifetimeInv
<1>5. CASE ~Served(op[o].gen)
  <2> DEFINE F == [NoOp EXCEPT !.pc = "over"]
  <2>1. Returns(o, "over") /\ UNCHANGED provider
    BY <1>5 DEF LoggedOut
  <2>2. /\ F \in Operation /\ Sound(F, issued) /\ F.mgr = 0 /\ F.pc = "over"
        /\ \E c : Moves(o, F, c)
    <3>1. op[o].pc \notin Ending \cup {"arm", "handed", "look", "own"}
      BY <1>2 DEF Ending
    <3>2. F.mgr = 0 /\ F.pc = "over"
      BY DEF NoOp
    <3> HIDE DEF F
    <3> QED
      BY <1>1, <1>2, <1>3, <2>1, <3>1, <3>2, Stops DEF F
  <2> HIDE DEF F
  <2>3. PICK c : Moves(o, F, c)
    BY <2>2
  <2>4. OpsPart'
    BY <1>1, <2>2, <2>3, OpMoves
  <2>5. NothingCut
    <3>1. Named(F, Len(managers))
      BY <1>1, <2>2, GroupsAssumption DEF Named, ManagersPart, ManagersInv
    <3> QED
      BY <1>1, <2>2, <2>3, <3>1, MovesCutNothing
  <2>6. issued' = issued /\ shutdown' = shutdown
    BY <1>2, <2>1 DEF provider, closing
  <2>7. ManagersPart'
    BY <1>1, <1>2, <1>3, <2>5, <2>6, ManagersKept
  <2> QED
    BY <2>4, <2>7 DEF LifetimeInv
<1> QED
  BY <1>4, <1>5

LEMMA ResetsKeeps ==
  ASSUME LifetimeInv, NEW o \in Ops, Resets(o) \/ ResetNext(o)
  PROVE  LifetimeInv'
<1>1. OpsPart /\ ManagersPart
  BY DEF LifetimeInv
<1>2. UNCHANGED <<session, issued, over, mu, closed, tasks, running, closing, conns, conn,
                  armed, once, managers, group>>
  BY DEF Resets, ResetNext, SharedOnly, provider, owned, groupVars
<1>3. /\ op \in [Ops -> Operation] /\ op[o] \in Operation /\ Sound(op[o], issued)
      /\ issued \in Nat /\ conns \subseteq Ops
  BY <1>1 DEF OpsPart, OpsInv, Types
<1>4. PICK T \in SUBSET Ops :
        /\ op' = [op EXCEPT ![o].pc = "resetting", ![o].todo = T]
        /\ \/ op[o].pc = "reset" /\ mu = Nobody /\ T = conns
           \/ op[o].pc = "resetting" /\ \E k \in Ops : once[k] = "done" /\ T = op[o].todo \ {k}
  <2>1. CASE Resets(o)
    BY <1>3, <2>1 DEF Resets, At
  <2>2. CASE ResetNext(o)
    <3>1. PICK k \in op[o].todo :
            once[k] = "done" /\ op' = [op EXCEPT ![o].todo = @ \ {k}]
      BY <2>2 DEF ResetNext
    <3>2. op[o].pc = "resetting" /\ op[o].todo \in SUBSET Ops
      BY <1>3, <3>1 DEF Sound, Operation
    <3>3. [op[o] EXCEPT !.todo = @ \ {k}] = [op[o] EXCEPT !.pc = "resetting", !.todo = op[o].todo \ {k}]
      BY <1>3, <3>2 DEF Operation
    <3>4. op' = [op EXCEPT ![o].pc = "resetting", ![o].todo = op[o].todo \ {k}]
      BY <1>3, <3>1, <3>3
    <3> QED
      BY <3>1, <3>2, <3>4
  <2> QED
    BY <2>1, <2>2
<1>5. PICK F \in Operation :
        /\ op' = [op EXCEPT ![o] = F]
        /\ F.kind = op[o].kind /\ F.pc = "resetting" /\ F.res = op[o].res
        /\ F.gen = op[o].gen /\ F.mgr = op[o].mgr /\ F.via = op[o].via /\ F.todo = T
  <2> DEFINE G == [op[o] EXCEPT !.pc = "resetting", !.todo = T]
  <2>1. /\ G \in Operation
        /\ G.kind = op[o].kind /\ G.pc = "resetting" /\ G.res = op[o].res
        /\ G.gen = op[o].gen /\ G.mgr = op[o].mgr /\ G.via = op[o].via /\ G.todo = T
    BY <1>3, Names DEF Operation
  <2>2. op' = [op EXCEPT ![o] = G]
    BY <1>3, <1>4
  <2> QED
    BY <2>1, <2>2
<1>6. Sound(F, issued)
  BY <1>3, <1>4, <1>5 DEF Sound, Dials, Bound, Asking
<1>7. \A k \in Ops : op[k].gen <= F.gen =>
        /\ op[k].pc # "arm"
        /\ op[k].pc = "handed" => conn[k] = "closed" \/ k \in F.todo
  <2>1. CASE op[o].pc = "reset" /\ mu = Nobody /\ T = conns
    BY <1>1, <1>5, <2>1, LifetimeAssumption DEF OpsPart, OpsInv, ConnsInv
  <2>2. CASE op[o].pc = "resetting" /\ \E k \in Ops : once[k] = "done" /\ T = op[o].todo \ {k}
    BY <1>1, <1>5, <2>2 DEF OpsPart, ResetInv, ConnsInv, Ending
  <2> QED
    BY <1>4, <2>1, <2>2
<1>8. OpsPart'
  <2>1. /\ F.pc \in Ending /\ F.pc \notin Rest
        /\ op[o].pc \in Ending /\ op[o].pc \notin Rest \cup {"look", "own", "arm"}
    BY <1>4, <1>5 DEF Ending, Rest
  <2>2. session' = 0 \/ F.gen < session'
    BY <1>1, <1>2, <1>5, <2>1 DEF OpsPart, ResetInv
  <2> QED
    BY <1>1, <1>2, <1>5, <1>6, <1>7, <2>1, <2>2, EndMoves DEF Ends
<1>9. NothingCut
  <2>1. \A p \in Ops : Named(op[p], Len(managers))
    BY <1>1 DEF ManagersPart, CutInv
  <2>2. op'[o] = F /\ \A p \in Ops \ {o} : op'[p] = op[p]
    BY <1>3, <1>5
  <2>3. Named(F, Len(managers))
    BY <1>5, <2>1 DEF Named
  <2> QED
    BY <1>5, <2>1, <2>2, <2>3 DEF NothingCut
<1>10. ManagersPart'
  BY <1>1, <1>2, <1>3, <1>9, ManagersKept DEF closing
<1> QED
  BY <1>8, <1>10 DEF LifetimeInv

-----------------------------------------------------------------------------
(* Reset and Close of the root manager *)

\* A manager that is cut has no tunnel and no connect.
LEMMA CutIs ==
  ASSUME NEW m \in DOMAIN managers, managers[m] \in Managers, NEW forGood \in BOOLEAN
  PROVE  \E M \in Managers :
           /\ Cut(m, forGood) = [managers EXCEPT ![m] = M]
           /\ M.tunnel = 0 /\ M.sid = 0 /\ M.connect = "no"
           /\ M.closed = (managers[m].closed \/ forGood)
<1>1. PICK M : M = [managers[m] EXCEPT !.connect = "no", !.sid = 0, !.tunnel = 0,
                                      !.closed = @ \/ forGood]
  OBVIOUS
<1>2. /\ M \in Managers /\ M.tunnel = 0 /\ M.sid = 0 /\ M.connect = "no"
      /\ M.closed = (managers[m].closed \/ forGood)
  <2>1. (managers[m].closed \/ forGood) \in BOOLEAN
    OBVIOUS
  <2> QED
    BY <1>1, <2>1 DEF Managers
<1>3. Cut(m, forGood) = [managers EXCEPT ![m] = M]
  BY <1>1 DEF Cut
<1> QED
  BY <1>2, <1>3

\* Managers are cut, and stay closed if they were.
Shrinks ==
  /\ managers' \in Seq(Managers) /\ Len(managers') = Len(managers)
  /\ DOMAIN managers' = DOMAIN managers
  /\ \A m \in DOMAIN managers :
       \/ managers'[m] = managers[m]
       \/ /\ managers'[m].tunnel = 0 /\ managers'[m].sid = 0 /\ managers'[m].connect = "no"
          /\ managers[m].closed => managers'[m].closed

LEMMA CutShrinks ==
  ASSUME ManagersPart, NEW m \in DOMAIN managers, NEW forGood \in BOOLEAN,
         managers' = Cut(m, forGood)
  PROVE  /\ Shrinks
         /\ managers'[m].tunnel = 0 /\ managers'[m].sid = 0
         /\ forGood => managers'[m].closed
<1>1. managers \in Seq(Managers) /\ managers[m] \in Managers
  BY ElementOfSeq, LenProperties DEF ManagersPart, ManagersInv
<1>2. PICK M \in Managers :
        /\ Cut(m, forGood) = [managers EXCEPT ![m] = M]
        /\ M.tunnel = 0 /\ M.sid = 0 /\ M.connect = "no"
        /\ M.closed = (managers[m].closed \/ forGood)
  BY <1>1, CutIs
<1> HIDE DEF ManagersPart
<1>3. managers' = [managers EXCEPT ![m] = M]
  BY <1>2
<1>4. /\ managers' \in Seq(Managers) /\ Len(managers') = Len(managers)
      /\ DOMAIN managers' = DOMAIN managers
      /\ managers'[m] = M /\ \A n \in DOMAIN managers \ {m} : managers'[n] = managers[n]
  BY <1>1, <1>3, ExceptSeq, LenProperties
<1>5. managers[m].closed \in BOOLEAN
  BY <1>1 DEF Managers
<1> QED
  BY <1>2, <1>4, <1>5 DEF Shrinks

LEMMA ManagersShrink ==
  ASSUME ManagersPart, Shrinks, issued' = issued, issued \in Nat,
         \/ group' = group
         \/ group' = 0 /\ (group # 0 => managers'[group].closed)
  PROVE  /\ ManagersInv'
         /\ \A m \in DOMAIN managers, g \in Nat :
              Clean(managers[m], g) => Clean(managers'[m], g)
         /\ \A m \in DOMAIN managers : managers[m].closed => managers'[m].closed
<1>1. /\ \A m \in DOMAIN managers, g \in Nat :
           Clean(managers[m], g) => Clean(managers'[m], g)
      /\ \A m \in DOMAIN managers : managers[m].closed => managers'[m].closed
  BY DEF Shrinks, Clean
<1>2. \A m \in DOMAIN managers : Whole(managers'[m], issued)
  BY DEF Shrinks, Whole, ManagersPart, ManagersInv
<1>3. group' \in 0 .. Len(managers) /\ group' # Root
  BY DEF ManagersPart, ManagersInv, Root
<1>4. \A m \in DOMAIN managers \ {Root, group'} : managers'[m].closed
  BY <1>1 DEF ManagersPart, ManagersInv, Closed
<1>5. ManagersInv'
  BY <1>2, <1>3, <1>4 DEF Shrinks, ManagersInv, Closed, ManagersPart
<1> QED
  BY <1>1, <1>5

LEMMA ResetsRootKeeps ==
  ASSUME LifetimeInv, NEW o \in Ops, ResetsRoot(o)
  PROVE  LifetimeInv'
<1>1. OpsPart /\ ManagersPart
  BY DEF LifetimeInv
<1>2. /\ op[o].pc = "resetting" /\ op[o].todo = {} /\ managers' = Cut(Root, FALSE)
      /\ op' = [op EXCEPT ![o].pc = "reset groups"]
      /\ UNCHANGED <<session, issued, over, mu, closed, tasks, running, closing, conns,
                     conn, armed, once, group>>
  BY DEF ResetsRoot, At, Goes, provider, owned
<1>3. /\ op \in [Ops -> Operation] /\ op[o] \in Operation /\ Sound(op[o], issued)
      /\ issued \in Nat /\ \A p \in Ops : op[p] \in Operation
  BY <1>1 DEF OpsPart, OpsInv, Types
<1>4. PICK F \in Operation :
        /\ op' = [op EXCEPT ![o] = F]
        /\ F.kind = op[o].kind /\ F.pc = "reset groups" /\ F.res = op[o].res
        /\ F.gen = op[o].gen /\ F.mgr = op[o].mgr /\ F.via = op[o].via /\ F.todo = op[o].todo
  <2> DEFINE G == [op[o] EXCEPT !.pc = "reset groups"]
  <2>1. /\ G \in Operation
        /\ G.kind = op[o].kind /\ G.pc = "reset groups" /\ G.res = op[o].res
        /\ G.gen = op[o].gen /\ G.mgr = op[o].mgr /\ G.via = op[o].via /\ G.todo = op[o].todo
    BY <1>3, Names DEF Operation
  <2>2. op' = [op EXCEPT ![o] = G]
    BY <1>2, <1>3
  <2> QED
    BY <2>1, <2>2
<1>5. Sound(F, issued)
  BY <1>2, <1>3, <1>4 DEF Sound, Dials, Bound, Asking
<1>6. OpsPart'
  <2>1. /\ F.pc \in Ending /\ F.pc \notin Rest
        /\ op[o].pc \in Ending \ {"reset"} /\ op[o].pc \notin Rest \cup {"look", "own", "arm"}
    BY <1>2, <1>4 DEF Ending, Rest
  <2>2. session' = 0 \/ F.gen < session'
    BY <1>1, <1>2, <1>4, <2>1 DEF OpsPart, ResetInv
  <2>3. \A k \in Ops : op[k].gen <= F.gen =>
          /\ op[k].pc # "arm"
          /\ op[k].pc = "handed" => conn[k] = "closed" \/ k \in F.todo
    BY <1>1, <1>4, <2>1 DEF OpsPart, ResetInv
  <2> QED
    BY <1>1, <1>2, <1>4, <1>5, <2>1, <2>2, <2>3, EndMoves DEF Ends
<1>7. Root \in DOMAIN managers
  BY <1>1, LenProperties, GroupsAssumption DEF ManagersPart, ManagersInv, Root
<1>8. Shrinks /\ managers'[Root].tunnel = 0 /\ managers'[Root].sid = 0
  BY <1>1, <1>2, <1>7, CutShrinks
<1>9. /\ ManagersInv'
      /\ \A m \in DOMAIN managers, g \in Nat :
           Clean(managers[m], g) => Clean(managers'[m], g)
      /\ \A m \in DOMAIN managers : managers[m].closed => managers'[m].closed
  BY <1>1, <1>2, <1>3, <1>8, ManagersShrink
<1>10. op'[o] = F /\ \A p \in Ops \ {o} : op'[p] = op[p]
  BY <1>3, <1>4
<1>11. CutInv'
  <2>1. \A p \in Ops : Named(op'[p], Len(managers'))
    <3>1. \A p \in Ops : Named(op[p], Len(managers))
      BY <1>1 DEF ManagersPart, CutInv
    <3>2. Len(managers') = Len(managers) /\ Named(F, Len(managers))
      BY <1>2, <1>4, <1>8, <3>1 DEF Named, Shrinks
    <3> QED
      BY <1>10, <3>1, <3>2
  <2>2. \A p \in Ops : Clean(managers'[Root], op'[p].gen)
    BY <1>8 DEF Clean
  <2>3. ASSUME NEW p \in Ops, op'[p].pc = "cut", NEW m \in DOMAIN managers'
        PROVE  Clean(managers'[m], op'[p].gen)
    <3>1. op'[p] = op[p] /\ op[p].gen \in Nat /\ m \in DOMAIN managers
      BY <1>3, <1>4, <1>8, <1>10, <2>3 DEF Operation, Shrinks
    <3>2. Clean(managers[m], op[p].gen)
      BY <1>1, <2>3, <3>1 DEF ManagersPart, CutInv
    <3> QED
      BY <1>9, <3>1, <3>2
  <2> QED
    BY <2>1, <2>2, <2>3 DEF CutInv, Clean
<1>12. GroupsInv'
  BY <1>1, <1>2, <1>7, <1>9 DEF GroupsInv, ManagersPart, Closed, closing
<1> QED
  BY <1>6, <1>9, <1>11, <1>12 DEF LifetimeInv, ManagersPart

\* The managers of the groups are closed for good.
LEMMA GroupsShrink ==
  ASSUME ManagersPart, CutsGroups, issued' = issued, issued \in Nat
  PROVE  /\ Shrinks /\ ManagersInv' /\ group' = 0
         /\ \A m \in DOMAIN managers, g \in Nat :
              Clean(managers[m], g) => Clean(managers'[m], g)
         /\ \A m \in DOMAIN managers : managers[m].closed => managers'[m].closed
         /\ \A m \in DOMAIN managers \ {Root} : managers'[m].closed
<1>1. group' = 0
  BY DEF CutsGroups
<1>0. managers \in Seq(Managers) /\ DOMAIN managers = 1 .. Len(managers) /\ group \in 0 .. Len(managers)
  BY LenProperties DEF ManagersPart, ManagersInv
<1>2. Shrinks /\ (group # 0 => managers'[group].closed)
  <2>1. CASE group = 0
    BY <1>0, <2>1 DEF CutsGroups, Shrinks
  <2>2. CASE group # 0
    <3>1. group \in DOMAIN managers
      BY <1>0, <2>2, GroupsAssumption DEF ManagersPart, ManagersInv
    <3>2. managers' = Cut(group, TRUE)
      BY <2>2 DEF CutsGroups
    <3>3. PICK m \in DOMAIN managers : m = group
      BY <3>1
    <3> QED
      BY <3>2, <3>3, CutShrinks
  <2> QED
    BY <2>1, <2>2
<1>3. /\ ManagersInv'
      /\ \A m \in DOMAIN managers, g \in Nat :
           Clean(managers[m], g) => Clean(managers'[m], g)
      /\ \A m \in DOMAIN managers : managers[m].closed => managers'[m].closed
  BY <1>1, <1>2, ManagersShrink
<1>4. \A m \in DOMAIN managers \ {Root} : managers'[m].closed
  BY <1>2, <1>3 DEF ManagersPart, ManagersInv, Closed
<1> QED
  BY <1>1, <1>2, <1>3, <1>4

LEMMA HasResetKeeps ==
  ASSUME LifetimeInv, NEW o \in Ops, HasReset(o)
  PROVE  LifetimeInv'
<1>1. OpsPart /\ ManagersPart
  BY DEF LifetimeInv
<1>2. /\ op[o].pc = "reset groups" /\ shutdown # "groups" /\ CutsGroups
      /\ op' = [op EXCEPT ![o] = [@ EXCEPT !.pc = "cut", !.mgr = 0]]
      /\ running' = running \ {o}
      /\ UNCHANGED <<session, issued, over, mu, closed, tasks, closing, conns,
                     conn, armed, once>>
  BY DEF HasReset, At, Returns, provider, owned
<1>3. /\ op \in [Ops -> Operation] /\ op[o] \in Operation /\ Sound(op[o], issued)
      /\ issued \in Nat /\ \A p \in Ops : op[p] \in Operation
  BY <1>1 DEF OpsPart, OpsInv, Types
<1>4. PICK F \in Operation :
        /\ op' = [op EXCEPT ![o] = F]
        /\ F.kind = op[o].kind /\ F.pc = "cut" /\ F.res = op[o].res
        /\ F.gen = op[o].gen /\ F.mgr = 0 /\ F.via = op[o].via /\ F.todo = op[o].todo
  <2> DEFINE G == [op[o] EXCEPT !.pc = "cut", !.mgr = 0]
  <2>1. /\ G \in Operation
        /\ G.kind = op[o].kind /\ G.pc = "cut" /\ G.res = op[o].res
        /\ G.gen = op[o].gen /\ G.mgr = 0 /\ G.via = op[o].via /\ G.todo = op[o].todo
    BY <1>3, Names DEF Operation
  <2>2. op' = [op EXCEPT ![o] = G]
    BY <1>2, <1>3
  <2> QED
    BY <2>1, <2>2
<1>5. Sound(F, issued)
  BY <1>2, <1>3, <1>4 DEF Sound, Dials, Bound, Asking
<1>6. OpsPart'
  <2>1. /\ F.pc \in Ending /\ F.pc \in Rest
        /\ op[o].pc \in Ending \ {"reset"} /\ op[o].pc \notin Rest \cup {"look", "own", "arm"}
    BY <1>2, <1>4 DEF Ending, Rest
  <2>2. session' = 0 \/ F.gen < session'
    BY <1>1, <1>2, <1>4, <2>1 DEF OpsPart, ResetInv
  <2>3. \A k \in Ops : op[k].gen <= F.gen =>
          /\ op[k].pc # "arm"
          /\ op[k].pc = "handed" => conn[k] = "closed" \/ k \in F.todo
    BY <1>1, <1>4, <2>1 DEF OpsPart, ResetInv
  <2> QED
    BY <1>1, <1>2, <1>4, <1>5, <2>1, <2>2, <2>3, EndMoves DEF Ends
<1>7. /\ Shrinks /\ ManagersInv' /\ group' = 0
      /\ \A m \in DOMAIN managers, g \in Nat :
           Clean(managers[m], g) => Clean(managers'[m], g)
      /\ \A m \in DOMAIN managers : managers[m].closed => managers'[m].closed
      /\ \A m \in DOMAIN managers \ {Root} : managers'[m].closed
  BY <1>1, <1>2, <1>3, GroupsShrink
<1>8. op'[o] = F /\ \A p \in Ops \ {o} : op'[p] = op[p]
  BY <1>3, <1>4
<1>9. Root \in DOMAIN managers
  BY <1>1, LenProperties, GroupsAssumption DEF ManagersPart, ManagersInv, Root
<1>10. CutInv'
  <2>1. \A p \in Ops : Named(op'[p], Len(managers'))
    <3>1. \A p \in Ops : Named(op[p], Len(managers))
      BY <1>1 DEF ManagersPart, CutInv
    <3>2. Len(managers) \in Nat /\ Len(managers') = Len(managers)
      BY <1>1, <1>7, GroupsAssumption DEF ManagersPart, ManagersInv, Shrinks
    <3> QED
      BY <1>4, <1>8, <3>1, <3>2 DEF Named
  <2>2. ASSUME NEW p \in Ops, op'[p].pc \in {"reset groups", "cut"}
        PROVE  op[p].gen = op'[p].gen /\ op[p].gen \in Nat /\ Clean(managers[Root], op[p].gen)
    <3>1. op[p].pc \in {"reset groups", "cut"} /\ op[p].gen = op'[p].gen /\ op[p].gen \in Nat
      BY <1>2, <1>3, <1>4, <1>8, <2>2 DEF Operation
    <3> QED
      BY <1>1, <3>1 DEF ManagersPart, CutInv
  <2>3. ASSUME NEW p \in Ops, op'[p].pc \in {"reset groups", "cut"}
        PROVE  Clean(managers'[Root], op'[p].gen)
    BY <1>7, <1>9, <2>2, <2>3
  <2>4. ASSUME NEW p \in Ops, op'[p].pc = "cut", NEW m \in DOMAIN managers'
        PROVE  Clean(managers'[m], op'[p].gen)
    <3>1. CASE m = Root
      BY <2>3, <2>4, <3>1
    <3>2. CASE m # Root
      <4>1. m \in DOMAIN managers' /\ managers'[m].closed
        BY <1>7, <2>4, <3>2 DEF Shrinks
      <4>2. managers'[m].tunnel = 0 /\ managers'[m].sid = 0
        BY <1>7, <4>1 DEF ManagersInv, Whole
      <4> QED
        BY <4>2 DEF Clean
    <3> QED
      BY <3>1, <3>2
  <2> QED
    BY <2>1, <2>3, <2>4 DEF CutInv, Clean
<1>11. GroupsInv'
  BY <1>1, <1>2, <1>7, <1>9 DEF GroupsInv, ManagersPart, Closed, closing
<1> QED
  BY <1>6, <1>7, <1>10, <1>11 DEF LifetimeInv, ManagersPart

-----------------------------------------------------------------------------
(* A dial enters its connection *)

LEMMA OwnKeeps ==
  ASSUME LifetimeInv, NEW o \in Ops, OwnAccepted(o) \/ Own(o)
  PROVE  LifetimeInv'
<1>1. OpsPart /\ ManagersPart
  BY DEF LifetimeInv
<1>0. /\ UNCHANGED <<issued, managers, group>> /\ shutdown' = shutdown
  BY DEF OwnAccepted, Own, provider, closing, groupVars
<1>2. /\ session' = session /\ issued' = issued /\ over' = over /\ closed' = closed
      /\ tasks' = tasks /\ shutdown' = shutdown /\ doomed' = doomed /\ conn' = conn
      /\ once' = once /\ managers' = managers /\ group' = group
  BY DEF OwnAccepted, Own, provider, closing, owned, groupVars
<1>3. /\ op \in [Ops -> Operation] /\ op[o] \in Operation /\ Sound(op[o], issued)
      /\ issued \in Nat /\ session \in Nat /\ \A p \in Ops : op[p].gen \in Nat
      /\ o # Nobody /\ closed \in BOOLEAN /\ over \in BOOLEAN
  BY <1>1, LifetimeAssumption DEF OpsPart, OpsInv, Types, Operation
<1>4. ASSUME NEW l \in {"arm", "handed"}, NEW n \in {0, op[o].mgr},
             op' = [op EXCEPT ![o] = [op[o] EXCEPT !.pc = l, !.mgr = n]],
             op[o].pc \in {"own", "arm"}
      PROVE  /\ op' \in [Ops -> Operation] /\ \A p \in Ops \ {o} : op'[p] = op[p]
             /\ op'[o].pc = l /\ op'[o].gen = op[o].gen /\ op'[o].todo = op[o].todo
             /\ \A p \in Ops : op'[p].gen = op[p].gen
             /\ Sound(op'[o], issued) /\ NothingCut
  <2>1. PICK F : F = [op[o] EXCEPT !.pc = l, !.mgr = n]
    OBVIOUS
  <2>2. n \in Nat
    BY <1>3 DEF Operation
  <2>3. /\ F \in Operation /\ F.kind = op[o].kind /\ F.pc = l /\ F.res = op[o].res
        /\ F.gen = op[o].gen /\ F.mgr = n /\ F.via = op[o].via /\ F.todo = op[o].todo
    BY <1>3, <2>1, <2>2, Names DEF Operation
  <2>4. op' = [op EXCEPT ![o] = F]
    BY <1>4, <2>1
  <2>5. op' \in [Ops -> Operation] /\ op'[o] = F /\ \A p \in Ops \ {o} : op'[p] = op[p]
    BY <1>3, <2>3, <2>4
  <2>6. Sound(F, issued)
    BY <1>3, <1>4, <2>3 DEF Sound, Dials, Bound, Asking
  <2>7. NothingCut
    <3>1. \A p \in Ops : Named(op[p], Len(managers))
      BY <1>1 DEF ManagersPart, CutInv
    <3>2. Named(F, Len(managers))
      BY <1>4, <2>3, <3>1, GroupsAssumption DEF Named, ManagersPart
    <3> QED
      BY <2>3, <2>5, <3>1, <3>2 DEF NothingCut
  <2> QED
    BY <2>3, <2>5, <2>6, <2>7
<1>5. CASE OwnAccepted(o)
  <2>1. /\ op[o].pc = "own" /\ mu = Nobody /\ ~closed /\ op[o].gen = session /\ session # 0
        /\ mu' = o /\ running' = running /\ conns' = conns /\ armed' = armed
        /\ op' = [op EXCEPT ![o].pc = "arm"]
    BY <1>5 DEF OwnAccepted, At, Served, Goes, owned
  <2>2. op' = [op EXCEPT ![o] = [op[o] EXCEPT !.pc = "arm", !.mgr = op[o].mgr]]
    <3>1. [op[o] EXCEPT !.pc = "arm", !.mgr = op[o].mgr] = [op[o] EXCEPT !.pc = "arm"]
      BY <1>3 DEF Operation
    <3> QED
      BY <1>3, <2>1, <3>1
  <2>3. /\ op' \in [Ops -> Operation] /\ \A p \in Ops \ {o} : op'[p] = op[p]
        /\ op'[o].pc = "arm" /\ op'[o].gen = op[o].gen /\ op'[o].todo = op[o].todo
        /\ \A p \in Ops : op'[p].gen = op[p].gen
        /\ Sound(op'[o], issued) /\ NothingCut
    BY <1>4, <2>1, <2>2
  <2> HIDE DEF ManagersPart
  <2>4. Types'
    BY <1>1, <1>2, <2>1, <2>3 DEF OpsPart, Types
  <2>5. OpsInv'
    <3>1. \A p \in Ops : Sound(op'[p], issued')
      BY <1>1, <1>2, <2>3 DEF OpsPart, OpsInv
    <3>2. \A p \in Ops : op'[p].pc \in Rest <=> p \notin running'
      BY <1>1, <2>1, <2>3 DEF OpsPart, OpsInv, Rest
    <3>3. \A p \in Ops : op[p].pc # "arm"
      BY <1>1, <2>1, LifetimeAssumption DEF OpsPart, OpsInv
    <3>4. \A p \in Ops : (op'[p].pc = "arm") <=> mu' = p
      BY <2>1, <2>3, <3>3
    <3> QED
      BY <3>1, <3>2, <3>4 DEF OpsInv
  <2>6. once[o] = "no" /\ o \notin conns
    BY <1>1, <2>1 DEF OpsPart, ConnsInv, Types
  <2>7. ConnsInv'
    <3>1. armed' \subseteq conns'
      BY <1>1, <2>1 DEF OpsPart, ConnsInv
    <3>2. \A k \in Ops : k \in conns' <=> op'[k].pc = "handed" /\ once'[k] # "done"
      BY <1>1, <1>2, <2>1, <2>3, <2>6 DEF OpsPart, ConnsInv
    <3>3. \A k \in Ops : once'[k] # "no" => op'[k].pc = "handed" /\ k \notin armed'
      BY <1>1, <1>2, <2>1, <2>3, <2>6 DEF OpsPart, ConnsInv
    <3>4. \A k \in Ops : once'[k] \in {"closed", "done"} => conn'[k] = "closed"
      BY <1>1, <1>2 DEF OpsPart, ConnsInv
    <3>5. \A k \in Ops : conn'[k] = "open" => op'[k].pc \in {"look", "own", "arm", "handed"}
      BY <1>1, <1>2, <2>3 DEF OpsPart, ConnsInv
    <3> QED
      BY <3>1, <3>2, <3>3, <3>4, <3>5 DEF ConnsInv
  <2>8. \A p \in Ops : op[p].pc \in Ending => op[p].gen < op[o].gen
    BY <1>1, <1>3, <2>1 DEF OpsPart, ResetInv
  <2>9. ResetInv'
    <3>1. ASSUME NEW p \in Ops, op'[p].pc \in Ending
          PROVE  op'[p] = op[p] /\ p # o /\ (session' = 0 \/ op'[p].gen < session')
      <4>1. p # o
        BY <2>3, <3>1 DEF Ending
      <4> QED
        BY <1>1, <1>2, <2>3, <3>1, <4>1 DEF OpsPart, ResetInv
    <3>2. ASSUME NEW p \in Ops, NEW k \in Ops, op'[p].pc \in Ending \ {"reset"},
                 op'[k].gen <= op'[p].gen
          PROVE  /\ op'[k].pc # "arm"
                 /\ op'[k].pc = "handed" => conn'[k] = "closed" \/ k \in op'[p].todo
      <4>1. op'[p] = op[p] /\ op[p].pc \in Ending
        BY <3>1, <3>2
      <4>2. k # o
        BY <1>3, <2>3, <2>8, <3>2, <4>1
      <4> QED
        BY <1>1, <1>2, <2>3, <3>2, <4>1, <4>2 DEF OpsPart, ResetInv
    <3> QED
      BY <3>1, <3>2 DEF ResetInv
  <2>10. CloseInv'
    BY <1>1, <1>2, <1>3, <2>1 DEF OpsPart, CloseInv
  <2>11. ManagersPart'
    BY <1>0, <1>1, <1>3, <2>3, ManagersKept
  <2> QED
    BY <2>4, <2>5, <2>7, <2>9, <2>10, <2>11 DEF LifetimeInv, OpsPart
<1>6. CASE Own(o)
  <2>1. /\ op[o].pc = "arm" /\ mu' = Nobody /\ running' = running \ {o}
        /\ conns' = conns \cup {o} /\ armed' = armed \cup {o}
        /\ op' = [op EXCEPT ![o] = [op[o] EXCEPT !.pc = "handed", !.mgr = 0]]
    BY <1>3, <1>6 DEF Own, At, Returns
  <2>2. /\ op' \in [Ops -> Operation] /\ \A p \in Ops \ {o} : op'[p] = op[p]
        /\ op'[o].pc = "handed" /\ op'[o].gen = op[o].gen /\ op'[o].todo = op[o].todo
        /\ \A p \in Ops : op'[p].gen = op[p].gen
        /\ Sound(op'[o], issued) /\ NothingCut
    BY <1>4, <2>1
  <2>3. mu = o /\ ~closed
    BY <1>1, <1>3, <2>1 DEF OpsPart, OpsInv, CloseInv
  <2> HIDE DEF ManagersPart
  <2>4. Types'
    <3>1. running' \subseteq Ops /\ conns' \subseteq Ops /\ armed' \subseteq Ops
      BY <1>1, <2>1 DEF OpsPart, Types
    <3> QED
      BY <1>1, <1>2, <2>1, <2>2, <3>1 DEF OpsPart, Types
  <2>5. OpsInv'
    <3>1. \A p \in Ops : Sound(op'[p], issued')
      BY <1>1, <1>2, <2>2 DEF OpsPart, OpsInv
    <3>2. \A p \in Ops : op'[p].pc \in Rest <=> p \notin running'
      BY <1>1, <2>1, <2>2 DEF OpsPart, OpsInv, Rest
    <3>3. \A p \in Ops : (op'[p].pc = "arm") <=> mu' = p
      BY <1>1, <2>1, <2>2, <2>3, LifetimeAssumption DEF OpsPart, OpsInv
    <3> QED
      BY <3>1, <3>2, <3>3 DEF OpsInv
  <2>6. once[o] = "no" /\ o \notin conns
    BY <1>1, <2>1 DEF OpsPart, ConnsInv, Types
  <2>7. ConnsInv'
    <3>1. armed' \subseteq conns'
      BY <1>1, <2>1 DEF OpsPart, ConnsInv
    <3>2. \A k \in Ops : k \in conns' <=> op'[k].pc = "handed" /\ once'[k] # "done"
      BY <1>1, <1>2, <2>1, <2>2, <2>6 DEF OpsPart, ConnsInv
    <3>3. \A k \in Ops : once'[k] # "no" => op'[k].pc = "handed" /\ k \notin armed'
      BY <1>1, <1>2, <2>1, <2>2, <2>6 DEF OpsPart, ConnsInv
    <3>4. \A k \in Ops : once'[k] \in {"closed", "done"} => conn'[k] = "closed"
      BY <1>1, <1>2 DEF OpsPart, ConnsInv
    <3>5. \A k \in Ops : conn'[k] = "open" => op'[k].pc \in {"look", "own", "arm", "handed"}
      BY <1>1, <1>2, <2>2 DEF OpsPart, ConnsInv
    <3> QED
      BY <3>1, <3>2, <3>3, <3>4, <3>5 DEF ConnsInv
  <2>8. ResetInv'
    <3>1. ASSUME NEW p \in Ops, op'[p].pc \in Ending
          PROVE  op'[p] = op[p] /\ p # o /\ (session' = 0 \/ op'[p].gen < session')
      <4>1. p # o
        BY <2>2, <3>1 DEF Ending
      <4> QED
        BY <1>1, <1>2, <2>2, <3>1, <4>1 DEF OpsPart, ResetInv
    <3>2. ASSUME NEW p \in Ops, NEW k \in Ops, op'[p].pc \in Ending \ {"reset"},
                 op'[k].gen <= op'[p].gen
          PROVE  /\ op'[k].pc # "arm"
                 /\ op'[k].pc = "handed" => conn'[k] = "closed" \/ k \in op'[p].todo
      <4>1. op'[p] = op[p] /\ op[p].pc \in Ending \ {"reset"} /\ op[k].gen <= op[p].gen
        BY <2>2, <3>1, <3>2
      <4>2. k # o
        BY <1>1, <2>1, <4>1 DEF OpsPart, ResetInv
      <4> QED
        BY <1>1, <1>2, <2>2, <4>1, <4>2 DEF OpsPart, ResetInv
    <3> QED
      BY <3>1, <3>2 DEF ResetInv
  <2>9. CloseInv'
    BY <1>1, <1>2, <1>3, <2>1, <2>3 DEF OpsPart, CloseInv
  <2>10. ManagersPart'
    BY <1>0, <1>1, <1>3, <2>2, ManagersKept
  <2> QED
    BY <2>4, <2>5, <2>7, <2>8, <2>9, <2>10 DEF LifetimeInv, OpsPart
<1> QED
  BY <1>5, <1>6

-----------------------------------------------------------------------------
(* The provider *)

LEMMA ProviderKeeps ==
  ASSUME LifetimeInv, Serves \/ Withdraws
  PROVE  LifetimeInv'
<1>1. OpsPart /\ ManagersPart
  BY DEF LifetimeInv
<1>2. /\ mu' = mu /\ closed' = closed /\ tasks' = tasks /\ running' = running
      /\ shutdown' = shutdown /\ doomed' = doomed /\ op' = op /\ conns' = conns
      /\ conn' = conn /\ armed' = armed /\ once' = once /\ managers' = managers
      /\ group' = group /\ over' = over
  BY DEF Serves, Withdraws, Session!Serve, closing, owned, groupVars
<1>3. /\ issued \in Nat /\ session \in Nat /\ MaxSessions \in Nat /\ over \in BOOLEAN
      /\ \A p \in Ops : /\ op[p].gen \in Nat /\ op[p].gen <= issued
                        /\ op[p].res \in Nat /\ op[p].via \in Nat
  BY <1>1, LifetimeAssumption DEF OpsPart, OpsInv, Types, Operation, Sound
<1>4. \/ session' = 0 /\ issued' = issued
      \/ /\ issued' = issued + 1 /\ session' = issued + 1 /\ issued < MaxSessions /\ ~over
  BY DEF Serves, Withdraws, Session!Serve, Session!Withdraw
<1>5. issued' \in Nat /\ issued <= issued' /\ issued' <= MaxSessions /\ session' \in {0, issued'}
  BY <1>1, <1>3, <1>4 DEF OpsPart, Types
<1>6. Types'
  <2>1. session' \in Nat
    BY <1>5
  <2> QED
    BY <1>1, <1>2, <1>5, <2>1 DEF OpsPart, Types
<1>7. OpsInv'
  <2>1. ASSUME NEW p \in Ops PROVE Sound(op[p], issued')
    <3>1. Sound(op[p], issued) /\ op[p].gen \in Nat /\ op[p].res \in Nat /\ op[p].via \in Nat
      BY <1>1, <1>3 DEF OpsPart, OpsInv
    <3> QED
      BY <1>3, <1>5, <3>1 DEF Sound
  <2> QED
    BY <1>1, <1>2, <2>1 DEF OpsPart, OpsInv
<1>8. ConnsInv'
  BY <1>1, <1>2 DEF OpsPart, ConnsInv
<1>9. ResetInv'
  <2>1. \A p \in Ops : session' = 0 \/ op[p].gen < session'
    BY <1>3, <1>4
  <2> QED
    BY <1>1, <1>2, <2>1 DEF OpsPart, ResetInv
<1>10. CloseInv'
  <2>1. CloseInv /\ closed \in BOOLEAN
    BY <1>1 DEF OpsPart, Types
  <2>2. shutdown' \in {"managers", "groups", "wait", "done"} => over' /\ session' = 0
    BY <1>2, <1>3, <1>4, <2>1 DEF CloseInv
  <2> QED
    BY <1>2, <2>1, <2>2 DEF CloseInv
<1>11. ManagersPart'
  <2>1. NothingCut
    BY <1>1, <1>2 DEF NothingCut, ManagersPart, CutInv
  <2>2. UNCHANGED <<managers, group>>
    BY <1>2
  <2> QED
    BY <1>1, <1>2, <1>3, <1>5, <2>1, <2>2, ManagersKept
<1> QED
  BY <1>6, <1>7, <1>8, <1>9, <1>10, <1>11 DEF LifetimeInv, OpsPart

-----------------------------------------------------------------------------
(* ownedConn.Close *)

\* Connection k is closed a step further: what is known of operations stays.
Closer(k) ==
  /\ UNCHANGED <<session, issued, over, mu, closed, tasks, running, shutdown, doomed, op,
                 managers, group>>
  /\ conns' \in {conns, conns \ {k}} /\ armed' \in {armed, armed \ {k}}
  /\ conn' = [conn EXCEPT ![k] = conn'[k]] /\ once' = [once EXCEPT ![k] = once'[k]]
  /\ conn'[k] \in {conn[k], "closed"} /\ once'[k] \in {"closing", "closed", "done"}
  /\ once[k] # "no" \/ (k \in conns /\ armed' = armed \ {k})
  /\ once'[k] \in {"closed", "done"} => conn'[k] = "closed"
  /\ IF once'[k] = "done" THEN conns' = conns \ {k} ELSE conns' = conns /\ once[k] # "done"

LEMMA CloserKeeps ==
  ASSUME LifetimeInv, NEW k \in Ops, Closer(k)
  PROVE  LifetimeInv'
<1>1. OpsPart /\ ManagersPart
  BY DEF LifetimeInv
<1>2. /\ session' = session /\ issued' = issued /\ over' = over /\ mu' = mu
      /\ closed' = closed /\ tasks' = tasks /\ running' = running /\ shutdown' = shutdown
      /\ doomed' = doomed /\ op' = op
      /\ conns' \in {conns, conns \ {k}} /\ armed' \in {armed, armed \ {k}}
      /\ \A j \in Ops \ {k} : conn'[j] = conn[j] /\ once'[j] = once[j]
      /\ conn' \in [Ops -> {"none", "open", "closed"}]
      /\ once' \in [Ops -> {"no", "closing", "closed", "done"}]
      /\ \A j \in Ops : conn'[j] \in {conn[j], "closed"}
  <2>1. /\ conn \in [Ops -> {"none", "open", "closed"}]
        /\ once \in [Ops -> {"no", "closing", "closed", "done"}]
    BY <1>1 DEF OpsPart, Types
  <2>2. /\ conn' = [conn EXCEPT ![k] = conn'[k]] /\ once' = [once EXCEPT ![k] = once'[k]]
        /\ conn'[k] \in {conn[k], "closed"} /\ once'[k] \in {"closing", "closed", "done"}
    BY DEF Closer
  <2>3. PICK c \in {"none", "open", "closed"}, l \in {"closing", "closed", "done"} :
          c = conn'[k] /\ l = once'[k] /\ c \in {conn[k], "closed"}
    BY <2>1, <2>2
  <2>4. conn' = [conn EXCEPT ![k] = c] /\ once' = [once EXCEPT ![k] = l]
    BY <2>2, <2>3
  <2>5. /\ conn' \in [Ops -> {"none", "open", "closed"}]
        /\ once' \in [Ops -> {"no", "closing", "closed", "done"}]
        /\ \A j \in Ops \ {k} : conn'[j] = conn[j] /\ once'[j] = once[j]
        /\ \A j \in Ops : conn'[j] \in {conn[j], "closed"}
    BY <2>1, <2>3, <2>4
  <2> QED
    BY <2>5 DEF Closer
<1>3. /\ conn'[k] \in {conn[k], "closed"} /\ once'[k] \in {"closing", "closed", "done"}
      /\ once[k] # "no" \/ (k \in conns /\ armed' = armed \ {k})
      /\ once'[k] \in {"closed", "done"} => conn'[k] = "closed"
      /\ IF once'[k] = "done" THEN conns' = conns \ {k} ELSE conns' = conns /\ once[k] # "done"
  BY DEF Closer
<1>4. Types'
  <2>1. conns' \subseteq Ops /\ armed' \subseteq Ops
    BY <1>1, <1>2 DEF OpsPart, Types
  <2> QED
    BY <1>1, <1>2, <2>1 DEF OpsPart, Types
<1>5. OpsInv'
  BY <1>1, <1>2 DEF OpsPart, OpsInv
<1>6. ConnsInv'
  <2>1. op[k].pc = "handed" /\ k \notin armed'
    BY <1>1, <1>2, <1>3 DEF OpsPart, ConnsInv
  <2>2. armed' \subseteq conns'
    BY <1>1, <1>2, <1>3, <2>1 DEF OpsPart, ConnsInv
  <2>3. \A j \in Ops : j \in conns' <=> op'[j].pc = "handed" /\ once'[j] # "done"
    BY <1>1, <1>2, <1>3, <2>1 DEF OpsPart, ConnsInv
  <2>4. \A j \in Ops : once'[j] # "no" => op'[j].pc = "handed" /\ j \notin armed'
    BY <1>1, <1>2, <2>1 DEF OpsPart, ConnsInv
  <2>5. \A j \in Ops : once'[j] \in {"closed", "done"} => conn'[j] = "closed"
    BY <1>1, <1>2, <1>3 DEF OpsPart, ConnsInv
  <2>6. \A j \in Ops : conn'[j] = "open" => op'[j].pc \in {"look", "own", "arm", "handed"}
    BY <1>1, <1>2 DEF OpsPart, ConnsInv
  <2> QED
    BY <2>2, <2>3, <2>4, <2>5, <2>6 DEF ConnsInv
<1>7. ResetInv'
  BY <1>1, <1>2 DEF OpsPart, ResetInv
<1>8. CloseInv'
  <2>1. CloseInv /\ closed \in BOOLEAN /\ over \in BOOLEAN
    BY <1>1 DEF OpsPart, Types
  <2>2. \A j \in Ops : closed' /\ conn'[j] = "open" => j \in doomed' \/ op'[j].pc \in {"look", "own"}
    BY <1>2, <2>1 DEF CloseInv
  <2> QED
    BY <1>2, <2>1, <2>2 DEF CloseInv
<1>9. ManagersPart'
  <2>1. UNCHANGED <<managers, group>>
    BY DEF Closer
  <2>2. issued \in Nat
    BY <1>1 DEF OpsPart, Types
  <2>3. NothingCut
    BY <1>1, <1>2 DEF NothingCut, ManagersPart, CutInv
  <2> QED
    BY <1>1, <1>2, <2>1, <2>2, <2>3, ManagersKept
<1> QED
  BY <1>4, <1>5, <1>6, <1>7, <1>8, <1>9 DEF LifetimeInv, OpsPart

LEMMA ClosingAConnKeeps ==
  ASSUME LifetimeInv, NEW k \in Ops, CloseBegins(k) \/ Closes(k) \/ Leaves(k)
  PROVE  LifetimeInv'
<1>1. OpsPart
  BY DEF LifetimeInv
<1>2. /\ conn \in [Ops -> {"none", "open", "closed"}]
      /\ once \in [Ops -> {"no", "closing", "closed", "done"}]
      /\ armed \subseteq Ops /\ conns \subseteq Ops
  BY <1>1 DEF OpsPart, Types
<1>3. UNCHANGED <<session, issued, over, mu, closed, tasks, running, shutdown, doomed, op,
                  managers, group>>
  BY DEF CloseBegins, Closes, Leaves, SharedOnly, provider, closing, groupVars
<1>4. CASE CloseBegins(k)
  <2>1. /\ k \in conns /\ once[k] = "no" /\ once' = [once EXCEPT ![k] = "closing"]
        /\ armed' = armed \ {k} /\ conns' = conns /\ conn' = conn
    BY <1>4 DEF CloseBegins, Step
  <2>2. once'[k] = "closing" /\ conn' = [conn EXCEPT ![k] = conn[k]]
    BY <1>2, <2>1
  <2>3. Closer(k)
    BY <1>2, <1>3, <2>1, <2>2 DEF Closer
  <2> QED
    BY <2>3, CloserKeeps
<1>5. CASE Closes(k)
  <2>1. /\ once[k] = "closing" /\ once' = [once EXCEPT ![k] = "closed"]
        /\ armed' = armed /\ conns' = conns /\ conn' = [conn EXCEPT ![k] = "closed"]
    BY <1>5 DEF Closes, Step
  <2>2. once'[k] = "closed" /\ conn'[k] = "closed"
    BY <1>2, <2>1
  <2>3. Closer(k)
    BY <1>2, <1>3, <2>1, <2>2 DEF Closer
  <2> QED
    BY <2>3, CloserKeeps
<1>6. CASE Leaves(k)
  <2>1. /\ once[k] = "closed" /\ once' = [once EXCEPT ![k] = "done"]
        /\ armed' = armed /\ conns' = conns \ {k} /\ conn' = conn
    BY <1>6 DEF Leaves, Step
  <2>2. once'[k] = "done" /\ conn' = [conn EXCEPT ![k] = conn[k]] /\ conn[k] = "closed"
    BY <1>1, <1>2, <2>1 DEF OpsPart, ConnsInv
  <2>3. Closer(k)
    BY <1>2, <1>3, <2>1, <2>2 DEF Closer
  <2> QED
    BY <2>3, CloserKeeps
<1> QED
  BY <1>4, <1>5, <1>6

-----------------------------------------------------------------------------
(* Runtime.Close *)

\* A step of Close, or the end of the check loop, that leaves the managers.
Shutting ==
  \/ Close \/ CloseNext \/ ClosesTasks \/ ClosesProvider \/ Waited \/ LoopEnds

LEMMA ShuttingKeeps ==
  ASSUME LifetimeInv, Shutting
  PROVE  LifetimeInv'
<1>1. OpsPart /\ ManagersPart
  BY DEF LifetimeInv
<1>2. /\ issued' = issued /\ mu' = mu /\ running' = running /\ op' = op /\ conns' = conns
      /\ conn' = conn /\ armed' = armed /\ once' = once /\ managers' = managers /\ group' = group
  BY DEF Shutting, Close, CloseNext, ClosesTasks, ClosesProvider, Waited, LoopEnds, provider,
         closing, owned, groupVars
<1>3. /\ closed \in BOOLEAN /\ over \in BOOLEAN /\ doomed \subseteq Ops /\ conns \subseteq Ops
      /\ tasks \in {"idle", "running", "done"} /\ shutdown \in Phases /\ issued \in Nat
      /\ session \in {0, issued} /\ Nobody \notin Ops
  BY <1>1, LifetimeAssumption DEF OpsPart, Types
<1>4. \/ Close /\ session' = session /\ over' = over /\ tasks' = tasks
      \/ CloseNext /\ session' = session /\ over' = over /\ tasks' = tasks /\ shutdown' = shutdown
                   /\ closed' = closed
      \/ ClosesTasks /\ session' = session /\ over' = over /\ closed' = closed /\ doomed' = doomed
      \/ ClosesProvider /\ session' = 0 /\ over' = TRUE /\ closed' = closed /\ doomed' = doomed
                        /\ tasks' = tasks
      \/ Waited /\ session' = session /\ over' = over /\ closed' = closed /\ doomed' = doomed
                /\ tasks' = tasks
      \/ LoopEnds /\ session' = session /\ over' = over /\ closed' = closed /\ doomed' = doomed
                  /\ shutdown' = shutdown
  BY DEF Shutting, Close, CloseNext, ClosesTasks, ClosesProvider, Waited, LoopEnds, provider,
         closing
<1>5. /\ session' \in {0, session} /\ over' \in BOOLEAN /\ closed' \in BOOLEAN
      /\ doomed' \subseteq Ops /\ tasks' \in {"idle", "running", "done"} /\ shutdown' \in Phases
  BY <1>3, <1>4 DEF Close, CloseNext, ClosesTasks, ClosesProvider, Waited, LoopEnds, Phases
<1>6. Types'
  <2>1. session' \in Nat /\ session' \in {0, issued}
    BY <1>3, <1>5
  <2> QED
    BY <1>1, <1>2, <1>5, <2>1 DEF OpsPart, Types
<1>7. OpsInv' /\ ConnsInv'
  BY <1>1, <1>2 DEF OpsPart, OpsInv, ConnsInv
<1>8. ResetInv'
  BY <1>1, <1>2, <1>5 DEF OpsPart, ResetInv
<1>9. CloseInv /\ ConnsInv /\ OpsInv
  BY <1>1 DEF OpsPart
<1>10. CloseInv'
  <2>1. CASE Close
    <3>1. /\ mu = Nobody /\ closed' = TRUE /\ doomed' = conns /\ shutdown' = "conns"
      BY <2>1 DEF Close
    <3>2. \A k \in Ops : conn[k] = "open" => k \in conns \/ op[k].pc \in {"look", "own"}
      BY <1>3, <1>9, <3>1 DEF ConnsInv, OpsInv
    <3> QED
      BY <1>2, <3>1, <3>2 DEF CloseInv
  <2>2. CASE CloseNext
    <3>1. PICK j \in doomed : once[j] = "done" /\ doomed' = doomed \ {j}
      BY <2>2 DEF CloseNext
    <3>2. conn[j] = "closed"
      BY <1>3, <1>9, <3>1 DEF ConnsInv
    <3>3. \A k \in Ops : closed /\ conn[k] = "open" => k \in doomed' \/ op[k].pc \in {"look", "own"}
      BY <1>9, <3>1, <3>2 DEF CloseInv
    <3>4. /\ session' = session /\ over' = over /\ tasks' = tasks /\ shutdown' = shutdown
          /\ closed' = closed
      BY <2>2 DEF CloseNext, provider
    <3>5. shutdown \notin {"no", "conns"} => doomed' = {}
      BY <1>9, <3>1 DEF CloseInv
    <3> QED
      BY <1>2, <1>9, <3>3, <3>4, <3>5 DEF CloseInv
  <2>3. CASE ClosesTasks
    <3>1. /\ shutdown = "conns" /\ doomed = {} /\ shutdown' = "provider" /\ doomed' = doomed
          /\ closed' = closed
      BY <2>3 DEF ClosesTasks
    <3> QED
      BY <1>2, <1>3, <1>9, <3>1 DEF CloseInv
  <2>4. CASE ClosesProvider
    <3>1. /\ shutdown = "provider" /\ over' = TRUE /\ session' = 0 /\ shutdown' = "managers"
          /\ doomed' = doomed /\ closed' = closed
      BY <2>4 DEF ClosesProvider
    <3> QED
      BY <1>2, <1>3, <1>9, <3>1 DEF CloseInv
  <2>5. CASE Waited
    <3>1. /\ shutdown = "wait" /\ tasks = "done" /\ running = {} /\ shutdown' = "done"
          /\ session' = session /\ over' = over /\ closed' = closed /\ doomed' = doomed
          /\ tasks' = tasks
      BY <2>5 DEF Waited, provider
    <3> QED
      BY <1>2, <1>3, <1>9, <3>1 DEF CloseInv
  <2>6. CASE LoopEnds
    <3>1. /\ tasks' = "done" /\ session' = session /\ over' = over /\ closed' = closed
          /\ doomed' = doomed /\ shutdown' = shutdown
      BY <2>6 DEF LoopEnds, provider, closing
    <3> QED
      BY <1>2, <1>3, <1>9, <3>1 DEF CloseInv
  <2> QED
    BY <2>1, <2>2, <2>3, <2>4, <2>5, <2>6 DEF Shutting
<1>11. ManagersPart'
  <2>1. NothingCut
    BY <1>1, <1>2 DEF NothingCut, ManagersPart, CutInv
  <2>2. shutdown' \in {"groups", "wait", "done"} =>
          shutdown' = shutdown \/ (shutdown' = "done" /\ shutdown = "wait")
    BY <1>4 DEF Close, ClosesTasks, ClosesProvider, Waited
  <2>3. UNCHANGED <<managers, group>>
    BY <1>2
  <2> QED
    BY <1>1, <1>2, <1>3, <2>1, <2>2, <2>3, ManagersKept
<1> QED
  BY <1>6, <1>7, <1>8, <1>10, <1>11 DEF LifetimeInv, OpsPart

LEMMA ClosesManagersKeeps ==
  ASSUME LifetimeInv, ClosesRoot \/ ClosesGroups
  PROVE  LifetimeInv'
<1>1. OpsPart /\ ManagersPart
  BY DEF LifetimeInv
<1>2. /\ session' = session /\ issued' = issued /\ over' = over /\ mu' = mu
      /\ closed' = closed /\ tasks' = tasks /\ running' = running /\ doomed' = doomed
      /\ op' = op /\ conns' = conns /\ conn' = conn /\ armed' = armed /\ once' = once
      /\ \/ shutdown = "managers" /\ shutdown' = "groups"
         \/ shutdown = "groups" /\ shutdown' = "wait"
  BY DEF ClosesRoot, ClosesGroups, provider, owned
<1>3. issued \in Nat /\ closed \in BOOLEAN /\ over \in BOOLEAN /\ \A p \in Ops : op[p].gen \in Nat
  BY <1>1 DEF OpsPart, Types, Operation
<1>4. OpsPart'
  <2>1. Types' /\ OpsInv' /\ ConnsInv' /\ ResetInv'
    BY <1>1, <1>2 DEF OpsPart, Types, Phases, OpsInv, ConnsInv, ResetInv
  <2>2. CloseInv'
    BY <1>1, <1>2, <1>3 DEF OpsPart, CloseInv
  <2> QED
    BY <2>1, <2>2 DEF OpsPart
<1>5. Root \in DOMAIN managers
  BY <1>1, LenProperties, GroupsAssumption DEF ManagersPart, ManagersInv, Root
<1>6. /\ Shrinks /\ ManagersInv'
      /\ \A m \in DOMAIN managers, g \in Nat :
           Clean(managers[m], g) => Clean(managers'[m], g)
      /\ \A m \in DOMAIN managers : managers[m].closed => managers'[m].closed
      /\ \/ shutdown' = "groups" /\ managers'[Root].closed
         \/ shutdown' = "wait" /\ group' = 0
  <2>1. CASE ClosesRoot
    <3>1. managers' = Cut(Root, TRUE) /\ group' = group /\ shutdown' = "groups"
      BY <2>1 DEF ClosesRoot
    <3>2. Shrinks /\ managers'[Root].closed
      BY <1>1, <1>5, <3>1, CutShrinks
    <3> QED
      BY <1>1, <1>2, <1>3, <3>1, <3>2, ManagersShrink
  <2>2. CASE ClosesGroups
    <3>1. CutsGroups /\ shutdown' = "wait"
      BY <2>2 DEF ClosesGroups
    <3> QED
      BY <1>1, <1>2, <1>3, <3>1, GroupsShrink
  <2> QED
    BY <2>1, <2>2
<1>7. CutInv'
  <2>1. DOMAIN managers' = DOMAIN managers /\ Len(managers') = Len(managers)
    BY <1>6 DEF Shrinks
  <2>2. CutInv
    BY <1>1 DEF ManagersPart
  <2>3. \A p \in Ops : Named(op'[p], Len(managers'))
    BY <1>2, <2>1, <2>2 DEF CutInv
  <2>4. \A p \in Ops : op[p].pc \in {"reset groups", "cut"} => Clean(managers'[Root], op[p].gen)
    BY <1>3, <1>5, <1>6, <2>2 DEF CutInv
  <2>5. \A p \in Ops, m \in DOMAIN managers : op[p].pc = "cut" => Clean(managers'[m], op[p].gen)
    BY <1>3, <1>6, <2>2 DEF CutInv
  <2> QED
    BY <1>2, <2>1, <2>3, <2>4, <2>5 DEF CutInv, Clean
<1>8. GroupsInv'
  BY <1>1, <1>2, <1>5, <1>6 DEF ManagersPart, GroupsInv, Closed
<1> QED
  BY <1>4, <1>6, <1>7, <1>8 DEF LifetimeInv, ManagersPart

-----------------------------------------------------------------------------
(* What the managers do by themselves *)

LEMMA ConnectingKeeps ==
  ASSUME LifetimeInv, NEW m \in DOMAIN managers, Connecting(m)
  PROVE  LifetimeInv'
<1>1. OpsPart /\ ManagersPart
  BY DEF LifetimeInv
<1>2. /\ session' = session /\ issued' = issued /\ over' = over /\ mu' = mu
      /\ closed' = closed /\ tasks' = tasks /\ running' = running /\ doomed' = doomed
      /\ shutdown' = shutdown /\ op' = op /\ conns' = conns /\ conn' = conn /\ armed' = armed
      /\ once' = once /\ group' = group
  BY DEF Connecting, provider, closing, owned, ConnectReads, ConnectEnds, TunnelDies
<1>3. issued \in Nat /\ session \in Nat /\ session <= issued /\ ResetInv
  BY <1>1 DEF OpsPart, Types
<1>4. OpsPart'
  BY <1>1, <1>2 DEF OpsPart, Types, OpsInv, ConnsInv, ResetInv, CloseInv
<1>5. managers[m] \in Managers /\ Whole(managers[m], issued)
  BY <1>1, ElementOfSeq, LenProperties DEF ManagersPart, ManagersInv
<1>6. PICK M : /\ managers' = [managers EXCEPT ![m] = M]
               /\ \/ /\ managers[m].connect = "begun" /\ session # 0
                     /\ M = [managers[m] EXCEPT !.connect = "building", !.sid = session]
                  \/ /\ managers[m].connect = "building"
                     /\ M = [managers[m] EXCEPT !.connect = "no", !.sid = 0,
                                                !.tunnel = managers[m].sid]
                  \/ /\ managers[m].connect # "no"
                     /\ M = [managers[m] EXCEPT !.connect = "begun", !.sid = 0]
                  \/ /\ managers[m].connect # "no"
                     /\ M = [managers[m] EXCEPT !.connect = "no", !.sid = 0]
                  \/ /\ managers[m].tunnel # 0
                     /\ M = [managers[m] EXCEPT !.tunnel = 0]
  BY DEF Connecting, ConnectReads, ConnectEnds, TunnelDies, GivenUp
<1>7. /\ M \in Managers /\ M.closed = managers[m].closed
      /\ M.tunnel \in {0, managers[m].tunnel, managers[m].sid}
      /\ M.sid \in {0, managers[m].sid, session}
  <2>0. /\ managers[m].closed \in BOOLEAN /\ managers[m].tunnel \in Nat
        /\ managers[m].connect \in {"no", "begun", "building"} /\ managers[m].sid \in Nat
    BY <1>5 DEF Managers
  <2>1. CASE M = [managers[m] EXCEPT !.connect = "building", !.sid = session]
    BY <1>3, <1>5, <2>0, <2>1 DEF Managers
  <2>2. CASE M = [managers[m] EXCEPT !.connect = "no", !.sid = 0, !.tunnel = managers[m].sid]
    BY <1>5, <2>0, <2>2 DEF Managers
  <2>3. CASE M = [managers[m] EXCEPT !.connect = "begun", !.sid = 0]
    BY <1>5, <2>0, <2>3 DEF Managers
  <2>4. CASE M = [managers[m] EXCEPT !.connect = "no", !.sid = 0]
    BY <1>5, <2>0, <2>4 DEF Managers
  <2>5. CASE M = [managers[m] EXCEPT !.tunnel = 0]
    BY <1>5, <2>0, <2>5 DEF Managers
  <2> QED
    BY <1>6, <2>1, <2>2, <2>3, <2>4, <2>5
<1>8. ~managers[m].closed
  <2>1. managers[m].closed => managers[m].tunnel = 0 /\ managers[m].connect = "no"
    BY <1>5 DEF Whole
  <2> QED
    BY <1>6, <2>1
<1>9. Whole(M, issued)
  <2>1. managers[m].tunnel <= issued /\ managers[m].sid <= issued
    BY <1>5 DEF Whole
  <2> QED
    BY <1>3, <1>7, <1>8, <2>1 DEF Whole
<1>10. NothingCut
  BY <1>1, <1>2 DEF NothingCut, ManagersPart, CutInv
<1>11. ManagersPart'
  <2>1. UNCHANGED <<issued, shutdown, group>>
    BY <1>2
  <2> QED
    BY <1>1, <1>3, <1>6, <1>7, <1>9, <1>10, <2>1, ManagerMoves
<1> QED
  BY <1>4, <1>11 DEF LifetimeInv

-----------------------------------------------------------------------------
(* Theorems *)

LEMMA LifetimeNext ==
  ASSUME LifetimeInv, [Next]_vars
  PROVE  LifetimeInv'
<1>1. CASE UNCHANGED vars
  <2>1. /\ session' = session /\ issued' = issued /\ over' = over /\ mu' = mu
        /\ closed' = closed /\ tasks' = tasks /\ running' = running /\ doomed' = doomed
        /\ shutdown' = shutdown /\ op' = op /\ conns' = conns /\ conn' = conn /\ armed' = armed
        /\ once' = once /\ group' = group /\ managers' = managers
    BY <1>1 DEF vars, provider, closing, owned, groupVars
  <2>2. OpsPart'
    BY <2>1 DEF LifetimeInv, OpsPart, Types, OpsInv, ConnsInv, ResetInv, CloseInv
  <2>3. ManagersPart'
    BY <2>1 DEF LifetimeInv, ManagersPart, ManagersInv, CutInv, GroupsInv, Clean, Closed
  <2> QED
    BY <2>2, <2>3 DEF LifetimeInv
<1>2. CASE Serves \/ Withdraws
  BY <1>2, ProviderKeeps
<1>3. CASE Close \/ Closing
  BY <1>3, ShuttingKeeps, ClosesManagersKeeps DEF Closing, Shutting
<1>4. CASE \E m \in DOMAIN managers : Connecting(m)
  BY <1>4, ConnectingKeeps
<1>5. ASSUME NEW o \in Ops, Prompt(o)
      PROVE  LifetimeInv'
  BY <1>5, OpStepKeeps, OwnKeeps, ResetsKeeps, ResetsRootKeeps, HasResetKeeps DEF Prompt, OpStep
<1>6. ASSUME NEW o \in Ops, Proceeds(o)
      PROVE  LifetimeInv'
  BY <1>6, OpStepKeeps, ForAppKeeps, SharesKeeps, LoggedOutKeeps, InvalidatesKeeps, FailsKeeps
     DEF Proceeds, OpStep
<1>7. ASSUME NEW o \in Ops, CloseBegins(o) \/ Closes(o) \/ Leaves(o)
      PROVE  LifetimeInv'
  BY <1>7, ClosingAConnKeeps
<1> QED
  BY <1>1, <1>2, <1>3, <1>4, <1>5, <1>6, <1>7 DEF Next

\* The inductive invariant holds in every state of the Runtime.
THEOREM LifetimeInvariant == Spec => []LifetimeInv
<1>1. Init => LifetimeInv
  BY LifetimeInit
<1>2. LifetimeInv /\ [Next]_vars => LifetimeInv'
  BY LifetimeNext
<1> QED
  BY <1>1, <1>2, PTL DEF Spec

\* Whoever is handed a connection has it from one session; and when
\* ForgetSession or the logout of this device returns, the connections of the
\* session it ended are closed and no manager has a tunnel of it.
THEOREM ForgetEndsAll == Spec => []ForgetCuts
<1>1. ASSUME LifetimeInv PROVE ForgetCuts
  <2>1. /\ Types /\ OpsInv /\ ConnsInv /\ ResetInv /\ ManagersInv /\ CutInv
    BY <1>1 DEF LifetimeInv, OpsPart, ManagersPart
  <2>2. /\ managers \in Seq(Managers) /\ DOMAIN managers = 1 .. Len(managers)
        /\ Len(managers) \in 1 .. MaxManagers /\ group \in 0 .. Len(managers) /\ group # Root
        /\ \A m \in DOMAIN managers : managers[m] \in Managers /\ Whole(managers[m], issued)
    BY <2>1, LenProperties, ElementOfSeq DEF ManagersInv
  <2>3. \A o \in Ops : op[o] \in Operation /\ Sound(op[o], issued) /\ Named(op[o], Len(managers))
    BY <2>1 DEF Types, OpsInv, CutInv
  <2>4. TypeOK
    <3>1. /\ session \in {0, issued} /\ issued \in 0 .. MaxSessions /\ issued \in Nat
      BY <2>1, LifetimeAssumption DEF Types
    <3>2. \A o \in Ops : /\ op[o].res \in 0 .. issued /\ op[o].gen \in 0 .. issued
                         /\ op[o].via \in 0 .. issued /\ op[o].mgr \in 0 .. Len(managers)
                         /\ op[o].todo \subseteq Ops
      BY <2>3, <3>1 DEF Operation, Sound, Named
    <3>3. \A m \in DOMAIN managers : managers[m].tunnel \in 0 .. issued /\ managers[m].sid \in 0 .. issued
      BY <2>2, <3>1 DEF Managers, Whole
    <3>4. Len(managers) <= MaxManagers /\ group \in 0 .. Len(managers) \ {Root}
      BY <2>2, GroupsAssumption
    <3> QED
      BY <2>1, <3>1, <3>2, <3>3, <3>4 DEF TypeOK, Types, ConnsInv, Phases
  <2>5. OneSession
    BY <2>3 DEF OneSession, Handed, At, Sound, Dials, Bound
  <2>6. ASSUME NEW o \in Ops, NEW k \in Ops, op[o].pc = "cut", op[k].pc = "handed",
               op[k].gen <= op[o].gen
        PROVE  conn[k] = "closed"
    <3>1. op[o].todo = {}
      BY <2>3, <2>6 DEF Sound
    <3> QED
      BY <2>1, <2>6, <3>1 DEF ResetInv, Ending
  <2>7. ASSUME NEW o \in Ops, NEW m \in DOMAIN managers, op[o].pc = "cut"
        PROVE  (0 .. op[o].gen) \cap {managers[m].tunnel, managers[m].sid} \subseteq {0}
    <3>1. Clean(managers[m], op[o].gen)
      BY <2>1, <2>7 DEF CutInv
    <3>2. op[o].gen \in Nat /\ managers[m].tunnel \in Nat /\ managers[m].sid \in Nat
      BY <2>2, <2>3 DEF Operation, Managers
    <3> QED
      BY <3>1, <3>2 DEF Clean
  <2> QED
    BY <2>4, <2>5, <2>6, <2>7 DEF ForgetCuts, At, Handed
<1> QED
  BY <1>1, LifetimeInvariant, PTL

\* When Shutdown reports completion no operation runs, no connection is open, no
\* manager has a tunnel or builds one, the check loop has ended and no session is
\* served.
THEOREM ShutdownLeavesNothing == Spec => []ShutdownIsFinal
<1>1. ASSUME LifetimeInv PROVE ShutdownIsFinal
  <2> SUFFICES ASSUME shutdown = "done"
               PROVE  /\ \A o \in Ops : op[o].pc \in {"idle", "handed", "cut", "over"}
                      /\ \A o \in Ops : conn[o] # "open"
                      /\ tasks = "done" /\ session = 0
                      /\ \A m \in DOMAIN managers :
                           managers[m].tunnel = 0 /\ managers[m].connect = "no"
    BY DEF ShutdownIsFinal
  <2>1. OpsInv /\ CloseInv /\ ManagersInv /\ GroupsInv
    BY <1>1 DEF LifetimeInv, OpsPart, ManagersPart
  <2>2. tasks = "done" /\ running = {} /\ session = 0 /\ doomed = {} /\ closed
    BY <2>1 DEF CloseInv
  <2>3. \A o \in Ops : op[o].pc \in {"idle", "handed", "cut", "over"}
    BY <2>1, <2>2 DEF OpsInv, Rest
  <2>4. \A o \in Ops : conn[o] # "open"
    BY <2>1, <2>2, <2>3 DEF CloseInv
  <2>5. \A m \in DOMAIN managers : managers[m].closed
    <3>1. Closed(Root) /\ group = 0
      BY <2>1 DEF GroupsInv
    <3> QED
      BY <2>1, <3>1 DEF ManagersInv, Closed
  <2>6. \A m \in DOMAIN managers : managers[m].tunnel = 0 /\ managers[m].connect = "no"
    BY <2>1, <2>5 DEF ManagersInv, Whole
  <2> QED
    BY <2>2, <2>3, <2>4, <2>6
<1> QED
  BY <1>1, LifetimeInvariant, PTL

=============================================================================
