------------------------- MODULE TunnelManagerProofs -------------------------
(***************************************************************************)
(* The safety properties of TunnelManager for any number of callers, calls, *)
(* lines, attempts and sessions.                                            *)
(***************************************************************************)
EXTENDS TunnelManager, FiniteSetTheorems, TLAPS

Calls   == [waiters : Nat, finished : BOOLEAN, err : BOOLEAN]
Works   == [pc : Running \cup {"ended"}, stopped : BOOLEAN, bound : Nat,
            attempt : 0..(MaxAttempts - 1), cred : Creds,
            rejects : SUBSET Lines, tried : SUBSET Lines, evidence : SUBSET Nat,
            line : Lines \cup {NoConn}]
Callers == [pc : {"idle", "loop", "lock", "waiting", "returned", "switching"},
            expect : Nat, gone : BOOLEAN, cred : Creds,
            conn : Conns \cup {NoConn}, barredThen : SUBSET Nat]

Types ==
  /\ session \in Nat /\ sid \in Nat /\ issued \in Nat
  /\ barred \in SUBSET Nat /\ over \in BOOLEAN /\ closed \in BOOLEAN
  /\ cur \in Conns \cup {NoConn} /\ connecting \in Conns \cup {NoConn}
  /\ call \in [Conns -> Calls]
  /\ work \in [Conns -> Works]
  /\ alive \in SUBSET Conns /\ failed \in SUBSET Lines
  /\ caller \in [Procs -> Callers]
  /\ calls \in Nat /\ faults \in Nat

\* A call counts its waiters.
Waiting(k) == {p \in Procs : At(p, "waiting") /\ caller[p].conn = k}
WaitersCounted ==
  \A k \in Conns : /\ IsFiniteSet(Waiting(k))
                   /\ call[k].waiters = Cardinality(Waiting(k))

\* The connect under way runs, is unfinished and has no current tunnel beside
\* it; another one runs only to end, and its waiters have been told.
FlightInv ==
  /\ connecting # NoConn =>
       /\ work[connecting].pc \in Running /\ ~call[connecting].finished
       /\ cur = NoConn
  /\ \A k \in Conns : work[k].pc \in Running /\ ~work[k].stopped =>
       connecting = k /\ call[k].waiters > 0
  /\ \A p \in Procs : At(p, "waiting") =>
       /\ caller[p].conn \in Conns
       /\ ~call[caller[p].conn].finished => connecting = caller[p].conn
  /\ cur # NoConn => work[cur].pc = "ended" /\ work[cur].line \in Lines

\* A generation names one session, and a barred session is not served.
SessionsInv ==
  /\ session <= issued /\ (session # 0 => sid \notin barred)
  /\ \A k \in Conns : /\ work[k].cred.gen <= issued
                      /\ work[k].cred.gen = session /\ session # 0 =>
                           work[k].cred.sid = sid

\* What a caller was given was not barred when it called, and its tunnel is one
\* of that session whose connect is over; a switch of lines notes such a tunnel.
CallersInv ==
  \A p \in Procs :
    /\ caller[p].barredThen \subseteq barred
    /\ At(p, "lock") \/ At(p, "returned") =>
         /\ caller[p].cred.sid \notin caller[p].barredThen
         /\ caller[p].expect \in {0, caller[p].cred.gen}
    /\ At(p, "returned") =>
         /\ caller[p].conn \in Conns /\ work[caller[p].conn].pc = "ended"
         /\ work[caller[p].conn].cred.sid = caller[p].cred.sid
    /\ At(p, "switching") /\ caller[p].conn # NoConn =>
         /\ work[caller[p].conn].pc = "ended"
         /\ work[caller[p].conn].line \in Lines

\* The rejections a connect has gathered are of the session it uses.
JudgedInv ==
  \A k \in Conns :
    /\ work[k].rejects \subseteq work[k].tried
    /\ work[k].evidence \subseteq {work[k].cred.sid}
    /\ work[k].rejects # {} => work[k].evidence # {}
    /\ work[k].pc \in {"auth", "built"} => work[k].line \in Lines

ManagerInv == /\ Types /\ WaitersCounted /\ FlightInv /\ NoOrphanTunnel
              /\ SessionsInv /\ CallersInv /\ JudgedInv

-----------------------------------------------------------------------------
(* Facts about the records. *)

\* What the types say of one call, one connect and one caller.
LEMMA Typed ==
  ASSUME Types
  PROVE  /\ \A k \in Conns :
              /\ call[k] \in Calls /\ call[k].waiters \in Nat
              /\ call[k].finished \in BOOLEAN /\ call[k].err \in BOOLEAN
              /\ work[k] \in Works /\ work[k].pc \in Running \cup {"ended"}
              /\ work[k].stopped \in BOOLEAN /\ work[k].bound \in Nat
              /\ work[k].attempt \in 0..(MaxAttempts - 1) /\ work[k].cred \in Creds
              /\ work[k].cred.gen \in Nat /\ work[k].cred.sid \in Nat
              /\ work[k].rejects \subseteq Lines /\ work[k].tried \subseteq Lines
              /\ work[k].evidence \subseteq Nat /\ work[k].line \in Lines \cup {NoConn}
         /\ \A p \in Procs :
              /\ caller[p] \in Callers /\ caller[p].cred \in Creds
              /\ caller[p].pc \in {"idle", "loop", "lock", "waiting", "returned", "switching"}
              /\ caller[p].expect \in Nat /\ caller[p].gone \in BOOLEAN
              /\ caller[p].conn \in Conns \cup {NoConn} /\ caller[p].barredThen \subseteq Nat
         /\ NoCred \in Creds /\ Served \in Creds /\ NoCall \in Calls
         /\ Ended \in Works /\ Idle \in Callers
<1> USE ManagerAssumption DEF Types
<1>1. NoCred \in Creds /\ Served \in Creds /\ NoCall \in Calls
  BY DEF NoCred, Served, Creds, NoCall, Calls
<1>2. Ended \in Works /\ Idle \in Callers
  BY <1>1 DEF Ended, Works, Idle, Callers
<1>3. ASSUME NEW k \in Conns
      PROVE  /\ call[k] \in Calls /\ call[k].waiters \in Nat
             /\ call[k].finished \in BOOLEAN /\ call[k].err \in BOOLEAN
  BY DEF Calls
<1>4. ASSUME NEW k \in Conns
      PROVE  /\ work[k] \in Works /\ work[k].pc \in Running \cup {"ended"}
             /\ work[k].stopped \in BOOLEAN /\ work[k].bound \in Nat
             /\ work[k].attempt \in 0..(MaxAttempts - 1) /\ work[k].cred \in Creds
             /\ work[k].cred.gen \in Nat /\ work[k].cred.sid \in Nat
             /\ work[k].rejects \subseteq Lines /\ work[k].tried \subseteq Lines
             /\ work[k].evidence \subseteq Nat /\ work[k].line \in Lines \cup {NoConn}
  <2>1. work[k] \in Works
    OBVIOUS
  <2>2. work[k].cred \in Creds
    BY <2>1 DEF Works
  <2>3. work[k].cred.gen \in Nat /\ work[k].cred.sid \in Nat
    BY <2>2 DEF Creds
  <2> QED
    BY <2>1, <2>2, <2>3 DEF Works
<1>5. ASSUME NEW p \in Procs
      PROVE  /\ caller[p] \in Callers /\ caller[p].cred \in Creds
             /\ caller[p].pc \in {"idle", "loop", "lock", "waiting", "returned", "switching"}
             /\ caller[p].expect \in Nat /\ caller[p].gone \in BOOLEAN
             /\ caller[p].conn \in Conns \cup {NoConn} /\ caller[p].barredThen \subseteq Nat
  <2>1. caller[p] \in Callers
    OBVIOUS
  <2> QED
    BY <2>1 DEF Callers
<1> QED
  BY <1>1, <1>2, <1>3, <1>4, <1>5

\* Nobody waits, no connect runs and there is no session.
LEMMA ManagerInit == Init => ManagerInv
<1> SUFFICES ASSUME Init PROVE ManagerInv
  OBVIOUS
<1> USE ManagerAssumption DEF Init, Session!Init
<1>1. Types
  <2>1. NoCred \in Creds /\ NoCall \in Calls
    BY DEF NoCred, Creds, NoCall, Calls
  <2>2. Ended \in Works /\ Idle \in Callers
    BY <2>1 DEF Ended, Works, Idle, Callers
  <2> QED
    BY <2>1, <2>2 DEF Types
<1>2. WaitersCounted
  <2>1. \A k \in Conns : Waiting(k) = {} /\ call[k].waiters = 0
    BY DEF Waiting, At, Idle, NoCall
  <2> QED
    BY <2>1, FS_EmptySet DEF WaitersCounted
<1>3. FlightInv /\ NoOrphanTunnel
  BY DEF FlightInv, NoOrphanTunnel, Ended, Running, At, Idle
<1>4. SessionsInv
  BY DEF SessionsInv, Ended, NoCred
<1>5. CallersInv
  BY DEF CallersInv, At, Idle
<1>6. JudgedInv
  BY DEF JudgedInv, Ended
<1> QED
  BY <1>1, <1>2, <1>3, <1>4, <1>5, <1>6 DEF ManagerInv

-----------------------------------------------------------------------------
(* Steps of one party *)

\* What caller p may turn into on its own: it neither begins nor ends to wait,
\* and what it has been given fits what it asked for.
MayBecome(p, C) ==
  /\ C \in Callers /\ C.barredThen \subseteq barred
  /\ C.pc = "waiting" <=> At(p, "waiting")
  /\ C.pc = "waiting" => C.conn = caller[p].conn
  /\ C.pc \in {"lock", "returned"} =>
       C.cred.sid \notin C.barredThen /\ C.expect \in {0, C.cred.gen}
  /\ C.pc = "returned" => /\ C.conn \in Conns /\ work[C.conn].pc = "ended"
                          /\ work[C.conn].cred.sid = C.cred.sid
  /\ C.pc = "switching" /\ C.conn # NoConn =>
       work[C.conn].pc = "ended" /\ work[C.conn].line \in Lines

\* Such a step keeps the invariant; tunnels may close in it.
LEMMA CallerMoves ==
  ASSUME ManagerInv, NEW p \in Procs, NEW C, MayBecome(p, C),
         caller' = [caller EXCEPT ![p] = C],
         alive' \subseteq alive, failed' \subseteq Lines, calls' \in Nat, faults' \in Nat,
         UNCHANGED <<provider, manager, call, work>>
  PROVE  ManagerInv'
<1> USE DEF ManagerInv, MayBecome, provider, manager
<1>1. Types'
  BY DEF Types
<1>2. \A q \in Procs : /\ At(q, "waiting")' <=> At(q, "waiting")
                       /\ At(q, "waiting") => caller'[q].conn = caller[q].conn
  BY DEF At, Types
<1>3. \A k \in Conns : Waiting(k)' = Waiting(k)
  BY <1>2 DEF Waiting
<1>4. WaitersCounted'
  BY <1>3 DEF WaitersCounted
<1>5. FlightInv' /\ NoOrphanTunnel'
  BY <1>2 DEF FlightInv, NoOrphanTunnel
<1>6. SessionsInv' /\ JudgedInv'
  BY DEF SessionsInv, JudgedInv
<1>7. CallersInv'
  <2> SUFFICES ASSUME NEW q \in Procs
               PROVE  /\ caller'[q].barredThen \subseteq barred
                      /\ caller'[q].pc \in {"lock", "returned"} =>
                           /\ caller'[q].cred.sid \notin caller'[q].barredThen
                           /\ caller'[q].expect \in {0, caller'[q].cred.gen}
                      /\ caller'[q].pc = "returned" =>
                           /\ caller'[q].conn \in Conns /\ work[caller'[q].conn].pc = "ended"
                           /\ work[caller'[q].conn].cred.sid = caller'[q].cred.sid
                      /\ caller'[q].pc = "switching" /\ caller'[q].conn # NoConn =>
                           /\ work[caller'[q].conn].pc = "ended"
                           /\ work[caller'[q].conn].line \in Lines
    BY DEF CallersInv, At
  <2>1. CASE q = p
    BY <2>1 DEF Types
  <2>2. CASE q # p
    BY <2>2 DEF Types, CallersInv, At
  <2> QED
    BY <2>1, <2>2
<1> QED
  BY <1>1, <1>4, <1>5, <1>6, <1>7

\* What the connect of call k may turn into while it runs: it uses the session
\* it has or the one that is served, and gathers rejections of that one only.
MayGoOn(k, W) ==
  /\ W \in Works /\ work[k].pc \in Running /\ W.pc \in Running
  /\ work[k].stopped => W.stopped
  /\ work[k].pc = "built" => W.pc = "built"
  /\ \/ W.cred = work[k].cred \/ W.cred = NoCred
     \/ W.cred = Served /\ session # 0
  /\ W.rejects \subseteq W.tried /\ W.evidence \subseteq {W.cred.sid}
  /\ W.rejects # {} => W.evidence # {}
  /\ W.pc \in {"auth", "built"} => W.line \in Lines

\* The session is given up, or the provider is left alone.
MayDrop ==
  \/ UNCHANGED provider
  \/ /\ session' = 0 /\ sid' = 0 /\ barred' = barred \cup {sid}
     /\ UNCHANGED <<issued, over>>

\* Such a step keeps the invariant; a tunnel may open in it.
LEMMA WorkerMoves ==
  ASSUME ManagerInv, NEW k \in Conns, NEW W, MayGoOn(k, W),
         work' = [work EXCEPT ![k] = W],
         failed' \subseteq Lines, alive' \subseteq alive \cup {k},
         k \in alive' => k \in alive \/ W.pc = "built",
         MayDrop, UNCHANGED <<manager, call, caller, counters>>
  PROVE  ManagerInv'
<1> USE DEF ManagerInv, MayGoOn, manager, counters
<1>0. /\ session' \in {session, 0} /\ (session' = session => sid' = sid \/ session = 0)
      /\ sid' \in Nat /\ issued' = issued /\ over' = over
      /\ barred \subseteq barred' /\ barred' \in SUBSET Nat
      /\ session' # 0 => sid' = sid /\ barred' = barred
  <2>1. CASE UNCHANGED provider
    BY <2>1 DEF provider, Types
  <2>2. CASE session' = 0 /\ sid' = 0 /\ barred' = barred \cup {sid} /\ UNCHANGED <<issued, over>>
    BY <2>2 DEF Types
  <2> QED
    BY <2>1, <2>2 DEF MayDrop
<1>1. Types'
  BY <1>0 DEF Types
<1>2. /\ work'[k] = W /\ \A j \in Conns : j # k => work'[j] = work[j]
      /\ W.stopped \in BOOLEAN
  BY DEF Types, Works
<1>3. WaitersCounted'
  <2>1. \A j \in Conns : Waiting(j)' = Waiting(j)
    BY DEF Waiting, At
  <2> QED
    BY <2>1 DEF WaitersCounted
<1>4. FlightInv'
  BY <1>2, Typed DEF FlightInv, At, Types, Running
<1>5. NoOrphanTunnel'
  BY <1>2 DEF NoOrphanTunnel, Types
<1>6. SessionsInv'
  BY <1>0, <1>2 DEF SessionsInv, Served, NoCred, Types
<1>7. CallersInv'
  <2>1. \A j \in Conns : work[j].pc = "ended" => work'[j] = work[j]
    BY <1>2 DEF Running
  <2>2. caller' = caller /\ barred \subseteq barred'
    BY <1>0
  <2> QED
    BY ONLY <2>1, <2>2, Types, CallersInv, Typed DEF CallersInv, At
<1>8. JudgedInv'
  BY <1>2 DEF JudgedInv
<1> QED
  BY <1>1, <1>3, <1>4, <1>5, <1>6, <1>7, <1>8


-----------------------------------------------------------------------------
(* What the callers do on their own *)

\* A call of Tunnel notes the generation its context expects.
LEMMA BeginTunnelKeeps ==
  ASSUME ManagerInv, NEW p \in Procs, BeginTunnel(p)
  PROVE  ManagerInv'
<1>0. PICK g \in {0, session} :
        caller' = [caller EXCEPT ![p] = [caller[p] EXCEPT !.pc = "loop", !.expect = g,
                                                          !.barredThen = barred]]
  BY Typed DEF BeginTunnel, ManagerInv, Types
<1> DEFINE C == [caller[p] EXCEPT !.pc = "loop", !.expect = g, !.barredThen = barred]
<1>1. caller' = [caller EXCEPT ![p] = C]
  BY <1>0
<1>2. At(p, "idle")
  BY DEF BeginTunnel
<1>3. g \in Nat
  BY Typed DEF ManagerInv, Types
<1>4. /\ C \in Callers
      /\ C.pc = "loop" /\ C.barredThen = barred
  BY <1>3, <1>2, Typed DEF ManagerInv, Types, Callers
<1>5. /\ UNCHANGED <<provider, manager, call, work>>
      /\ alive' \subseteq alive /\ failed' \subseteq Lines
      /\ calls' \in Nat /\ faults' \in Nat
  BY <1>2, Typed DEF BeginTunnel, ManagerInv, Types, counters
<1> HIDE DEF C
<1>6. MayBecome(p, C)
  BY <1>2, <1>4 DEF MayBecome, At
<1> QED
  BY <1>1, <1>5, <1>6, CallerMoves

\* The context of a caller ends.
LEMMA CallerLeavesKeeps ==
  ASSUME ManagerInv, NEW p \in Procs, CallerLeaves(p)
  PROVE  ManagerInv'
<1> DEFINE C == [caller[p] EXCEPT !.gone = TRUE]
<1>1. caller' = [caller EXCEPT ![p] = C]
  BY Typed DEF CallerLeaves, ManagerInv, Types
<1>2. caller[p].pc \in {"loop", "waiting"}
  BY DEF CallerLeaves, At
<1>4. /\ C \in Callers
      /\ C.pc = caller[p].pc /\ C.barredThen = caller[p].barredThen
      /\ C.expect = caller[p].expect /\ C.conn = caller[p].conn
      /\ C.cred = caller[p].cred
  BY <1>2, Typed DEF ManagerInv, Types, Callers
<1>5. /\ UNCHANGED <<provider, manager, call, work>>
      /\ alive' \subseteq alive /\ failed' \subseteq Lines
      /\ calls' \in Nat /\ faults' \in Nat
  BY <1>2, Typed DEF CallerLeaves, ManagerInv, Types, counters
<1> HIDE DEF C
<1>6. MayBecome(p, C)
  BY <1>2, <1>4 DEF MayBecome, At, ManagerInv, CallersInv
<1> QED
  BY <1>1, <1>5, <1>6, CallerMoves

\* The provider answers with a session that is not barred.
LEMMA CredentialGivenKeeps ==
  ASSUME ManagerInv, NEW p \in Procs, CredentialGiven(p)
  PROVE  ManagerInv'
<1> DEFINE C == [caller[p] EXCEPT !.pc = "lock", !.cred = Served]
<1>1. caller' = [caller EXCEPT ![p] = C]
  BY Typed DEF CredentialGiven, ManagerInv, Types, Answers, Served
<1>2. /\ At(p, "loop") /\ session # 0
      /\ caller[p].expect \in {0, session}
  BY DEF CredentialGiven, Answers
<1>4. /\ C \in Callers
      /\ C.pc = "lock" /\ C.barredThen = caller[p].barredThen
      /\ C.cred.sid = sid /\ C.cred.gen = session
      /\ C.expect = caller[p].expect
  BY <1>2, Typed DEF ManagerInv, Types, Callers, Served
<1>5. /\ UNCHANGED <<provider, manager, call, work>>
      /\ alive' \subseteq alive /\ failed' \subseteq Lines
      /\ calls' \in Nat /\ faults' \in Nat
  BY <1>2, Typed DEF CredentialGiven, ManagerInv, Types, counters
<1> HIDE DEF C
<1>6. MayBecome(p, C)
  BY <1>2, <1>4 DEF MayBecome, At, ManagerInv, SessionsInv, CallersInv
<1> QED
  BY <1>1, <1>5, <1>6, CallerMoves

\* The current tunnel is of the session and its connect is over.
LEMMA TunnelReusedKeeps ==
  ASSUME ManagerInv, NEW p \in Procs, TunnelReused(p)
  PROVE  ManagerInv'
<1> DEFINE C == [caller[p] EXCEPT !.pc = "returned", !.conn = cur]
<1>1. caller' = [caller EXCEPT ![p] = C]
  BY Typed DEF TunnelReused, ManagerInv, Types, Usable, Returns
<1>2. /\ At(p, "lock") /\ cur \in alive
      /\ work[cur].cred.sid = caller[p].cred.sid
  BY DEF TunnelReused, Usable
<1>3. cur \in Conns /\ work[cur].pc = "ended"
  BY <1>2, ManagerAssumption DEF ManagerInv, Types, FlightInv
<1>4. /\ C \in Callers
      /\ C.pc = "returned" /\ C.barredThen = caller[p].barredThen
      /\ C.expect = caller[p].expect /\ C.conn = cur
      /\ C.cred = caller[p].cred
  BY <1>2, Typed DEF ManagerInv, Types, Callers
<1>5. /\ UNCHANGED <<provider, manager, call, work>>
      /\ alive' \subseteq alive /\ failed' \subseteq Lines
      /\ calls' \in Nat /\ faults' \in Nat
  BY <1>2, Typed DEF TunnelReused, Returns, ManagerInv, Types, counters
<1> HIDE DEF C
<1>6. MayBecome(p, C)
  BY <1>2, <1>3, <1>4 DEF MayBecome, At, ManagerInv, CallersInv
<1> QED
  BY <1>1, <1>5, <1>6, CallerMoves

\* A switch of lines notes the current tunnel.
LEMMA BeginSwitchLineKeeps ==
  ASSUME ManagerInv, NEW p \in Procs, BeginSwitchLine(p)
  PROVE  ManagerInv'
<1> DEFINE C == [caller[p] EXCEPT !.pc = "switching", !.conn = cur]
<1>1. caller' = [caller EXCEPT ![p] = C]
  BY Typed DEF BeginSwitchLine, ManagerInv, Types
<1>2. At(p, "returned")
  BY DEF BeginSwitchLine
<1>4. /\ C \in Callers
      /\ C.pc = "switching" /\ C.barredThen = caller[p].barredThen
      /\ C.conn = cur
  BY <1>2, Typed DEF ManagerInv, Types, Callers
<1>5. /\ UNCHANGED <<provider, manager, call, work>>
      /\ alive' \subseteq alive /\ failed' \subseteq Lines
      /\ calls' \in Nat /\ faults' \in Nat
  BY <1>2, Typed DEF BeginSwitchLine, ManagerInv, Types, counters
<1> HIDE DEF C
<1>6. MayBecome(p, C)
  BY <1>2, <1>4, Typed DEF MayBecome, At, ManagerInv, FlightInv, CallersInv, Types
<1> QED
  BY <1>1, <1>5, <1>6, CallerMoves

\* A caller returns an error, is done with its tunnel or ends a switch of lines.
LEMMA CallerEndsKeeps ==
  ASSUME ManagerInv, NEW p \in Procs,
         \/ LoopRefused(p) \/ CredentialFails(p) \/ LockClosed(p) \/ Done(p)
         \/ EndSwitchLine(p)
  PROVE  ManagerInv'
<1>1. caller' = [caller EXCEPT ![p] = Idle] /\ ~At(p, "waiting")
  BY DEF LoopRefused, CredentialFails, LockClosed, Done, EndSwitchLine, ReturnsError, At
<1>2. /\ UNCHANGED <<provider, manager, call, work, counters>>
      /\ alive' \subseteq alive /\ failed' \subseteq Lines
  <2>1. CASE EndSwitchLine(p)
    <3>1. caller[p].conn # NoConn => work[caller[p].conn].line \in Lines
      BY <2>1 DEF EndSwitchLine, ManagerInv, CallersInv
    <3> QED
      BY <2>1, <3>1 DEF EndSwitchLine, ManagerInv, Types
  <2>2. CASE LoopRefused(p) \/ CredentialFails(p) \/ LockClosed(p) \/ Done(p)
    BY <2>2 DEF LoopRefused, CredentialFails, LockClosed, Done, ReturnsError, ManagerInv, Types
  <2> QED
    BY <2>1, <2>2
<1>3. MayBecome(p, Idle)
  <2>1. Idle \in Callers /\ Idle.pc = "idle" /\ Idle.barredThen = {}
    BY Typed DEF ManagerInv, Idle
  <2> QED
    BY <1>1, <2>1 DEF MayBecome
<1> QED
  BY <1>1, <1>2, <1>3, CallerMoves DEF ManagerInv, Types, counters

-----------------------------------------------------------------------------
(* What the connects do on their own *)

\* connect returns without a tunnel.
LEMMA GivesUpKeeps ==
  ASSUME ManagerInv, NEW k \in Conns, GivesUp(k)
  PROVE  ManagerInv'
<1> DEFINE W == [Ended EXCEPT !.pc = "gaveUp", !.stopped = work[k].stopped]
<1>1. work' = [work EXCEPT ![k] = W]
  BY Typed DEF GivesUp, ConnectReturns, ManagerInv, Types
<1>2. work[k].pc \in {"try", "dial", "auth", "backoff"}
  BY DEF GivesUp
<1>4. /\ W \in Works
      /\ W.pc = "gaveUp" /\ W.stopped = work[k].stopped /\ W.cred = NoCred
      /\ W.rejects = {} /\ W.tried = {} /\ W.evidence = {}
  BY <1>2, Typed, ManagerAssumption DEF ManagerInv, Types, Works, Running, Doing, Ended
<1>5. /\ UNCHANGED <<provider, manager, call, caller, counters>>
      /\ failed' \subseteq Lines
      /\ alive' \subseteq alive \cup {k}
      /\ k \in alive' => k \in alive \/ W.pc = "built"
  BY Typed DEF GivesUp, ConnectOnly, ManagerInv, Types
<1> HIDE DEF W
<1>6. MayGoOn(k, W)
  BY <1>2, <1>4 DEF MayGoOn, ManagerInv, JudgedInv, Running, Doing
<1> QED
  BY <1>1, <1>5, <1>6, WorkerMoves DEF MayDrop

\* The credential fails.
LEMMA TryFailsKeeps ==
  ASSUME ManagerInv, NEW k \in Conns, TryFails(k)
  PROVE  ManagerInv'
<1> DEFINE W == [work[k] EXCEPT !.pc = "backoff"]
<1>1. work' = [work EXCEPT ![k] = W]
  BY Typed DEF TryFails, ManagerInv, Types
<1>2. Doing(k, "try")
  BY DEF TryFails
<1>4. /\ W \in Works
      /\ W.pc = "backoff" /\ W.stopped = work[k].stopped /\ W.cred = work[k].cred
      /\ W.rejects = work[k].rejects /\ W.tried = work[k].tried
      /\ W.evidence = work[k].evidence
  BY <1>2, Typed, ManagerAssumption DEF ManagerInv, Types, Works, Running, Doing
<1>5. /\ UNCHANGED <<provider, manager, call, caller, counters>>
      /\ failed' \subseteq Lines
      /\ alive' \subseteq alive \cup {k}
      /\ k \in alive' => k \in alive \/ W.pc = "built"
  BY Typed DEF TryFails, ConnectOnly, ManagerInv, Types
<1> HIDE DEF W
<1>6. MayGoOn(k, W)
  BY <1>2, <1>4 DEF MayGoOn, ManagerInv, JudgedInv, Running, Doing
<1> QED
  BY <1>1, <1>5, <1>6, WorkerMoves DEF MayDrop

\* An attempt takes the served session and forgets rejections of another.
LEMMA TryUsesKeeps ==
  ASSUME ManagerInv, NEW k \in Conns, TryUses(k)
  PROVE  ManagerInv'
<1> DEFINE W == [work[k] EXCEPT !.pc = "dial", !.cred = Served,
                           !.rejects = IF work[k].cred.sid = sid THEN @ ELSE {},
                           !.tried = IF work[k].cred.sid = sid THEN @ ELSE {},
                           !.evidence = IF work[k].cred.sid = sid THEN @ ELSE {}]
<1>1. work' = [work EXCEPT ![k] = W]
  BY Typed DEF TryUses, ManagerInv, Types
<1>2. Doing(k, "try") /\ session # 0
  BY DEF TryUses, Answers
<1>4. /\ W \in Works
      /\ W.pc = "dial" /\ W.stopped = work[k].stopped /\ W.cred = Served
      /\ W.cred.sid = sid
      /\ \/ /\ work[k].cred.sid = sid /\ W.rejects = work[k].rejects
            /\ W.tried = work[k].tried /\ W.evidence = work[k].evidence
         \/ W.rejects = {} /\ W.tried = {} /\ W.evidence = {}
  <2>1. work[k] \in Works
    BY Typed DEF ManagerInv
  <2>2. Served \in Creds /\ Served.sid = sid
    BY Typed DEF ManagerInv, Served
  <2>4. /\ W.pc = "dial" /\ W.stopped = work[k].stopped /\ W.cred = Served
        /\ W.cred.sid = sid
        /\ \/ /\ work[k].cred.sid = sid /\ W.rejects = work[k].rejects
              /\ W.tried = work[k].tried /\ W.evidence = work[k].evidence
           \/ W.rejects = {} /\ W.tried = {} /\ W.evidence = {}
    BY <2>1, <2>2 DEF Works
  <2>5. W \in Works
    BY <2>1, <2>2 DEF Works, Running
  <2> QED
    BY <2>4, <2>5
<1>5. /\ UNCHANGED <<provider, manager, call, caller, counters>>
      /\ failed' \subseteq Lines
      /\ alive' \subseteq alive \cup {k}
      /\ k \in alive' => k \in alive \/ W.pc = "built"
  BY Typed DEF TryUses, ConnectOnly, ManagerInv, Types
<1> HIDE DEF W
<1>6. MayGoOn(k, W)
  BY <1>2, <1>4 DEF MayGoOn, ManagerInv, JudgedInv, Running, Doing
<1> QED
  BY <1>1, <1>5, <1>6, WorkerMoves DEF MayDrop

\* A line wins the race.
LEMMA DialWinsKeeps ==
  ASSUME ManagerInv, NEW k \in Conns, DialWins(k)
  PROVE  ManagerInv'
<1>0. PICK l \in Lines :
        /\ work' = [work EXCEPT ![k].pc = "auth", ![k].line = l]
        /\ failed' \subseteq failed \cup Lines
  BY DEF DialWins, Eligible, ManagerInv, Types
<1> DEFINE W == [work[k] EXCEPT !.pc = "auth", !.line = l]
<1>1. work' = [work EXCEPT ![k] = W]
  BY <1>0, Typed DEF ManagerInv, Types
<1>2. work[k].pc = "dial"
  BY DEF DialWins
<1>4. /\ W \in Works
      /\ W.pc = "auth" /\ W.stopped = work[k].stopped /\ W.cred = work[k].cred
      /\ W.rejects = work[k].rejects /\ W.tried = work[k].tried
      /\ W.evidence = work[k].evidence /\ W.line = l
  <2>1. work[k] \in Works
    BY Typed DEF ManagerInv
  <2>4. /\ W.pc = "auth" /\ W.stopped = work[k].stopped /\ W.cred = work[k].cred
        /\ W.rejects = work[k].rejects /\ W.tried = work[k].tried
        /\ W.evidence = work[k].evidence /\ W.line = l
    BY <2>1 DEF Works
  <2>5. W \in Works
    BY <2>1 DEF Works, Running
  <2> QED
    BY <2>4, <2>5
<1>5. /\ UNCHANGED <<provider, manager, call, caller, counters>>
      /\ failed' \subseteq Lines
      /\ alive' \subseteq alive \cup {k}
      /\ k \in alive' => k \in alive \/ W.pc = "built"
  BY <1>0, Typed DEF DialWins, ConnectOnly, ManagerInv, Types
<1> HIDE DEF W
<1>6. MayGoOn(k, W)
  BY <1>0, <1>2, <1>4 DEF MayGoOn, ManagerInv, JudgedInv, Running, Doing
<1> QED
  BY <1>1, <1>5, <1>6, WorkerMoves DEF MayDrop

\* Every line fails.
LEMMA DialFailsKeeps ==
  ASSUME ManagerInv, NEW k \in Conns, DialFails(k)
  PROVE  ManagerInv'
<1> DEFINE W == [work[k] EXCEPT !.pc = "judge"]
<1>1. work' = [work EXCEPT ![k] = W]
  BY Typed DEF DialFails, ManagerInv, Types
<1>2. Doing(k, "dial")
  BY DEF DialFails
<1>4. /\ W \in Works
      /\ W.pc = "judge" /\ W.stopped = work[k].stopped /\ W.cred = work[k].cred
      /\ W.rejects = work[k].rejects /\ W.tried = work[k].tried
      /\ W.evidence = work[k].evidence
  BY <1>2, Typed, ManagerAssumption DEF ManagerInv, Types, Works, Running, Doing
<1>5. /\ UNCHANGED <<provider, manager, call, caller, counters>>
      /\ failed' \subseteq Lines
      /\ alive' \subseteq alive \cup {k}
      /\ k \in alive' => k \in alive \/ W.pc = "built"
  BY Typed DEF DialFails, ConnectOnly, ManagerInv, Types, Eligible
<1> HIDE DEF W
<1>6. MayGoOn(k, W)
  BY <1>2, <1>4 DEF MayGoOn, ManagerInv, JudgedInv, Running, Doing
<1> QED
  BY <1>1, <1>5, <1>6, WorkerMoves DEF MayDrop

\* connect returns with a tunnel of the session it authenticated.
LEMMA AuthAcceptsKeeps ==
  ASSUME ManagerInv, NEW k \in Conns, AuthAccepts(k)
  PROVE  ManagerInv'
<1> DEFINE W == [Ended EXCEPT !.pc = "built", !.stopped = work[k].stopped,
                         !.cred = work[k].cred, !.line = work[k].line]
<1>1. work' = [work EXCEPT ![k] = W]
  BY Typed DEF AuthAccepts, ConnectReturns, ManagerInv, Types
<1>2. Doing(k, "auth")
  BY DEF AuthAccepts
<1>4. /\ W \in Works
      /\ W.pc = "built" /\ W.stopped = work[k].stopped /\ W.cred = work[k].cred
      /\ W.rejects = {} /\ W.tried = {} /\ W.evidence = {}
      /\ W.line = work[k].line
  BY <1>2, Typed, ManagerAssumption DEF ManagerInv, Types, Works, Running, Doing, Ended
<1>5. /\ UNCHANGED <<provider, manager, call, caller, counters>>
      /\ failed' \subseteq Lines
      /\ alive' \subseteq alive \cup {k}
      /\ k \in alive' => k \in alive \/ W.pc = "built"
  BY Typed, <1>4 DEF AuthAccepts, ConnectOnly, ManagerInv, Types
<1> HIDE DEF W
<1>6. MayGoOn(k, W)
  BY <1>2, <1>4 DEF MayGoOn, ManagerInv, JudgedInv, Running, Doing
<1> QED
  BY <1>1, <1>5, <1>6, WorkerMoves DEF MayDrop

\* The line fails or rejects the session that was presented to it.
LEMMA AuthFailsKeeps ==
  ASSUME ManagerInv, NEW k \in Conns, AuthFails(k)
  PROVE  ManagerInv'
<1>0. PICK rejecting \in SUBSET {work[k].line} :
        work' = [work EXCEPT
                   ![k].pc = "judge", ![k].tried = @ \cup {work[k].line},
                   ![k].rejects = @ \cup rejecting,
                   ![k].evidence = IF rejecting = {} THEN @
                                   ELSE @ \cup {work[k].cred.sid}]
  BY DEF AuthFails
<1> DEFINE W == [work[k] EXCEPT !.pc = "judge", !.tried = @ \cup {work[k].line},
                           !.rejects = @ \cup rejecting,
                           !.evidence = IF rejecting = {} THEN @
                                        ELSE @ \cup {work[k].cred.sid}]
<1>1. work' = [work EXCEPT ![k] = W]
  BY <1>0, Typed DEF ManagerInv, Types
<1>2. Doing(k, "auth")
  BY DEF AuthFails
<1>3. work[k].line \in Lines
  BY <1>2 DEF ManagerInv, JudgedInv, Doing
<1>4. /\ W \in Works
      /\ W.pc = "judge" /\ W.stopped = work[k].stopped /\ W.cred = work[k].cred
      /\ W.rejects = work[k].rejects \cup rejecting
      /\ W.tried = work[k].tried \cup {work[k].line}
      /\ W.evidence = IF rejecting = {} THEN work[k].evidence
                      ELSE work[k].evidence \cup {work[k].cred.sid}
  <2>1. work[k] \in Works
    BY Typed DEF ManagerInv
  <2>2. rejecting \subseteq Lines
    BY <1>3
  <2>3. W.rejects \subseteq Lines /\ W.tried \subseteq Lines /\ W.evidence \subseteq Nat
    BY <1>3, <2>1, <2>2, Typed DEF Works, ManagerInv
  <2>4. /\ W.pc = "judge" /\ W.stopped = work[k].stopped /\ W.cred = work[k].cred
        /\ W.rejects = work[k].rejects \cup rejecting
        /\ W.tried = work[k].tried \cup {work[k].line}
        /\ W.evidence = IF rejecting = {} THEN work[k].evidence
                        ELSE work[k].evidence \cup {work[k].cred.sid}
    BY <2>1 DEF Works
  <2>5. W \in Works
    BY <2>1, <1>3, <2>2, <2>3 DEF Works, Running
  <2> QED
    BY <2>4, <2>5
<1>5. /\ UNCHANGED <<provider, manager, call, caller, counters>>
      /\ failed' \subseteq Lines
      /\ alive' \subseteq alive \cup {k}
      /\ k \in alive' => k \in alive \/ W.pc = "built"
  BY <1>0, <1>3, Typed DEF AuthFails, ConnectOnly, ManagerInv, Types
<1> HIDE DEF W
<1>6. MayGoOn(k, W)
  BY <1>0, <1>2, <1>4 DEF MayGoOn, ManagerInv, JudgedInv, Running, Doing
<1> QED
  BY <1>1, <1>5, <1>6, WorkerMoves DEF MayDrop

\* Not every line was tried, or none rejected the session.
LEMMA NotYetRefusedKeeps ==
  ASSUME ManagerInv, NEW k \in Conns, NotYetRefused(k)
  PROVE  ManagerInv'
<1> DEFINE W == [work[k] EXCEPT !.pc = "backoff"]
<1>1. work' = [work EXCEPT ![k] = W]
  BY Typed DEF NotYetRefused, ManagerInv, Types
<1>2. work[k].pc = "judge"
  BY DEF NotYetRefused
<1>4. /\ W \in Works
      /\ W.pc = "backoff" /\ W.stopped = work[k].stopped /\ W.cred = work[k].cred
      /\ W.rejects = work[k].rejects /\ W.tried = work[k].tried
      /\ W.evidence = work[k].evidence
  <2>1. work[k] \in Works
    BY Typed DEF ManagerInv, Types
  <2> HIDE DEF ManagerInv, Types
  <2> QED
    BY <2>1, <1>2, ManagerAssumption DEF Works, Running, Doing
<1>5. /\ UNCHANGED <<provider, manager, call, caller, counters>>
      /\ failed' \subseteq Lines
      /\ alive' \subseteq alive \cup {k}
      /\ k \in alive' => k \in alive \/ W.pc = "built"
  BY Typed DEF NotYetRefused, ConnectOnly, ManagerInv, Types
<1> HIDE DEF W
<1>6. MayGoOn(k, W)
  BY <1>2, <1>4 DEF MayGoOn, ManagerInv, JudgedInv, Running, Doing
<1> QED
  BY <1>1, <1>5, <1>6, WorkerMoves DEF MayDrop

\* Another attempt follows.
LEMMA BackoffKeeps ==
  ASSUME ManagerInv, NEW k \in Conns, Backoff(k)
  PROVE  ManagerInv'
<1> DEFINE W == [work[k] EXCEPT !.pc = "try", !.attempt = @ + 1]
<1>1. work' = [work EXCEPT ![k] = W]
  BY Typed DEF Backoff, ManagerInv, Types
<1>2. /\ Doing(k, "backoff")
      /\ work[k].attempt + 1 # MaxAttempts
  BY DEF Backoff, LastAttempt
<1>4. /\ W \in Works
      /\ W.pc = "try" /\ W.stopped = work[k].stopped /\ W.cred = work[k].cred
      /\ W.rejects = work[k].rejects /\ W.tried = work[k].tried
      /\ W.evidence = work[k].evidence
  <2>1. work[k] \in Works
    BY Typed DEF ManagerInv
  <2>2. work[k].attempt + 1 \in 0..(MaxAttempts - 1)
    BY <1>2, Typed, ManagerAssumption DEF ManagerInv
  <2>4. /\ W.pc = "try" /\ W.stopped = work[k].stopped /\ W.cred = work[k].cred
        /\ W.rejects = work[k].rejects /\ W.tried = work[k].tried
        /\ W.evidence = work[k].evidence
    BY <2>1 DEF Works
  <2>5. W \in Works
    BY <2>1, <2>2 DEF Works, Running
  <2> QED
    BY <2>4, <2>5
<1>5. /\ UNCHANGED <<provider, manager, call, caller, counters>>
      /\ failed' \subseteq Lines
      /\ alive' \subseteq alive \cup {k}
      /\ k \in alive' => k \in alive \/ W.pc = "built"
  BY Typed DEF Backoff, ConnectOnly, ManagerInv, Types
<1> HIDE DEF W
<1>6. MayGoOn(k, W)
  BY <1>2, <1>4 DEF MayGoOn, ManagerInv, JudgedInv, Running, Doing
<1> QED
  BY <1>1, <1>5, <1>6, WorkerMoves DEF MayDrop

\* The call's context ends.
LEMMA BudgetEndsKeeps ==
  ASSUME ManagerInv, NEW k \in Conns, BudgetEnds(k)
  PROVE  ManagerInv'
<1> DEFINE W == [work[k] EXCEPT !.stopped = TRUE]
<1>1. work' = [work EXCEPT ![k] = W]
  BY Typed DEF BudgetEnds, ManagerInv, Types
<1>2. work[k].pc \in Running
  BY DEF BudgetEnds
<1>4. /\ W \in Works
      /\ W.pc = work[k].pc /\ W.stopped /\ W.cred = work[k].cred
      /\ W.rejects = work[k].rejects /\ W.tried = work[k].tried
      /\ W.evidence = work[k].evidence /\ W.line = work[k].line
  <2>1. work[k] \in Works
    BY Typed DEF ManagerInv, Types
  <2> HIDE DEF ManagerInv, Types
  <2> QED
    BY <2>1, <1>2, ManagerAssumption DEF Works, Running, Doing
<1>5. /\ UNCHANGED <<provider, manager, call, caller, counters>>
      /\ failed' \subseteq Lines
      /\ alive' \subseteq alive \cup {k}
      /\ k \in alive' => k \in alive \/ W.pc = "built"
  BY Typed DEF BudgetEnds, ConnectOnly, ManagerInv, Types
<1> HIDE DEF W
<1>6. MayGoOn(k, W)
  BY <1>2, <1>4 DEF MayGoOn, ManagerInv, JudgedInv, Running, Doing
<1> QED
  BY <1>1, <1>5, <1>6, WorkerMoves DEF MayDrop

\* The session used is given up if it is still served.
LEMMA SessionRefusedKeeps ==
  ASSUME ManagerInv, NEW k \in Conns, SessionRefused(k)
  PROVE  ManagerInv'
<1> DEFINE W == [work[k] EXCEPT !.pc = "backoff", !.rejects = {}, !.tried = {},
                                !.evidence = {}]
<1>1. work' = [work EXCEPT ![k] = W]
  BY Typed DEF SessionRefused, ManagerInv, Types
<1>2. work[k].pc = "judge"
  BY DEF SessionRefused
<1>3. /\ W \in Works
      /\ W.pc = "backoff" /\ W.stopped = work[k].stopped /\ W.cred = work[k].cred
      /\ W.rejects = {} /\ W.tried = {} /\ W.evidence = {}
  BY Typed DEF ManagerInv, Types, Works, Running
<1>4. /\ UNCHANGED <<manager, call, caller, counters>>
      /\ failed' = failed /\ alive' = alive
  BY DEF SessionRefused
<1>5. MayDrop
  BY DEF SessionRefused, MayDrop, provider
<1> HIDE DEF W
<1>6. MayGoOn(k, W)
  BY <1>2, <1>3 DEF MayGoOn, Running
<1> QED
  BY <1>1, <1>4, <1>5, <1>6, WorkerMoves DEF ManagerInv, Types

-----------------------------------------------------------------------------
(* The provider, lines and tunnels *)

\* A session is served under a new generation.
LEMMA ServesKeeps ==
  ASSUME ManagerInv, Serves
  PROVE  ManagerInv'
<1> USE DEF ManagerInv
<1>0. /\ session' = issued + 1 /\ issued' = issued + 1 /\ sid' \in Nat
      /\ sid' \notin barred /\ barred' = barred /\ over' = over
      /\ UNCHANGED <<manager, call, work, alive, failed, caller, counters>>
  BY DEF Serves, Session!Serve, Types
<1>1. Types'
  BY <1>0 DEF Types, manager, counters
<1>2. WaitersCounted'
  BY <1>0 DEF WaitersCounted, Waiting, At
<1>3. FlightInv' /\ NoOrphanTunnel'
  BY <1>0 DEF FlightInv, NoOrphanTunnel, At, manager
<1>4. SessionsInv'
  BY <1>0, Typed DEF SessionsInv, Types
<1>5. CallersInv' /\ JudgedInv'
  BY <1>0 DEF CallersInv, JudgedInv, At
<1> QED
  BY <1>1, <1>2, <1>3, <1>4, <1>5

\* The session ends.
LEMMA WithdrawsKeeps ==
  ASSUME ManagerInv, Withdraws
  PROVE  ManagerInv'
<1> USE DEF ManagerInv
<1>0. /\ session' = 0 /\ sid' = 0 /\ issued' = issued /\ over' = over
      /\ barred \subseteq barred' /\ barred' \in SUBSET Nat
      /\ UNCHANGED <<manager, call, work, alive, failed, caller, counters>>
  BY DEF Withdraws, Session!Withdraw, Types
<1>1. Types'
  BY <1>0 DEF Types, manager, counters
<1>2. WaitersCounted'
  BY <1>0 DEF WaitersCounted, Waiting, At
<1>3. FlightInv' /\ NoOrphanTunnel'
  BY <1>0 DEF FlightInv, NoOrphanTunnel, At, manager
<1>4. SessionsInv'
  BY <1>0, Typed DEF SessionsInv, Types
<1>5. CallersInv' /\ JudgedInv'
  BY <1>0 DEF CallersInv, JudgedInv, At
<1> QED
  BY <1>1, <1>2, <1>3, <1>4, <1>5

\* A tunnel dies or a cooldown ends.
LEMMA LossKeeps ==
  ASSUME ManagerInv, alive' \subseteq alive, failed' \subseteq failed, faults' \in Nat,
         UNCHANGED <<provider, manager, call, work, caller, calls>>
  PROVE  ManagerInv'
<1> USE DEF ManagerInv, provider, manager
<1>1. Types'
  BY DEF Types
<1>2. WaitersCounted'
  BY DEF WaitersCounted, Waiting, At
<1>3. FlightInv' /\ NoOrphanTunnel'
  BY DEF FlightInv, NoOrphanTunnel, At
<1>4. SessionsInv' /\ CallersInv' /\ JudgedInv'
  BY DEF SessionsInv, CallersInv, JudgedInv, At
<1> QED
  BY <1>1, <1>2, <1>3, <1>4

-----------------------------------------------------------------------------
(* Joining, starting and leaving a call *)

\* A caller joins the connect under way and is counted.
LEMMA JoinsKeeps ==
  ASSUME ManagerInv, NEW p \in Procs, Joins(p)
  PROVE  ManagerInv'
<1> USE DEF ManagerInv
<1>0. PICK k \in Conns :
        /\ k = connecting /\ At(p, "lock") /\ k # NoConn
        /\ cur' = NoConn /\ alive' = alive \ {cur}
        /\ UNCHANGED <<provider, closed, connecting, work, failed, counters>>
  BY DEF Joins, MustConnect, Types
<1> DEFINE C == [caller[p] EXCEPT !.pc = "waiting", !.conn = k, !.cred = NoCred]
           D == [call[k] EXCEPT !.waiters = @ + 1]
<1>1. caller' = [caller EXCEPT ![p] = C] /\ call' = [call EXCEPT ![k] = D]
  BY <1>0, Typed DEF Joins, Waits, Types
<1>2. /\ C \in Callers /\ C.pc = "waiting" /\ C.conn = k
      /\ C.barredThen = caller[p].barredThen
  BY <1>0, Typed DEF Types, Callers
<1>3. /\ D \in Calls /\ D.waiters = call[k].waiters + 1
      /\ D.finished = call[k].finished
  BY <1>0, Typed DEF Types, Calls
<1> HIDE DEF C, D
<1>4. /\ caller'[p] = C /\ \A q \in Procs : q # p => caller'[q] = caller[q]
      /\ call'[k] = D /\ \A j \in Conns : j # k => call'[j] = call[j]
  BY <1>0, <1>1 DEF Types
<1>5. Types'
  BY <1>0, <1>1, <1>2, <1>3 DEF Types, provider, counters
<1>6. WaitersCounted'
  <2>1. Waiting(k)' = Waiting(k) \cup {p} /\ p \notin Waiting(k)
    BY <1>0, <1>2, <1>4 DEF Waiting, At
  <2>2. \A j \in Conns : j # k => Waiting(j)' = Waiting(j)
    BY <1>0, <1>2, <1>4 DEF Waiting, At
  <2>3. IsFiniteSet(Waiting(k)) /\ call[k].waiters = Cardinality(Waiting(k))
    BY <1>0 DEF WaitersCounted
  <2>4. /\ IsFiniteSet(Waiting(k)') 
        /\ Cardinality(Waiting(k)') = Cardinality(Waiting(k)) + 1
    BY <2>1, <2>3, FS_AddElement
  <2> QED
    BY <1>3, <1>4, <2>2, <2>3, <2>4 DEF WaitersCounted
<1>7. FlightInv'
  BY <1>0, <1>2, <1>3, <1>4, Typed DEF FlightInv, At, Types
<1>8. NoOrphanTunnel'
  BY <1>0, ManagerAssumption DEF NoOrphanTunnel, FlightInv, Types
<1>9. SessionsInv' /\ JudgedInv'
  BY <1>0 DEF SessionsInv, JudgedInv, provider
<1>10. CallersInv'
  BY <1>0, <1>2, <1>4 DEF CallersInv, At, provider
<1> QED
  BY <1>5, <1>6, <1>7, <1>8, <1>9, <1>10

\* A caller starts a connect under a name that nothing refers to.
LEMMA StartsConnectKeeps ==
  ASSUME ManagerInv, NEW p \in Procs, StartsConnect(p)
  PROVE  ManagerInv'
<1> USE DEF ManagerInv
<1>0. /\ At(p, "lock") /\ connecting = NoConn
      /\ cur' = NoConn /\ alive' = alive \ {cur}
      /\ UNCHANGED <<provider, closed, failed, counters>>
  BY DEF StartsConnect, MustConnect
<1>1. PICK k \in Conns :
        /\ Unused(k) /\ connecting' = k
        /\ call' = [call EXCEPT ![k] = [NoCall EXCEPT !.waiters = 1]]
        /\ work' = [work EXCEPT ![k] = [Ended EXCEPT !.pc = "try",
                                           !.bound = caller[p].expect]]
        /\ Waits(p, k)
  BY DEF StartsConnect
<1> DEFINE C == [caller[p] EXCEPT !.pc = "waiting", !.conn = k, !.cred = NoCred]
           D == [NoCall EXCEPT !.waiters = 1]
           W == [Ended EXCEPT !.pc = "try", !.bound = caller[p].expect]
<1>2. caller' = [caller EXCEPT ![p] = C]
  BY <1>1, Typed DEF Waits, Types
<1>3. /\ C \in Callers /\ C.pc = "waiting" /\ C.conn = k
      /\ C.barredThen = caller[p].barredThen
  BY Typed DEF Types, Callers
<1>4. D \in Calls /\ D.waiters = 1 /\ ~D.finished
  BY DEF NoCall, Calls
<1>5. /\ W \in Works /\ W.pc = "try" /\ W.cred = NoCred
      /\ W.rejects = {} /\ W.tried = {} /\ W.evidence = {}
  <2>1. caller[p].expect \in Nat /\ Ended \in Works
    BY Typed
  <2>2. /\ W.pc = "try" /\ W.cred = NoCred
        /\ W.rejects = {} /\ W.tried = {} /\ W.evidence = {}
    BY DEF Ended
  <2> QED
    BY <2>1, <2>2 DEF Works, Running
<1>6. call' = [call EXCEPT ![k] = D] /\ work' = [work EXCEPT ![k] = W]
  BY <1>1
<1> HIDE DEF C, D, W
<1>7. /\ caller'[p] = C /\ \A q \in Procs : q # p => caller'[q] = caller[q]
      /\ call'[k] = D /\ \A j \in Conns : j # k => call'[j] = call[j]
      /\ work'[k] = W /\ \A j \in Conns : j # k => work'[j] = work[j]
  BY <1>2, <1>6 DEF Types
<1>8. /\ work[k].pc = "ended" /\ k # NoConn
      /\ \A q \in Procs : caller[q].conn # k
  BY <1>1, ManagerAssumption DEF Unused
<1>9. Types'
  BY <1>0, <1>1, <1>2, <1>3, <1>4, <1>5, <1>6 DEF Types, provider, counters
<1>10. WaitersCounted'
  <2>1. Waiting(k)' = {p}
    BY <1>3, <1>7, <1>8 DEF Waiting, At
  <2>2. \A j \in Conns : j # k => Waiting(j)' = Waiting(j)
    BY <1>0, <1>3, <1>7 DEF Waiting, At
  <2>3. IsFiniteSet({p}) /\ Cardinality({p}) = 1
    BY FS_Singleton
  <2> QED
    BY <1>4, <1>7, <2>1, <2>2, <2>3 DEF WaitersCounted
<1>11. FlightInv'
  <2>1. /\ connecting' = k /\ work'[k].pc \in Running /\ ~call'[k].finished
        /\ cur' = NoConn
    BY <1>0, <1>1, <1>4, <1>5, <1>7 DEF Running
  <2>2. ASSUME NEW j \in Conns, work'[j].pc \in Running, ~work'[j].stopped
        PROVE  connecting' = j /\ call'[j].waiters > 0
    BY <1>0, <1>4, <1>7, <2>1, <2>2, ManagerAssumption DEF FlightInv
  <2>3. ASSUME NEW q \in Procs, caller'[q].pc = "waiting"
        PROVE  /\ caller'[q].conn \in Conns
               /\ ~call'[caller'[q].conn].finished => connecting' = caller'[q].conn
    <3>1. CASE q = p
      BY <1>3, <1>7, <2>1, <3>1
    <3>2. CASE q # p
      BY <1>0, <1>7, <1>8, <2>3, <3>2, ManagerAssumption DEF FlightInv, At
    <3> QED
      BY <3>1, <3>2
  <2> QED
    BY <2>1, <2>2, <2>3 DEF FlightInv, At
<1>12. NoOrphanTunnel'
  BY <1>0, <1>7, <1>8 DEF NoOrphanTunnel, Types
<1>13. SessionsInv' /\ JudgedInv'
  BY <1>0, <1>5, <1>7 DEF SessionsInv, JudgedInv, NoCred, provider, Types
<1>14. CallersInv'
  <2>1. \A q \in Procs : caller[q].conn \in Conns => work'[caller[q].conn] = work[caller[q].conn]
    BY <1>7, <1>8
  <2> QED
    BY <1>0, <1>3, <1>7, <2>1, Typed DEF CallersInv, At, provider
<1> QED
  BY <1>9, <1>10, <1>11, <1>12, <1>13, <1>14

\* A waiter leaves; the last one ends a call that is not finished.
LEMMA WaitEndsKeeps ==
  ASSUME ManagerInv, NEW p \in Procs, WaitEnds(p)
  PROVE  ManagerInv'
<1> USE DEF ManagerInv
<1>0. PICK k \in Conns :
        /\ k = caller[p].conn /\ At(p, "waiting")
        /\ ~call[k].finished => connecting = k
        /\ LeavesCall(k)
        /\ UNCHANGED <<provider, closed, cur, alive, failed, counters>>
  BY DEF WaitEnds, FlightInv
<1> DEFINE last == call[k].waiters = 1
           abandoned == last /\ ~call[k].finished
           D == [call[k] EXCEPT !.waiters = @ - 1, !.err = @ /\ ~last]
           W == [work[k] EXCEPT !.stopped = @ \/ abandoned]
<1>a. connecting' = IF abandoned THEN NoConn ELSE connecting
  BY <1>0 DEF LeavesCall
<1>1. PICK C \in Callers :
        /\ caller' = [caller EXCEPT ![p] = C] /\ C.pc \in {"idle", "loop"}
        /\ C.barredThen \subseteq barred
  <2>1. CASE caller' = [caller EXCEPT ![p] = Idle]
    <3>1. Idle \in Callers /\ Idle.pc = "idle" /\ Idle.barredThen = {}
      BY Typed DEF Idle
    <3> QED
      BY <2>1, <3>1
  <2>2. CASE caller' = [caller EXCEPT ![p].pc = "loop", ![p].conn = NoConn]
    <3> DEFINE C == [caller[p] EXCEPT !.pc = "loop", !.conn = NoConn]
    <3>1. caller' = [caller EXCEPT ![p] = C]
      BY <2>2, Typed DEF Types
    <3>2. C \in Callers /\ C.pc = "loop" /\ C.barredThen = caller[p].barredThen
      BY Typed DEF Callers
    <3> HIDE DEF C
    <3> QED
      BY <3>1, <3>2 DEF CallersInv
  <2> QED
    BY <2>1, <2>2 DEF WaitEnds
<1>2. IsFiniteSet(Waiting(k)) /\ call[k].waiters = Cardinality(Waiting(k)) /\ p \in Waiting(k)
  BY <1>0 DEF WaitersCounted, Waiting
<1>3. /\ Cardinality(Waiting(k)) \in Nat /\ call[k].waiters # 0
      /\ call[k].waiters \in Nat /\ call[k].waiters - 1 \in Nat
  BY <1>0, <1>2, FS_EmptySet, Typed
<1>4. D \in Calls /\ D.waiters = call[k].waiters - 1 /\ D.finished = call[k].finished
  BY <1>0, <1>3, Typed DEF Calls
<1>5. W \in Works /\ W.stopped = (work[k].stopped \/ abandoned)
  <2>1. (work[k].stopped \/ abandoned) \in BOOLEAN /\ work[k] \in Works
    BY Typed
  <2> HIDE DEF abandoned
  <2> QED
    BY <2>1 DEF Works
<1>6. /\ W.pc = work[k].pc /\ W.cred = work[k].cred /\ W.line = work[k].line
      /\ W.rejects = work[k].rejects /\ W.tried = work[k].tried
      /\ W.evidence = work[k].evidence
  BY <1>0, Typed DEF Works
<1>7. call' = [call EXCEPT ![k] = D] /\ work' = [work EXCEPT ![k] = W]
  BY <1>0, Typed DEF LeavesCall, Types
<1> HIDE DEF D, W
<1>8. /\ caller'[p] = C /\ \A q \in Procs : q # p => caller'[q] = caller[q]
      /\ call'[k] = D /\ \A j \in Conns : j # k => call'[j] = call[j]
      /\ work'[k] = W /\ \A j \in Conns : j # k => work'[j] = work[j]
  BY <1>0, <1>1, <1>7 DEF Types
<1>9. Types'
  BY <1>0, <1>a, <1>1, <1>4, <1>5, <1>7 DEF Types, provider, counters
<1>10. WaitersCounted'
  <2>1. Waiting(k)' = Waiting(k) \ {p}
    BY <1>1, <1>8 DEF Waiting, At
  <2>2. \A j \in Conns : j # k => Waiting(j)' = Waiting(j)
    BY <1>0, <1>1, <1>8 DEF Waiting, At
  <2>3. /\ IsFiniteSet(Waiting(k)')
        /\ Cardinality(Waiting(k)') = Cardinality(Waiting(k)) - 1
    BY <1>2, <2>1, FS_RemoveElement
  <2> QED
    BY <1>2, <1>4, <1>8, <2>2, <2>3 DEF WaitersCounted
<1>11. FlightInv'
  <2>1. connecting' # NoConn => /\ work'[connecting'].pc \in Running
                                /\ ~call'[connecting'].finished /\ cur' = NoConn
    BY <1>0, <1>a, <1>4, <1>6, <1>8 DEF FlightInv, Types
  <2>2. ASSUME NEW j \in Conns, work'[j].pc \in Running, ~work'[j].stopped
        PROVE  connecting' = j /\ call'[j].waiters > 0
    <3>1. CASE j = k
      <4>1. ~work[k].stopped /\ ~abandoned /\ work[k].pc \in Running
        BY <1>5, <1>6, <1>8, <2>2, <3>1
      <4>2. connecting = k /\ ~call[k].finished
        BY <4>1, ManagerAssumption DEF FlightInv
      <4>3. call[k].waiters # 1 /\ connecting' = connecting
        BY <1>a, <4>1, <4>2
      <4> QED
        BY <1>3, <1>4, <1>8, <3>1, <4>2, <4>3
    <3>2. CASE j # k
      BY <1>0, <1>a, <1>8, <2>2, <3>2, ManagerAssumption DEF FlightInv
    <3> QED
      BY <3>1, <3>2
  <2>3. ASSUME NEW q \in Procs, caller'[q].pc = "waiting"
        PROVE  /\ caller'[q].conn \in Conns
               /\ ~call'[caller'[q].conn].finished => connecting' = caller'[q].conn
    <3>1. q # p /\ caller'[q] = caller[q] /\ caller[q].pc = "waiting"
      BY <1>1, <1>8, <2>3
    <3>2. /\ caller[q].conn \in Conns
          /\ ~call[caller[q].conn].finished => connecting = caller[q].conn
      BY <3>1 DEF FlightInv, At
    <3>3. CASE caller[q].conn = k /\ ~call[k].finished
      <4>1. q \in Waiting(k)
        BY <3>1, <3>3 DEF Waiting, At
      <4>2. call[k].waiters # 1
        BY <1>2, <3>1, <4>1, FS_Singleton
      <4> QED
        BY <1>a, <3>1, <3>2, <3>3, <4>2
    <3>4. CASE caller[q].conn # k \/ call[k].finished
      BY <1>0, <1>a, <1>4, <1>8, <3>1, <3>2, <3>4
    <3> QED
      BY <3>3, <3>4
  <2>4. cur' # NoConn => work'[cur'].pc = "ended" /\ work'[cur'].line \in Lines
    BY <1>0, <1>6, <1>8 DEF FlightInv, Types
  <2> QED
    BY <2>1, <2>2, <2>3, <2>4 DEF FlightInv, At
<1>12. NoOrphanTunnel' /\ SessionsInv' /\ JudgedInv'
  BY <1>0, <1>6, <1>8 DEF NoOrphanTunnel, SessionsInv, JudgedInv, provider, Types
<1>13. CallersInv'
  BY <1>0, <1>1, <1>6, <1>8, ManagerAssumption, Typed DEF CallersInv, At, provider
<1> QED
  BY <1>9, <1>10, <1>11, <1>12, <1>13

-----------------------------------------------------------------------------
(* The end of a connect, Close and Reset *)

\* The tunnel becomes the current one and the waiters are told.
LEMMA PublishesKeeps ==
  ASSUME ManagerInv, NEW k \in Conns, Publishes(k)
  PROVE  ManagerInv'
<1> USE DEF ManagerInv
<1> DEFINE D == [call[k] EXCEPT !.finished = TRUE]
           W == [work[k] EXCEPT !.pc = "ended", !.stopped = TRUE]
<1>0. /\ work[k].pc = "built" /\ ~closed /\ connecting = k
      /\ cur' = k /\ connecting' = NoConn
      /\ UNCHANGED <<provider, closed, alive, failed, caller, counters>>
  BY DEF Publishes, Unwanted
<1>1. call' = [call EXCEPT ![k] = D] /\ work' = [work EXCEPT ![k] = W]
  BY Typed DEF Publishes, Types
<1>2. D \in Calls /\ D.waiters = call[k].waiters /\ D.finished
  BY Typed DEF Calls
<1>3. /\ W \in Works /\ W.pc = "ended" /\ W.cred = work[k].cred
      /\ W.rejects = work[k].rejects /\ W.tried = work[k].tried
      /\ W.evidence = work[k].evidence /\ W.line = work[k].line
  BY Typed DEF Works
<1> HIDE DEF D, W
<1>4. /\ call'[k] = D /\ \A j \in Conns : j # k => call'[j] = call[j]
      /\ work'[k] = W /\ \A j \in Conns : j # k => work'[j] = work[j]
  BY <1>1 DEF Types
<1>5. Types'
  BY <1>0, <1>1, <1>2, <1>3 DEF Types, provider, counters
<1>6. WaitersCounted'
  <2>1. \A j \in Conns : Waiting(j)' = Waiting(j) /\ call'[j].waiters = call[j].waiters
    BY <1>0, <1>2, <1>4 DEF Waiting, At
  <2> QED
    BY <2>1 DEF WaitersCounted
<1>7. FlightInv'
  <2>1. ASSUME NEW j \in Conns, work'[j].pc \in Running, ~work'[j].stopped
        PROVE  FALSE
    BY <1>0, <1>3, <1>4, <2>1 DEF FlightInv, Running
  <2>2. ASSUME NEW q \in Procs, At(q, "waiting")'
        PROVE  caller'[q].conn \in Conns /\ call'[caller'[q].conn].finished
    BY <1>0, <1>2, <1>4, <2>2 DEF FlightInv, At
  <2>3. work'[cur'].pc = "ended" /\ work'[cur'].line \in Lines
    BY <1>0, <1>3, <1>4 DEF JudgedInv
  <2> QED
    BY <1>0, <2>1, <2>2, <2>3 DEF FlightInv
<1>8. NoOrphanTunnel'
  <2>1. \A j \in alive : j \in Conns /\ j # k => work[j].pc = "built"
    BY <1>0, ManagerAssumption DEF NoOrphanTunnel, FlightInv, Types
  <2> QED
    BY <1>0, <1>4, <2>1 DEF NoOrphanTunnel, Types
<1>9. SessionsInv' /\ JudgedInv'
  BY <1>0, <1>3, <1>4 DEF SessionsInv, JudgedInv, provider
<1>10. CallersInv'
  BY <1>0, <1>4, Typed DEF CallersInv, At, provider
<1> QED
  BY <1>5, <1>6, <1>7, <1>8, <1>9, <1>10

\* The connect failed or its tunnel is closed again; waiters are told.
LEMMA FinishesWithoutKeeps ==
  ASSUME ManagerInv, NEW k \in Conns, FinishesWithout(k)
  PROVE  ManagerInv'
<1> USE DEF ManagerInv
<1>0. /\ work[k].pc \in {"gaveUp", "built"} /\ work' = [work EXCEPT ![k] = Ended]
      /\ alive' = alive \ {k}
      /\ connecting' = IF connecting = k THEN NoConn ELSE connecting
      /\ UNCHANGED <<provider, closed, cur, failed, caller, counters>>
  BY DEF FinishesWithout
<1>1. PICK D \in Calls :
        /\ call' = [call EXCEPT ![k] = D]
        /\ D.waiters = call[k].waiters /\ D.finished
  <2>1. CASE call[k].finished
    <3>1. call' = [call EXCEPT ![k] = call[k]]
      BY <2>1 DEF FinishesWithout, Types
    <3> QED
      BY <2>1, <3>1, Typed
  <2>2. CASE ~call[k].finished
    <3> DEFINE D == [call[k] EXCEPT !.finished = TRUE, !.err = TRUE]
    <3>1. call' = [call EXCEPT ![k] = D]
      BY <2>2, Typed DEF FinishesWithout, Types
    <3>2. D \in Calls /\ D.waiters = call[k].waiters /\ D.finished
      BY Typed DEF Calls
    <3> HIDE DEF D
    <3> QED
      BY <3>1, <3>2
  <2> QED
    BY <2>1, <2>2
<1>2. /\ Ended \in Works /\ Ended.pc = "ended" /\ Ended.cred = NoCred
      /\ Ended.rejects = {} /\ Ended.tried = {} /\ Ended.evidence = {}
  BY Typed DEF Ended
<1>3. /\ call'[k] = D /\ \A j \in Conns : j # k => call'[j] = call[j]
      /\ work'[k] = Ended /\ \A j \in Conns : j # k => work'[j] = work[j]
  BY <1>0, <1>1 DEF Types
<1>4. k # NoConn /\ cur # k
  BY <1>0, ManagerAssumption DEF FlightInv
<1>5. Types'
  BY <1>0, <1>1, <1>2 DEF Types, provider, counters
<1>6. WaitersCounted'
  <2>1. \A j \in Conns : Waiting(j)' = Waiting(j) /\ call'[j].waiters = call[j].waiters
    BY <1>0, <1>1, <1>3 DEF Waiting, At
  <2> QED
    BY <2>1 DEF WaitersCounted
<1>7. FlightInv'
  <2>1. connecting' # NoConn => /\ work'[connecting'].pc \in Running
                                /\ ~call'[connecting'].finished /\ cur' = NoConn
    BY <1>0, <1>3 DEF FlightInv, Types
  <2>2. ASSUME NEW j \in Conns, work'[j].pc \in Running, ~work'[j].stopped
        PROVE  connecting' = j /\ call'[j].waiters > 0
    BY <1>0, <1>2, <1>3, <2>2 DEF FlightInv, Running
  <2>3. ASSUME NEW q \in Procs, At(q, "waiting")'
        PROVE  /\ caller'[q].conn \in Conns
               /\ ~call'[caller'[q].conn].finished => connecting' = caller'[q].conn
    BY <1>0, <1>1, <1>3, <2>3 DEF FlightInv, At
  <2>4. cur' # NoConn => work'[cur'].pc = "ended" /\ work'[cur'].line \in Lines
    BY <1>0, <1>3, <1>4 DEF FlightInv, Types
  <2> QED
    BY <2>1, <2>2, <2>3, <2>4 DEF FlightInv
<1>8. NoOrphanTunnel'
  BY <1>0, <1>3 DEF NoOrphanTunnel, Types
<1>9. SessionsInv' /\ JudgedInv'
  BY <1>0, <1>2, <1>3 DEF SessionsInv, JudgedInv, NoCred, provider, Types
<1>10. CallersInv'
  <2>1. \A j \in Conns : work[j].pc = "ended" => work'[j] = work[j]
    BY <1>0, <1>3
  <2> QED
    BY <1>0, <2>1, Typed DEF CallersInv, At, provider
<1> QED
  BY <1>5, <1>6, <1>7, <1>8, <1>9, <1>10

\* Close and Reset end the call under way and close the current tunnel.
LEMMA ClearKeeps ==
  ASSUME ManagerInv, Clear, closed' \in BOOLEAN, faults' \in Nat,
         UNCHANGED <<provider, failed, caller, calls>>
  PROVE  ManagerInv'
<1> USE DEF ManagerInv
<1>0. /\ connecting' = NoConn /\ cur' = NoConn /\ alive' = alive \ {cur}
      /\ UNCHANGED <<provider, failed, caller, calls>>
  BY DEF Clear
<1>1. /\ call' \in [Conns -> Calls] /\ work' \in [Conns -> Works]
      /\ \A j \in Conns :
           /\ call'[j].waiters = call[j].waiters
           /\ call'[j].finished = (call[j].finished \/ j = connecting)
           /\ work'[j].pc = work[j].pc /\ work'[j].cred = work[j].cred
           /\ work'[j].stopped = (work[j].stopped \/ j = connecting)
           /\ work'[j].rejects = work[j].rejects /\ work'[j].tried = work[j].tried
           /\ work'[j].evidence = work[j].evidence /\ work'[j].line = work[j].line
  <2>1. CASE connecting = NoConn
    BY <2>1, Typed, ManagerAssumption DEF Clear, Types
  <2>2. CASE connecting # NoConn
    <3>1. PICK k \in Conns : k = connecting
      BY <2>2 DEF Types
    <3> DEFINE D == [call[k] EXCEPT !.finished = TRUE, !.err = TRUE]
               W == [work[k] EXCEPT !.stopped = TRUE]
    <3>2. call' = [call EXCEPT ![k] = D] /\ work' = [work EXCEPT ![k] = W]
      BY <2>2, <3>1, Typed DEF Clear, Types
    <3>3. D \in Calls /\ D.waiters = call[k].waiters /\ D.finished
      BY Typed DEF Calls
    <3>4. /\ W \in Works /\ W.pc = work[k].pc /\ W.cred = work[k].cred /\ W.stopped
          /\ W.rejects = work[k].rejects /\ W.tried = work[k].tried
          /\ W.evidence = work[k].evidence /\ W.line = work[k].line
      BY Typed DEF Works
    <3> HIDE DEF D, W
    <3>5. /\ call'[k] = D /\ \A j \in Conns : j # k => call'[j] = call[j]
          /\ work'[k] = W /\ \A j \in Conns : j # k => work'[j] = work[j]
          /\ call' \in [Conns -> Calls] /\ work' \in [Conns -> Works]
      BY <3>2, <3>3, <3>4 DEF Types
    <3>6. \A j \in Conns : j # k => j # connecting
      BY <3>1
    <3>7. /\ call[k].finished \in BOOLEAN /\ work[k].stopped \in BOOLEAN
          /\ \A j \in Conns : call[j].finished \in BOOLEAN /\ work[j].stopped \in BOOLEAN
      BY Typed
    <3>8. ASSUME NEW j \in Conns
          PROVE  /\ call'[j].waiters = call[j].waiters
                 /\ call'[j].finished = (call[j].finished \/ j = connecting)
                 /\ work'[j].pc = work[j].pc /\ work'[j].cred = work[j].cred
                 /\ work'[j].stopped = (work[j].stopped \/ j = connecting)
                 /\ work'[j].rejects = work[j].rejects /\ work'[j].tried = work[j].tried
                 /\ work'[j].evidence = work[j].evidence /\ work'[j].line = work[j].line
      <4>1. CASE j = k
        BY <3>1, <3>3, <3>4, <3>5, <3>7, <4>1
      <4>2. CASE j # k
        BY <3>5, <3>6, <3>7, <4>2
      <4> QED
        BY <4>1, <4>2
    <3> QED
      BY <3>5, <3>8
  <2> QED
    BY <2>1, <2>2
<1>2. Types'
  BY <1>0, <1>1 DEF Types, provider
<1>3. WaitersCounted'
  <2>1. \A j \in Conns : Waiting(j)' = Waiting(j)
    BY <1>0 DEF Waiting, At
  <2> QED
    BY <1>1, <2>1 DEF WaitersCounted
<1>4. FlightInv'
  <2>1. ASSUME NEW j \in Conns, work'[j].pc \in Running, ~work'[j].stopped
        PROVE  FALSE
    BY <1>1, <2>1 DEF FlightInv
  <2>2. ASSUME NEW q \in Procs, At(q, "waiting")'
        PROVE  caller'[q].conn \in Conns /\ call'[caller'[q].conn].finished
    BY <1>0, <1>1, <2>2 DEF FlightInv, At
  <2> QED
    BY <1>0, <2>1, <2>2 DEF FlightInv
<1>5. NoOrphanTunnel'
  BY <1>0, <1>1 DEF NoOrphanTunnel, Types
<1>6. SessionsInv' /\ JudgedInv'
  BY <1>0, <1>1 DEF SessionsInv, JudgedInv, provider
<1>7. CallersInv'
  BY <1>0, <1>1, Typed DEF CallersInv, At, provider
<1> QED
  BY <1>2, <1>3, <1>4, <1>5, <1>6, <1>7

-----------------------------------------------------------------------------
(* The invariant holds in every state *)

\* Every step of Next keeps the invariant.
LEMMA ManagerStep == ManagerInv /\ [Next]_vars => ManagerInv'
<1> SUFFICES ASSUME ManagerInv, [Next]_vars PROVE ManagerInv'
  OBVIOUS
<1>1. CASE UNCHANGED vars
  <2> USE <1>1 DEF vars, provider, manager, counters
  <2>1. WaitersCounted'
    BY DEF ManagerInv, WaitersCounted, Waiting, At
  <2> QED
    BY <2>1 DEF ManagerInv, Types, FlightInv, NoOrphanTunnel, SessionsInv, CallersInv,
                JudgedInv, At
<1>2. CASE Serves \/ Withdraws
  BY <1>2, ServesKeeps, WithdrawsKeeps
<1>3. CASE ManagerClose \/ Reset
  <2>1. /\ Clear /\ closed' \in BOOLEAN /\ faults' \in Nat
        /\ UNCHANGED <<provider, failed, caller, calls>>
    <3>1. CASE ManagerClose
      BY <3>1 DEF ManagerClose, ManagerInv, Types, counters
    <3>2. CASE Reset
      BY <3>2 DEF Reset, ManagerInv, Types
    <3> QED
      BY <1>3, <3>1, <3>2
  <2> QED
    BY <2>1, ClearKeeps
<1>4. ASSUME NEW p \in Procs,
             CallerStep(p) \/ BeginTunnel(p) \/ CallerLeaves(p) \/ BeginSwitchLine(p)
      PROVE  ManagerInv'
  BY <1>4, CallerEndsKeeps, CredentialGivenKeeps, TunnelReusedKeeps, JoinsKeeps,
     StartsConnectKeeps, WaitEndsKeeps, BeginTunnelKeeps, CallerLeavesKeeps,
     BeginSwitchLineKeeps
     DEF CallerStep
<1>5. ASSUME NEW k \in Conns, WorkerStep(k) \/ BudgetEnds(k)
      PROVE  ManagerInv'
  BY <1>5, GivesUpKeeps, TryFailsKeeps, TryUsesKeeps, DialWinsKeeps, DialFailsKeeps,
     AuthAcceptsKeeps, AuthFailsKeeps, SessionRefusedKeeps, NotYetRefusedKeeps,
     BackoffKeeps, PublishesKeeps, FinishesWithoutKeeps, BudgetEndsKeeps
     DEF WorkerStep
<1>6. ASSUME NEW k \in Conns, TunnelDies(k)
      PROVE  ManagerInv'
  BY <1>6, LossKeeps DEF TunnelDies, ManagerInv, Types
<1>7. ASSUME NEW l \in Lines, CooldownEnds(l)
      PROVE  ManagerInv'
  BY <1>7, LossKeeps DEF CooldownEnds, ManagerInv, Types, counters
<1> QED
  BY <1>1, <1>2, <1>3, <1>4, <1>5, <1>6, <1>7 DEF Next

\* In every state: the types, a count of waiters for each call that is the
\* number of callers in waitConnect, one connect under way at most, one session
\* per generation, and callers that were given what they asked for.
THEOREM ManagerInvariant == Spec => []ManagerInv
<1> QED
  BY ManagerInit, ManagerStep, PTL DEF Spec

\* No connect runs without a caller that waits for it, no caller waits for a
\* call that nobody works on, and no tunnel is left open outside the manager,
\* whatever calls are abandoned, reset or closed on the way.
THEOREM ConnectsAreOwned == Spec => []FlightOwned
<1>1. ManagerInv => FlightOwned
  <2> SUFFICES ASSUME ManagerInv PROVE FlightOwned
    OBVIOUS
  <2> USE DEF ManagerInv
  <2>1. ASSUME NEW k \in Conns
        PROVE  DOMAIN work[k] = DOMAIN Ended
    <3>1. work[k] \in Works /\ Ended \in Works
      BY Typed
    <3> QED
      BY <3>1 DEF Works
  <2>2. ASSUME NEW p \in Procs
        PROVE  DOMAIN caller[p] = DOMAIN Idle
    <3>1. caller[p] \in Callers /\ Idle \in Callers
      BY Typed
    <3> QED
      BY <3>1 DEF Callers
  <2>3. TypeOK
    BY <2>1, <2>2, Typed DEF TypeOK, Types, Calls, JudgedInv
  <2>4. SingleFlight
    <3>1. ASSUME NEW p \in Procs, At(p, "waiting"), ~call[caller[p].conn].finished
          PROVE  connecting = caller[p].conn /\ work[caller[p].conn].pc \in Running
      BY <3>1, ManagerAssumption DEF FlightInv
    <3> QED
      BY <3>1 DEF SingleFlight, FlightInv
  <2> QED
    BY <2>3, <2>4 DEF FlightOwned
<1> QED
  BY <1>1, ManagerInvariant, PTL

\* The tunnel a caller is given belongs to the very session it asked with, which
\* was not yet declared dead when it called.
THEOREM TunnelIsOfSession == Spec => []TunnelOfSession
<1>1. ManagerInv => TunnelOfSession
  BY DEF ManagerInv, CallersInv, TunnelOfSession
<1> QED
  BY <1>1, ManagerInvariant, PTL

\* A connect gives up no session but the one that is served and that its lines
\* rejected.
THEOREM SessionGivenUpOnEvidence == Spec => GivenUpOnEvidence
<1> DEFINE Given == \A k \in Conns :
             session # 0 /\ session' = 0
               /\ work[k].pc = "judge" /\ work'[k].pc = "backoff"
               => work[k].cred.gen = session /\ work[k].evidence = {sid}
<1>1. ManagerInv /\ [Next]_vars => Given
  <2> SUFFICES ASSUME ManagerInv, [Next]_vars, NEW k \in Conns,
                      session # 0, session' = 0,
                      work[k].pc = "judge", work'[k].pc = "backoff"
               PROVE  work[k].cred.gen = session /\ work[k].evidence = {sid}
    OBVIOUS
  <2>1. PICK j \in Conns : SessionRefused(j)
    <3>1. ~(UNCHANGED session)
      OBVIOUS
    <3>2. ~(UNCHANGED work)
      OBVIOUS
    <3>3. ~(\/ Serves \/ Withdraws \/ ManagerClose \/ Reset
            \/ \E l \in Lines : CooldownEnds(l))
      BY <3>1, <3>2
         DEF provider, manager, Serves, Withdraws, ManagerClose, Reset, CooldownEnds
    <3>4. ~\E p \in Procs : \/ CallerStep(p) \/ BeginTunnel(p)
                            \/ CallerLeaves(p) \/ BeginSwitchLine(p)
      BY <3>1
         DEF provider, manager, CallerStep, BeginTunnel, CallerLeaves,
             BeginSwitchLine, LoopRefused, CredentialFails, CredentialGiven,
             LockClosed, TunnelReused, Joins, StartsConnect, WaitEnds, Done,
             EndSwitchLine, ReturnsError, Returns
    <3>5. ASSUME NEW j \in Conns, WorkerStep(j) \/ BudgetEnds(j) \/ TunnelDies(j)
          PROVE  SessionRefused(j)
      BY <3>1, <3>5
         DEF provider, manager, WorkerStep, GivesUp, TryFails, TryUses, DialWins,
             DialFails, AuthAccepts, AuthFails, NotYetRefused, Backoff, Publishes,
             FinishesWithout, ConnectOnly, BudgetEnds, TunnelDies
    <3>6. ~(UNCHANGED vars)
      BY <3>1 DEF vars, provider
    <3> QED
      BY <3>3, <3>4, <3>5, <3>6 DEF Next
  <2>2. j = k
    BY <2>1 DEF SessionRefused, ManagerInv, Types
  <2>3. work[k].cred.gen = session /\ work[k].rejects # {}
    BY <2>1, <2>2 DEF SessionRefused, Refused
  <2>4. work[k].cred.sid = sid
    BY <2>3 DEF ManagerInv, SessionsInv
  <2> QED
    BY <2>3, <2>4 DEF ManagerInv, JudgedInv
<1> QED
  BY <1>1, ManagerInvariant, PTL DEF Spec, GivenUpOnEvidence

-----------------------------------------------------------------------------
(* The manager is one of those of TunnelGroups *)

\* A session that is served, used by an attempt or that of a tunnel has an id.
ServedInv ==
  /\ session # 0 => sid # 0
  /\ \A k \in Conns : work[k].pc \in {"dial", "auth", "built"} => work[k].cred.sid # 0
  /\ cur # NoConn => work[cur].cred.sid # 0

\* Where connect k uses the session it has read.
UsesRead(k) == work[k].pc \in {"dial", "auth", "built"}

\* What is seen, by its four fields.
Of(c, t, w, s) == [closed |-> c, tunnel |-> t, connect |-> w, sid |-> s]
TunnelSeen  == IF cur \in alive THEN work[cur].cred.sid ELSE 0
ConnectSeen == IF connecting = NoConn THEN "no"
               ELSE IF Attempting THEN "building" ELSE "begun"
SidSeen     == IF Attempting THEN work[connecting].cred.sid ELSE 0

LEMMA SeenIs ==
  /\ Seen = Of(closed, TunnelSeen, ConnectSeen, SidSeen)
  /\ Seen' = Of(closed', TunnelSeen', ConnectSeen', SidSeen')
  /\ Seen.closed = closed /\ Seen.tunnel = TunnelSeen
  /\ Seen.connect = ConnectSeen /\ Seen.sid = SidSeen
<1>1. /\ Seen = Of(closed, TunnelSeen, ConnectSeen, SidSeen)
      /\ Seen' = Of(closed', TunnelSeen', ConnectSeen', SidSeen')
  BY DEF Seen, Of, TunnelSeen, ConnectSeen, SidSeen
<1> QED
  BY <1>1 DEF Of

\* What the updates of TunnelGroups make of those fields.
LEMMA OfTunnel ==
  ASSUME NEW c, NEW t, NEW w, NEW s, NEW u
  PROVE  [Of(c, t, w, s) EXCEPT !.tunnel = u] = Of(c, u, w, s)
  BY DEF Of

\* The manager takes such a step, or nobody sees a difference.
MayBeSeen == [Groups!ManagerNext(Groups!Root, sid)]_<<Seen>>

\* A caller drops a tunnel and joins or begins a connect.
LEMMA SeenAsks ==
  ASSUME closed' = closed, TunnelSeen' = 0, SidSeen' = SidSeen,
         ConnectSeen' = IF ConnectSeen = "no" THEN "begun" ELSE ConnectSeen
  PROVE  MayBeSeen
<1> DEFINE u == IF ConnectSeen = "no" THEN "begun" ELSE ConnectSeen
<1>1. Seen' = Of(closed, 0, u, SidSeen) /\ Seen.connect = ConnectSeen
  BY SeenIs
<1>2. Seen' = [Seen EXCEPT !.tunnel = 0, !.connect = u]
  <2> HIDE DEF u
  <2>1. [Of(closed, TunnelSeen, ConnectSeen, SidSeen) EXCEPT !.tunnel = 0]
          = Of(closed, 0, ConnectSeen, SidSeen)
    BY DEF Of
  <2>2. [Of(closed, 0, ConnectSeen, SidSeen) EXCEPT !.connect = u] = Of(closed, 0, u, SidSeen)
    BY DEF Of
  <2> QED
    BY <1>1, <2>1, <2>2, SeenIs
<1>3. Seen' = [Seen EXCEPT !.tunnel = 0, !.connect = IF @ = "no" THEN "begun" ELSE @]
  BY <1>1, <1>2
<1>4. <<Seen'>> = [<<Seen>> EXCEPT ![1].tunnel = 0,
                                   ![1].connect = IF @ = "no" THEN "begun" ELSE @]
  BY <1>3
<1> QED
  BY <1>4 DEF MayBeSeen, Groups!ManagerNext, Groups!Asks, Groups!Root

\* An attempt reads the credential.
LEMMA SeenReads ==
  ASSUME closed' = closed, TunnelSeen' = TunnelSeen, ConnectSeen = "begun", sid # 0,
         ConnectSeen' = "building", SidSeen' = sid
  PROVE  MayBeSeen
<1>1. [Of(closed, TunnelSeen, ConnectSeen, SidSeen) EXCEPT !.connect = "building"]
        = Of(closed, TunnelSeen, "building", SidSeen)
  BY DEF Of
<1>a. [Of(closed, TunnelSeen, "building", SidSeen) EXCEPT !.sid = sid]
        = Of(closed, TunnelSeen, "building", sid)
  BY DEF Of
<1>2. Seen' = [Seen EXCEPT !.connect = "building", !.sid = sid] /\ Seen.connect = "begun"
  BY <1>1, <1>a, SeenIs
<1>3. <<Seen'>> = [<<Seen>> EXCEPT ![1].connect = "building", ![1].sid = sid]
  BY <1>2
<1> QED
  BY <1>2, <1>3 DEF MayBeSeen, Groups!ManagerNext, Groups!ConnectReads, Groups!Root

\* The connect ends with the tunnel it built, before another attempt, or for good.
LEMMA SeenEnds ==
  ASSUME closed' = closed, ConnectSeen # "no", SidSeen' = 0,
         \/ ConnectSeen = "building" /\ ConnectSeen' = "no" /\ TunnelSeen' = SidSeen
         \/ ConnectSeen' \in {"no", "begun"} /\ TunnelSeen' = TunnelSeen
  PROVE  MayBeSeen
<1> DEFINE S == Of(closed, TunnelSeen, ConnectSeen, SidSeen)
<1>1. Seen = S /\ Seen.connect = ConnectSeen /\ Seen.sid = SidSeen
  BY SeenIs
<1>2. Groups!GivenUp(Seen) = Of(closed, TunnelSeen, "no", 0)
  <2>1. [S EXCEPT !.connect = "no"] = Of(closed, TunnelSeen, "no", SidSeen)
    BY DEF Of
  <2>2. [Of(closed, TunnelSeen, "no", SidSeen) EXCEPT !.sid = 0] = Of(closed, TunnelSeen, "no", 0)
    BY DEF Of
  <2> QED
    BY <1>1, <2>1, <2>2 DEF Groups!GivenUp
<1>3. CASE ConnectSeen = "building" /\ ConnectSeen' = "no" /\ TunnelSeen' = SidSeen
  <2>1. [Of(closed, TunnelSeen, "no", 0) EXCEPT !.tunnel = SidSeen] = Of(closed, SidSeen, "no", 0)
    BY OfTunnel
  <2>2. Seen' = [Groups!GivenUp(Seen) EXCEPT !.tunnel = Seen.sid]
    BY <1>1, <1>2, <1>3, <2>1, SeenIs
  <2>3. <<Seen'>> = [<<Seen>> EXCEPT ![1] = [Groups!GivenUp(@) EXCEPT !.tunnel = Seen.sid]]
    BY <2>2
  <2> QED
    BY <1>1, <1>3, <2>3 DEF MayBeSeen, Groups!ManagerNext, Groups!ConnectEnds, Groups!Root
<1>4. CASE ConnectSeen' = "no" /\ TunnelSeen' = TunnelSeen
  <2>1. Seen' = Groups!GivenUp(Seen)
    BY <1>2, <1>4, SeenIs
  <2>2. <<Seen'>> = [<<Seen>> EXCEPT ![1] = Groups!GivenUp(@)]
    BY <2>1
  <2> QED
    BY <1>1, <2>2 DEF MayBeSeen, Groups!ManagerNext, Groups!ConnectEnds, Groups!Root
<1>5. CASE ConnectSeen' = "begun" /\ TunnelSeen' = TunnelSeen
  <2>1. [S EXCEPT !.connect = "begun"] = Of(closed, TunnelSeen, "begun", SidSeen)
    BY DEF Of
  <2>a. [Of(closed, TunnelSeen, "begun", SidSeen) EXCEPT !.sid = 0] = Of(closed, TunnelSeen, "begun", 0)
    BY DEF Of
  <2>2. Seen' = [Seen EXCEPT !.connect = "begun", !.sid = 0]
    BY <1>1, <1>5, <2>1, <2>a, SeenIs
  <2>3. <<Seen'>> = [<<Seen>> EXCEPT ![1].connect = "begun", ![1].sid = 0]
    BY <2>2
  <2> QED
    BY <1>1, <2>3 DEF MayBeSeen, Groups!ManagerNext, Groups!ConnectEnds, Groups!Root
<1> QED
  BY <1>3, <1>4, <1>5

\* The tunnel dies, or another one that nobody sees.
LEMMA SeenDies ==
  ASSUME closed' = closed, ConnectSeen' = ConnectSeen, SidSeen' = SidSeen,
         TunnelSeen' \in {TunnelSeen, 0}
  PROVE  MayBeSeen
<1>1. CASE TunnelSeen' = TunnelSeen
  BY <1>1, SeenIs DEF MayBeSeen
<1>2. CASE TunnelSeen' = 0 /\ TunnelSeen # 0
  <2>1. [Of(closed, TunnelSeen, ConnectSeen, SidSeen) EXCEPT !.tunnel = 0]
          = Of(closed, 0, ConnectSeen, SidSeen)
    BY OfTunnel
  <2>2. Seen' = [Seen EXCEPT !.tunnel = 0] /\ Seen.tunnel # 0
    BY <1>2, <2>1, SeenIs
  <2>3. <<Seen'>> = [<<Seen>> EXCEPT ![1].tunnel = 0]
    BY <2>2
  <2> QED
    BY <2>2, <2>3 DEF MayBeSeen, Groups!ManagerNext, Groups!TunnelDies, Groups!Root
<1> QED
  BY <1>1, <1>2

\* Everything is cut.
LEMMA SeenCut ==
  ASSUME NEW forGood \in BOOLEAN, closed' = (closed \/ forGood),
         TunnelSeen' = 0, ConnectSeen' = "no", SidSeen' = 0
  PROVE  MayBeSeen
<1> DEFINE u == closed \/ forGood
<1>1. Seen.closed = closed
  BY SeenIs
<1>2. Seen' = [Seen EXCEPT !.connect = "no", !.sid = 0, !.tunnel = 0, !.closed = u]
  <2>1. Seen' = Of(u, 0, "no", 0)
    BY SeenIs
  <2> HIDE DEF u
  <2>2. [Of(closed, TunnelSeen, ConnectSeen, SidSeen) EXCEPT !.connect = "no"]
          = Of(closed, TunnelSeen, "no", SidSeen)
    BY DEF Of
  <2>3. [Of(closed, TunnelSeen, "no", SidSeen) EXCEPT !.sid = 0] = Of(closed, TunnelSeen, "no", 0)
    BY DEF Of
  <2>4. [Of(closed, TunnelSeen, "no", 0) EXCEPT !.tunnel = 0] = Of(closed, 0, "no", 0)
    BY DEF Of
  <2>5. [Of(closed, 0, "no", 0) EXCEPT !.closed = u] = Of(u, 0, "no", 0)
    BY DEF Of
  <2>6. [Seen EXCEPT !.connect = "no", !.sid = 0] = Of(closed, TunnelSeen, "no", 0)
    BY <2>2, <2>3, SeenIs
  <2>7. [Seen EXCEPT !.connect = "no", !.sid = 0, !.tunnel = 0] = Of(closed, 0, "no", 0)
    BY <2>4, <2>6
  <2> QED
    BY <2>1, <2>5, <2>7
<1>3. Seen' = [Seen EXCEPT !.connect = "no", !.sid = 0, !.tunnel = 0, !.closed = @ \/ forGood]
  BY <1>1, <1>2
<1>4. <<Seen'>> = [<<Seen>> EXCEPT ![1].connect = "no", ![1].sid = 0, ![1].tunnel = 0,
                                   ![1].closed = @ \/ forGood]
  BY <1>3
<1> QED
  BY <1>4 DEF MayBeSeen, Groups!ManagerNext, Groups!Cut, Groups!Root

\* Nobody outside sees what callers, the provider and lines do by themselves.
LEMMA OutsideSeen ==
  ASSUME ManagerInv, ServedInv, UNCHANGED <<manager, work>>, alive' \subseteq alive,
         \/ UNCHANGED provider
         \/ session' = 0 \/ sid' \in Nat \ {0}
  PROVE  ServedInv' /\ MayBeSeen
<1> USE DEF manager
<1>1. ServedInv'
  BY DEF ServedInv, provider
<1>2. ConnectSeen' = ConnectSeen /\ SidSeen' = SidSeen
  BY DEF ConnectSeen, SidSeen, Attempting
<1>3. TunnelSeen' \in {TunnelSeen, 0}
  BY DEF TunnelSeen
<1> QED
  BY <1>1, <1>2, <1>3, SeenDies

\* A caller that finds no usable tunnel.
LEMMA CallerConnectsSeen ==
  ASSUME ManagerInv, ServedInv, NEW p \in Procs, Joins(p) \/ StartsConnect(p)
  PROVE  ServedInv' /\ MayBeSeen
<1> USE ManagerAssumption DEF ManagerInv, Types
<1>1. /\ cur' = NoConn /\ UNCHANGED <<session, sid, closed>>
      /\ TunnelSeen' = 0
  BY DEF Joins, StartsConnect, MustConnect, provider, TunnelSeen
<1>2. CASE Joins(p)
  <2>1. UNCHANGED <<connecting, work>> /\ connecting # NoConn
    BY <1>2 DEF Joins
  <2>2. ConnectSeen' = ConnectSeen /\ ConnectSeen # "no" /\ SidSeen' = SidSeen
    BY <2>1 DEF ConnectSeen, SidSeen, Attempting
  <2>3. ServedInv'
    BY <1>1, <2>1 DEF ServedInv
  <2> QED
    BY <1>1, <2>2, <2>3, SeenAsks
<1>3. CASE StartsConnect(p)
  <2>1. PICK k \in Conns :
          /\ connecting = NoConn /\ connecting' = k
          /\ work' = [work EXCEPT ![k] = [Ended EXCEPT !.pc = "try", !.bound = caller[p].expect]]
    BY <1>3 DEF StartsConnect
  <2>2. work'[k].pc = "try" /\ \A j \in Conns : j # k => work'[j] = work[j]
    BY <2>1 DEF Ended
  <2>3. /\ ConnectSeen = "no" /\ ConnectSeen' = "begun"
        /\ SidSeen = 0 /\ SidSeen' = 0
    BY <2>1, <2>2 DEF ConnectSeen, SidSeen, Attempting
  <2>4. ServedInv'
    BY <1>1, <2>2 DEF ServedInv
  <2> QED
    BY <1>1, <2>3, <2>4, SeenAsks
<1> QED
  BY <1>2, <1>3

\* The last waiter to leave gives the connect up.
LEMMA WaitEndsSeen ==
  ASSUME ManagerInv, ServedInv, NEW p \in Procs, WaitEnds(p)
  PROVE  ServedInv' /\ MayBeSeen
<1> USE DEF ManagerInv, Types
<1>1. /\ UNCHANGED <<session, sid, closed, cur, alive>>
      /\ connecting' \in {connecting, NoConn}
  BY DEF WaitEnds, LeavesCall, provider
<1>2. \A j \in Conns : work'[j].pc = work[j].pc /\ work'[j].cred = work[j].cred
  <2>1. PICK k \in Conns :
          \E b : work' = [work EXCEPT ![k] = [work[k] EXCEPT !.stopped = b]]
    BY DEF WaitEnds, LeavesCall, FlightInv
  <2> QED
    BY <2>1, Typed DEF Works
<1>3. ServedInv'
  BY <1>1, <1>2 DEF ServedInv
<1>4. TunnelSeen' = TunnelSeen
  BY <1>1, <1>2 DEF TunnelSeen
<1>5. CASE connecting' = connecting
  <2>1. ConnectSeen' = ConnectSeen /\ SidSeen' = SidSeen
    BY <1>2, <1>5 DEF ConnectSeen, SidSeen, Attempting
  <2> QED
    BY <1>1, <1>3, <1>4, <2>1, SeenDies
<1>6. CASE connecting' = NoConn /\ connecting # NoConn
  <2>1. ConnectSeen' = "no" /\ ConnectSeen # "no" /\ SidSeen' = 0
    BY <1>6 DEF ConnectSeen, SidSeen, Attempting
  <2> QED
    BY <1>1, <1>3, <1>4, <2>1, SeenEnds
<1> QED
  BY <1>1, <1>5, <1>6

\* The connect of call k goes on: what is seen depends on whether it is the one
\* under way and on whether it has read its credential before and after.
LEMMA WorkerSeen ==
  ASSUME ManagerInv, ServedInv, NEW k \in Conns,
         work[k].pc \in Running, work'[k].pc \in Running,
         \A j \in Conns : j # k => work'[j] = work[j],
         alive' \subseteq Conns, \A j \in Conns : j # k => (j \in alive' <=> j \in alive),
         UNCHANGED manager,
         UNCHANGED <<session, sid>> \/ session' = 0,
         UsesRead(k)' => \/ UsesRead(k) /\ work'[k].cred = work[k].cred
                         \/ ~UsesRead(k) /\ work'[k].cred.sid = sid /\ session # 0
  PROVE  ServedInv' /\ MayBeSeen
<1> USE ManagerAssumption DEF ManagerInv, Types, manager, UsesRead
<1>1. cur # k
  BY DEF FlightInv, Running
<1>2. TunnelSeen' = TunnelSeen
  <2>1. cur \in alive' <=> cur \in alive
    BY <1>1
  <2>2. cur \in alive => work'[cur] = work[cur]
    BY <1>1
  <2> QED
    BY <2>1, <2>2 DEF TunnelSeen
<1>3. ServedInv'
  <2>1. session' # 0 => sid' # 0
    BY DEF ServedInv
  <2>2. \A j \in Conns : work'[j].pc \in {"dial", "auth", "built"} => work'[j].cred.sid # 0
    BY DEF ServedInv
  <2>3. cur' # NoConn => work'[cur'].cred.sid # 0
    BY <1>1 DEF ServedInv
  <2> QED
    BY <2>1, <2>2, <2>3 DEF ServedInv
<1>4. CASE connecting # k
  <2>1. ConnectSeen' = ConnectSeen /\ SidSeen' = SidSeen
    BY <1>4 DEF ConnectSeen, SidSeen, Attempting
  <2> QED
    BY <1>2, <1>3, <2>1, SeenDies
<1>5. CASE connecting = k
  <2>1. CASE Attempting /\ Attempting'
    <3>1. ConnectSeen' = ConnectSeen /\ SidSeen' = SidSeen
      BY <1>5, <2>1 DEF ConnectSeen, SidSeen, Attempting
    <3> QED
      BY <1>2, <1>3, <3>1, SeenDies
  <2>2. CASE ~Attempting /\ ~Attempting'
    <3>1. ConnectSeen' = ConnectSeen /\ SidSeen' = SidSeen
      BY <1>5, <2>2 DEF ConnectSeen, SidSeen
    <3> QED
      BY <1>2, <1>3, <3>1, SeenDies
  <2>3. CASE Attempting /\ ~Attempting'
    <3>1. ConnectSeen' = "begun" /\ ConnectSeen = "building" /\ SidSeen' = 0
      BY <1>5, <2>3 DEF ConnectSeen, SidSeen
    <3> QED
      BY <1>2, <1>3, <3>1, SeenEnds
  <2>4. CASE ~Attempting /\ Attempting'
    <3>1. /\ ConnectSeen' = "building" /\ ConnectSeen = "begun" /\ SidSeen' = sid
          /\ session # 0
      BY <1>5, <2>4 DEF ConnectSeen, SidSeen, Attempting
    <3>2. sid # 0
      BY <3>1 DEF ServedInv
    <3> QED
      BY <1>2, <1>3, <3>1, <3>2, SeenReads
  <2> QED
    BY <2>1, <2>2, <2>3, <2>4
<1> QED
  BY <1>4, <1>5

\* Every step of connect is one of those.
LEMMA ConnectSteps ==
  ASSUME ManagerInv, ServedInv, NEW k \in Conns,
         \/ GivesUp(k) \/ TryFails(k) \/ TryUses(k) \/ DialWins(k) \/ DialFails(k)
         \/ AuthAccepts(k) \/ AuthFails(k) \/ SessionRefused(k) \/ NotYetRefused(k)
         \/ Backoff(k) \/ BudgetEnds(k)
  PROVE  ServedInv' /\ MayBeSeen
<1> USE DEF ManagerInv, Types
<1>1. work[k].pc \in Running
  BY DEF GivesUp, TryFails, TryUses, DialWins, DialFails, AuthAccepts, AuthFails,
         SessionRefused, NotYetRefused, Backoff, BudgetEnds, Doing, Running
<1>2. \E W : work' = [work EXCEPT ![k] = W]
  <2>1. CASE TryFails(k) \/ TryUses(k) \/ DialFails(k) \/ SessionRefused(k)
    BY <2>1 DEF TryFails, TryUses, DialFails, SessionRefused
  <2>2. CASE NotYetRefused(k) \/ Backoff(k) \/ BudgetEnds(k)
    BY <2>2 DEF NotYetRefused, Backoff, BudgetEnds
  <2>3. CASE GivesUp(k) \/ AuthAccepts(k)
    BY <2>3 DEF GivesUp, AuthAccepts, ConnectReturns
  <2>4. CASE DialWins(k) \/ AuthFails(k)
    BY <2>4 DEF DialWins, AuthFails
  <2> QED
    BY <2>1, <2>2, <2>3, <2>4
<1>3. \A j \in Conns : j # k => work'[j] = work[j]
  BY <1>2
<1>4. /\ alive' \subseteq Conns /\ \A j \in Conns : j # k => (j \in alive' <=> j \in alive)
      /\ UNCHANGED manager
      /\ UNCHANGED <<session, sid>> \/ session' = 0
  BY DEF GivesUp, TryFails, TryUses, DialWins, DialFails, AuthAccepts, AuthFails,
         SessionRefused, NotYetRefused, Backoff, BudgetEnds, ConnectOnly, provider, manager
<1>5. work'[k].pc \in Running /\ (UsesRead(k)' =>
        \/ UsesRead(k) /\ work'[k].cred = work[k].cred
        \/ ~UsesRead(k) /\ work'[k].cred.sid = sid /\ session # 0)
  <2> USE DEF UsesRead
  <2>0. work[k] \in Works
    BY Typed
  <2>1. CASE GivesUp(k)
    BY <2>1, <2>0 DEF GivesUp, ConnectReturns, Ended, Running
  <2>2. CASE TryFails(k)
    BY <2>2, <2>0 DEF TryFails, Works, Running
  <2>3. CASE TryUses(k)
    <3>1. work'[k].pc = "dial" /\ work'[k].cred = Served /\ work[k].pc = "try" /\ session # 0
      BY <2>3, <2>0 DEF TryUses, Works, Doing, Answers
    <3> QED
      BY <3>1 DEF Served, Running
  <2>4. CASE DialWins(k)
    <3>1. PICK l : work' = [work EXCEPT ![k].pc = "auth", ![k].line = l]
      BY <2>4 DEF DialWins
    <3>2. work[k].pc = "dial"
      BY <2>4 DEF DialWins
    <3> QED
      BY <3>1, <3>2, <2>0 DEF Works, Running
  <2>5. CASE DialFails(k)
    BY <2>5, <2>0 DEF DialFails, Works, Running
  <2>6. CASE AuthAccepts(k)
    BY <2>6, <2>0 DEF AuthAccepts, ConnectReturns, Ended, Doing, Running
  <2>7. CASE AuthFails(k)
    <3>1. PICK r : work' = [work EXCEPT
                    ![k].pc = "judge", ![k].tried = @ \cup {work[k].line},
                    ![k].rejects = @ \cup r,
                    ![k].evidence = IF r = {} THEN @ ELSE @ \cup {work[k].cred.sid}]
      BY <2>7 DEF AuthFails
    <3>2. work'[k].pc = "judge"
      BY <3>1, <2>0 DEF Works
    <3> QED
      BY <3>2 DEF Running
  <2>8. CASE SessionRefused(k)
    BY <2>8, <2>0 DEF SessionRefused, Works, Running
  <2>9. CASE NotYetRefused(k)
    BY <2>9, <2>0 DEF NotYetRefused, Works, Running
  <2>10. CASE Backoff(k)
    BY <2>10, <2>0 DEF Backoff, Works, Running
  <2>11. CASE BudgetEnds(k)
    <3>1. work'[k].pc = work[k].pc /\ work'[k].cred = work[k].cred
      BY <2>11, <2>0 DEF BudgetEnds, Works
    <3> QED
      BY <3>1, <1>1
  <2> QED
    BY <2>1, <2>2, <2>3, <2>4, <2>5, <2>6, <2>7, <2>8, <2>9, <2>10, <2>11
<1> HIDE DEF ManagerInv, Types
<1> QED
  BY <1>1, <1>3, <1>4, <1>5, WorkerSeen

\* The tunnel is handed over, or one that has died meanwhile.
LEMMA PublishesSeen ==
  ASSUME ManagerInv, ServedInv, NEW k \in Conns, Publishes(k)
  PROVE  ServedInv' /\ MayBeSeen
<1> USE ManagerAssumption DEF ManagerInv, Types
<1>1. /\ connecting = k /\ connecting' = NoConn /\ cur = NoConn /\ cur' = k
      /\ work[k].pc = "built" /\ UNCHANGED <<session, sid, closed, alive>>
  BY DEF Publishes, Unwanted, FlightInv, provider
<1>2. /\ work'[k].pc = "ended" /\ work'[k].cred = work[k].cred
      /\ \A j \in Conns : j # k => work'[j] = work[j]
  BY Typed DEF Publishes, Works
<1>3. ServedInv'
  BY <1>1, <1>2 DEF ServedInv
<1>4. /\ ConnectSeen = "building" /\ SidSeen = work[k].cred.sid /\ TunnelSeen = 0
      /\ ConnectSeen' = "no" /\ SidSeen' = 0
  BY <1>1 DEF ConnectSeen, SidSeen, TunnelSeen, Attempting
<1>5. TunnelSeen' = IF k \in alive THEN work[k].cred.sid ELSE 0
  BY <1>1, <1>2 DEF TunnelSeen
<1> QED
  BY <1>1, <1>3, <1>4, <1>5, SeenEnds

\* The connect has nothing to hand over; nobody saw one that was given up before.
LEMMA FinishesSeen ==
  ASSUME ManagerInv, ServedInv, NEW k \in Conns, FinishesWithout(k)
  PROVE  ServedInv' /\ MayBeSeen
<1> USE ManagerAssumption DEF ManagerInv, Types
<1>1. /\ work[k].pc \in {"gaveUp", "built"} /\ alive' = alive \ {k}
      /\ work' = [work EXCEPT ![k] = Ended]
      /\ connecting' = IF connecting = k THEN NoConn ELSE connecting
      /\ UNCHANGED <<session, sid, closed, cur>>
  BY DEF FinishesWithout, provider
<1>2. work'[k].pc = "ended" /\ \A j \in Conns : j # k => work'[j] = work[j]
  BY <1>1 DEF Ended
<1>3. cur # k
  BY <1>1 DEF FlightInv
<1>4. ServedInv'
  BY <1>1, <1>2, <1>3 DEF ServedInv
<1>5. TunnelSeen' = TunnelSeen
  BY <1>1, <1>2, <1>3 DEF TunnelSeen
<1>6. CASE connecting = k
  <2>1. ConnectSeen # "no" /\ ConnectSeen' = "no" /\ SidSeen' = 0
    BY <1>1, <1>6 DEF ConnectSeen, SidSeen, Attempting
  <2> QED
    BY <1>1, <1>4, <1>5, <2>1, SeenEnds
<1>7. CASE connecting # k
  <2>1. ConnectSeen' = ConnectSeen /\ SidSeen' = SidSeen
    BY <1>1, <1>2, <1>7 DEF ConnectSeen, SidSeen, Attempting
  <2> QED
    BY <1>1, <1>4, <1>5, <2>1, SeenDies
<1> QED
  BY <1>6, <1>7

\* Close and Reset leave nothing to be seen.
LEMMA ClearSeen ==
  ASSUME ManagerInv, ServedInv, ManagerClose \/ Reset
  PROVE  ServedInv' /\ MayBeSeen
<1> USE ManagerAssumption DEF ManagerInv, Types
<1>1. Clear /\ UNCHANGED <<session, sid>>
  BY DEF ManagerClose, Reset, provider
<1>2. /\ connecting' = NoConn /\ cur' = NoConn
      /\ \A j \in Conns : work'[j].pc = work[j].pc /\ work'[j].cred = work[j].cred
  <2>1. CASE connecting = NoConn
    BY <1>1, <2>1 DEF Clear
  <2>2. CASE connecting # NoConn
    <3>1. connecting \in Conns /\ work' = [work EXCEPT ![connecting] = [work[connecting] EXCEPT !.stopped = TRUE]]
      BY <1>1, <2>2 DEF Clear
    <3> QED
      BY <1>1, <3>1, Typed DEF Clear, Works
  <2> QED
    BY <2>1, <2>2
<1>3. ServedInv'
  BY <1>1, <1>2 DEF ServedInv
<1>4. TunnelSeen' = 0 /\ ConnectSeen' = "no" /\ SidSeen' = 0
  BY <1>1, <1>2 DEF TunnelSeen, ConnectSeen, SidSeen, Attempting, Clear
<1>5. \E forGood \in BOOLEAN : closed' = (closed \/ forGood)
  BY DEF ManagerClose, Reset
<1> QED
  BY <1>3, <1>4, <1>5, SeenCut

LEMMA SeenInit == Init => ServedInv /\ Groups!GroupsInit
<1> SUFFICES ASSUME Init PROVE ServedInv /\ Groups!GroupsInit
  OBVIOUS
<1> USE ManagerAssumption DEF Init, Session!Init
<1>1. ServedInv
  BY DEF ServedInv, Ended
<1>2. TunnelSeen = 0 /\ ConnectSeen = "no" /\ SidSeen = 0 /\ closed = FALSE
  BY DEF TunnelSeen, ConnectSeen, SidSeen, Attempting
<1>3. Seen = Groups!Manager
  BY <1>2, SeenIs DEF Of, Groups!Manager
<1> QED
  BY <1>1, <1>3 DEF Groups!GroupsInit

LEMMA SeenStep == ManagerInv /\ ServedInv /\ [Next]_vars => ServedInv' /\ MayBeSeen
<1> SUFFICES ASSUME ManagerInv, ServedInv, [Next]_vars PROVE ServedInv' /\ MayBeSeen
  OBVIOUS
<1>1. CASE UNCHANGED vars
  BY <1>1, OutsideSeen DEF vars
<1>2. CASE Serves \/ Withdraws
  <2>1. /\ UNCHANGED <<manager, work>> /\ alive' \subseteq alive
        /\ session' = 0 \/ sid' \in Nat \ {0}
    BY <1>2 DEF Serves, Withdraws, ManagerInv, Types
  <2> QED
    BY <2>1, OutsideSeen
<1>3. CASE ManagerClose \/ Reset
  BY <1>3, ClearSeen
<1>4. ASSUME NEW p \in Procs,
             \/ LoopRefused(p) \/ CredentialFails(p) \/ CredentialGiven(p)
             \/ LockClosed(p) \/ TunnelReused(p) \/ Done(p) \/ EndSwitchLine(p)
             \/ BeginTunnel(p) \/ CallerLeaves(p) \/ BeginSwitchLine(p)
      PROVE  ServedInv' /\ MayBeSeen
  <2>1. UNCHANGED <<manager, work, provider>> /\ alive' \subseteq alive
    BY <1>4 DEF LoopRefused, CredentialFails, CredentialGiven, LockClosed, TunnelReused,
                Done, EndSwitchLine, BeginTunnel, CallerLeaves, BeginSwitchLine,
                ReturnsError, Returns
  <2> QED
    BY <2>1, OutsideSeen
<1>5. ASSUME NEW p \in Procs,
             CallerStep(p) \/ BeginTunnel(p) \/ CallerLeaves(p) \/ BeginSwitchLine(p)
      PROVE  ServedInv' /\ MayBeSeen
  BY <1>4, <1>5, CallerConnectsSeen, WaitEndsSeen DEF CallerStep
<1>6. ASSUME NEW k \in Conns, WorkerStep(k) \/ BudgetEnds(k)
      PROVE  ServedInv' /\ MayBeSeen
  BY <1>6, ConnectSteps, PublishesSeen, FinishesSeen DEF WorkerStep
<1>7. ASSUME (\E k \in Conns : TunnelDies(k)) \/ \E l \in Lines : CooldownEnds(l)
      PROVE  ServedInv' /\ MayBeSeen
  <2>1. UNCHANGED <<manager, work, provider>> /\ alive' \subseteq alive
    BY <1>7 DEF TunnelDies, CooldownEnds
  <2> QED
    BY <2>1, OutsideSeen
<1> QED
  BY <1>1, <1>2, <1>3, <1>5, <1>6, <1>7 DEF Next

\* The Runtime may take the manager for one of TunnelGroups: whatever callers,
\* connects that were given up, resets and line switches do to each other inside,
\* from outside it has one tunnel, and one connect that reads the session served.
THEOREM ManagerSeenAsOne == Spec => SeenAsManager
<1>1. Init => ServedInv /\ Groups!GroupsInit
  BY SeenInit
<1>2. ManagerInv /\ ServedInv /\ [Next]_vars
        => ServedInv' /\ [Groups!ManagerNext(Groups!Root, sid)]_<<Seen>>
  BY SeenStep DEF MayBeSeen
<1> QED
  BY <1>1, <1>2, ManagerInvariant, PTL DEF Spec, SeenAsManager

=============================================================================
