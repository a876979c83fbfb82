--------------------------- MODULE SessionProvider ---------------------------
(***************************************************************************)
(* The credential provider of internal/session together with the gated     *)
(* store of persisted sessions the runtime gives it (internal/runtime,      *)
(* stateStore and ForgetSession).                                           *)
(*                                                                         *)
(* A process is a goroutine that runs one call at a time: Credential,       *)
(* ForceLogin, a reserved forced re-login, one tick of CheckLoop or          *)
(* ForgetSession.  An action is one critical section of p.mu or one blocking *)
(* call (store, controller) between two of them.  A context is cancelled at  *)
(* any moment; consecutive tests of the same context are one step.           *)
(*                                                                         *)
(* A session is named by its sid, a number the controller never reuses.     *)
(* A credential carries, besides its generation and sid, two facts the code *)
(* does not store: the revision of the acquisition that produced it and     *)
(* whether it was restored.                                                 *)
(***************************************************************************)
EXTENDS Integers

CONSTANTS Procs,     \* the goroutines that call the provider
          NoProc,    \* "no process": an empty refresh slot, a free gate
          Offered,   \* bound: the kinds of call that are made
          MaxCalls   \* bound: calls started in one behaviour

Ops == {"none", "credential", "force", "relogin", "check", "forget"}

ASSUME SessionAssumption == NoProc \notin Procs /\ MaxCalls \in Nat /\ Offered \subseteq Ops

VARIABLES
  cur,         \* p.cur, the session served to callers
  refreshing,  \* p.refreshing, named by the process that leads the call
  generation,  \* p.generation
  revision,    \* p.revision
  closed,      \* p.closed
  forceLogin,  \* p.forceLogin
  disk,        \* sid of the stored session, 0 when there is none
  gate,        \* holder of stateStore.gate
  forgotten,   \* Runtime.forgotten
  pc,          \* where each process is
  op,          \* the call it runs
  cancelled,   \* its context has ended
  expect,      \* generation its context expects, 0 for none
  rev,         \* revision of the acquisition it leads
  cred,        \* the credential it builds, was given or uses
  joined,      \* the leader whose call it waits for
  result,      \* how its call (or the call it joined) ended
  calls,       \* number of calls started
  lastSid,     \* last sid the controller issued
  startRev,    \* history: revision when the call began
  deadBelow,   \* history: sids below it existed at the last invalidation
  forgetMark   \* history: last sid known when a session was last forgotten

provider == <<cur, refreshing, generation, revision, closed, forceLogin>>
store    == <<disk, gate, forgotten>>
local    == <<op, cancelled, expect, rev, cred, joined, result>>
history  == <<calls, startRev, deadBelow, forgetMark>>
vars     == <<provider, store, pc, local, lastSid, history>>

\* Between taking the refresh slot and finishRefresh.
Acquiring == {"reserved", "acquire", "restore", "probe", "loginStart", "login",
              "saveLock", "saveWrite", "saveEnd", "recheck", "finish"}
Forgetting == {"forgetFlag", "forgetInvalidate", "forgetDelete"}
PCs == Acquiring \cup Forgetting \cup
       {"idle", "credential", "forceLogin", "waiting", "woken", "release",
        "returned", "using", "rejecting", "forgetLock"}

Errors  == {"ctx", "closed", "replaced", "failed", "storage"}
Results == Errors \cup {"none", "ok"}

Creds  == [gen : Nat, sid : Nat, rev : Nat, restored : BOOLEAN]
NoCred == [gen |-> 0, sid |-> 0, rev |-> 0, restored |-> FALSE]
Live   == cur # NoCred

-----------------------------------------------------------------------------
(* Shared steps *)

Goto(p, l) == pc' = [pc EXCEPT ![p] = l]

\* The call returns to its caller with credential c or error e.
Ends(p, l, e) == Goto(p, l) /\ result' = [result EXCEPT ![p] = e]

Forced(p) == op[p] \in {"force", "relogin"}

\* checkAcquisitionLocked: the first reason why p's acquisition may not go on.
CheckAcquisition(p) ==
  IF cancelled[p] THEN "ctx"
  ELSE IF closed THEN "closed"
  ELSE IF rev[p] # revision THEN "replaced"
  ELSE "none"

\* clearSessionLocked
ClearSession == revision' = revision + 1 /\ cur' = NoCred

\* invalidateLocked: the served session and the stored one are both dead, and
\* so is any that a running acquisition has obtained.
InvalidateLocked ==
  /\ ClearSession
  /\ forceLogin' = TRUE
  /\ deadBelow' = lastSid + 1

\* Mutant of Lead: the call records the revision before the current one.
LeadOffByOne(p, l, r) ==
  /\ refreshing' = p
  /\ rev' = [rev EXCEPT ![p] = r - 1]
  /\ Goto(p, l)

\* Take the free refresh slot and begin an acquisition at revision r.
Lead(p, l, r) ==
  /\ refreshing' = p
  /\ rev' = [rev EXCEPT ![p] = r]
  /\ Goto(p, l)

Init ==
  /\ cur = NoCred /\ refreshing = NoProc
  /\ generation = 0 /\ revision = 0
  /\ closed = FALSE /\ forceLogin = FALSE
  /\ disk \in {0, 1} /\ gate = NoProc /\ forgotten = FALSE
  /\ pc = [p \in Procs |-> "idle"]
  /\ op = [p \in Procs |-> "none"]
  /\ cancelled = [p \in Procs |-> FALSE]
  /\ expect = [p \in Procs |-> 0]
  /\ rev = [p \in Procs |-> 0]
  /\ cred = [p \in Procs |-> NoCred]
  /\ joined = [p \in Procs |-> NoProc]
  /\ result = [p \in Procs |-> "none"]
  /\ calls = 0 /\ lastSid = disk
  /\ startRev = [p \in Procs |-> 0]
  /\ deadBelow = 0 /\ forgetMark = 0

-----------------------------------------------------------------------------
(* Calls begin and contexts end *)

Begin(p, o) ==
  /\ pc[p] = "idle" /\ calls < MaxCalls /\ o \in Offered
  /\ calls' = calls + 1
  /\ op' = [op EXCEPT ![p] = o]
  /\ startRev' = [startRev EXCEPT ![p] = revision]
  /\ UNCHANGED <<store, cancelled, joined, result, lastSid, deadBelow,
                 forgetMark>>

\* A caller may carry the generation of a session it was given before.
BeginCredential(p) ==
  /\ Begin(p, "credential")
  /\ Goto(p, "credential")
  /\ \E g \in 0..generation : expect' = [expect EXCEPT ![p] = g]
  /\ UNCHANGED <<provider, rev, cred>>

BeginForceLogin(p) ==
  /\ Begin(p, "force")
  /\ Goto(p, "forceLogin")
  /\ UNCHANGED <<provider, expect, rev, cred>>

BeginForget(p) ==
  /\ Begin(p, "forget")
  /\ Goto(p, "forgetLock")
  /\ UNCHANGED <<provider, expect, rev, cred>>

\* A tick of CheckLoop with a session to probe.
BeginCheck(p) ==
  /\ Live
  /\ Begin(p, "check")
  /\ Goto(p, "using")
  /\ cred' = [cred EXCEPT ![p] = cur]
  /\ UNCHANGED <<provider, expect, rev>>

\* TryForceRelogin when it grants the reservation; a refusal changes nothing.
TryForceRelogin(p) ==
  /\ ~closed /\ refreshing = NoProc
  /\ Begin(p, "relogin")
  /\ ClearSession
  /\ Lead(p, "reserved", revision + 1)
  /\ UNCHANGED <<generation, closed, forceLogin, expect, cred>>

\* The background goroutine runs the reservation under its own context.
RunReserved(p) ==
  /\ pc[p] = "reserved"
  /\ Goto(p, "acquire")
  /\ UNCHANGED <<provider, store, local, lastSid, history>>

\* A caller goes away, a deadline passes, the client is shut down.
Cancel(p) ==
  /\ pc[p] \in Acquiring \cup {"credential", "forceLogin", "waiting", "woken",
                               "forgetLock", "forgetFlag", "forgetDelete"}
  /\ ~cancelled[p]
  /\ cancelled' = [cancelled EXCEPT ![p] = TRUE]
  /\ UNCHANGED <<provider, store, pc, op, expect, rev, cred, joined, result,
                 lastSid, history>>

\* Provider.Close
Close ==
  /\ ~closed
  /\ closed' = TRUE
  /\ ClearSession
  /\ UNCHANGED <<refreshing, generation, forceLogin, store, pc, local, lastSid,
                 history>>

-----------------------------------------------------------------------------
(* Credential and ForceLogin: the loop around the shared call *)

Looping(p) == pc[p] \in {"credential", "forceLogin"}

LoopCancelled(p) ==
  /\ Looping(p) /\ cancelled[p]
  /\ Ends(p, "returned", "ctx")
  /\ UNCHANGED <<provider, store, op, cancelled, expect, rev, cred, joined,
                 lastSid, history>>

LoopClosed(p) ==
  /\ Looping(p) /\ ~cancelled[p] /\ closed
  /\ Ends(p, "returned", "closed")
  /\ UNCHANGED <<provider, store, op, cancelled, expect, rev, cred, joined,
                 lastSid, history>>

Proceeds(p, l) == pc[p] = l /\ ~cancelled[p] /\ ~closed

CredentialServed(p) ==
  /\ Proceeds(p, "credential") /\ Live /\ expect[p] \in {0, cur.gen}
  /\ cred' = [cred EXCEPT ![p] = cur]
  /\ Ends(p, "returned", "ok")
  /\ UNCHANGED <<provider, store, op, cancelled, expect, rev, joined, lastSid,
                 history>>

\* The expected session is gone: neither a newer one nor a login is offered.
CredentialReplaced(p) ==
  /\ Proceeds(p, "credential") /\ expect[p] \notin {0, cur.gen}
  /\ Ends(p, "returned", "replaced")
  /\ UNCHANGED <<provider, store, op, cancelled, expect, rev, cred, joined,
                 lastSid, history>>

\* Mutant of CredentialLeads: an acquisition under way is not looked for.
CredentialLeadsAnyway(p) ==
  /\ Proceeds(p, "credential") /\ ~Live /\ expect[p] = 0
  /\ Lead(p, "acquire", revision)
  /\ UNCHANGED <<cur, generation, revision, closed, forceLogin, store, op,
                 cancelled, expect, cred, joined, result, lastSid, history>>

CredentialLeads(p) ==
  /\ Proceeds(p, "credential") /\ ~Live /\ expect[p] = 0 /\ refreshing = NoProc
  /\ Lead(p, "acquire", revision)
  /\ UNCHANGED <<cur, generation, revision, closed, forceLogin, store, op,
                 cancelled, expect, cred, joined, result, lastSid, history>>

ForceLoginLeads(p) ==
  /\ Proceeds(p, "forceLogin") /\ refreshing = NoProc
  /\ InvalidateLocked
  /\ Lead(p, "acquire", revision + 1)
  /\ UNCHANGED <<generation, closed, store, op, cancelled, expect, cred, joined,
                 result, lastSid, calls, startRev, forgetMark>>

Joins(p) ==
  /\ \/ Proceeds(p, "credential") /\ ~Live /\ expect[p] = 0
     \/ Proceeds(p, "forceLogin")
  /\ refreshing # NoProc
  /\ joined' = [joined EXCEPT ![p] = refreshing]
  /\ Goto(p, "waiting")
  /\ UNCHANGED <<provider, store, op, cancelled, expect, rev, cred, result,
                 lastSid, history>>

\* Mutant of WaitCancelled: a joiner stays for as long as the call is shared.
WaitCancelledLate(p) ==
  /\ pc[p] = "waiting" /\ cancelled[p] /\ joined[p] # refreshing
  /\ joined' = [joined EXCEPT ![p] = NoProc]
  /\ Ends(p, "returned", "ctx")
  /\ UNCHANGED <<provider, store, op, cancelled, expect, rev, cred, lastSid,
                 history>>

WaitCancelled(p) ==
  /\ pc[p] = "waiting" /\ cancelled[p]
  /\ joined' = [joined EXCEPT ![p] = NoProc]
  /\ Ends(p, "returned", "ctx")
  /\ UNCHANGED <<provider, store, op, cancelled, expect, rev, cred, lastSid,
                 history>>

\* call.done is closed: own cancellation first, then the leader's (retry),
\* then the shared result.  A ForceLogin waiter ignores an unforced call.
WokenCancelled(p) ==
  /\ pc[p] = "woken" /\ cancelled[p]
  /\ cred' = [cred EXCEPT ![p] = NoCred]
  /\ Ends(p, "returned", "ctx")
  /\ UNCHANGED <<provider, store, op, cancelled, expect, rev, joined, lastSid,
                 history>>

WokenRetries(p) ==
  /\ pc[p] = "woken" /\ ~cancelled[p] /\ result[p] = "ctx"
  /\ Ends(p, IF op[p] = "force" THEN "forceLogin" ELSE "credential", "none")
  /\ UNCHANGED <<provider, store, op, cancelled, expect, rev, cred, joined,
                 lastSid, history>>

\* Mutant of WokenShares: the leader's cancellation is shared as well.
WokenSharesAll(p) ==
  /\ pc[p] = "woken" /\ ~cancelled[p]
  /\ Goto(p, "returned")
  /\ UNCHANGED <<provider, store, local, lastSid, history>>

WokenShares(p) ==
  /\ pc[p] = "woken" /\ ~cancelled[p] /\ result[p] # "ctx"
  /\ Goto(p, "returned")
  /\ UNCHANGED <<provider, store, local, lastSid, history>>

-----------------------------------------------------------------------------
(* acquire, restore and login, run by the leader outside p.mu *)

\* acquire refuses before it touches the force flag.
AcquireRefused(p) ==
  /\ pc[p] \in {"acquire", "loginStart"} /\ CheckAcquisition(p) # "none"
  /\ Ends(p, "finish", CheckAcquisition(p))
  /\ UNCHANGED <<provider, store, op, cancelled, expect, rev, cred, joined,
                 lastSid, history>>

\* Mutant of AcquireBegins: only the reservation's own force skips restore.
AcquireIgnoresFlag(p) ==
  /\ pc[p] = "acquire" /\ CheckAcquisition(p) = "none"
  /\ forceLogin' = (forceLogin \/ Forced(p))
  /\ Goto(p, IF Forced(p) THEN "loginStart" ELSE "restore")
  /\ UNCHANGED <<cur, refreshing, generation, revision, closed, store, local,
                 lastSid, history>>

AcquireBegins(p) ==
  /\ pc[p] = "acquire" /\ CheckAcquisition(p) = "none"
  /\ forceLogin' = (forceLogin \/ Forced(p))
  /\ Goto(p, IF forceLogin \/ Forced(p) THEN "loginStart" ELSE "restore")
  /\ UNCHANGED <<cur, refreshing, generation, revision, closed, store, local,
                 lastSid, history>>

\* The load waits for the gate, fails, or is interrupted.
LoadFails(p) ==
  /\ pc[p] = "restore" /\ (cancelled[p] \/ gate = NoProc)
  /\ Ends(p, "finish", IF cancelled[p] THEN "ctx" ELSE "storage")
  /\ UNCHANGED <<provider, store, op, cancelled, expect, rev, cred, joined,
                 lastSid, history>>

LoadFindsNothing(p) ==
  /\ pc[p] = "restore" /\ gate = NoProc /\ (forgotten \/ disk = 0)
  /\ Goto(p, "loginStart")
  /\ UNCHANGED <<provider, store, local, lastSid, history>>

LoadFinds(p) ==
  /\ pc[p] = "restore" /\ gate = NoProc /\ ~forgotten /\ disk # 0
  /\ cred' = [cred EXCEPT ![p].sid = disk, ![p].restored = TRUE]
  /\ Goto(p, "probe")
  /\ UNCHANGED <<provider, store, op, cancelled, expect, rev, joined, result,
                 lastSid, history>>

\* The stored session is someone else's, is offline, or cannot be probed.
RestoreFallsBack(p) ==
  /\ pc[p] = "probe"
  /\ cred' = [cred EXCEPT ![p] = NoCred]
  /\ Goto(p, "loginStart")
  /\ UNCHANGED <<provider, store, op, cancelled, expect, rev, joined, result,
                 lastSid, history>>

RestoreOnline(p) ==
  /\ pc[p] = "probe"
  /\ Goto(p, "saveLock")
  /\ UNCHANGED <<provider, store, local, lastSid, history>>

LoginStarts(p) ==
  /\ pc[p] = "loginStart" /\ CheckAcquisition(p) = "none"
  /\ Goto(p, "login")
  /\ UNCHANGED <<provider, store, local, lastSid, history>>

\* Identity, CAS, SMS, session exchange and resource policy, as one step, which
\* may wait for a person (see Fairness).
LoginSucceeds(p) ==
  /\ pc[p] = "login"
  /\ lastSid' = lastSid + 1
  /\ cred' = [cred EXCEPT ![p].sid = lastSid + 1]
  /\ Goto(p, "saveLock")
  /\ UNCHANGED <<provider, store, op, cancelled, expect, rev, joined, result,
                 history>>

LoginFails(p) ==
  /\ pc[p] = "login"
  /\ Ends(p, "finish", "failed")
  /\ UNCHANGED <<provider, store, op, cancelled, expect, rev, cred, joined,
                 lastSid, history>>

-----------------------------------------------------------------------------
(* finishLogin: stateStore.Save under its gate, then a last check *)

SaveRefused(p) ==
  /\ pc[p] = "saveLock" /\ CheckAcquisition(p) # "none"
  /\ cancelled[p] \/ gate = NoProc
  /\ Ends(p, "finish", CheckAcquisition(p))
  /\ UNCHANGED <<provider, store, op, cancelled, expect, rev, cred, joined,
                 lastSid, history>>

SaveLocks(p) ==
  /\ pc[p] = "saveLock" /\ gate = NoProc /\ CheckAcquisition(p) = "none"
  /\ gate' = p
  /\ Goto(p, "saveWrite")
  /\ UNCHANGED <<provider, disk, forgotten, local, lastSid, history>>

SaveWrites(p) ==
  /\ pc[p] = "saveWrite"
  /\ disk' = cred[p].sid
  /\ Goto(p, "saveEnd")
  /\ UNCHANGED <<provider, gate, forgotten, local, lastSid, history>>

\* The replacement may already be in place when syncing the directory fails.
SaveFails(p) ==
  /\ pc[p] = "saveWrite"
  /\ disk' \in {disk, cred[p].sid}
  /\ gate' = NoProc
  /\ Ends(p, "finish", "storage")
  /\ UNCHANGED <<provider, forgotten, op, cancelled, expect, rev, cred, joined,
                 lastSid, history>>

SaveCommits(p) ==
  /\ pc[p] = "saveEnd" /\ CheckAcquisition(p) = "none"
  /\ forgotten' = FALSE
  /\ gate' = NoProc
  /\ Goto(p, "recheck")
  /\ UNCHANGED <<provider, disk, local, lastSid, history>>

SaveOvertaken(p) ==
  /\ pc[p] = "saveEnd" /\ CheckAcquisition(p) # "none"
  /\ gate' = NoProc
  /\ Ends(p, "finish", CheckAcquisition(p))
  /\ UNCHANGED <<provider, disk, forgotten, op, cancelled, expect, rev, cred,
                 joined, lastSid, history>>

RecheckPasses(p) ==
  /\ pc[p] = "recheck" /\ CheckAcquisition(p) = "none"
  /\ Ends(p, "finish", "ok")
  /\ UNCHANGED <<provider, store, op, cancelled, expect, rev, cred, joined,
                 lastSid, history>>

\* A restore that fails here goes on to the full login, which refuses in turn.
RecheckFails(p) ==
  /\ pc[p] = "recheck" /\ CheckAcquisition(p) # "none"
  /\ \/ /\ cred[p].restored
        /\ cred' = [cred EXCEPT ![p] = NoCred]
        /\ Ends(p, "loginStart", "none")
     \/ /\ ~cred[p].restored
        /\ Ends(p, "finish", CheckAcquisition(p))
        /\ UNCHANGED cred
  /\ UNCHANGED <<provider, store, op, cancelled, expect, rev, joined, lastSid,
                 history>>

-----------------------------------------------------------------------------
(* finishRefresh *)

\* Mutant of Publish: revision, Close and the leader's context go unchecked.
PublishUnchecked(p) ==
  /\ pc[p] = "finish" /\ result[p] = "ok"
  /\ forceLogin' = FALSE
  /\ generation' = generation + 1
  /\ cur' = [cred[p] EXCEPT !.gen = generation + 1, !.rev = rev[p]]
  /\ cred' = [cred EXCEPT ![p] = cur']
  /\ refreshing' = NoProc
  /\ Goto(p, "release")
  /\ UNCHANGED <<revision, closed, store, op, cancelled, expect, rev, joined,
                 result, lastSid, history>>

\* Mutant of Publish: a restored session keeps the generation it had.
PublishSameGeneration(p) ==
  /\ pc[p] = "finish" /\ result[p] = "ok" /\ CheckAcquisition(p) = "none"
  /\ forceLogin' = FALSE
  /\ generation' = IF cred[p].restored THEN generation ELSE generation + 1
  /\ cur' = [cred[p] EXCEPT !.gen = generation', !.rev = rev[p]]
  /\ cred' = [cred EXCEPT ![p] = cur']
  /\ refreshing' = NoProc
  /\ Goto(p, "release")
  /\ UNCHANGED <<revision, closed, store, op, cancelled, expect, rev, joined,
                 result, lastSid, history>>

\* Publish a session that was acquired by a live leader at this revision.
Publish(p) ==
  /\ pc[p] = "finish" /\ result[p] = "ok" /\ CheckAcquisition(p) = "none"
  /\ forceLogin' = FALSE
  /\ generation' = generation + 1
  /\ cur' = [cred[p] EXCEPT !.gen = generation + 1, !.rev = rev[p]]
  /\ cred' = [cred EXCEPT ![p] = cur']
  /\ refreshing' = NoProc
  /\ Goto(p, "release")
  /\ UNCHANGED <<revision, closed, store, op, cancelled, expect, rev, joined,
                 result, lastSid, history>>

\* Mutant of FinishFails: the refresh slot is not freed on failure.
FinishFailsKeepsSlot(p) ==
  /\ pc[p] = "finish" /\ ~(result[p] = "ok" /\ CheckAcquisition(p) = "none")
  /\ cred' = [cred EXCEPT ![p] = NoCred]
  /\ Ends(p, "release", IF CheckAcquisition(p) = "none" THEN result[p]
                        ELSE CheckAcquisition(p))
  /\ UNCHANGED <<provider, store, op, cancelled, expect, rev, joined, lastSid,
                 history>>

FinishFails(p) ==
  /\ pc[p] = "finish" /\ ~(result[p] = "ok" /\ CheckAcquisition(p) = "none")
  /\ cred' = [cred EXCEPT ![p] = NoCred]
  /\ refreshing' = NoProc
  /\ Ends(p, "release", IF CheckAcquisition(p) = "none" THEN result[p]
                        ELSE CheckAcquisition(p))
  /\ UNCHANGED <<cur, generation, revision, closed, forceLogin, store, op,
                 cancelled, expect, rev, joined, lastSid, history>>

Waits(q, p) == pc[q] = "waiting" /\ joined[q] = p

\* Mutant of Shares: ForceLogin takes the result of any call it waited for.
SharesUnforced(q, p) == Waits(q, p)

\* A ForceLogin waiter takes no part in the result of an unforced call.
Shares(q, p) == Waits(q, p) /\ (op[q] = "force" => Forced(p))

\* Close call.done: every waiter wakes with the result of the call.
Release(p) ==
  /\ pc[p] = "release"
  /\ pc' = [q \in Procs |->
              IF q = p THEN "returned"
              ELSE IF Shares(q, p) THEN "woken"
              ELSE IF Waits(q, p) THEN "forceLogin"
              ELSE pc[q]]
  /\ result' = [q \in Procs |-> IF Shares(q, p) THEN result[p] ELSE result[q]]
  /\ cred' = [q \in Procs |-> IF Shares(q, p) THEN cred[p] ELSE cred[q]]
  /\ joined' = [q \in Procs |-> IF Waits(q, p) THEN NoProc ELSE joined[q]]
  /\ UNCHANGED <<provider, store, op, cancelled, expect, rev, lastSid, history>>

-----------------------------------------------------------------------------
(* What a caller does with the answer *)

Rests(p) ==
  /\ Goto(p, "idle")
  /\ op' = [op EXCEPT ![p] = "none"]
  /\ cancelled' = [cancelled EXCEPT ![p] = FALSE]
  /\ expect' = [expect EXCEPT ![p] = 0]
  /\ rev' = [rev EXCEPT ![p] = 0]
  /\ cred' = [cred EXCEPT ![p] = NoCred]
  /\ result' = [result EXCEPT ![p] = "none"]
  /\ startRev' = [startRev EXCEPT ![p] = 0]
  /\ UNCHANGED <<joined, lastSid, calls, forgetMark>>

Returns(p) ==
  /\ pc[p] \in {"returned", "using"}
  /\ Rests(p)
  /\ UNCHANGED <<provider, store, deadBelow>>

\* A consumer works with the session it was given.
Uses(p) ==
  /\ pc[p] = "returned" /\ op[p] = "credential" /\ result[p] = "ok"
  /\ Goto(p, "using")
  /\ UNCHANGED <<provider, store, local, lastSid, history>>

\* A gateway refuses the session, or the controller reports it offline.
SessionRejected(p) ==
  /\ pc[p] = "using"
  /\ Goto(p, "rejecting")
  /\ UNCHANGED <<provider, store, local, lastSid, history>>

\* InvalidateIfCurrent on the rejected credential while it is still served;
\* CheckLoop then logs in again by itself.
InvalidateIfCurrent(p) ==
  /\ pc[p] = "rejecting" /\ Live /\ cur = cred[p]
  /\ InvalidateLocked
  /\ UNCHANGED <<refreshing, generation, closed, store>>
  /\ \/ /\ op[p] # "check"
        /\ Rests(p)
     \/ /\ op[p] = "check"
        /\ Goto(p, "credential")
        /\ cred' = [cred EXCEPT ![p] = NoCred]
        /\ startRev' = [startRev EXCEPT ![p] = revision + 1]
        /\ UNCHANGED <<op, cancelled, expect, rev, joined, result, lastSid,
                       calls, forgetMark>>

\* The rejected credential was replaced meanwhile: nothing happens.
InvalidateStale(p) ==
  /\ pc[p] = "rejecting" /\ ~(Live /\ cur = cred[p])
  /\ Rests(p)
  /\ UNCHANGED <<provider, store, deadBelow>>

-----------------------------------------------------------------------------
(* ForgetSession *)

ForgetGivesUp(p) ==
  /\ pc[p] \in {"forgetLock", "forgetFlag"} /\ cancelled[p]
  /\ gate' = IF pc[p] = "forgetFlag" THEN NoProc ELSE gate
  /\ Rests(p)
  /\ UNCHANGED <<provider, disk, forgotten, deadBelow>>

\* Mutant of ForgetLocks: the store's gate is not taken.
ForgetSkipsGate(p) ==
  /\ pc[p] = "forgetLock"
  /\ Goto(p, "forgetFlag")
  /\ UNCHANGED <<provider, store, local, lastSid, history>>

ForgetLocks(p) ==
  /\ pc[p] = "forgetLock" /\ gate = NoProc
  /\ gate' = p
  /\ Goto(p, "forgetFlag")
  /\ UNCHANGED <<provider, disk, forgotten, local, lastSid, history>>

\* Mutant of ForgetFlags: the stored session is not marked as forgotten.
ForgetSkipsFlag(p) ==
  /\ pc[p] = "forgetFlag" /\ ~cancelled[p]
  /\ Goto(p, "forgetInvalidate")
  /\ UNCHANGED <<provider, store, local, lastSid, history>>

ForgetFlags(p) ==
  /\ pc[p] = "forgetFlag" /\ ~cancelled[p]
  /\ forgotten' = TRUE
  /\ Goto(p, "forgetInvalidate")
  /\ UNCHANGED <<provider, disk, gate, local, lastSid, history>>

\* Invalidate, whatever session is served and whatever acquisition runs.
ForgetInvalidates(p) ==
  /\ pc[p] = "forgetInvalidate"
  /\ InvalidateLocked
  /\ forgetMark' = lastSid
  /\ Goto(p, "forgetDelete")
  /\ UNCHANGED <<refreshing, generation, closed, store, local, lastSid, calls,
                 startRev>>

\* The stored session is deleted, or the deletion fails and is reported.
ForgetDeletes(p) ==
  /\ pc[p] = "forgetDelete"
  /\ disk' \in {0, disk}
  /\ gate' = NoProc
  /\ Rests(p)
  /\ UNCHANGED <<provider, forgotten, deadBelow>>

-----------------------------------------------------------------------------

\* What p's goroutine does once it runs; callers start and give up freely.
Step(p) ==
  \/ RunReserved(p)
  \/ LoopCancelled(p) \/ LoopClosed(p)
  \/ CredentialServed(p) \/ CredentialReplaced(p) \/ CredentialLeads(p)
  \/ ForceLoginLeads(p) \/ Joins(p)
  \/ WaitCancelled(p) \/ WokenCancelled(p) \/ WokenRetries(p) \/ WokenShares(p)
  \/ AcquireRefused(p) \/ AcquireBegins(p)
  \/ LoadFails(p) \/ LoadFindsNothing(p) \/ LoadFinds(p)
  \/ RestoreFallsBack(p) \/ RestoreOnline(p)
  \/ LoginStarts(p) \/ LoginSucceeds(p) \/ LoginFails(p)
  \/ SaveRefused(p) \/ SaveLocks(p) \/ SaveWrites(p) \/ SaveFails(p)
  \/ SaveCommits(p) \/ SaveOvertaken(p)
  \/ RecheckPasses(p) \/ RecheckFails(p)
  \/ Publish(p) \/ FinishFails(p) \/ Release(p)
  \/ Returns(p) \/ Uses(p) \/ SessionRejected(p)
  \/ InvalidateIfCurrent(p) \/ InvalidateStale(p)
  \/ ForgetGivesUp(p) \/ ForgetLocks(p) \/ ForgetFlags(p)
  \/ ForgetInvalidates(p) \/ ForgetDeletes(p)

Environment(p) ==
  \/ BeginCredential(p) \/ BeginForceLogin(p) \/ BeginForget(p)
  \/ BeginCheck(p) \/ TryForceRelogin(p)
  \/ Cancel(p)

\* The provider is closed and every call has returned.
Quiet == closed /\ (\A p \in Procs : pc[p] = "idle") /\ UNCHANGED vars

Next == Close \/ Quiet \/ \E p \in Procs : Step(p) \/ Environment(p)

Spec == Init /\ [][Next]_vars

\* A login may wait for the code that was sent to a person, and only the end of
\* its context ends that; CheckLoop allows no such interaction.
Prompting(p) == pc[p] = "login" /\ op[p] # "check" /\ ~cancelled[p]

\* A consumer keeps what it was given as long as it likes.
Consuming(p) == pc[p] = "using" /\ op[p] # "check"

\* A goroutine that can run does run, and the store and the controller answer or
\* time out.  Nobody is obliged to enter a code or to give up, except CheckLoop,
\* whose contexts have deadlines.
Fairness ==
  \A p \in Procs : /\ WF_vars(~Prompting(p) /\ ~Consuming(p) /\ Step(p))
                   /\ WF_vars(op[p] = "check" /\ Cancel(p))
FairSpec == Spec /\ Fairness

-----------------------------------------------------------------------------
(* Properties *)

\* Every variable has its type.
TypeOK ==
  /\ cur \in Creds /\ refreshing \in Procs \cup {NoProc}
  /\ generation \in Nat /\ revision \in Nat
  /\ closed \in BOOLEAN /\ forceLogin \in BOOLEAN
  /\ disk \in Nat /\ gate \in Procs \cup {NoProc} /\ forgotten \in BOOLEAN
  /\ pc \in [Procs -> PCs] /\ op \in [Procs -> Ops]
  /\ cancelled \in [Procs -> BOOLEAN] /\ expect \in [Procs -> Nat]
  /\ rev \in [Procs -> Nat] /\ cred \in [Procs -> Creds]
  /\ joined \in [Procs -> Procs \cup {NoProc}] /\ result \in [Procs -> Results]
  /\ calls \in Nat /\ lastSid \in Nat
  /\ startRev \in [Procs -> Nat]
  /\ deadBelow \in Nat /\ forgetMark \in Nat

\* The refresh slot admits one acquisition, and while it runs no session is
\* served: two concurrent callers never log in twice, and what finishRefresh
\* replaces is always nothing.
SingleAcquisition ==
  /\ TypeOK
  /\ \A p \in Procs : pc[p] \in Acquiring => refreshing = p /\ ~Live

\* A served session was acquired since the last invalidation: no login that
\* an invalidation or Close overtook is ever published.
ServedSinceInvalidation == Live => cur.rev = revision /\ ~closed

\* A caller is never handed a session that had been invalidated before it
\* called, however long the call it joined was under way.
AnswerSinceCall ==
  \A p \in Procs :
    pc[p] \in {"woken", "returned"} /\ result[p] = "ok" =>
      cred[p].rev >= startRev[p]

\* No session that existed when one was declared dead (by a gateway, a probe,
\* ForceLogin or ForgetSession) is served again, from the store or otherwise.
RejectedNotServed == Live => cur.sid >= deadBelow

\* A forgotten session that survives on disk (its deletion failed, or it was
\* being written) stays hidden from restore.
ForgottenStaysHidden == disk # 0 /\ disk <= forgetMark => forgotten

\* The stored session is the served one: a deletion or a late save never
\* takes it away.
ServedIsStored == Live => disk = cur.sid

\* A caller ends with a cancellation only if its own context ended: the
\* leader's cancellation makes the joiners retry.
OwnCancellationOnly ==
  \A p \in Procs : pc[p] = "returned" /\ result[p] = "ctx" => cancelled[p]

\* ForceLogin never answers with a session restored from the store.
ForcedLoginIsFull ==
  \A p \in Procs :
    pc[p] = "returned" /\ op[p] = "force" /\ result[p] = "ok" =>
      ~cred[p].restored

\* A caller is answered for itself: with its own cancellation, and with the kind
\* of login it asked for.
AnsweredForItself == OwnCancellationOnly /\ ForcedLoginIsFull

\* p runs a call: it has not got its answer, or it is a tick of CheckLoop.
InCall(p) == op[p] = "check" \/ pc[p] \notin {"idle", "returned", "using"}

\* Whoever is asked for a code answers in the end, or gives up.
PromptsEnd == \A p \in Procs : []<>~Prompting(p)

\* No call is left behind by a leader that fails, is cancelled or is overtaken,
\* nor by one that keeps the gate.  A caller whose context ends gets away, and so
\* does a tick of CheckLoop, whether or not the person answers for whose code the
\* acquisition waits that it leads or has joined; the others return if he does.
EveryCallReturns ==
  /\ \A p \in Procs : cancelled[p] \/ op[p] = "check" ~> ~InCall(p)
  /\ PromptsEnd => \A p \in Procs : InCall(p) ~> ~InCall(p)

Contract == INSTANCE SessionContract WITH
              session <- cur.gen, sid <- cur.sid, issued <- generation,
              barred <- 1..(deadBelow - 1), over <- closed

\* The provider implements the session contract its consumers rely on.
ImplementsContract == Contract!Spec

=============================================================================
