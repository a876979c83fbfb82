------------------------ MODULE SessionProviderProofs ------------------------
(***************************************************************************)
(* Theorems about SessionProvider for any set of goroutines and any number  *)
(* of calls: its types, the safety of its answers and of the store, and     *)
(* that it implements SessionContract.                                      *)
(***************************************************************************)
EXTENDS SessionProvider, TLAPS

-----------------------------------------------------------------------------
(* The types *)

\* The values of every variable stay in their types.
LEMMA TypeInit == Init => TypeOK
<1> SUFFICES ASSUME Init PROVE TypeOK
  OBVIOUS
<1> USE DEF Init
<1>1. NoCred \in Creds
  BY DEF NoCred, Creds
<1>2. pc \in [Procs -> PCs] /\ op \in [Procs -> Ops]
  BY DEF PCs, Ops
<1>3. result \in [Procs -> Results]
  BY DEF Results
<1>4. cred \in [Procs -> Creds] /\ cur \in Creds
  BY <1>1
<1>5. disk \in Nat /\ lastSid \in Nat
  OBVIOUS
<1> QED
  BY <1>2, <1>3, <1>4, <1>5 DEF TypeOK

\* Credentials the provider builds are well formed.
LEMMA CredsBuilt ==
  /\ NoCred \in Creds
  /\ \A c \in Creds, n, m \in Nat :
       /\ [c EXCEPT !.gen = n, !.rev = m] \in Creds
       /\ [c EXCEPT !.sid = n] \in Creds
       /\ [c EXCEPT !.sid = n, !.restored = TRUE] \in Creds
  BY DEF NoCred, Creds

\* What a call's beginning and its end do to the types.
LEMMA TypeShared ==
  ASSUME TypeOK, NEW p \in Procs
  PROVE  /\ \A l \in PCs : Goto(p, l) => pc' \in [Procs -> PCs]
         /\ CheckAcquisition(p) \in Results
         /\ ClearSession => revision' \in Nat /\ cur' \in Creds
<1>1. ASSUME NEW l \in PCs, Goto(p, l) PROVE pc' \in [Procs -> PCs]
  BY <1>1 DEF TypeOK, Goto
<1>2. CheckAcquisition(p) \in Results
  BY DEF CheckAcquisition, Results, Errors
<1>3. ASSUME ClearSession PROVE revision' \in Nat /\ cur' \in Creds
  BY <1>3 DEF TypeOK, ClearSession, NoCred, Creds
<1> QED
  BY <1>1, <1>2, <1>3

LEMMA TypeBegin ==
  ASSUME TypeOK, NEW p \in Procs,
         \/ BeginCredential(p) \/ BeginForceLogin(p) \/ BeginForget(p)
         \/ BeginCheck(p) \/ TryForceRelogin(p) \/ Cancel(p)
  PROVE  TypeOK'
<1> USE SessionAssumption DEF TypeOK, vars, provider, store, local, history, Goto, PCs,
        Ops
<1>1. CASE BeginCredential(p)
  BY <1>1 DEF BeginCredential, Begin
<1>2. CASE BeginForceLogin(p)
  BY <1>2 DEF BeginForceLogin, Begin
<1>3. CASE BeginForget(p)
  BY <1>3 DEF BeginForget, Begin
<1>4. CASE BeginCheck(p)
  BY <1>4 DEF BeginCheck, Begin
<1>5. CASE TryForceRelogin(p)
  BY <1>5 DEF TryForceRelogin, Begin, Lead, Acquiring, ClearSession, NoCred, Creds
<1>6. CASE Cancel(p)
  BY <1>6 DEF Cancel
<1> QED
  BY <1>1, <1>2, <1>3, <1>4, <1>5, <1>6

\* The loops of Credential and ForceLogin keep the types.
LEMMA TypeCalls ==
  ASSUME TypeOK, NEW p \in Procs,
         \/ LoopCancelled(p) \/ LoopClosed(p) \/ CredentialServed(p)
         \/ CredentialReplaced(p) \/ CredentialLeads(p) \/ ForceLoginLeads(p)
         \/ Joins(p) \/ WaitCancelled(p) \/ WokenCancelled(p)
         \/ WokenRetries(p) \/ WokenShares(p)
  PROVE  TypeOK'
<1> USE SessionAssumption, TypeShared DEF TypeOK, provider, store, local,
        history, Goto, Ends, PCs, Results, Errors, Ops, NoCred, Creds
<1>1. CASE LoopCancelled(p)
  BY <1>1 DEF LoopCancelled
<1>2. CASE LoopClosed(p)
  BY <1>2 DEF LoopClosed
<1>3. CASE CredentialServed(p)
  BY <1>3 DEF CredentialServed, Proceeds
<1>4. CASE CredentialReplaced(p)
  BY <1>4 DEF CredentialReplaced, Proceeds
<1>5. CASE CredentialLeads(p)
  BY <1>5 DEF CredentialLeads, Lead, Proceeds, Acquiring
<1>6. CASE ForceLoginLeads(p)
  BY <1>6 DEF ForceLoginLeads, Lead, Proceeds, Acquiring, InvalidateLocked
<1>7. CASE Joins(p)
  BY <1>7 DEF Joins, Proceeds
<1>8. CASE WaitCancelled(p)
  BY <1>8 DEF WaitCancelled
<1>9. CASE WokenCancelled(p)
  BY <1>9 DEF WokenCancelled
<1>10. CASE WokenRetries(p)
  BY <1>10 DEF WokenRetries
<1>11. CASE WokenShares(p)
  BY <1>11 DEF WokenShares
<1> QED
  BY <1>1, <1>2, <1>3, <1>4, <1>5, <1>6, <1>7, <1>8, <1>9, <1>10, <1>11

\* The steps of acquire, restore and login keep the types.
LEMMA TypeAcquire ==
  ASSUME TypeOK, NEW p \in Procs,
         \/ RunReserved(p) \/ AcquireRefused(p) \/ AcquireBegins(p)
         \/ LoadFails(p) \/ LoadFindsNothing(p) \/ LoadFinds(p)
         \/ RestoreFallsBack(p) \/ RestoreOnline(p) \/ LoginStarts(p)
         \/ LoginSucceeds(p) \/ LoginFails(p)
  PROVE  TypeOK'
<1> USE SessionAssumption, TypeShared DEF TypeOK, provider, store, local,
        history, Goto, Ends, PCs, Results, Errors, Ops, NoCred, Creds
<1>1. CASE RunReserved(p)
  BY <1>1 DEF RunReserved, Acquiring
<1>2. CASE AcquireRefused(p)
  BY <1>2 DEF AcquireRefused, Acquiring
<1>3. CASE AcquireBegins(p)
  BY <1>3 DEF AcquireBegins, Acquiring
<1>4. CASE LoadFails(p)
  BY <1>4 DEF LoadFails, Acquiring
<1>5. CASE LoadFindsNothing(p)
  BY <1>5 DEF LoadFindsNothing, Acquiring
<1>6. CASE LoadFinds(p)
  <2>1. cred[p] \in Creds /\ disk \in Nat
    OBVIOUS
  <2>2. cred' \in [Procs -> Creds]
    <3>1. [cred[p] EXCEPT !.sid = disk, !.restored = TRUE] \in Creds
      <4> HIDE DEF TypeOK
      <4> QED
        BY <2>1, CredsBuilt
    <3> QED
      BY <1>6, <3>1 DEF LoadFinds
  <2> QED
    BY <1>6, <2>2 DEF LoadFinds, Acquiring
<1>7. CASE RestoreFallsBack(p)
  BY <1>7 DEF RestoreFallsBack, Acquiring
<1>8. CASE RestoreOnline(p)
  BY <1>8 DEF RestoreOnline, Acquiring
<1>9. CASE LoginStarts(p)
  BY <1>9 DEF LoginStarts, Acquiring
<1>10. CASE LoginSucceeds(p)
  <2>1. cred[p] \in Creds /\ lastSid + 1 \in Nat
    OBVIOUS
  <2>2. cred' \in [Procs -> Creds]
    <3>1. [cred[p] EXCEPT !.sid = lastSid + 1] \in Creds
      <4> HIDE DEF TypeOK
      <4> QED
        BY <2>1, CredsBuilt
    <3> QED
      BY <1>10, <3>1 DEF LoginSucceeds
  <2> QED
    BY <1>10, <2>1, <2>2 DEF LoginSucceeds, Acquiring
<1>11. CASE LoginFails(p)
  BY <1>11 DEF LoginFails, Acquiring
<1> QED
  BY <1>1, <1>2, <1>3, <1>4, <1>5, <1>6, <1>7, <1>8, <1>9, <1>10, <1>11

\* The steps of finishLogin and finishRefresh keep the types.
LEMMA TypeSave ==
  ASSUME TypeOK, NEW p \in Procs,
         \/ SaveRefused(p) \/ SaveLocks(p) \/ SaveWrites(p)
         \/ SaveFails(p) \/ SaveCommits(p) \/ SaveOvertaken(p)
         \/ RecheckPasses(p) \/ RecheckFails(p) \/ Publish(p)
         \/ FinishFails(p) \/ Release(p)
  PROVE  TypeOK'
<1> USE SessionAssumption, TypeShared DEF TypeOK, provider, store, local,
        history, Goto, Ends, PCs, Results, Errors, Ops, NoCred, Creds
<1>1. CASE SaveRefused(p)
  BY <1>1 DEF SaveRefused, Acquiring
<1>2. CASE SaveLocks(p)
  BY <1>2 DEF SaveLocks, Acquiring
<1>3. CASE SaveWrites(p)
  BY <1>3 DEF SaveWrites, Acquiring
<1>4. CASE SaveFails(p)
  BY <1>4 DEF SaveFails, Acquiring
<1>5. CASE SaveCommits(p)
  BY <1>5 DEF SaveCommits, Acquiring
<1>6. CASE SaveOvertaken(p)
  BY <1>6 DEF SaveOvertaken, Acquiring
<1>7. CASE RecheckPasses(p)
  BY <1>7 DEF RecheckPasses, Acquiring
<1>8. CASE RecheckFails(p)
  <2>1. cred' \in [Procs -> Creds]
    <3>1. CASE cred' = [cred EXCEPT ![p] = NoCred]
      BY <3>1
    <3>2. CASE cred' = cred
      BY <3>2
    <3> QED
      BY <1>8, <3>1, <3>2 DEF RecheckFails
  <2>2. pc' \in [Procs -> PCs]
    BY <1>8 DEF RecheckFails, Acquiring
  <2>3. result' \in [Procs -> Results]
    BY <1>8 DEF RecheckFails
  <2> QED
    BY <1>8, <2>1, <2>2, <2>3 DEF RecheckFails
<1>9. CASE Publish(p)
  <2>1. cur' \in Creds
    <3>1. cred[p] \in Creds /\ generation + 1 \in Nat /\ rev[p] \in Nat
      OBVIOUS
    <3> QED
      BY <1>9, <3>1 DEF Publish
  <2>2. cred' \in [Procs -> Creds]
    BY <1>9, <2>1 DEF Publish
  <2>3. generation' \in Nat
    BY <1>9 DEF Publish
  <2> QED
    BY <1>9, <2>1, <2>2, <2>3 DEF Publish, Acquiring
<1>10. CASE FinishFails(p)
  BY <1>10 DEF FinishFails, Acquiring
<1>11. CASE Release(p)
  BY <1>11 DEF Release, Acquiring
<1> QED
  BY <1>1, <1>2, <1>3, <1>4, <1>5, <1>6, <1>7, <1>8, <1>9, <1>10, <1>11

\* What consumers and ForgetSession do keeps the types.
LEMMA TypeUse ==
  ASSUME TypeOK, NEW p \in Procs,
         \/ Returns(p) \/ Uses(p) \/ SessionRejected(p)
         \/ InvalidateIfCurrent(p) \/ InvalidateStale(p) \/ ForgetGivesUp(p)
         \/ ForgetLocks(p) \/ ForgetFlags(p) \/ ForgetInvalidates(p)
         \/ ForgetDeletes(p)
  PROVE  TypeOK'
<1> USE SessionAssumption, TypeShared DEF TypeOK, provider, store, local,
        history, Goto, Ends, PCs, Results, Errors, Ops, NoCred, Creds
<1>1. CASE Returns(p)
  BY <1>1 DEF Returns, Rests
<1>2. CASE Uses(p)
  BY <1>2 DEF Uses
<1>3. CASE SessionRejected(p)
  BY <1>3 DEF SessionRejected
<1>4. CASE InvalidateIfCurrent(p)
  <2>1. revision' \in Nat /\ cur' \in Creds /\ deadBelow' \in Nat
    BY <1>4 DEF InvalidateIfCurrent, InvalidateLocked
  <2>2. CASE Rests(p)
    <3>1. cred' \in [Procs -> Creds] /\ startRev' \in [Procs -> Nat]
      BY <2>2 DEF Rests
    <3>2. pc' \in [Procs -> PCs] /\ rev' \in [Procs -> Nat]
      BY <2>2 DEF Rests
    <3> QED
      BY <1>4, <2>1, <2>2, <3>1, <3>2
         DEF InvalidateIfCurrent, InvalidateLocked, Rests
  <2>3. CASE op[p] = "check" /\ ~Rests(p)
    <3>1. cred' \in [Procs -> Creds] /\ startRev' \in [Procs -> Nat]
      <4>1. /\ cred' = [cred EXCEPT ![p] = NoCred]
            /\ startRev' = [startRev EXCEPT ![p] = revision + 1]
        BY <1>4, <2>3 DEF InvalidateIfCurrent
      <4>2. NoCred \in Creds /\ revision + 1 \in Nat
        OBVIOUS
      <4> HIDE DEF NoCred, Creds
      <4> QED
        BY <4>1, <4>2
    <3>2. pc' \in [Procs -> PCs]
      BY <1>4, <2>3 DEF InvalidateIfCurrent
    <3> QED
      BY <1>4, <2>1, <2>3, <3>1, <3>2
         DEF InvalidateIfCurrent, InvalidateLocked
  <2> QED
    BY <1>4, <2>2, <2>3 DEF InvalidateIfCurrent
<1>5. CASE InvalidateStale(p)
  BY <1>5 DEF InvalidateStale, Rests
<1>6. CASE ForgetGivesUp(p)
  BY <1>6 DEF ForgetGivesUp, Rests, Forgetting
<1>7. CASE ForgetLocks(p)
  BY <1>7 DEF ForgetLocks, Forgetting
<1>8. CASE ForgetFlags(p)
  BY <1>8 DEF ForgetFlags, Forgetting
<1>9. CASE ForgetInvalidates(p)
  BY <1>9 DEF ForgetInvalidates, InvalidateLocked, Forgetting
<1>10. CASE ForgetDeletes(p)
  BY <1>10 DEF ForgetDeletes, Rests, Forgetting
<1> QED
  BY <1>1, <1>2, <1>3, <1>4, <1>5, <1>6, <1>7, <1>8, <1>9, <1>10

\* Every step keeps the types.
LEMMA TypeStep == TypeOK /\ [Next]_vars => TypeOK'
<1> SUFFICES ASSUME TypeOK, [Next]_vars PROVE TypeOK'
  OBVIOUS
<1>1. ASSUME NEW p \in Procs, Step(p) PROVE TypeOK'
  BY <1>1, TypeCalls, TypeAcquire, TypeSave, TypeUse DEF Step
<1>2. ASSUME NEW p \in Procs, Environment(p) PROVE TypeOK'
  BY <1>2, TypeBegin DEF Environment
<1>3. CASE Close
  BY <1>3 DEF Close, ClearSession, TypeOK, NoCred, Creds, store, local, history
<1>4. CASE UNCHANGED vars
  BY <1>4 DEF vars, TypeOK, provider, store, local, history
<1> QED
  BY <1>1, <1>2, <1>3, <1>4 DEF Next, Quiet

\* Whatever the goroutines and the number of calls, the variables keep their
\* types: in particular a revision read by an acquisition is never negative
\* and a call always has one of the results its caller tests for.
THEOREM TypeCorrect == Spec => []TypeOK
<1> QED
  BY TypeInit, TypeStep, PTL DEF Spec

-----------------------------------------------------------------------------
(***************************************************************************)
(* The inductive invariant, in layers: each is preserved by every step      *)
(* from a state where it and the layers before it hold.                     *)
(***************************************************************************)

\* The refresh slot names the one acquisition; meanwhile nothing is served,
\* and what is served belongs to the current revision of an open provider.
SlotInv ==
  /\ \A p \in Procs : pc[p] \in Acquiring <=> refreshing = p
  /\ \A p \in Procs : pc[p] \in Acquiring => ~Live /\ rev[p] <= revision
  /\ Live => cur.rev = revision /\ ~closed

\* An answer is at least as recent as the calls it is for or will be given to.
AnswerInv ==
  /\ \A p \in Procs : startRev[p] <= revision
  /\ \A p \in Procs :
       pc[p] \in {"release", "woken", "returned"} /\ result[p] = "ok" =>
         cred[p].rev >= startRev[p]
  /\ \A p, q \in Procs :
       pc[p] = "release" /\ result[p] = "ok" /\ Waits(q, p) =>
         cred[p].rev >= startRev[q]

\* p has saved the session it acquired and is about to publish it.
Saved(p) == pc[p] = "recheck" \/ (pc[p] = "finish" /\ result[p] = "ok")

\* The gate names the one writer of the store.  A session that can still be
\* published, or is served, is the stored one, and ForgetSession deletes only
\* when there is none.
StoredInv ==
  /\ \A p \in Procs :
       pc[p] \in {"saveWrite", "saveEnd"} \cup Forgetting <=> gate = p
  /\ Live => disk = cur.sid
  /\ \A p \in Procs : pc[p] = "saveEnd" => disk = cred[p].sid
  /\ \A p \in Procs : Saved(p) /\ rev[p] = revision => disk = cred[p].sid
  /\ \A p, q \in Procs :
       pc[p] = "forgetDelete" => ~Live /\ (Saved(q) => rev[q] # revision)

\* Unless the next acquisition is forced, the store holds no dead session;
\* nor does an acquisition that can still publish, nor the provider.
DeadInv ==
  /\ deadBelow <= lastSid + 1
  /\ ~forceLogin /\ disk # 0 => disk >= deadBelow
  /\ \A p \in Procs : pc[p] = "restore" /\ rev[p] = revision => ~forceLogin
  /\ \A p \in Procs :
       (pc[p] \in {"probe", "saveLock"} \/ Saved(p)) /\ rev[p] = revision =>
         cred[p].sid >= deadBelow
  /\ \A p \in Procs :
       pc[p] \in {"saveWrite", "saveEnd"} => cred[p].sid >= deadBelow
  /\ Live => cur.sid >= deadBelow


-----------------------------------------------------------------------------
(* What the groups of steps leave alone *)

\* The steps of an acquisition between its start and finishRefresh.
AcquiringStep(p) ==
  \/ RunReserved(p) \/ AcquireRefused(p) \/ AcquireBegins(p)
  \/ LoadFails(p) \/ LoadFindsNothing(p) \/ LoadFinds(p)
  \/ RestoreFallsBack(p) \/ RestoreOnline(p) \/ LoginStarts(p)
  \/ LoginSucceeds(p) \/ LoginFails(p)
  \/ SaveRefused(p) \/ SaveLocks(p) \/ SaveWrites(p) \/ SaveFails(p)
  \/ SaveCommits(p) \/ SaveOvertaken(p) \/ RecheckPasses(p) \/ RecheckFails(p)

\* Steps outside an acquisition that leave the provider alone.
OutsideStep(p) ==
  \/ BeginCredential(p) \/ BeginForceLogin(p) \/ BeginForget(p)
  \/ BeginCheck(p)
  \/ LoopCancelled(p) \/ LoopClosed(p) \/ CredentialServed(p)
  \/ CredentialReplaced(p) \/ Joins(p) \/ WaitCancelled(p)
  \/ WokenCancelled(p) \/ WokenRetries(p) \/ WokenShares(p)
  \/ Returns(p) \/ Uses(p) \/ SessionRejected(p) \/ InvalidateStale(p)
  \/ ForgetGivesUp(p) \/ ForgetLocks(p) \/ ForgetFlags(p) \/ ForgetDeletes(p)

\* Steps that drop the session for good.
InvalidatingStep(p) ==
  ForceLoginLeads(p) \/ InvalidateIfCurrent(p) \/ ForgetInvalidates(p)

LEMMA StepCases ==
  ASSUME TypeOK, [Next]_vars
  PROVE  \/ UNCHANGED vars
         \/ Close
         \/ \E p \in Procs :
              \/ OutsideStep(p) \/ AcquiringStep(p) \/ InvalidatingStep(p)
              \/ Cancel(p) \/ CredentialLeads(p) \/ TryForceRelogin(p)
              \/ Publish(p) \/ FinishFails(p) \/ Release(p)
  BY DEF Next, Step, Environment, Quiet, OutsideStep, AcquiringStep,
         InvalidatingStep

\* Only Release changes the private state of another goroutine.
LEMMA OthersUntouched ==
  ASSUME TypeOK, NEW p \in Procs, NEW q \in Procs \ {p},
         \/ OutsideStep(p) \/ AcquiringStep(p) \/ InvalidatingStep(p)
         \/ Cancel(p) \/ CredentialLeads(p) \/ TryForceRelogin(p)
         \/ Publish(p) \/ FinishFails(p)
  PROVE  /\ pc'[q] = pc[q] /\ rev'[q] = rev[q] /\ cred'[q] = cred[q]
         /\ result'[q] = result[q] /\ joined'[q] = joined[q]
         /\ startRev'[q] = startRev[q]
<1> USE DEF TypeOK, Goto, Ends, provider, local, history, Begin, Rests, Lead
<1>1. CASE OutsideStep(p)
  BY <1>1 DEF OutsideStep, BeginCredential, BeginForceLogin, BeginForget,
     BeginCheck, LoopCancelled, LoopClosed, CredentialServed,
     CredentialReplaced, Joins, WaitCancelled, WokenCancelled, WokenRetries,
     WokenShares, Returns, Uses, SessionRejected, InvalidateStale,
     ForgetGivesUp, ForgetLocks, ForgetFlags, ForgetDeletes
<1>2. CASE AcquiringStep(p)
  BY <1>2 DEF AcquiringStep, RunReserved, AcquireRefused, AcquireBegins,
     LoadFails, LoadFindsNothing, LoadFinds, RestoreFallsBack, RestoreOnline,
     LoginStarts, LoginSucceeds, LoginFails, SaveRefused, SaveLocks,
     SaveWrites, SaveFails, SaveCommits, SaveOvertaken, RecheckPasses,
     RecheckFails
<1>3. CASE InvalidatingStep(p)
  BY <1>3 DEF InvalidatingStep, ForceLoginLeads, InvalidateIfCurrent,
     ForgetInvalidates, InvalidateLocked
<1>4. CASE Cancel(p) \/ CredentialLeads(p) \/ TryForceRelogin(p)
           \/ Publish(p) \/ FinishFails(p)
  BY <1>4 DEF Cancel, CredentialLeads, TryForceRelogin, Publish, FinishFails
<1> QED
  BY <1>1, <1>2, <1>3, <1>4

\* An outside step stays outside and changes no part of the provider.
LEMMA OutsideFrame ==
  ASSUME TypeOK, NEW p \in Procs, OutsideStep(p)
  PROVE  /\ UNCHANGED provider
         /\ pc[p] \notin Acquiring /\ pc'[p] \notin Acquiring
<1> USE DEF Goto, Ends, provider, local, Begin, Rests
<1>1. UNCHANGED provider
  BY DEF OutsideStep, BeginCredential, BeginForceLogin, BeginForget,
     BeginCheck, LoopCancelled, LoopClosed, CredentialServed,
     CredentialReplaced, Joins, WaitCancelled, WokenCancelled, WokenRetries,
     WokenShares, Returns, Uses, SessionRejected, InvalidateStale,
     ForgetGivesUp, ForgetLocks, ForgetFlags, ForgetDeletes
<1>2. pc[p] \notin Acquiring /\ pc'[p] \notin Acquiring
  BY DEF TypeOK, Acquiring, Looping, Proceeds, OutsideStep, BeginCredential,
     BeginForceLogin, BeginForget, BeginCheck, LoopCancelled, LoopClosed,
     CredentialServed, CredentialReplaced, Joins, WaitCancelled,
     WokenCancelled, WokenRetries, WokenShares, Returns, Uses,
     SessionRejected, InvalidateStale, ForgetGivesUp, ForgetLocks,
     ForgetFlags, ForgetDeletes
<1> QED
  BY <1>1, <1>2

\* An acquisition's step stays in it; of the provider only the force flag may
\* change.
LEMMA AcquiringFrame ==
  ASSUME TypeOK, NEW p \in Procs, AcquiringStep(p)
  PROVE  /\ UNCHANGED <<cur, refreshing, generation, revision, closed>>
         /\ UNCHANGED <<rev, startRev, joined, deadBelow>>
         /\ pc[p] \in Acquiring /\ pc'[p] \in Acquiring
<1> USE DEF Goto, Ends, provider, local, history
<1>1. /\ UNCHANGED <<cur, refreshing, generation, revision, closed>>
      /\ UNCHANGED <<rev, startRev, joined, deadBelow>>
  BY DEF AcquiringStep, RunReserved, AcquireRefused, AcquireBegins,
     LoadFails, LoadFindsNothing, LoadFinds, RestoreFallsBack, RestoreOnline,
     LoginStarts, LoginSucceeds, LoginFails, SaveRefused, SaveLocks,
     SaveWrites, SaveFails, SaveCommits, SaveOvertaken, RecheckPasses,
     RecheckFails
<1>2. pc[p] \in Acquiring /\ pc'[p] \in Acquiring
  BY DEF TypeOK, Acquiring, AcquiringStep, RunReserved, AcquireRefused,
     AcquireBegins, LoadFails, LoadFindsNothing, LoadFinds, RestoreFallsBack,
     RestoreOnline, LoginStarts, LoginSucceeds, LoginFails, SaveRefused,
     SaveLocks, SaveWrites, SaveFails, SaveCommits, SaveOvertaken,
     RecheckPasses, RecheckFails
<1> QED
  BY <1>1, <1>2

\* An invalidation serves nothing, at a new revision, and bars every session
\* known so far.
LEMMA InvalidatingFrame ==
  ASSUME TypeOK, NEW p \in Procs, InvalidatingStep(p)
  PROVE  /\ cur' = NoCred /\ revision' = revision + 1 /\ forceLogin' = TRUE
         /\ deadBelow' = lastSid + 1
         /\ UNCHANGED <<closed, store, lastSid>>
  BY DEF InvalidatingStep, ForceLoginLeads, InvalidateIfCurrent,
     ForgetInvalidates, InvalidateLocked, ClearSession, Rests, store

-----------------------------------------------------------------------------
(* First layer: the refresh slot *)

LEMMA SlotInit == Init => SlotInv
  BY SessionAssumption DEF Init, SlotInv, Acquiring, Live

LEMMA SlotStep == TypeOK /\ SlotInv /\ [Next]_vars => SlotInv'
<1> SUFFICES ASSUME TypeOK, SlotInv, [Next]_vars PROVE SlotInv'
  OBVIOUS
<1> USE SessionAssumption
<1>1. CASE UNCHANGED vars
  BY <1>1 DEF vars, provider, local, SlotInv, Live
<1>2. CASE Close
  BY <1>2 DEF Close, ClearSession, local, SlotInv, Live, TypeOK
<1>3. ASSUME NEW p \in Procs, OutsideStep(p) PROVE SlotInv'
  BY <1>3, OthersUntouched, OutsideFrame DEF SlotInv, Live, provider
<1>4. ASSUME NEW p \in Procs, AcquiringStep(p) PROVE SlotInv'
  BY <1>4, OthersUntouched, AcquiringFrame DEF SlotInv, Live
<1>5. ASSUME NEW p \in Procs, Cancel(p) PROVE SlotInv'
  BY <1>5 DEF Cancel, provider, SlotInv, Live
<1>6. ASSUME NEW p \in Procs, InvalidatingStep(p) PROVE SlotInv'
  <2>a. /\ \A q \in Procs \ {p} : pc'[q] = pc[q] /\ rev'[q] = rev[q]
        /\ ~Live' /\ revision' = revision + 1
    BY <1>6, OthersUntouched, InvalidatingFrame DEF Live
  <2>1. CASE ForceLoginLeads(p)
    <3>1. pc'[p] \in Acquiring /\ refreshing' = p /\ rev'[p] = revision + 1
      BY <2>1 DEF ForceLoginLeads, Lead, Goto, Acquiring, TypeOK
    <3>2. \A q \in Procs : pc[q] \notin Acquiring
      BY <2>1 DEF ForceLoginLeads, SlotInv
    <3> QED
      BY <2>a, <3>1, <3>2 DEF SlotInv, TypeOK
  <2>2. CASE ~ForceLoginLeads(p)
    <3>1. /\ pc[p] \notin Acquiring /\ pc'[p] \notin Acquiring
          /\ refreshing' = refreshing
      BY <1>6, <2>2 DEF InvalidatingStep, InvalidateIfCurrent, Rests, Goto,
         ForgetInvalidates, Acquiring, TypeOK
    <3>2. \A q \in Procs : pc[q] \in Acquiring => rev[q] \in Nat
      BY DEF TypeOK
    <3> QED
      BY <2>a, <3>1, <3>2 DEF SlotInv, TypeOK
  <2> QED
    BY <2>1, <2>2
<1>7. ASSUME NEW p \in Procs, CredentialLeads(p) PROVE SlotInv'
  <2>1. /\ pc'[p] \in Acquiring /\ refreshing' = p /\ rev'[p] = revision
        /\ UNCHANGED <<cur, revision, closed>> /\ ~Live
    BY <1>7 DEF CredentialLeads, Lead, Goto, Acquiring, TypeOK
  <2>2. \A q \in Procs : pc[q] \notin Acquiring
    BY <1>7 DEF CredentialLeads, SlotInv
  <2> QED
    BY <1>7, <2>1, <2>2, OthersUntouched DEF SlotInv, Live, TypeOK
<1>8. ASSUME NEW p \in Procs, TryForceRelogin(p) PROVE SlotInv'
  <2>1. /\ pc'[p] \in Acquiring /\ refreshing' = p /\ rev'[p] = revision + 1
        /\ cur' = NoCred /\ revision' = revision + 1
    BY <1>8 DEF TryForceRelogin, ClearSession, Lead, Goto, Acquiring, TypeOK
  <2>2. \A q \in Procs : pc[q] \notin Acquiring
    BY <1>8 DEF TryForceRelogin, SlotInv
  <2> QED
    BY <1>8, <2>1, <2>2, OthersUntouched DEF SlotInv, Live, TypeOK
<1>9. ASSUME NEW p \in Procs, Publish(p) PROVE SlotInv'
  <2>1. /\ pc[p] \in Acquiring /\ pc'[p] \notin Acquiring
        /\ refreshing' = NoProc /\ UNCHANGED <<revision, closed, rev>>
    BY <1>9 DEF Publish, Goto, Acquiring, TypeOK
  <2>2. cur'.rev = revision' /\ ~closed'
    <3>1. cur' = [cred[p] EXCEPT !.gen = generation + 1, !.rev = rev[p]]
      BY <1>9 DEF Publish
    <3>2. rev[p] = revision /\ ~closed
      BY <1>9 DEF Publish, CheckAcquisition
    <3> QED
      BY <2>1, <3>1, <3>2 DEF TypeOK, Creds
  <2>3. \A q \in Procs : pc'[q] \notin Acquiring
    BY <1>9, <2>1, OthersUntouched DEF SlotInv
  <2> QED
    BY <2>1, <2>2, <2>3 DEF SlotInv, Live
<1>10. ASSUME NEW p \in Procs, FinishFails(p) PROVE SlotInv'
  <2>1. /\ pc[p] \in Acquiring /\ pc'[p] \notin Acquiring
        /\ refreshing' = NoProc /\ UNCHANGED <<cur, revision, closed, rev>>
    BY <1>10 DEF FinishFails, Ends, Goto, Acquiring, TypeOK
  <2>2. \A q \in Procs : pc'[q] \notin Acquiring
    BY <1>10, <2>1, OthersUntouched DEF SlotInv
  <2> QED
    BY <2>1, <2>2 DEF SlotInv, Live
<1>11. ASSUME NEW p \in Procs, Release(p) PROVE SlotInv'
  <2>1. \A q \in Procs : pc'[q] \in Acquiring <=> pc[q] \in Acquiring
    BY <1>11 DEF Release, Shares, Waits, Acquiring, TypeOK
  <2> QED
    BY <1>11, <2>1 DEF Release, provider, SlotInv, Live
<1> QED
  BY <1>1, <1>2, <1>3, <1>4, <1>5, <1>6, <1>7, <1>8, <1>9, <1>10, <1>11,
     StepCases

LEMMA SlotInvariant == Spec => [](TypeOK /\ SlotInv)
<1>1. Init => TypeOK /\ SlotInv
  BY TypeInit, SlotInit
<1>2. TypeOK /\ SlotInv /\ [Next]_vars => (TypeOK /\ SlotInv)'
  BY TypeStep, SlotStep
<1> QED
  BY <1>1, <1>2, PTL DEF Spec

\* Two callers never run two acquisitions, and nothing is served while one
\* runs (Credential, ForceLogin and TryForceRelogin, on the refresh slot).
THEOREM OneAcquisition == Spec => []SingleAcquisition
<1>1. TypeOK /\ SlotInv => SingleAcquisition
  BY DEF SlotInv, SingleAcquisition
<1> QED
  BY <1>1, SlotInvariant, PTL

\* finishRefresh never publishes a session that Invalidate, ForceLogin,
\* ForgetSession, a forced re-login or Close overtook.
THEOREM NothingOvertakenServed == Spec => []ServedSinceInvalidation
<1>1. SlotInv => ServedSinceInvalidation
  BY DEF SlotInv, ServedSinceInvalidation
<1> QED
  BY <1>1, SlotInvariant, PTL

-----------------------------------------------------------------------------
(* Second layer: answers *)

LEMMA AnswerInit == Init => AnswerInv
  BY DEF Init, AnswerInv

LEMMA AnswerStep == TypeOK /\ SlotInv /\ AnswerInv /\ [Next]_vars => AnswerInv'
<1> SUFFICES ASSUME TypeOK, SlotInv, AnswerInv, [Next]_vars PROVE AnswerInv'
  OBVIOUS
<1>t. /\ revision \in Nat /\ startRev \in [Procs -> Nat]
      /\ \A q \in Procs : cred[q].rev \in Nat
  BY DEF TypeOK, Creds
<1>1. CASE UNCHANGED vars
  BY <1>1 DEF vars, provider, local, history, AnswerInv, Waits
<1>2. CASE Close
  BY <1>2, <1>t DEF Close, ClearSession, local, history, AnswerInv, Waits
<1>3. ASSUME NEW p \in Procs, OutsideStep(p) PROVE AnswerInv'
  <2>1. startRev'[p] <= revision /\ revision' = revision
    BY <1>3, <1>t, OutsideFrame
       DEF provider, OutsideStep, BeginCredential, BeginForceLogin,
           BeginForget, BeginCheck, LoopCancelled, LoopClosed,
           CredentialServed, CredentialReplaced, Joins, WaitCancelled,
           WokenCancelled, WokenRetries, WokenShares, Returns, Uses,
           SessionRejected, InvalidateStale, ForgetGivesUp, ForgetLocks,
           ForgetFlags, ForgetDeletes, Begin, Rests, history, AnswerInv
  <2>2. pc'[p] # "release"
    BY <1>3
       DEF TypeOK, OutsideStep, BeginCredential, BeginForceLogin,
           BeginForget, BeginCheck, LoopCancelled, LoopClosed,
           CredentialServed, CredentialReplaced, Joins, WaitCancelled,
           WokenCancelled, WokenRetries, WokenShares, Returns, Uses,
           SessionRejected, InvalidateStale, ForgetGivesUp, ForgetLocks,
           ForgetFlags, ForgetDeletes, Goto, Ends, Rests
  <2>3. pc'[p] \in {"woken", "returned"} /\ result'[p] = "ok" =>
          cred'[p].rev >= startRev'[p]
    <3>1. CASE CredentialServed(p)
      <4>1. cred'[p] = cur /\ startRev'[p] = startRev[p] /\ Live
        BY <3>1 DEF CredentialServed, history, TypeOK
      <4> QED
        BY <4>1, <1>t DEF SlotInv, AnswerInv
    <3>2. CASE WokenShares(p)
      BY <3>2 DEF WokenShares, local, history, AnswerInv
    <3>3. CASE ~CredentialServed(p) /\ ~WokenShares(p)
      BY <1>3, <3>3
         DEF TypeOK, OutsideStep, BeginCredential, BeginForceLogin,
             BeginForget, BeginCheck, LoopCancelled, LoopClosed,
             CredentialReplaced, Joins, WaitCancelled,
             WokenCancelled, WokenRetries, Returns, Uses,
             SessionRejected, InvalidateStale, ForgetGivesUp, ForgetLocks,
             ForgetFlags, ForgetDeletes, Goto, Ends, Rests
    <3> QED
      BY <3>1, <3>2, <3>3
  <2>4. \A q \in Procs : pc[q] = "release" /\ Waits(p, q)' => FALSE
    <3>1. CASE Joins(p)
      BY <3>1 DEF Joins, Waits, TypeOK, SlotInv, Acquiring
    <3>2. CASE ~Joins(p)
      <4>1. pc'[p] # "waiting"
        BY <1>3, <3>2
           DEF TypeOK, OutsideStep, BeginCredential, BeginForceLogin,
               BeginForget, BeginCheck, LoopCancelled, LoopClosed,
               CredentialServed, CredentialReplaced, WaitCancelled,
               WokenCancelled, WokenRetries, WokenShares, Returns, Uses,
               SessionRejected, InvalidateStale, ForgetGivesUp, ForgetLocks,
               ForgetFlags, ForgetDeletes, Goto, Ends, Rests
      <4> QED
        BY <4>1 DEF Waits
    <3> QED
      BY <3>1, <3>2
  <2>5. \A q \in Procs \ {p} :
          /\ pc'[q] = pc[q] /\ cred'[q] = cred[q] /\ result'[q] = result[q]
          /\ joined'[q] = joined[q] /\ startRev'[q] = startRev[q]
    BY <1>3, OthersUntouched
  <2> QED
    BY <2>1, <2>2, <2>3, <2>4, <2>5 DEF AnswerInv, Waits
<1>4. ASSUME NEW p \in Procs,
             AcquiringStep(p) \/ Cancel(p) \/ CredentialLeads(p)
      PROVE  AnswerInv'
  <2>1. UNCHANGED <<revision, startRev>>
    BY <1>4, AcquiringFrame DEF Cancel, CredentialLeads, provider, history
  <2>2. \/ pc'[p] \in Acquiring
        \/ UNCHANGED <<pc, cred, result, joined>>
    BY <1>4, AcquiringFrame
       DEF Cancel, CredentialLeads, Lead, Goto, Acquiring, TypeOK
  <2>3. \A q \in Procs \ {p} :
          /\ pc'[q] = pc[q] /\ cred'[q] = cred[q] /\ result'[q] = result[q]
          /\ joined'[q] = joined[q]
    BY <1>4, OthersUntouched
  <2> QED
    BY <2>1, <2>2, <2>3 DEF AnswerInv, Waits, Acquiring
<1>5. ASSUME NEW p \in Procs, InvalidatingStep(p) \/ TryForceRelogin(p)
      PROVE  AnswerInv'
  <2>1. /\ revision' = revision + 1
        /\ startRev'[p] \in {0, startRev[p], revision, revision + 1}
    BY <1>5, <1>t
       DEF InvalidatingStep, ForceLoginLeads, InvalidateIfCurrent,
           ForgetInvalidates, InvalidateLocked, ClearSession,
           TryForceRelogin, Begin, Rests, history
  <2>2. pc'[p] \notin {"release", "woken", "returned", "waiting"}
    BY <1>5
       DEF InvalidatingStep, ForceLoginLeads, InvalidateIfCurrent,
           ForgetInvalidates, TryForceRelogin, Lead, Goto, Rests, TypeOK
  <2>3. \A q \in Procs \ {p} :
          /\ pc'[q] = pc[q] /\ cred'[q] = cred[q] /\ result'[q] = result[q]
          /\ joined'[q] = joined[q] /\ startRev'[q] = startRev[q]
    BY <1>5, OthersUntouched
  <2> QED
    BY <1>t, <2>1, <2>2, <2>3 DEF AnswerInv, Waits
<1>6. ASSUME NEW p \in Procs, Publish(p) \/ FinishFails(p) PROVE AnswerInv'
  <2>1. pc'[p] = "release" /\ UNCHANGED <<revision, startRev>>
    BY <1>6 DEF Publish, FinishFails, Ends, Goto, history, TypeOK
  <2>2. result'[p] = "ok" => cred'[p].rev = revision
    <3>1. CASE Publish(p)
      <4>1. /\ cred'[p] = [cred[p] EXCEPT !.gen = generation + 1, !.rev = rev[p]]
            /\ rev[p] = revision
        BY <3>1 DEF Publish, CheckAcquisition, TypeOK
      <4> QED
        BY <4>1 DEF TypeOK, Creds
    <3>2. CASE FinishFails(p)
      BY <3>2 DEF FinishFails, Ends, CheckAcquisition, TypeOK
    <3> QED
      BY <1>6, <3>1, <3>2
  <2>3. \A q \in Procs \ {p} :
          /\ pc'[q] = pc[q] /\ cred'[q] = cred[q] /\ result'[q] = result[q]
          /\ joined'[q] = joined[q]
    BY <1>6, OthersUntouched
  <2> QED
    BY <1>t, <2>1, <2>2, <2>3 DEF AnswerInv, Waits
<1>7. ASSUME NEW p \in Procs, Release(p) PROVE AnswerInv'
  <2>1. UNCHANGED <<revision, startRev>>
    BY <1>7 DEF Release, provider, history
  <2>2. /\ \A q \in Procs : pc'[q] = "release" => pc[q] = "release" /\ q # p
        /\ \A q \in Procs : pc'[q] = "waiting" =>
             pc[q] = "waiting" /\ ~Waits(q, p)
    BY <1>7 DEF Release, Shares
  <2>3. /\ pc[p] = "release" /\ cred'[p] = cred[p] /\ result'[p] = result[p]
    BY <1>7 DEF Release, Shares, Waits
  <2>4. \A q \in Procs : Shares(q, p) =>
          result'[q] = result[p] /\ cred'[q] = cred[p] /\ Waits(q, p)
    BY <1>7 DEF Release, Shares
  <2>5. \A q \in Procs : ~Shares(q, p) =>
          result'[q] = result[q] /\ cred'[q] = cred[q] /\
          (pc'[q] \in {"woken", "returned"} => pc[q] \in {"woken", "returned", "release"})
    BY <1>7 DEF Release, Waits
  <2>6. \A q \in Procs : ~Waits(q, p) => joined'[q] = joined[q]
    BY <1>7 DEF Release
  <2>7. \A q \in Procs :
          pc'[q] \in {"release", "woken", "returned"} /\ result'[q] = "ok" =>
            cred'[q].rev >= startRev'[q]
    BY <2>1, <2>2, <2>3, <2>4, <2>5 DEF AnswerInv
  <2>8. \A q, r \in Procs :
          pc'[q] = "release" /\ result'[q] = "ok" /\ Waits(r, q)' =>
            cred'[q].rev >= startRev'[r]
    <3> SUFFICES ASSUME NEW q \in Procs, NEW r \in Procs,
                        pc'[q] = "release", result'[q] = "ok", Waits(r, q)'
                 PROVE  cred'[q].rev >= startRev'[r]
      OBVIOUS
    <3>1. pc[q] = "release" /\ q # p /\ ~Shares(q, p)
      BY <2>2 DEF Shares, Waits
    <3>2. Waits(r, q)
      BY <2>2, <2>6 DEF Waits
    <3> QED
      BY <2>1, <2>5, <3>1, <3>2 DEF AnswerInv
  <2> QED
    BY <2>1, <2>7, <2>8 DEF AnswerInv
<1> QED
  BY <1>1, <1>2, <1>3, <1>4, <1>5, <1>6, <1>7, StepCases

\* A caller is never given a session invalidated before it called, not even
\* by an acquisition that was under way when it joined.
THEOREM NoStaleAnswer == Spec => []AnswerSinceCall
<1>1. Init => TypeOK /\ SlotInv /\ AnswerInv
  BY TypeInit, SlotInit, AnswerInit
<1>2. TypeOK /\ SlotInv /\ AnswerInv /\ [Next]_vars
        => (TypeOK /\ SlotInv /\ AnswerInv)'
  BY TypeStep, SlotStep, AnswerStep
<1>3. AnswerInv => AnswerSinceCall
  BY DEF AnswerInv, AnswerSinceCall
<1> QED
  BY <1>1, <1>2, <1>3, PTL DEF Spec

-----------------------------------------------------------------------------
(* Third layer: the stored session *)

LEMMA StoredInit == Init => StoredInv
  BY SessionAssumption DEF Init, StoredInv, Saved, Live, Forgetting

Holding == {"saveWrite", "saveEnd"} \cup Forgetting

LEMMA StoredStep ==
  TypeOK /\ SlotInv /\ StoredInv /\ [Next]_vars => StoredInv'
<1> SUFFICES ASSUME TypeOK, SlotInv, StoredInv, [Next]_vars PROVE StoredInv'
  OBVIOUS
<1> USE SessionAssumption
<1>t. /\ revision \in Nat
      /\ \A q \in Procs : Saved(q) => pc[q] \in Acquiring /\ rev[q] <= revision
  BY DEF TypeOK, Saved, SlotInv, Acquiring
<1>1. CASE UNCHANGED vars
  BY <1>1 DEF vars, provider, store, local, StoredInv, Live, Saved
<1>2. CASE Close
  <2>1. /\ UNCHANGED <<store, pc, rev, cred, result>>
        /\ ~Live' /\ revision' = revision + 1
    BY <1>2 DEF Close, ClearSession, local, Live
  <2>2. \A q \in Procs : (Saved(q) <=> Saved(q)') /\ (Saved(q) => rev'[q] # revision')
    BY <1>t, <2>1 DEF Saved, TypeOK
  <2> QED
    BY <2>1, <2>2 DEF StoredInv, store
<1>3. ASSUME NEW p \in Procs, OutsideStep(p) PROVE StoredInv'
  <2>1. /\ \A q \in Procs \ {p} :
             /\ pc'[q] = pc[q] /\ rev'[q] = rev[q] /\ cred'[q] = cred[q]
             /\ Saved(q)' = Saved(q)
        /\ UNCHANGED <<revision, cur>>
        /\ ~Saved(p)' /\ pc'[p] \notin {"saveWrite", "saveEnd"}
        /\ ~Saved(p) /\ pc[p] \notin {"saveWrite", "saveEnd"}
    BY <1>3, OthersUntouched, OutsideFrame DEF Saved, Acquiring, provider
  <2>2. CASE ForgetDeletes(p)
    <3>1. pc[p] = "forgetDelete" /\ pc'[p] = "idle" /\ gate' = NoProc
      BY <2>2 DEF ForgetDeletes, Rests, Goto, TypeOK
    <3>2. gate = p
      BY <3>1 DEF StoredInv, Forgetting
    <3> QED
      BY <2>1, <3>1, <3>2 DEF StoredInv, Forgetting, Live
  <2>3. CASE ForgetGivesUp(p) \/ ForgetLocks(p) \/ ForgetFlags(p)
    <3>1. /\ disk' = disk
          /\ pc'[p] \in Holding <=> gate' = p
          /\ gate' = gate \/ (gate = p /\ gate' = NoProc)
                          \/ (gate = NoProc /\ gate' = p)
          /\ pc'[p] # "forgetDelete"
      BY <2>3 DEF ForgetGivesUp, ForgetLocks, ForgetFlags, Rests, Goto,
         TypeOK, StoredInv, Forgetting, Holding
    <3> QED
      BY <2>1, <3>1 DEF StoredInv, Live, Holding
  <2>4. CASE ~(\/ ForgetDeletes(p) \/ ForgetGivesUp(p) \/ ForgetLocks(p)
               \/ ForgetFlags(p))
    <3>1. /\ UNCHANGED store
          /\ pc[p] \notin Holding /\ pc'[p] \notin Holding
      BY <1>3, <2>4
         DEF TypeOK, OutsideStep, BeginCredential, BeginForceLogin,
             BeginForget, BeginCheck, LoopCancelled, LoopClosed,
             CredentialServed, CredentialReplaced, Joins, WaitCancelled,
             WokenCancelled, WokenRetries, WokenShares, Returns, Uses,
             SessionRejected, InvalidateStale, Begin, Goto, Ends, Rests,
             Holding, Forgetting, Looping, Proceeds
    <3> QED
      BY <2>1, <3>1 DEF StoredInv, Live, Holding, Forgetting, store
  <2> QED
    BY <2>2, <2>3, <2>4
<1>4. ASSUME NEW p \in Procs, AcquiringStep(p) PROVE StoredInv'
  <2>1. /\ \A q \in Procs \ {p} :
             /\ pc'[q] = pc[q] /\ rev'[q] = rev[q] /\ cred'[q] = cred[q]
             /\ ~Saved(q)' /\ pc[q] \notin {"saveWrite", "saveEnd"}
        /\ UNCHANGED <<revision, cur, rev>> /\ ~Live /\ ~Live'
        /\ pc[p] \notin Forgetting /\ pc'[p] \notin Forgetting
    <3>1. \A q \in Procs \ {p} :
            /\ pc'[q] = pc[q] /\ rev'[q] = rev[q] /\ cred'[q] = cred[q]
            /\ pc[q] \notin Acquiring
      BY <1>4, OthersUntouched, AcquiringFrame DEF SlotInv
    <3>2. UNCHANGED <<revision, cur, rev>> /\ ~Live
      BY <1>4, AcquiringFrame DEF SlotInv
    <3>3. pc[p] \notin Forgetting /\ pc'[p] \notin Forgetting
      BY <1>4, AcquiringFrame DEF Acquiring, Forgetting
    <3> QED
      BY <3>1, <3>2, <3>3 DEF Saved, Live, Acquiring
  <2>2. CASE SaveLocks(p)
    <3>1. /\ gate = NoProc /\ gate' = p /\ disk' = disk
          /\ pc'[p] = "saveWrite" /\ pc[p] = "saveLock"
      BY <2>2 DEF SaveLocks, Goto, TypeOK
    <3> QED
      BY <2>1, <3>1 DEF StoredInv, Saved, Forgetting
  <2>3. CASE SaveWrites(p)
    <3>1. /\ gate' = gate /\ disk' = cred[p].sid /\ cred' = cred
          /\ pc'[p] = "saveEnd" /\ pc[p] = "saveWrite"
      BY <2>3 DEF SaveWrites, Goto, TypeOK, local
    <3>2. gate = p
      BY <3>1 DEF StoredInv
    <3> QED
      BY <2>1, <3>1, <3>2 DEF StoredInv, Saved, Forgetting
  <2>4. CASE SaveFails(p) \/ SaveCommits(p) \/ SaveOvertaken(p)
    <3>1. /\ gate' = NoProc /\ cred' = cred
          /\ pc[p] \in {"saveWrite", "saveEnd"}
          /\ pc'[p] \in {"recheck", "finish"}
      BY <2>4 DEF SaveFails, SaveCommits, SaveOvertaken, Goto, Ends, TypeOK,
         local
    <3>2. gate = p
      BY <3>1 DEF StoredInv
    <3>3. Saved(p)' => disk' = disk /\ pc[p] = "saveEnd"
      BY <2>4 DEF SaveFails, SaveCommits, SaveOvertaken, Goto, Ends, TypeOK,
         Saved, CheckAcquisition
    <3> QED
      BY <2>1, <3>1, <3>2, <3>3 DEF StoredInv, Forgetting
  <2>5. CASE RecheckPasses(p)
    <3>1. UNCHANGED <<store, cred>> /\ Saved(p) /\ pc'[p] = "finish"
      BY <2>5 DEF RecheckPasses, Ends, Goto, TypeOK, Saved
    <3>2. pc[p] = "recheck"
      BY <2>5 DEF RecheckPasses
    <3> QED
      BY <2>1, <3>1, <3>2 DEF StoredInv, Forgetting, store
  <2>6. CASE ~(\/ SaveLocks(p) \/ SaveWrites(p) \/ SaveFails(p)
               \/ SaveCommits(p) \/ SaveOvertaken(p) \/ RecheckPasses(p))
    <3>1. UNCHANGED store
      BY <1>4, <2>6 DEF AcquiringStep, RunReserved, AcquireRefused,
         AcquireBegins, LoadFails, LoadFindsNothing, LoadFinds,
         RestoreFallsBack, RestoreOnline, LoginStarts, LoginSucceeds,
         LoginFails, SaveRefused, RecheckFails
    <3>2. pc[p] \notin Holding /\ pc'[p] \notin Holding
      BY <1>4, <2>6 DEF AcquiringStep, RunReserved, AcquireRefused,
         AcquireBegins, LoadFails, LoadFindsNothing, LoadFinds,
         RestoreFallsBack, RestoreOnline, LoginStarts, LoginSucceeds,
         LoginFails, SaveRefused, RecheckFails, Goto, Ends, TypeOK, Holding,
         Forgetting
    <3>3. ~Saved(p)'
      BY <1>4, <2>6 DEF AcquiringStep, RunReserved, AcquireRefused,
         AcquireBegins, LoadFails, LoadFindsNothing, LoadFinds,
         RestoreFallsBack, RestoreOnline, LoginStarts, LoginSucceeds,
         LoginFails, SaveRefused, RecheckFails, Goto, Ends, TypeOK, Saved,
         CheckAcquisition
    <3> QED
      BY <2>1, <3>1, <3>2, <3>3 DEF StoredInv, Holding, store
  <2> QED
    BY <2>2, <2>3, <2>4, <2>5, <2>6
<1>5. ASSUME NEW p \in Procs, Cancel(p) PROVE StoredInv'
  BY <1>5 DEF Cancel, provider, store, StoredInv, Live, Saved
<1>6. ASSUME NEW p \in Procs, InvalidatingStep(p) PROVE StoredInv'
  <2>1. /\ \A q \in Procs \ {p} :
             /\ pc'[q] = pc[q] /\ rev'[q] = rev[q] /\ cred'[q] = cred[q]
             /\ Saved(q)' = Saved(q)
        /\ ~Live' /\ revision' = revision + 1 /\ UNCHANGED store
    BY <1>6, OthersUntouched, InvalidatingFrame DEF Saved, Live
  <2>2. /\ pc[p] \in Holding <=> pc'[p] \in Holding
        /\ pc'[p] # "saveEnd" /\ ~Saved(p)'
    BY <1>6 DEF InvalidatingStep, ForceLoginLeads, InvalidateIfCurrent,
       ForgetInvalidates, Lead, Goto, Rests, Proceeds, TypeOK, Saved, Holding,
       Forgetting
  <2>3. \A q \in Procs : Saved(q)' => rev'[q] # revision'
    BY <1>t, <2>1, <2>2 DEF TypeOK
  <2> QED
    BY <2>1, <2>2, <2>3 DEF StoredInv, Holding, store
<1>7. ASSUME NEW p \in Procs, CredentialLeads(p) \/ TryForceRelogin(p)
      PROVE  StoredInv'
  <2>1. /\ \A q \in Procs \ {p} :
             /\ pc'[q] = pc[q] /\ rev'[q] = rev[q] /\ cred'[q] = cred[q]
             /\ Saved(q)' = Saved(q)
        /\ UNCHANGED store
    BY <1>7, OthersUntouched
       DEF Saved, CredentialLeads, TryForceRelogin, Begin
  <2>2. /\ pc[p] \notin Holding /\ pc'[p] \notin Holding
        /\ ~Saved(p)' /\ ~Live'
    BY <1>7 DEF CredentialLeads, TryForceRelogin, ClearSession, Lead, Begin,
       Goto, Proceeds, TypeOK, Saved, Holding, Forgetting, Live
  <2>3. \A q \in Procs : ~Saved(q)
    BY <1>7, <1>t DEF CredentialLeads, TryForceRelogin, SlotInv
  <2> QED
    BY <2>1, <2>2, <2>3 DEF StoredInv, Holding, store
<1>8. ASSUME NEW p \in Procs, Publish(p) PROVE StoredInv'
  <2>1. /\ \A q \in Procs \ {p} :
             /\ pc'[q] = pc[q] /\ rev'[q] = rev[q] /\ cred'[q] = cred[q]
             /\ ~Saved(q)'
        /\ UNCHANGED <<store, revision>>
        /\ pc[p] = "finish" /\ pc'[p] = "release"
    <3>1. \A q \in Procs \ {p} : pc[q] \notin Acquiring
      BY <1>8 DEF Publish, SlotInv, Acquiring
    <3> QED
      BY <1>8, <3>1, OthersUntouched
         DEF Publish, Goto, TypeOK, Saved, Acquiring
  <2>2. Saved(p) /\ rev[p] = revision
    BY <1>8 DEF Publish, Saved, CheckAcquisition
  <2>3. cur'.sid = cred[p].sid
    <3>1. cur' = [cred[p] EXCEPT !.gen = generation + 1, !.rev = rev[p]]
      BY <1>8 DEF Publish
    <3> QED
      BY <3>1 DEF TypeOK, Creds
  <2>4. \A q \in Procs : pc'[q] # "forgetDelete"
    BY <2>1, <2>2 DEF StoredInv
  <2> QED
    BY <2>1, <2>2, <2>3, <2>4 DEF StoredInv, Saved, Forgetting, store
<1>9. ASSUME NEW p \in Procs, FinishFails(p) PROVE StoredInv'
  <2>1. /\ \A q \in Procs \ {p} :
             /\ pc'[q] = pc[q] /\ rev'[q] = rev[q] /\ cred'[q] = cred[q]
             /\ Saved(q)' = Saved(q)
        /\ UNCHANGED <<store, revision, cur>>
        /\ pc[p] = "finish" /\ pc'[p] = "release"
    BY <1>9, OthersUntouched
       DEF FinishFails, Ends, Goto, TypeOK, Saved
  <2> QED
    BY <2>1 DEF StoredInv, Saved, Forgetting, store, Live
<1>10. ASSUME NEW p \in Procs, Release(p) PROVE StoredInv'
  <2>1. UNCHANGED <<provider, store, rev>>
    BY <1>10 DEF Release
  <2>2. \A q \in Procs :
          \/ pc'[q] \in {"returned", "woken", "forceLogin"}
             /\ pc[q] \in {"release", "waiting"}
          \/ pc'[q] = pc[q] /\ cred'[q] = cred[q] /\ result'[q] = result[q]
    BY <1>10 DEF Release, Shares, Waits
  <2>3. \A q \in Procs : Saved(q)' => Saved(q) /\ cred'[q] = cred[q]
    BY <2>2 DEF Saved
  <2> QED
    BY <2>1, <2>2, <2>3 DEF StoredInv, provider, store, Live, Forgetting
<1> QED
  BY <1>1, <1>2, <1>3, <1>4, <1>5, <1>6, <1>7, <1>8, <1>9, <1>10, StepCases

\* The served session is the stored one: neither a late save of an overtaken
\* acquisition nor a deletion by ForgetSession takes it away.
THEOREM StoredWhileServed == Spec => []ServedIsStored
<1>1. Init => TypeOK /\ SlotInv /\ StoredInv
  BY TypeInit, SlotInit, StoredInit
<1>2. TypeOK /\ SlotInv /\ StoredInv /\ [Next]_vars
        => (TypeOK /\ SlotInv /\ StoredInv)'
  BY TypeStep, SlotStep, StoredStep
<1>3. StoredInv => ServedIsStored
  BY DEF StoredInv, ServedIsStored
<1> QED
  BY <1>1, <1>2, <1>3, PTL DEF Spec

-----------------------------------------------------------------------------
(* Fourth layer: dead sessions *)

LEMMA DeadInit == Init => DeadInv
  BY DEF Init, DeadInv, Saved, Live

\* p's acquisition holds a session that it may still publish.
Holds(p) == pc[p] \in {"probe", "saveLock"} \/ Saved(p)

LEMMA DeadStep ==
  TypeOK /\ SlotInv /\ StoredInv /\ DeadInv /\ [Next]_vars => DeadInv'
<1> SUFFICES ASSUME TypeOK, SlotInv, StoredInv, DeadInv, [Next]_vars
             PROVE  DeadInv'
  OBVIOUS
<1>t. /\ revision \in Nat /\ deadBelow \in Nat /\ lastSid \in Nat /\ disk \in Nat
      /\ \A q \in Procs : cred[q].sid \in Nat
      /\ \A q \in Procs :
           Holds(q) \/ pc[q] \in {"restore", "saveWrite", "saveEnd"} =>
             pc[q] \in Acquiring /\ rev[q] <= revision /\ rev[q] # revision + 1
  BY DEF TypeOK, Saved, Holds, SlotInv, Acquiring, Creds
<1>1. CASE UNCHANGED vars
  BY <1>1 DEF vars, provider, store, local, history, DeadInv, Live, Saved
<1>2. CASE Close
  <2>1. /\ UNCHANGED <<store, pc, rev, cred, result, lastSid, deadBelow,
                       forceLogin>>
        /\ ~Live' /\ revision' = revision + 1
    BY <1>2 DEF Close, ClearSession, local, history, Live
  <2>2. \A q \in Procs : Holds(q)' <=> Holds(q)
    BY <2>1 DEF Saved, Holds
  <2>3. \A q \in Procs :
          Holds(q)' \/ pc'[q] = "restore" => rev'[q] # revision'
    BY <1>t, <2>1, <2>2
  <2> QED
    BY <2>1, <2>3 DEF DeadInv, Holds, store
<1>3. ASSUME NEW p \in Procs, OutsideStep(p) PROVE DeadInv'
  <2>1. /\ \A q \in Procs \ {p} :
             /\ pc'[q] = pc[q] /\ rev'[q] = rev[q] /\ cred'[q] = cred[q]
             /\ Holds(q)' = Holds(q)
        /\ UNCHANGED <<revision, cur, forceLogin>>
        /\ ~Holds(p)' /\ pc'[p] \notin {"restore", "saveWrite", "saveEnd"}
    BY <1>3, OthersUntouched, OutsideFrame
       DEF Holds, Saved, Acquiring, provider
  <2>2. /\ disk' = disk \/ disk' = 0
        /\ lastSid' = lastSid /\ deadBelow' = deadBelow
        /\ ~ForgetDeletes(p) => disk' = disk
    BY <1>3
       DEF OutsideStep, BeginCredential, BeginForceLogin,
           BeginForget, BeginCheck, LoopCancelled, LoopClosed,
           CredentialServed, CredentialReplaced, Joins, WaitCancelled,
           WokenCancelled, WokenRetries, WokenShares, Returns, Uses,
           SessionRejected, InvalidateStale, ForgetGivesUp, ForgetLocks,
           ForgetFlags, ForgetDeletes, Begin, Rests, history, store
  <2> QED
    BY <2>1, <2>2 DEF DeadInv, Holds, Live
<1>4. ASSUME NEW p \in Procs, AcquiringStep(p) PROVE DeadInv'
  <2>1. /\ \A q \in Procs \ {p} :
             /\ pc'[q] = pc[q] /\ rev'[q] = rev[q] /\ cred'[q] = cred[q]
             /\ ~Holds(q)'
             /\ pc'[q] \notin {"restore", "saveWrite", "saveEnd"}
        /\ UNCHANGED <<revision, cur, rev, deadBelow>> /\ ~Live'
    <3>1. \A q \in Procs \ {p} :
            /\ pc'[q] = pc[q] /\ rev'[q] = rev[q] /\ cred'[q] = cred[q]
            /\ pc[q] \notin Acquiring
      BY <1>4, OthersUntouched, AcquiringFrame DEF SlotInv
    <3>2. UNCHANGED <<revision, cur, rev, deadBelow>> /\ ~Live
      BY <1>4, AcquiringFrame DEF SlotInv
    <3> QED
      BY <3>1, <3>2 DEF Holds, Saved, Live, Acquiring
  <2>2. CASE AcquireBegins(p)
    <3>1. /\ UNCHANGED <<disk, lastSid, cred>>
          /\ forceLogin => forceLogin'
          /\ ~Holds(p)' /\ pc'[p] \notin {"saveWrite", "saveEnd"}
          /\ pc'[p] = "restore" => ~forceLogin'
      BY <2>2 DEF AcquireBegins, Goto, TypeOK, local, store, Holds, Saved
    <3> QED
      BY <2>1, <3>1 DEF DeadInv, Holds
  <2>3. CASE LoadFinds(p)
    <3>1. /\ UNCHANGED <<disk, lastSid, forceLogin>> /\ disk # 0
          /\ pc[p] = "restore" /\ pc'[p] = "probe"
          /\ cred'[p] = [cred[p] EXCEPT !.sid = disk, !.restored = TRUE]
      BY <2>3 DEF LoadFinds, Goto, TypeOK, provider, store
    <3>2. cred'[p].sid = disk
      BY <3>1 DEF TypeOK, Creds
    <3>3. rev[p] = revision => disk >= deadBelow
      BY <3>1 DEF DeadInv
    <3> QED
      BY <2>1, <3>1, <3>2, <3>3 DEF DeadInv, Holds
  <2>4. CASE LoginSucceeds(p)
    <3>1. /\ UNCHANGED <<disk, forceLogin>> /\ lastSid' = lastSid + 1
          /\ pc'[p] = "saveLock"
          /\ cred'[p] = [cred[p] EXCEPT !.sid = lastSid + 1]
      BY <2>4 DEF LoginSucceeds, Goto, TypeOK, provider, store
    <3>2. cred'[p].sid = lastSid + 1
      BY <3>1 DEF TypeOK, Creds
    <3>3. lastSid + 1 >= deadBelow /\ deadBelow <= lastSid' + 1
      BY <1>t, <3>1 DEF DeadInv
    <3> QED
      BY <2>1, <3>1, <3>2, <3>3 DEF DeadInv, Holds
  <2>5. CASE RestoreOnline(p) \/ SaveLocks(p) \/ SaveWrites(p)
    <3>1. /\ UNCHANGED <<lastSid, forceLogin, cred>>
          /\ disk' \in {disk, cred[p].sid}
          /\ disk' # disk => pc[p] = "saveWrite"
          /\ pc[p] \in {"probe", "saveLock", "saveWrite"}
          /\ pc'[p] \in {"saveLock", "saveWrite", "saveEnd"}
          /\ pc'[p] = "saveLock" => pc[p] = "probe"
          /\ pc'[p] \in {"saveWrite", "saveEnd"} /\ pc[p] # "saveWrite"
               => Holds(p) /\ rev[p] = revision
      BY <2>5 DEF RestoreOnline, SaveLocks, SaveWrites, Goto, TypeOK,
         provider, store, local, Holds, CheckAcquisition
    <3>2. pc'[p] \in {"saveWrite", "saveEnd"} => cred[p].sid >= deadBelow
      BY <3>1 DEF DeadInv, Holds
    <3>3. pc[p] = "saveWrite" => cred[p].sid >= deadBelow
      BY DEF DeadInv
    <3> QED
      BY <2>1, <3>1, <3>2, <3>3 DEF DeadInv, Holds, Saved
  <2>6. CASE SaveFails(p) \/ SaveCommits(p) \/ SaveOvertaken(p)
             \/ RecheckPasses(p)
    <3>1. /\ UNCHANGED <<lastSid, forceLogin, cred>>
          /\ disk' \in {disk, cred[p].sid}
          /\ disk' # disk => pc[p] = "saveWrite"
          /\ pc'[p] \in {"recheck", "finish"}
          /\ pc[p] \in {"saveWrite", "saveEnd", "recheck"}
          /\ pc[p] = "recheck" => rev[p] = revision
      BY <2>6 DEF SaveFails, SaveCommits, SaveOvertaken, RecheckPasses, Goto,
         Ends, TypeOK, provider, store, local, CheckAcquisition
    <3>2. cred[p].sid >= deadBelow
      BY <3>1 DEF DeadInv, Saved
    <3> QED
      BY <2>1, <3>1, <3>2 DEF DeadInv, Holds, Saved
  <2>7. CASE ~(\/ AcquireBegins(p) \/ LoadFinds(p) \/ LoginSucceeds(p)
               \/ RestoreOnline(p) \/ SaveLocks(p) \/ SaveWrites(p)
               \/ SaveFails(p) \/ SaveCommits(p) \/ SaveOvertaken(p)
               \/ RecheckPasses(p))
    <3>1. UNCHANGED <<disk, lastSid, forceLogin>>
      BY <1>4, <2>7 DEF AcquiringStep, RunReserved, AcquireRefused,
         LoadFails, LoadFindsNothing, RestoreFallsBack, LoginStarts,
         LoginFails, SaveRefused, RecheckFails, provider, store
    <3>2. ~Holds(p)' /\ pc'[p] \notin {"restore", "saveWrite", "saveEnd"}
      BY <1>4, <2>7 DEF AcquiringStep, RunReserved, AcquireRefused,
         LoadFails, LoadFindsNothing, RestoreFallsBack, LoginStarts,
         LoginFails, SaveRefused, RecheckFails, Goto, Ends, TypeOK, Holds,
         Saved, CheckAcquisition
    <3> QED
      BY <2>1, <3>1, <3>2 DEF DeadInv, Holds
  <2> QED
    BY <2>2, <2>3, <2>4, <2>5, <2>6, <2>7
<1>5. ASSUME NEW p \in Procs, Cancel(p) PROVE DeadInv'
  BY <1>5 DEF Cancel, provider, store, history, DeadInv, Live, Saved
<1>6. ASSUME NEW p \in Procs, InvalidatingStep(p) PROVE DeadInv'
  <2>1. /\ \A q \in Procs \ {p} :
             /\ pc'[q] = pc[q] /\ rev'[q] = rev[q] /\ cred'[q] = cred[q]
             /\ Holds(q)' = Holds(q)
        /\ ~Live' /\ revision' = revision + 1 /\ forceLogin'
        /\ deadBelow' = lastSid + 1 /\ lastSid' = lastSid
    BY <1>6, OthersUntouched, InvalidatingFrame DEF Saved, Holds, Live
  <2>2. ~Holds(p)' /\ pc'[p] \notin {"restore", "saveWrite", "saveEnd"}
    BY <1>6 DEF InvalidatingStep, ForceLoginLeads, InvalidateIfCurrent,
       ForgetInvalidates, Lead, Goto, Rests, TypeOK, Saved, Holds
  <2>3. \A q \in Procs :
          Holds(q)' \/ pc'[q] = "restore" => rev'[q] # revision'
    BY <1>t, <2>1, <2>2
  <2>4. \A q \in Procs : pc'[q] \notin {"saveWrite", "saveEnd"}
    <3>1. CASE ForgetInvalidates(p)
      BY <2>1, <2>2, <3>1
         DEF StoredInv, ForgetInvalidates, Forgetting
    <3>2. CASE ForceLoginLeads(p)
      <4>1. \A q \in Procs : pc[q] \notin Acquiring
        BY <3>2, SessionAssumption DEF ForceLoginLeads, SlotInv
      <4> QED
        BY <2>1, <2>2, <4>1 DEF Acquiring
    <3>3. CASE InvalidateIfCurrent(p)
      BY <2>1, <2>2, <3>3 DEF InvalidateIfCurrent, SlotInv, Acquiring
    <3> QED
      BY <1>6, <3>1, <3>2, <3>3 DEF InvalidatingStep
  <2> QED
    BY <1>t, <2>1, <2>3, <2>4 DEF DeadInv, Holds
<1>7. ASSUME NEW p \in Procs, CredentialLeads(p) \/ TryForceRelogin(p)
      PROVE  DeadInv'
  <2>1. \A q \in Procs :
          ~Holds(q) /\ pc[q] \notin {"restore", "saveWrite", "saveEnd"}
    BY <1>7, <1>t, SessionAssumption
       DEF CredentialLeads, TryForceRelogin, SlotInv
  <2>2. /\ UNCHANGED <<forceLogin, disk, lastSid, deadBelow>> /\ ~Live'
        /\ pc'[p] \in {"acquire", "reserved"}
    BY <1>7 DEF CredentialLeads, TryForceRelogin, ClearSession, Lead, Begin,
       Goto, TypeOK, Live, store, history
  <2>3. \A q \in Procs :
          ~Holds(q)' /\ pc'[q] \notin {"restore", "saveWrite", "saveEnd"}
    BY <1>7, <2>1, <2>2, OthersUntouched DEF Holds, Saved
  <2> QED
    BY <2>2, <2>3 DEF DeadInv, Holds
<1>8. ASSUME NEW p \in Procs, Publish(p) PROVE DeadInv'
  <2>1. /\ UNCHANGED <<disk, lastSid, deadBelow, revision>>
        /\ pc[p] = "finish" /\ pc'[p] = "release"
    BY <1>8 DEF Publish, Goto, TypeOK, store, history
  <2>2. Saved(p) /\ rev[p] = revision
    BY <1>8 DEF Publish, Saved, CheckAcquisition
  <2>3. disk = cred[p].sid /\ cred[p].sid >= deadBelow
    BY <2>2 DEF StoredInv, DeadInv
  <2>4. cur'.sid = cred[p].sid
    <3>1. cur' = [cred[p] EXCEPT !.gen = generation + 1, !.rev = rev[p]]
      BY <1>8 DEF Publish
    <3> QED
      BY <3>1 DEF TypeOK, Creds
  <2>5. \A q \in Procs :
          ~Holds(q)' /\ pc'[q] \notin {"restore", "saveWrite", "saveEnd"}
    <3>1. \A q \in Procs \ {p} : pc[q] \notin Acquiring /\ pc'[q] = pc[q]
      BY <1>8, <2>1, OthersUntouched DEF SlotInv, Acquiring
    <3> QED
      BY <2>1, <3>1 DEF Holds, Saved, Acquiring
  <2> QED
    BY <2>1, <2>3, <2>4, <2>5 DEF DeadInv, Holds
<1>9. ASSUME NEW p \in Procs, FinishFails(p) PROVE DeadInv'
  <2>1. /\ \A q \in Procs \ {p} :
             /\ pc'[q] = pc[q] /\ rev'[q] = rev[q] /\ cred'[q] = cred[q]
             /\ Holds(q)' = Holds(q)
        /\ UNCHANGED <<store, revision, cur, forceLogin, lastSid, deadBelow>>
        /\ pc'[p] = "release"
    BY <1>9, OthersUntouched
       DEF FinishFails, Ends, Goto, TypeOK, Saved, Holds, history
  <2> QED
    BY <2>1 DEF DeadInv, Holds, Saved, store, Live
<1>10. ASSUME NEW p \in Procs, Release(p) PROVE DeadInv'
  <2>1. UNCHANGED <<provider, store, rev, lastSid, deadBelow>>
    BY <1>10 DEF Release, history
  <2>2. \A q \in Procs :
          \/ pc'[q] \in {"returned", "woken", "forceLogin"}
          \/ pc'[q] = pc[q] /\ cred'[q] = cred[q] /\ result'[q] = result[q]
    BY <1>10 DEF Release, Shares, Waits
  <2>3. \A q \in Procs : Holds(q)' => Holds(q) /\ cred'[q] = cred[q]
    BY <2>2 DEF Saved, Holds
  <2> QED
    BY <2>1, <2>2, <2>3 DEF DeadInv, Holds, provider, store, Live
<1> QED
  BY <1>1, <1>2, <1>3, <1>4, <1>5, <1>6, <1>7, <1>8, <1>9, <1>10, StepCases

IInv == TypeOK /\ SlotInv /\ AnswerInv /\ StoredInv /\ DeadInv

LEMMA IInvInvariant == Spec => []IInv
<1>1. Init => IInv
  BY TypeInit, SlotInit, AnswerInit, StoredInit, DeadInit DEF IInv
<1>2. IInv /\ [Next]_vars => IInv'
  BY TypeStep, SlotStep, AnswerStep, StoredStep, DeadStep DEF IInv
<1> QED
  BY <1>1, <1>2, PTL DEF Spec

\* No session that a gateway, a probe, ForceLogin or ForgetSession declared
\* dead is ever served again, whatever the store still held.
THEOREM DeadStaysDead == Spec => []RejectedNotServed
<1>1. IInv => RejectedNotServed
  BY DEF IInv, DeadInv, RejectedNotServed
<1> QED
  BY <1>1, IInvInvariant, PTL

-----------------------------------------------------------------------------
(* The provider implements the session contract *)

LEMMA ContractInit == Init => Contract!Init
  BY DEF Init, Contract!Init, NoCred

\* Only finishRefresh serves a session; invalidations, a forced re-login and
\* Close withdraw it; no other step can be seen by a consumer.
LEMMA ContractStep ==
  IInv /\ IInv' /\ [Next]_vars => [Contract!Next]_(Contract!vars)
<1> SUFFICES ASSUME IInv, IInv', [Next]_vars
             PROVE  Contract!Next \/ UNCHANGED Contract!vars
  OBVIOUS
<1>t. /\ TypeOK /\ generation \in Nat /\ deadBelow \in Nat /\ lastSid \in Nat
      /\ deadBelow <= lastSid + 1
  BY DEF IInv, TypeOK, DeadInv
<1>1. CASE UNCHANGED <<cur, generation, deadBelow, closed>>
  BY <1>1 DEF Contract!vars
<1>2. ASSUME cur' = NoCred, generation' = generation, closed => closed',
             deadBelow' \in {deadBelow, lastSid + 1}
      PROVE  Contract!Next
  <2>1. 1..(deadBelow - 1) \subseteq 1..(deadBelow' - 1)
    <3>1. deadBelow' \in Nat /\ deadBelow <= deadBelow'
      BY <1>t, <1>2
    <3>2. \A d, e \in Nat : d <= e => 1..(d - 1) \subseteq 1..(e - 1)
      OBVIOUS
    <3> QED
      BY <1>t, <3>1, <3>2
  <2> QED
    BY <1>2, <2>1 DEF Contract!Next, Contract!Withdraw, NoCred
<1>3. ASSUME NEW p \in Procs, Publish(p) PROVE Contract!Next
  <2>1. cur = NoCred
    BY <1>3 DEF Publish, IInv, SlotInv, Acquiring, Live
  <2>2. /\ ~closed /\ generation' = generation + 1
        /\ UNCHANGED <<deadBelow, closed>>
    BY <1>3 DEF Publish, CheckAcquisition, history
  <2>3. cur'.gen = generation'
    <3>1. cur' = [cred[p] EXCEPT !.gen = generation + 1, !.rev = rev[p]]
      BY <1>3 DEF Publish
    <3> QED
      BY <1>t, <2>2, <3>1 DEF TypeOK, Creds
  <2>4. cur'.sid \notin 1..(deadBelow - 1)
    <3>1. cur' # NoCred
      BY <1>t, <2>2, <2>3 DEF NoCred
    <3>2. cur'.sid >= deadBelow' /\ cur'.sid \in Nat
      BY <3>1 DEF IInv, TypeOK, DeadInv, Live, Creds
    <3> QED
      BY <1>t, <2>2, <3>2
  <2> QED
    BY <2>1, <2>2, <2>3, <2>4 DEF Contract!Next, Contract!Serve, NoCred
<1>4. CASE UNCHANGED vars
  BY <1>1, <1>4 DEF vars, provider, history
<1>5. CASE Close
  BY <1>2, <1>5 DEF Close, ClearSession, history
<1>6. ASSUME NEW p \in Procs, InvalidatingStep(p) PROVE Contract!Next
  <2>1. generation' = generation
    BY <1>6 DEF InvalidatingStep, ForceLoginLeads, InvalidateIfCurrent,
       ForgetInvalidates
  <2> QED
    BY <1>2, <1>6, <1>t, <2>1, InvalidatingFrame
<1>7. ASSUME NEW p \in Procs, TryForceRelogin(p) PROVE Contract!Next
  BY <1>2, <1>7 DEF TryForceRelogin, ClearSession, Begin
<1>8. ASSUME NEW p \in Procs,
             \/ AcquiringStep(p) \/ OutsideStep(p) \/ Cancel(p)
             \/ CredentialLeads(p) \/ FinishFails(p) \/ Release(p)
      PROVE  UNCHANGED <<cur, generation, deadBelow, closed>>
  <2>1. CASE AcquiringStep(p)
    BY <1>t, <2>1, AcquiringFrame
  <2>2. CASE OutsideStep(p)
    <3>1. UNCHANGED <<cur, generation, closed>>
      BY <1>t, <2>2, OutsideFrame DEF provider
    <3>2. UNCHANGED deadBelow
      BY <2>2
         DEF OutsideStep, BeginCredential, BeginForceLogin,
             BeginForget, BeginCheck, LoopCancelled, LoopClosed,
             CredentialServed, CredentialReplaced, Joins, WaitCancelled,
             WokenCancelled, WokenRetries, WokenShares, Returns, Uses,
             SessionRejected, InvalidateStale, ForgetGivesUp, ForgetLocks,
             ForgetFlags, ForgetDeletes, Begin, Rests, history
    <3> QED
      BY <3>1, <3>2
  <2>3. CASE Cancel(p) \/ CredentialLeads(p) \/ FinishFails(p) \/ Release(p)
    BY <2>3 DEF Cancel, CredentialLeads, FinishFails, Release, provider,
       history
  <2> QED
    BY <1>8, <2>1, <2>2, <2>3
<1> QED
  BY <1>t, <1>1, <1>3, <1>4, <1>5, <1>6, <1>7, <1>8, StepCases

\* Every behaviour of the provider is one the tunnel manager, the resolver
\* and the runtime may rely on: one session at a time under a fresh
\* generation, never a dead one, none after Close.
THEOREM Refinement == Spec => ImplementsContract
<1>1. Init => Contract!Init
  BY ContractInit
<1>2. IInv /\ IInv' /\ [Next]_vars => [Contract!Next]_(Contract!vars)
  BY ContractStep
<1> QED
  BY <1>1, <1>2, IInvInvariant, PTL
     DEF Spec, ImplementsContract, Contract!Spec

-----------------------------------------------------------------------------
(* Fifth layer: whose cancellation and what kind of login an answer reports *)

\* A cancellation on its way out of a call is the caller's own.
OwnEnd(p) ==
  pc[p] \in {"finish", "release", "returned"} /\ result[p] = "ctx" =>
    cancelled[p]

\* A forced call never holds a restored session: it does not pass through the
\* restore, and the calls whose answer it shares are forced as well.
FullLogin(p) ==
  /\ Forced(p) \/ pc[p] = "idle" => ~cred[p].restored
  /\ pc[p] \in {"credential", "restore", "probe", "using", "rejecting"} =>
       ~Forced(p)
  /\ pc[p] \in {"waiting", "woken", "forceLogin"} => op[p] # "relogin"

AnsweredInv == \A p \in Procs : OwnEnd(p) /\ FullLogin(p)

LEMMA AnsweredInit == Init => AnsweredInv
<1> SUFFICES ASSUME Init, NEW p \in Procs PROVE OwnEnd(p) /\ FullLogin(p)
  BY DEF AnsweredInv
<1>1. pc[p] = "idle" /\ op[p] = "none" /\ cred[p] = NoCred
  BY DEF Init
<1>2. ~NoCred.restored
  BY DEF NoCred
<1> QED
  BY <1>1, <1>2 DEF OwnEnd, FullLogin, Forced

\* Nobody ends another goroutine's context or changes its call.
LEMMA CallsUntouched ==
  ASSUME TypeOK, NEW p \in Procs, NEW q \in Procs \ {p},
         \/ OutsideStep(p) \/ AcquiringStep(p) \/ InvalidatingStep(p)
         \/ Cancel(p) \/ CredentialLeads(p) \/ TryForceRelogin(p)
         \/ Publish(p) \/ FinishFails(p)
  PROVE  op'[q] = op[q] /\ cancelled'[q] = cancelled[q]
<1> USE DEF TypeOK, local, Begin, Rests
<1>1. CASE OutsideStep(p)
  BY <1>1 DEF OutsideStep, BeginCredential, BeginForceLogin, BeginForget,
     BeginCheck, LoopCancelled, LoopClosed, CredentialServed,
     CredentialReplaced, Joins, WaitCancelled, WokenCancelled, WokenRetries,
     WokenShares, Returns, Uses, SessionRejected, InvalidateStale,
     ForgetGivesUp, ForgetLocks, ForgetFlags, ForgetDeletes
<1>2. CASE AcquiringStep(p)
  BY <1>2 DEF AcquiringStep, RunReserved, AcquireRefused, AcquireBegins,
     LoadFails, LoadFindsNothing, LoadFinds, RestoreFallsBack, RestoreOnline,
     LoginStarts, LoginSucceeds, LoginFails, SaveRefused, SaveLocks,
     SaveWrites, SaveFails, SaveCommits, SaveOvertaken, RecheckPasses,
     RecheckFails
<1>3. CASE InvalidatingStep(p)
  BY <1>3 DEF InvalidatingStep, ForceLoginLeads, InvalidateIfCurrent,
     ForgetInvalidates
<1>4. CASE Cancel(p) \/ CredentialLeads(p) \/ TryForceRelogin(p)
           \/ Publish(p) \/ FinishFails(p)
  BY <1>4 DEF Cancel, CredentialLeads, TryForceRelogin, Publish, FinishFails
<1> QED
  BY <1>1, <1>2, <1>3, <1>4

\* The calls' loops, and what a caller does with the answer.
LEMMA AnsweredOutside ==
  ASSUME TypeOK, AnsweredInv, NEW p \in Procs, OutsideStep(p)
  PROVE  (OwnEnd(p) /\ FullLogin(p))'
<1>a. OwnEnd(p) /\ FullLogin(p)
  BY DEF AnsweredInv
<1> USE <1>a DEF OwnEnd, FullLogin, Forced, TypeOK, Goto, Ends, local, NoCred
<1>1. CASE BeginCredential(p) \/ BeginForceLogin(p) \/ BeginForget(p)
           \/ BeginCheck(p)
  BY <1>1 DEF BeginCredential, BeginForceLogin, BeginForget, BeginCheck, Begin
<1>2. CASE LoopCancelled(p) \/ LoopClosed(p) \/ CredentialServed(p)
           \/ CredentialReplaced(p) \/ Joins(p) \/ WaitCancelled(p)
  BY <1>2 DEF LoopCancelled, LoopClosed, CredentialServed,
     CredentialReplaced, Joins, WaitCancelled, Looping, Proceeds
<1>3. CASE WokenCancelled(p) \/ WokenRetries(p) \/ WokenShares(p)
  BY <1>3 DEF WokenCancelled, WokenRetries, WokenShares
<1>4. CASE Returns(p) \/ InvalidateStale(p) \/ ForgetGivesUp(p)
           \/ ForgetDeletes(p)
  BY <1>4 DEF Returns, InvalidateStale, ForgetGivesUp, ForgetDeletes, Rests
<1>5. CASE Uses(p) \/ SessionRejected(p) \/ ForgetLocks(p) \/ ForgetFlags(p)
  BY <1>5 DEF Uses, SessionRejected, ForgetLocks, ForgetFlags
<1> QED
  BY <1>1, <1>2, <1>3, <1>4, <1>5 DEF OutsideStep

\* An acquisition: only an unforced one passes through the restore.
LEMMA AnsweredAcquiring ==
  ASSUME TypeOK, AnsweredInv, NEW p \in Procs, AcquiringStep(p)
  PROVE  (OwnEnd(p) /\ FullLogin(p))'
<1>a. OwnEnd(p) /\ FullLogin(p)
  BY DEF AnsweredInv
<1>b. cred[p] \in Creds
  BY DEF TypeOK
<1> USE <1>a DEF OwnEnd, FullLogin, Forced, TypeOK, Goto, Ends, local, NoCred
<1>1. CASE RunReserved(p) \/ AcquireRefused(p) \/ AcquireBegins(p)
           \/ LoadFails(p) \/ LoadFindsNothing(p)
  BY <1>1 DEF RunReserved, AcquireRefused, AcquireBegins, LoadFails,
     LoadFindsNothing, CheckAcquisition
<1>2. CASE LoadFinds(p) \/ LoginSucceeds(p)
  <2>1. /\ pc'[p] \in {"probe", "saveLock"}
        /\ Forced(p)' = Forced(p) /\ ~(pc[p] = "restore" /\ Forced(p))
        /\ pc'[p] = "probe" => pc[p] = "restore"
    BY <1>2 DEF LoadFinds, LoginSucceeds
  <2>2. pc[p] # "restore" => cred'[p].restored = cred[p].restored
    <3>1. pc[p] # "restore" =>
            cred' = [cred EXCEPT ![p] = [cred[p] EXCEPT !.sid = lastSid + 1]]
      BY <1>2 DEF LoadFinds, LoginSucceeds
    <3> QED
      BY <1>b, <3>1 DEF Creds
  <2> QED
    BY <2>1, <2>2
<1>3. CASE RestoreFallsBack(p) \/ RestoreOnline(p) \/ LoginStarts(p)
           \/ LoginFails(p) \/ SaveRefused(p) \/ SaveLocks(p)
  BY <1>3 DEF RestoreFallsBack, RestoreOnline, LoginStarts, LoginFails,
     SaveRefused, SaveLocks, CheckAcquisition
<1>4. CASE SaveWrites(p) \/ SaveFails(p) \/ SaveCommits(p)
           \/ SaveOvertaken(p) \/ RecheckPasses(p) \/ RecheckFails(p)
  BY <1>4 DEF SaveWrites, SaveFails, SaveCommits, SaveOvertaken,
     RecheckPasses, RecheckFails, CheckAcquisition
<1> QED
  BY <1>1, <1>2, <1>3, <1>4 DEF AcquiringStep

LEMMA AnsweredStep == TypeOK /\ AnsweredInv /\ [Next]_vars => AnsweredInv'
<1> SUFFICES ASSUME TypeOK, AnsweredInv, [Next]_vars PROVE AnsweredInv'
  OBVIOUS
<1>a. \A p \in Procs : OwnEnd(p) /\ FullLogin(p)
  BY DEF AnsweredInv
<1>1. CASE UNCHANGED vars \/ Close
  BY <1>1 DEF vars, local, Close, AnsweredInv, OwnEnd, FullLogin, Forced
<1>2. ASSUME NEW p \in Procs,
             \/ OutsideStep(p) \/ AcquiringStep(p) \/ InvalidatingStep(p)
             \/ Cancel(p) \/ CredentialLeads(p) \/ TryForceRelogin(p)
             \/ Publish(p) \/ FinishFails(p)
      PROVE  AnsweredInv'
  <2>1. \A q \in Procs \ {p} : (OwnEnd(q) /\ FullLogin(q))'
    <3> SUFFICES ASSUME NEW q \in Procs \ {p}
                 PROVE  (OwnEnd(q) /\ FullLogin(q))'
      OBVIOUS
    <3>1. /\ pc'[q] = pc[q] /\ cred'[q] = cred[q] /\ result'[q] = result[q]
          /\ op'[q] = op[q] /\ cancelled'[q] = cancelled[q]
      BY <1>2, OthersUntouched, CallsUntouched
    <3> QED
      BY <1>a, <3>1 DEF OwnEnd, FullLogin, Forced
  <2>2. (OwnEnd(p) /\ FullLogin(p))'
    <3>a. OwnEnd(p) /\ FullLogin(p) /\ cred[p] \in Creds
      BY <1>a DEF TypeOK
    <3>1. CASE OutsideStep(p)
      BY <3>1, AnsweredOutside
    <3>2. CASE AcquiringStep(p)
      BY <3>2, AnsweredAcquiring
    <3>3. CASE InvalidatingStep(p)
      BY <3>a, <3>3
         DEF InvalidatingStep, ForceLoginLeads, Lead, Proceeds,
             InvalidateIfCurrent, ForgetInvalidates, Rests, Goto, local,
             TypeOK, OwnEnd, FullLogin, Forced, NoCred
    <3>4. CASE Cancel(p) \/ CredentialLeads(p) \/ TryForceRelogin(p)
      BY <3>a, <3>4
         DEF Cancel, CredentialLeads, TryForceRelogin, Begin, Lead, Proceeds,
             Goto, TypeOK, OwnEnd, FullLogin, Forced, Acquiring
    <3>5. CASE FinishFails(p)
      BY <3>a, <3>5
         DEF FinishFails, CheckAcquisition, Ends, Goto, TypeOK, OwnEnd,
             FullLogin, Forced, NoCred
    <3>6. CASE Publish(p)
      <4>1. cur' = [cred[p] EXCEPT !.gen = generation + 1, !.rev = rev[p]]
        BY <3>6 DEF Publish
      <4>2. cred'[p].restored = cred[p].restored
        BY <3>a, <3>6, <4>1 DEF Publish, TypeOK, Creds
      <4>3. pc'[p] = "release" /\ result'[p] = "ok" /\ op' = op
        BY <3>6 DEF Publish, Goto, TypeOK
      <4> QED
        BY <3>a, <4>2, <4>3 DEF OwnEnd, FullLogin, Forced
    <3> QED
      BY <1>2, <3>1, <3>2, <3>3, <3>4, <3>5, <3>6
  <2> QED
    BY <2>1, <2>2 DEF AnsweredInv
<1>3. ASSUME NEW p \in Procs, Release(p) PROVE AnsweredInv'
  <2> SUFFICES ASSUME NEW q \in Procs PROVE (OwnEnd(q) /\ FullLogin(q))'
    BY DEF AnsweredInv
  <2>a. /\ OwnEnd(q) /\ FullLogin(q) /\ OwnEnd(p) /\ FullLogin(p)
        /\ op' = op /\ cancelled' = cancelled
    BY <1>3, <1>a DEF Release
  <2>1. CASE q = p
    BY <1>3, <2>a, <2>1
       DEF Release, Shares, Waits, OwnEnd, FullLogin, Forced
  <2>2. CASE q # p /\ Shares(q, p)
    <3>1. pc'[q] = "woken" /\ cred'[q] = cred[p] /\ pc[q] = "waiting"
      BY <1>3, <2>2 DEF Release, Shares, Waits
    <3>2. op[q] # "relogin" /\ (op[q] = "force" => Forced(p))
      BY <2>a, <2>2, <3>1 DEF FullLogin, Shares
    <3> QED
      BY <2>a, <3>1, <3>2 DEF OwnEnd, FullLogin, Forced
  <2>3. CASE q # p /\ ~Shares(q, p)
    <3>1. /\ cred'[q] = cred[q] /\ result'[q] = result[q]
          /\ \/ pc'[q] = pc[q]
             \/ pc'[q] = "forceLogin" /\ pc[q] = "waiting"
      BY <1>3, <2>3 DEF Release, Waits
    <3> QED
      BY <2>a, <3>1 DEF OwnEnd, FullLogin, Forced
  <2> QED
    BY <2>1, <2>2, <2>3
<1> QED
  BY <1>1, <1>2, <1>3, StepCases

\* Each caller is answered for itself: it is told of a cancellation only when
\* its own context ended, and ForceLogin is never given a restored session,
\* whoever ran the login it waited for (acquireShared, finishRefresh).
THEOREM AnswersAreOwn == Spec => []AnsweredForItself
<1>1. Init => TypeOK /\ AnsweredInv
  BY TypeInit, AnsweredInit
<1>2. TypeOK /\ AnsweredInv /\ [Next]_vars => (TypeOK /\ AnsweredInv)'
  BY TypeStep, AnsweredStep
<1>3. AnsweredInv => AnsweredForItself
  BY DEF AnsweredInv, OwnEnd, FullLogin, Forced, AnsweredForItself,
     OwnCancellationOnly, ForcedLoginIsFull
<1> QED
  BY <1>1, <1>2, <1>3, PTL DEF Spec

-----------------------------------------------------------------------------
(* Sixth layer: forgetting *)

\* A session that was known when one was last forgotten is barred from then
\* on, so what a login writes later is newer; ForgetSession has hidden the
\* stored one before it bars it.
ForgetInv ==
  /\ forgetMark <= lastSid
  /\ forgetMark = 0 \/ forgetMark < deadBelow
  /\ ForgottenStaysHidden
  /\ \A p \in Procs : pc[p] = "forgetInvalidate" => forgotten

LEMMA ForgetInit == Init => ForgetInv
  BY DEF Init, ForgetInv, ForgottenStaysHidden

LEMMA ForgetStep == IInv /\ ForgetInv /\ [Next]_vars => ForgetInv'
<1> SUFFICES ASSUME IInv, ForgetInv, [Next]_vars PROVE ForgetInv'
  OBVIOUS
<1>t. /\ TypeOK /\ StoredInv /\ DeadInv
      /\ lastSid \in Nat /\ forgetMark \in Nat /\ deadBelow \in Nat
      /\ disk \in Nat
  BY DEF IInv, TypeOK
\* Steps that leave the store and the history alone.
<1>a. ASSUME UNCHANGED <<disk, forgotten, forgetMark, deadBelow>>,
             lastSid' \in {lastSid, lastSid + 1},
             \A p \in Procs :
               pc'[p] = "forgetInvalidate" => pc[p] = "forgetInvalidate"
      PROVE  ForgetInv'
  BY <1>t, <1>a DEF ForgetInv, ForgottenStaysHidden
<1>1. CASE UNCHANGED vars \/ Close
  BY <1>a, <1>1 DEF vars, store, history, Close
<1>2. ASSUME NEW p \in Procs, OutsideStep(p) PROVE ForgetInv'
  <2>0. /\ \A q \in Procs \ {p} : pc'[q] = pc[q]
        /\ UNCHANGED <<forgetMark, deadBelow, lastSid>>
    <3>1. \A q \in Procs \ {p} : pc'[q] = pc[q]
      BY <1>t, <1>2, OthersUntouched
    <3>2. UNCHANGED <<forgetMark, deadBelow, lastSid>>
      BY <1>2
         DEF OutsideStep, BeginCredential, BeginForceLogin, BeginForget,
             BeginCheck, LoopCancelled, LoopClosed, CredentialServed,
             CredentialReplaced, Joins, WaitCancelled, WokenCancelled,
             WokenRetries, WokenShares, Returns, Uses, SessionRejected,
             InvalidateStale, ForgetGivesUp, ForgetLocks, ForgetFlags,
             ForgetDeletes, Begin, Rests, history
    <3> QED
      BY <3>1, <3>2
  <2>1. CASE ForgetFlags(p)
    BY <1>t, <2>0, <2>1 DEF ForgetFlags, ForgetInv, ForgottenStaysHidden
  <2>2. CASE ForgetDeletes(p)
    <3>1. pc'[p] = "idle" /\ disk' \in {0, disk} /\ forgotten' = forgotten
      BY <1>t, <2>2 DEF ForgetDeletes, Rests, Goto, TypeOK
    <3> QED
      BY <2>0, <3>1 DEF ForgetInv, ForgottenStaysHidden
  <2>3. CASE ~ForgetFlags(p) /\ ~ForgetDeletes(p)
    <3>1. UNCHANGED <<disk, forgotten>>
      BY <1>2, <2>3
         DEF OutsideStep, BeginCredential, BeginForceLogin, BeginForget,
             BeginCheck, LoopCancelled, LoopClosed, CredentialServed,
             CredentialReplaced, Joins, WaitCancelled, WokenCancelled,
             WokenRetries, WokenShares, Returns, Uses, SessionRejected,
             InvalidateStale, ForgetGivesUp, ForgetLocks, Begin, store
    <3>2. pc'[p] # "forgetInvalidate"
      BY <1>t, <1>2, <2>3
         DEF OutsideStep, BeginCredential, BeginForceLogin, BeginForget,
             BeginCheck, LoopCancelled, LoopClosed, CredentialServed,
             CredentialReplaced, Joins, WaitCancelled, WokenCancelled,
             WokenRetries, WokenShares, Returns, Uses, SessionRejected,
             InvalidateStale, ForgetGivesUp, ForgetLocks, Rests, Goto, Ends,
             TypeOK
    <3> QED
      BY <1>a, <2>0, <3>1, <3>2
  <2> QED
    BY <2>1, <2>2, <2>3
<1>3. ASSUME NEW p \in Procs, AcquiringStep(p) PROVE ForgetInv'
  <2>0. /\ \A q \in Procs \ {p} : pc'[q] = pc[q]
        /\ pc'[p] # "forgetInvalidate"
        /\ UNCHANGED <<forgetMark, deadBelow>>
        /\ lastSid' \in {lastSid, lastSid + 1}
    <3>1. \A q \in Procs \ {p} : pc'[q] = pc[q]
      BY <1>t, <1>3, OthersUntouched
    <3>2. pc'[p] \in Acquiring /\ UNCHANGED deadBelow
      BY <1>t, <1>3, AcquiringFrame
    <3>3. UNCHANGED forgetMark /\ lastSid' \in {lastSid, lastSid + 1}
      BY <1>3
         DEF AcquiringStep, RunReserved, AcquireRefused, AcquireBegins,
             LoadFails, LoadFindsNothing, LoadFinds, RestoreFallsBack,
             RestoreOnline, LoginStarts, LoginSucceeds, LoginFails,
             SaveRefused, SaveLocks, SaveWrites, SaveFails, SaveCommits,
             SaveOvertaken, RecheckPasses, RecheckFails, history
    <3> QED
      BY <3>1, <3>2, <3>3 DEF Acquiring
  <2>1. CASE SaveWrites(p) \/ SaveFails(p)
    <3>1. disk' \in {disk, cred[p].sid} /\ forgotten' = forgotten
      BY <2>1 DEF SaveWrites, SaveFails
    <3>2. cred[p].sid >= deadBelow /\ cred[p].sid \in Nat
      BY <1>t, <2>1 DEF SaveWrites, SaveFails, DeadInv, TypeOK, Creds
    <3> QED
      BY <1>t, <2>0, <3>1, <3>2 DEF ForgetInv, ForgottenStaysHidden
  <2>2. CASE SaveCommits(p)
    <3>1. disk = cred[p].sid /\ cred[p].sid >= deadBelow
      BY <1>t, <2>2 DEF SaveCommits, StoredInv, DeadInv
    <3>2. \A q \in Procs : pc'[q] # "forgetInvalidate"
      <4>1. gate = p
        BY <1>t, <2>2 DEF SaveCommits, StoredInv
      <4>2. \A q \in Procs \ {p} : pc[q] # "forgetInvalidate"
        BY <1>t, <4>1 DEF StoredInv, Forgetting
      <4> QED
        BY <2>0, <4>2
    <3> QED
      BY <1>t, <2>0, <2>2, <3>1, <3>2
         DEF SaveCommits, ForgetInv, ForgottenStaysHidden
  <2>3. CASE ~(SaveWrites(p) \/ SaveFails(p) \/ SaveCommits(p))
    <3>1. UNCHANGED <<disk, forgotten>>
      BY <1>3, <2>3
         DEF AcquiringStep, RunReserved, AcquireRefused, AcquireBegins,
             LoadFails, LoadFindsNothing, LoadFinds, RestoreFallsBack,
             RestoreOnline, LoginStarts, LoginSucceeds, LoginFails,
             SaveRefused, SaveLocks, SaveOvertaken, RecheckPasses,
             RecheckFails, store
    <3> QED
      BY <1>a, <2>0, <3>1
  <2> QED
    BY <2>1, <2>2, <2>3
<1>4. ASSUME NEW p \in Procs, InvalidatingStep(p) PROVE ForgetInv'
  <2>0. /\ \A q \in Procs \ {p} : pc'[q] = pc[q]
        /\ UNCHANGED <<disk, forgotten, lastSid>> /\ deadBelow' = lastSid + 1
    BY <1>t, <1>4, OthersUntouched, InvalidatingFrame DEF store
  <2>1. pc'[p] # "forgetInvalidate"
    BY <1>t, <1>4
       DEF InvalidatingStep, ForceLoginLeads, Lead, InvalidateIfCurrent,
           ForgetInvalidates, Rests, Goto, TypeOK
  <2>2. CASE ForgetInvalidates(p)
    <3>1. forgetMark' = lastSid /\ forgotten
      BY <2>2 DEF ForgetInvalidates, ForgetInv
    <3> QED
      BY <1>t, <2>0, <2>1, <3>1 DEF ForgetInv, ForgottenStaysHidden
  <2>3. CASE ~ForgetInvalidates(p)
    <3>1. forgetMark' = forgetMark
      BY <1>4, <2>3 DEF InvalidatingStep, ForceLoginLeads,
         InvalidateIfCurrent, Rests
    <3> QED
      BY <1>t, <2>0, <2>1, <3>1 DEF ForgetInv, ForgottenStaysHidden
  <2> QED
    BY <2>2, <2>3
<1>5. ASSUME NEW p \in Procs,
             \/ Cancel(p) \/ CredentialLeads(p) \/ TryForceRelogin(p)
             \/ Publish(p) \/ FinishFails(p)
      PROVE  ForgetInv'
  <2>1. UNCHANGED <<disk, forgotten, forgetMark, deadBelow, lastSid>>
    BY <1>5 DEF Cancel, CredentialLeads, TryForceRelogin, Begin, Publish,
       FinishFails, store, history
  <2>2. pc'[p] = "forgetInvalidate" => pc[p] = "forgetInvalidate"
    BY <1>t, <1>5 DEF Cancel, CredentialLeads, TryForceRelogin, Lead,
       Publish, FinishFails, Ends, Goto, TypeOK
  <2> QED
    BY <1>a, <1>5, <1>t, <2>1, <2>2, OthersUntouched
<1>6. ASSUME NEW p \in Procs, Release(p) PROVE ForgetInv'
  BY <1>6, <1>a DEF Release, store, history
<1> QED
  BY <1>t, <1>1, <1>2, <1>3, <1>4, <1>5, <1>6, StepCases

\* A session that ForgetSession forgot is never offered to restore again,
\* even when its deletion fails or an overtaken login was writing it.
THEOREM ForgottenIsHidden == Spec => []ForgottenStaysHidden
<1>1. Init => ForgetInv
  BY ForgetInit
<1>2. IInv /\ ForgetInv /\ [Next]_vars => ForgetInv'
  BY ForgetStep
<1>3. ForgetInv => ForgottenStaysHidden
  BY DEF ForgetInv
<1> QED
  BY <1>1, <1>2, <1>3, IInvInvariant, PTL DEF Spec

=============================================================================
