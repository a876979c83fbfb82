--------------------------- MODULE SessionContract ---------------------------
(***************************************************************************)
(* What internal/session promises to its consumers (tunnel, resolver, l3    *)
(* and the runtime): at most one session at a time, numbered without reuse, *)
(* never one that was declared dead, and none after Close.                  *)
(***************************************************************************)
EXTENDS Naturals

VARIABLES session,  \* generation of the served session, 0 for none
          sid,      \* its session id, 0 for none
          issued,   \* last generation given out
          barred,   \* session ids that must not be served any more
          over      \* the provider is closed

vars == <<session, sid, issued, barred, over>>

Init == session = 0 /\ sid = 0 /\ issued = 0 /\ barred = {} /\ over = FALSE

\* A session becomes available under a new generation.
Serve ==
  /\ session = 0 /\ ~over
  /\ issued' = issued + 1
  /\ session' = issued'
  /\ sid' \notin barred
  /\ UNCHANGED <<barred, over>>

\* The session ends; some session ids may become unusable for good.
Withdraw ==
  /\ session' = 0 /\ sid' = 0
  /\ barred \subseteq barred'
  /\ over => over'
  /\ UNCHANGED issued

Next == Serve \/ Withdraw

Spec == Init /\ [][Next]_vars

=============================================================================
