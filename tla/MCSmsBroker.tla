----------------------------- MODULE MCSmsBroker -----------------------------
(* Small instances of SmsBroker for TLC. *)
EXTENDS SmsBroker, TLC

\* Requests are interchangeable; only safety runs use it.
Symmetry == Permutations(Pages)

=============================================================================
