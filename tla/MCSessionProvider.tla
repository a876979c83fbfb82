-------------------------- MODULE MCSessionProvider --------------------------
(* Small instances of SessionProvider for TLC. *)
EXTENDS SessionProvider, TLC

\* The processes are interchangeable; only the safety runs use it.
Symmetry == Permutations(Procs)

=============================================================================
