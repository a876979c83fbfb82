--------------------------- MODULE MCTunnelManager ---------------------------
(* Small instances of TunnelManager for TLC. *)
EXTENDS TunnelManager, TLC

\* Callers and calls are interchangeable; only safety runs use it.
Symmetry == Permutations(Procs) \cup Permutations(Conns)

=============================================================================
