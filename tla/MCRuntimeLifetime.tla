-------------------------- MODULE MCRuntimeLifetime --------------------------
(* Small instances of RuntimeLifetime for TLC. *)
EXTENDS RuntimeLifetime

=============================================================================
