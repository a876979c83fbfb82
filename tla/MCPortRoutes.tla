----------------------------- MODULE MCPortRoutes -----------------------------
(* Instances of PortRoutes for model checking. *)
EXTENDS PortRoutes, TLC

FlowSymmetry == Permutations(Flows)

=============================================================================
