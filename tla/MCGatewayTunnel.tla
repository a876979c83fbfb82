--------------------------- MODULE MCGatewayTunnel ---------------------------
(* Instances of GatewayTunnel for model checking. *)
EXTENDS GatewayTunnel, TLC

CallerSymmetry == Permutations(Callers)

=============================================================================
