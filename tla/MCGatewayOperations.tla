-------------------------- MODULE MCGatewayOperations --------------------------
(* GatewayOperations for TLC: three requests of one client. *)
EXTENDS GatewayOperations

CONSTANT c1

MCClientOf == [k \in Keys |-> c1]
=============================================================================
