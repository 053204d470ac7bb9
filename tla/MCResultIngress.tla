---------------------------- MODULE MCResultIngress ----------------------------
(* ResultIngress for TLC: one client, a few handlers. *)
EXTENDS ResultIngress, TLC

CONSTANT c1

MCClientOf == [k \in Keys |-> c1]
HandlerSymmetry == Permutations(Handlers)
=============================================================================
