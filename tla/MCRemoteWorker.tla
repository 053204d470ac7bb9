---------------------------- MODULE MCRemoteWorker -----------------------------
(* RemoteWorker for TLC: one client and one workstation. *)
EXTENDS RemoteWorker, MCResultIngress

WorkerSymmetry == HandlerSymmetry \cup Permutations(Processes)
=============================================================================
