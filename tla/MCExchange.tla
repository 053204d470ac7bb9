------------------------------ MODULE MCExchange ------------------------------
(* The exchange between worker and gateway, and how the gateway lets a request *)
(* of the exchange in.  The two share no state in the model, so an instance     *)
(* chooses one of them at the start and lets it alone take steps.              *)
EXTENDS MCRemoteWorker, WorkerCredentials

VARIABLE side
exchangeVars == <<side, systemVars, credentialVars>>

MCSkews == {-1, 1}
ExchangeSymmetry == WorkerSymmetry \cup Permutations(Servers)

ExchangeInit ==
  /\ side \in {"worker", "credentials"}
  /\ WorkerInit /\ CredentialsInit
  /\ side # "credentials" => skew = 1

ExchangeNext ==
  /\ UNCHANGED side
  /\ \/ side = "worker" /\ WorkerNext /\ UNCHANGED credentialVars
     \/ side = "credentials" /\ CredentialsNext /\ UNCHANGED systemVars

ExchangeSpec == ExchangeInit /\ [][ExchangeNext]_exchangeVars

\* The part that takes steps keeps its state within its types.
ExchangeTypeOK == IF side = "worker" THEN WorkerTypeOK ELSE CredentialsTypeOK
=============================================================================
