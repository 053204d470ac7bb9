-------------------------------- MODULE MCEdge --------------------------------
(* The gateway's parts that share no state in the model: the completion of     *)
(* results, the in-memory repository and the migration runner.  An instance    *)
(* chooses one of them at the start and lets it alone take steps.              *)
EXTENDS MCResultIngress, MemoryRepository, Migrations

CONSTANTS old, new, fork, i1, i2, i3

VARIABLE focus
edgeVars == <<focus, allVars, memoryVars, migrationVars>>

\* A release, the one after it, and one in which a migration was edited.
MCSequence == old :> <<"1", "2">> @@ new :> <<"1", "2", "3">> @@ fork :> <<"1", "2b", "3b">>

MCCommandOf == i1 :> "list_projects" @@ i2 :> "scan_drawings" @@ i3 :> "apply"

EdgeSymmetry == Permutations(Handlers) \cup Permutations(Callers)

EdgeInit ==
  /\ focus \in {"ingress", "memory", "migrations"}
  /\ IngressInit /\ MemoryInit /\ MigrationsInit
  /\ focus # "migrations" => schema = <<>>

EdgeNext ==
  /\ UNCHANGED focus
  /\ \/ /\ focus = "ingress" /\ IngressNext
        /\ UNCHANGED <<memoryVars, migrationVars>>
     \/ /\ focus = "memory" /\ MemoryNext
        /\ UNCHANGED <<allVars, migrationVars>>
     \/ /\ focus = "migrations" /\ MigrationsNext
        /\ UNCHANGED <<allVars, memoryVars>>

EdgeSpec == EdgeInit /\ [][EdgeNext]_edgeVars

\* The part that takes steps keeps its state within its types.
EdgeTypeOK ==
  CASE focus = "ingress" -> IngressTypeOK
    [] focus = "memory" -> MemoryTypeOK
    [] focus = "migrations" -> MigrationsTypeOK
=============================================================================
