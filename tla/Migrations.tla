------------------------------ MODULE Migrations ------------------------------
(***************************************************************************)
(* The migration runner of the gateway database (migrate.py).  A deployer   *)
(* opens two connections: one only holds an advisory transaction lock, the *)
(* other applies each missing migration and its row of schema_migrations in *)
(* one transaction.  Deployers of different releases may run together, die *)
(* at any step, and the idle lock connection may be cut while the other one *)
(* goes on.                                                                *)
(***************************************************************************)
EXTENDS Integers, Sequences, SequencesExt

CONSTANTS
  Deployers,
  Sequence,     \* per deployer, the migrations its release packages, by version
  NoDeployer

\* load_migrations refuses a package without migrations.
ASSUME SequenceType ==
  /\ \A d \in Deployers : /\ Sequence[d] \in Seq(ToSet(Sequence[d])) /\ Sequence[d] # <<>>
                          /\ "by hand" \notin ToSet(Sequence[d])
  /\ Deployers # {}

VARIABLES
  schema,       \* the migration bodies that took effect, in order
  ledger,       \* the rows of schema_migrations, by version
  lockHolder,   \* who holds the advisory lock
  deploy        \* per deployer: the step it is at and how many it knows applied

migrationVars == <<schema, ledger, lockHolder, deploy>>

Stages == {"idle", "lock", "shape", "first", "read", "apply", "done", "failed"}
At(d, stage) == deploy[d].at = stage
GoTo(d, stage) == deploy' = [deploy EXCEPT ![d].at = stage]
GiveUp(d) == IF lockHolder = d THEN NoDeployer ELSE lockHolder

\* The database is new, or somebody made the schema without this runner.
MigrationsInit ==
  /\ schema \in {<<>>, <<"by hand">>}
  /\ ledger = <<>>
  /\ lockHolder = NoDeployer
  /\ deploy = [d \in Deployers |-> [at |-> "idle", known |-> 0]]

\* load_migrations and _validate_deployer, and the lock connection's own check.
StartDeploy(d) ==
  /\ deploy[d].at \in {"idle", "done", "failed"}
  /\ deploy' = [deploy EXCEPT ![d] = [at |-> "lock", known |-> 0]]
  /\ UNCHANGED <<schema, ledger, lockHolder>>

\* _acquire_migration_lock: polled until it is free or the deadline has passed.
AcquireLock(d) ==
  /\ At(d, "lock")
  /\ \/ lockHolder = NoDeployer /\ lockHolder' = d /\ GoTo(d, "shape")
     \/ lockHolder # NoDeployer /\ GoTo(d, "failed") /\ UNCHANGED lockHolder
  /\ UNCHANGED <<schema, ledger>>

\* An error of the runner closes both connections, which frees the lock.
Fail(d) == GoTo(d, "failed") /\ lockHolder' = GiveUp(d) /\ UNCHANGED <<schema, ledger>>

\* _database_shape: a schema without a ledger is not the runner's to touch.
DatabaseShape(d) ==
  /\ At(d, "shape")
  /\ IF (schema = <<>>) # (ledger = <<>>) THEN Fail(d)
     ELSE /\ GoTo(d, IF schema = <<>> THEN "first" ELSE "read")
          /\ UNCHANGED <<schema, ledger, lockHolder>>

\* The first migration, the ledger's DDL and its first row; it fails as a whole
\* when another deployer has created the tables since.
ApplyFirst(d) ==
  /\ At(d, "first")
  /\ IF schema # <<>> THEN Fail(d)
     ELSE /\ schema' = <<Sequence[d][1]>> /\ ledger' = <<Sequence[d][1]>>
          /\ deploy' = [deploy EXCEPT ![d] = [at |-> "apply", known |-> 1]]
          /\ UNCHANGED lockHolder

\* _read_applied_migrations: the ledger must be a prefix of this release.
ReadApplied(d) ==
  /\ At(d, "read")
  /\ IF ledger = <<>> \/ ~ IsPrefix(ledger, Sequence[d]) THEN Fail(d)
     ELSE /\ deploy' = [deploy EXCEPT ![d] = [at |-> "apply", known |-> Len(ledger)]]
          /\ UNCHANGED <<schema, ledger, lockHolder>>

\* A seeded fault: a version that is already recorded is not inserted again.
ApplyMigrationAnyway(d) ==
  LET next == deploy[d].known + 1
  IN  /\ At(d, "apply") /\ next <= Len(Sequence[d])
      /\ schema' = Append(schema, Sequence[d][next])
      /\ ledger' = IF next \in DOMAIN ledger THEN ledger ELSE Append(ledger, Sequence[d][next])
      /\ deploy' = [deploy EXCEPT ![d].known = next]
      /\ UNCHANGED lockHolder

\* One migration and its row, in one transaction: the primary key of the ledger
\* rolls both back when the version is already there.
ApplyMigration(d) ==
  LET next == deploy[d].known + 1
  IN  /\ At(d, "apply") /\ next <= Len(Sequence[d])
      /\ IF next \in DOMAIN ledger THEN Fail(d)
         ELSE /\ schema' = Append(schema, Sequence[d][next])
              /\ ledger' = Append(ledger, Sequence[d][next])
              /\ deploy' = [deploy EXCEPT ![d].known = next]
              /\ UNCHANGED lockHolder

\* The lock's transaction ends; it cannot when its connection was cut.
Report(d) ==
  /\ At(d, "apply") /\ deploy[d].known = Len(Sequence[d])
  /\ GoTo(d, IF lockHolder = d THEN "done" ELSE "failed")
  /\ lockHolder' = GiveUp(d)
  /\ UNCHANGED <<schema, ledger>>

\* The server drops the idle lock connection; the deployer does not look at it.
LoseLock(d) ==
  /\ lockHolder = d /\ lockHolder' = NoDeployer
  /\ UNCHANGED <<schema, ledger, deploy>>

\* The deployer's process dies: both connections close, its transaction with them.
Killed(d) ==
  /\ deploy[d].at \notin {"idle", "done", "failed"}
  /\ GoTo(d, "idle") /\ lockHolder' = GiveUp(d)
  /\ UNCHANGED <<schema, ledger>>

MigrationsNext == \E d \in Deployers :
  \/ StartDeploy(d) \/ AcquireLock(d) \/ DatabaseShape(d) \/ ApplyFirst(d) \/ ReadApplied(d)
  \/ ApplyMigration(d) \/ Report(d) \/ LoseLock(d) \/ Killed(d)

MigrationsSpec == MigrationsInit /\ [][MigrationsNext]_migrationVars

-----------------------------------------------------------------------------
AnyMigration == UNION {ToSet(Sequence[d]) : d \in Deployers}
AnyBody == AnyMigration \cup {"by hand"}

\* The types of the runner's state.
MigrationsTypeOK ==
  /\ ledger \in Seq(AnyMigration) /\ schema \in Seq(AnyBody)
  /\ lockHolder \in Deployers \cup {NoDeployer}
  /\ deploy \in [Deployers -> [at : Stages, known : Nat]]
  /\ \A d \in Deployers : deploy[d].known <= Len(Sequence[d])

\* What took effect in the database is exactly what the ledger records, in order
\* and once each, and it is the beginning of one release's sequence, although
\* deployers of different releases race, die and lose the lock under which they
\* read the ledger; a deployer that reported success left at least its own
\* release behind; and a schema the runner did not make is left alone.
HistoryIsOneRelease ==
  IF schema = <<"by hand">> THEN ledger = <<>>
  ELSE /\ schema = ledger
       /\ \E d \in Deployers : IsPrefix(ledger, Sequence[d])
       /\ \A d \in Deployers : At(d, "done") => IsPrefix(Sequence[d], ledger)
=============================================================================
