--------------------------- MODULE GatewayEdgeProofs ---------------------------
(***************************************************************************)
(* Proofs about the edge of the gateway: the migration runner, for any      *)
(* number of deployers of any releases; the admission of worker requests,   *)
(* for any number of keys, nonces and threads and any difference of the     *)
(* clocks; the in-memory repository, for any number of operations and of    *)
(* threads that act at stale instants; and the compositions that the runs   *)
(* check.                                                                   *)
(***************************************************************************)
EXTENDS MCEdge, MCExchange, GatewayIngressProofs, TLAPS

(***************************************************************************)
(* Migrations.                                                             *)
(***************************************************************************)

\* What a deployer that applies migrations knows is still in the ledger, because
\* the ledger only grows: so a version above it is either free or taken by
\* another deployer, and the primary key tells which.
KnowsPrefix ==
  \A d \in Deployers : At(d, "apply") =>
    /\ deploy[d].known \in 1..Len(ledger)
    /\ \A i \in 1..deploy[d].known : ledger[i] = Sequence[d][i]

HistoryInv == MigrationsTypeOK /\ HistoryIsOneRelease /\ KnowsPrefix

\* A release is a sequence of migrations, none of which is made by hand.
LEMMA ReleaseType ==
  ASSUME NEW d \in Deployers
  PROVE  /\ Sequence[d] \in Seq(AnyMigration)
         /\ Len(Sequence[d]) \in Nat /\ Len(Sequence[d]) >= 1
         /\ \A i \in 1..Len(Sequence[d]) : Sequence[d][i] \in AnyMigration
         /\ "by hand" \notin AnyMigration
<1>1. /\ Sequence[d] \in Seq(ToSet(Sequence[d])) /\ Sequence[d] # <<>>
  BY SequenceType
<1>2. ToSet(Sequence[d]) \subseteq AnyMigration
  BY DEF AnyMigration
<1>3. \A i \in 1..Len(Sequence[d]) : Sequence[d][i] \in ToSet(Sequence[d])
  BY <1>1 DEF ToSet
<1>4. "by hand" \notin AnyMigration
  BY SequenceType DEF AnyMigration
<1> HIDE DEF AnyMigration
<1>5. Sequence[d] \in Seq(AnyMigration)
  BY <1>1, <1>2, <1>3
<1>6. Len(Sequence[d]) \in Nat /\ Len(Sequence[d]) >= 1
  BY <1>1
<1> QED  BY <1>2, <1>3, <1>4, <1>5, <1>6

\* A prefix agrees with the whole sequence element by element.
LEMMA PrefixElements ==
  ASSUME NEW S, NEW s \in Seq(S), NEW t \in Seq(S)
  PROVE  IsPrefix(s, t) <=> Len(s) <= Len(t) /\ \A i \in 1..Len(s) : s[i] = t[i]
<1>1. SubSeq(s, 1, Len(s)) = s
  OBVIOUS
<1>2. ASSUME Len(s) <= Len(t)
      PROVE  /\ SubSeq(t, 1, Len(s)) \in Seq(S) /\ Len(SubSeq(t, 1, Len(s))) = Len(s)
             /\ \A i \in 1..Len(s) : SubSeq(t, 1, Len(s))[i] = t[i]
  BY <1>2
<1>3. ASSUME Len(s) <= Len(t), \A i \in 1..Len(s) : s[i] = t[i]
      PROVE  s = SubSeq(t, 1, Len(s))
  BY <1>2, <1>3
<1> QED  BY <1>1, <1>2, <1>3 DEF IsPrefix

\* How a ledger and a release compare.
LEMMA LedgerPrefix ==
  ASSUME NEW d \in Deployers, NEW log \in Seq(AnyMigration)
  PROVE  /\ IsPrefix(log, Sequence[d]) <=>
              Len(log) <= Len(Sequence[d]) /\ \A i \in 1..Len(log) : log[i] = Sequence[d][i]
         /\ IsPrefix(Sequence[d], log) <=>
              Len(Sequence[d]) <= Len(log) /\ \A i \in 1..Len(Sequence[d]) : Sequence[d][i] = log[i]
<1>1. Sequence[d] \in Seq(AnyMigration)
  BY ReleaseType
<1> QED  BY <1>1, PrefixElements, Zenon

\* A history of one entry.
LEMMA Singleton ==
  ASSUME NEW S, NEW m \in S
  PROVE  <<m>> \in Seq(S) /\ Len(<<m>>) = 1 /\ <<m>>[1] = m
OBVIOUS

\* The history that a release begins.
LEMMA FirstMigration ==
  ASSUME NEW d \in Deployers, NEW first, first = <<Sequence[d][1]>>
  PROVE  /\ first \in Seq(AnyMigration) /\ first \in Seq(AnyBody)
         /\ Len(first) = 1 /\ first[1] = Sequence[d][1] /\ first # <<"by hand">>
         /\ Len(Sequence[d]) \in Nat /\ Len(Sequence[d]) >= 1
         /\ IsPrefix(first, Sequence[d])
<1>1. /\ Len(Sequence[d]) \in Nat /\ Len(Sequence[d]) >= 1
      /\ \A i \in 1..Len(Sequence[d]) : Sequence[d][i] \in AnyMigration
      /\ "by hand" \notin AnyMigration
  BY ReleaseType
<1>2. 1 \in 1..Len(Sequence[d])
  <2>1. Len(Sequence[d]) \in Nat /\ Len(Sequence[d]) >= 1
    BY <1>1
  <2> QED  BY <2>1
<1>3. PICK m \in AnyMigration : m = Sequence[d][1]
  BY <1>1, <1>2
<1>4. first = <<m>> /\ m # "by hand" /\ m \in AnyBody
  BY <1>1, <1>3 DEF AnyBody
<1>5. /\ first \in Seq(AnyMigration) /\ first \in Seq(AnyBody)
      /\ Len(first) = 1 /\ first[1] = m
  BY <1>4, Singleton
<1>6. first # <<"by hand">>
  <2>1. <<"by hand">>[1] = "by hand"
    OBVIOUS
  <2> QED  BY <1>4, <1>5, <2>1
<1>7. IsPrefix(first, Sequence[d])
  <2>1. 1 <= Len(Sequence[d]) /\ \A i \in 1..1 : first[i] = Sequence[d][i]
    BY <1>2, <1>3, <1>5
  <2> QED  BY <1>5, <2>1, LedgerPrefix
<1> QED  BY <1>1, <1>3, <1>5, <1>6, <1>7

\* The empty history is the beginning of any release.
LEMMA EmptyPrefix ==
  ASSUME NEW d \in Deployers
  PROVE  IsPrefix(<<>>, Sequence[d])
<1>1. <<>> \in Seq(AnyMigration) /\ Len(<<>>) = 0
  OBVIOUS
<1>2. Len(Sequence[d]) \in Nat
  BY ReleaseType, Zenon
<1>3. 0 <= Len(Sequence[d]) /\ \A i \in 1..0 : <<>>[i] = Sequence[d][i]
  BY <1>2
<1> QED  BY <1>1, <1>3, LedgerPrefix

\* A deployer moves to a step and may drop the lock.
LEMMA MoveType ==
  ASSUME MigrationsTypeOK, NEW d \in Deployers, NEW stage \in Stages, GoTo(d, stage),
         lockHolder' \in Deployers \cup {NoDeployer}, UNCHANGED <<schema, ledger>>
  PROVE  MigrationsTypeOK'
BY DEF MigrationsTypeOK, GoTo

\* A failure keeps the types.
LEMMA FailType ==
  ASSUME MigrationsTypeOK, NEW d \in Deployers, Fail(d)
  PROVE  MigrationsTypeOK'
BY MoveType DEF Fail, GiveUp, MigrationsTypeOK, Stages

\* A migration is recorded and applied in one transaction.
LEMMA GrowType ==
  ASSUME MigrationsTypeOK, NEW d \in Deployers, NEW n \in 1..Len(Sequence[d]),
         ledger' \in Seq(AnyMigration), schema' \in Seq(AnyBody),
         deploy' = [deploy EXCEPT ![d] = [at |-> "apply", known |-> n]], UNCHANGED lockHolder
  PROVE  MigrationsTypeOK'
<1>1. n \in Nat /\ n <= Len(Sequence[d])
  <2>1. Len(Sequence[d]) \in Nat
    BY ReleaseType
  <2> QED  BY <2>1
<1> QED  BY <1>1 DEF MigrationsTypeOK, Stages

\* No step leaves the types.
LEMMA MigrationsTypeStep ==
  ASSUME MigrationsTypeOK, NEW d \in Deployers,
         StartDeploy(d) \/ AcquireLock(d) \/ DatabaseShape(d) \/ ApplyFirst(d) \/ ReadApplied(d)
         \/ ApplyMigration(d) \/ Report(d) \/ LoseLock(d) \/ Killed(d)
  PROVE  MigrationsTypeOK'
<1>0. Sequence[d] \in Seq(AnyMigration) /\ Len(Sequence[d]) \in Nat /\ 1 \in 1..Len(Sequence[d])
  <2>1. /\ Sequence[d] \in Seq(AnyMigration)
        /\ Len(Sequence[d]) \in Nat /\ Len(Sequence[d]) >= 1
    BY ReleaseType
  <2> QED  BY <2>1
<1>1. CASE StartDeploy(d)
  <2>1. /\ deploy' = [deploy EXCEPT ![d] = [at |-> "lock", known |-> 0]]
        /\ UNCHANGED <<schema, ledger, lockHolder>>
    BY <1>1 DEF StartDeploy
  <2> QED  BY <1>0, <2>1 DEF MigrationsTypeOK, Stages
<1>2. CASE AcquireLock(d)
  BY <1>2, MoveType DEF AcquireLock, Stages, MigrationsTypeOK
<1>3. CASE DatabaseShape(d)
  <2>1. CASE (schema = <<>>) # (ledger = <<>>)
    BY <1>3, <2>1, FailType DEF DatabaseShape
  <2>2. CASE ~ ((schema = <<>>) # (ledger = <<>>))
    <3> DEFINE stage == IF schema = <<>> THEN "first" ELSE "read"
    <3>1. stage \in Stages /\ GoTo(d, stage) /\ UNCHANGED <<schema, ledger, lockHolder>>
      BY <1>3, <2>2 DEF DatabaseShape, Stages
    <3> QED  BY <3>1, MoveType DEF MigrationsTypeOK
  <2> QED  BY <2>1, <2>2
<1>4. CASE ApplyFirst(d)
  <2>1. CASE schema # <<>>
    BY <1>4, <2>1, FailType DEF ApplyFirst
  <2>2. CASE schema = <<>>
    <3>1. /\ schema' = <<Sequence[d][1]>> /\ ledger' = <<Sequence[d][1]>>
          /\ deploy' = [deploy EXCEPT ![d] = [at |-> "apply", known |-> 1]]
          /\ UNCHANGED lockHolder
      BY <1>4, <2>2 DEF ApplyFirst
    <3>2. ledger' \in Seq(AnyMigration) /\ schema' \in Seq(AnyBody)
      BY <3>1, FirstMigration
    <3> QED  BY <1>0, <3>1, <3>2, GrowType
  <2> QED  BY <2>1, <2>2
<1>5. CASE ReadApplied(d)
  <2>1. CASE ledger = <<>> \/ ~ IsPrefix(ledger, Sequence[d])
    BY <1>5, <2>1, FailType DEF ReadApplied
  <2>2. CASE ~ (ledger = <<>> \/ ~ IsPrefix(ledger, Sequence[d]))
    <3>1. ledger \in Seq(AnyMigration)
      BY DEF MigrationsTypeOK
    <3>2. Len(ledger) \in 1..Len(Sequence[d])
      BY <1>0, <2>2, <3>1, LedgerPrefix
    <3> QED  BY <1>5, <2>2, <3>2, GrowType DEF ReadApplied, MigrationsTypeOK
  <2> QED  BY <2>1, <2>2
<1>6. CASE ApplyMigration(d)
  <2> DEFINE next == deploy[d].known + 1
  <2>1. CASE next \in DOMAIN ledger
    BY <1>6, <2>1, FailType DEF ApplyMigration
  <2>2. CASE next \notin DOMAIN ledger
    <3>1. /\ At(d, "apply") /\ next <= Len(Sequence[d])
          /\ schema' = Append(schema, Sequence[d][next])
          /\ ledger' = Append(ledger, Sequence[d][next])
          /\ deploy' = [deploy EXCEPT ![d].known = next] /\ UNCHANGED lockHolder
      BY <1>6, <2>2 DEF ApplyMigration
    <3>2. next \in 1..Len(Sequence[d])
      BY <1>0, <3>1 DEF MigrationsTypeOK
    <3>3. Sequence[d][next] \in AnyMigration
      BY <3>2, ReleaseType
    <3>4. deploy' = [deploy EXCEPT ![d] = [at |-> "apply", known |-> next]]
      <4>1. deploy[d].at = "apply" /\ deploy[d] \in [at : Stages, known : Nat]
        BY <3>1 DEF MigrationsTypeOK, At
      <4>2. [deploy[d] EXCEPT !.known = next] = [at |-> "apply", known |-> next]
        BY <4>1
      <4> QED  BY <3>1, <4>2 DEF MigrationsTypeOK
    <3>5. ledger' \in Seq(AnyMigration) /\ schema' \in Seq(AnyBody)
      <4>1. Sequence[d][next] \in AnyBody
        BY <3>3 DEF AnyBody
      <4> QED  BY <3>1, <3>3, <4>1 DEF MigrationsTypeOK
    <3> QED  BY <3>1, <3>2, <3>4, <3>5, GrowType
  <2> QED  BY <2>1, <2>2
<1>7. CASE Report(d)
  BY <1>7, MoveType DEF Report, GiveUp, Stages, MigrationsTypeOK
<1>8. CASE LoseLock(d)
  BY <1>8 DEF LoseLock, MigrationsTypeOK
<1>9. CASE Killed(d)
  BY <1>9, MoveType DEF Killed, GiveUp, Stages, MigrationsTypeOK
<1> QED  BY <1>1, <1>2, <1>3, <1>4, <1>5, <1>6, <1>7, <1>8, <1>9

\* A step that leaves the database alone and brings nobody to apply migrations or
\* to report success keeps the history.
LEMMA HistoryUntouched ==
  ASSUME HistoryInv, UNCHANGED <<schema, ledger>>, NEW d \in Deployers,
         \A e \in Deployers \ {d} : deploy'[e] = deploy[e],
         deploy'[d] = deploy[d] \/ deploy'[d].at \notin {"apply", "done"}
  PROVE  HistoryIsOneRelease' /\ KnowsPrefix'
BY DEF HistoryInv, HistoryIsOneRelease, KnowsPrefix, At

\* A failed deployer touches nothing.
LEMMA FailKeepsHistory ==
  ASSUME HistoryInv, NEW d \in Deployers, Fail(d)
  PROVE  HistoryIsOneRelease' /\ KnowsPrefix'
<1>1. /\ \A e \in Deployers \ {d} : deploy'[e] = deploy[e]
      /\ deploy'[d].at \notin {"apply", "done"}
  BY DEF Fail, GoTo, HistoryInv, MigrationsTypeOK
<1> QED  BY <1>1, HistoryUntouched DEF Fail

\* The database of a new schema has no history, so the first migration of any
\* release may begin one.
LEMMA FirstKeeps ==
  ASSUME HistoryInv, NEW d \in Deployers, ApplyFirst(d)
  PROVE  HistoryIsOneRelease' /\ KnowsPrefix'
<1>1. CASE schema # <<>>
  BY <1>1, FailKeepsHistory DEF ApplyFirst
<1>2. CASE schema = <<>>
  <2> DEFINE first == <<Sequence[d][1]>>
  <2>1. /\ schema' = first /\ ledger' = first
        /\ deploy' = [deploy EXCEPT ![d] = [at |-> "apply", known |-> 1]]
    BY <1>2 DEF ApplyFirst
  <2>2. /\ Len(first) = 1 /\ first[1] = Sequence[d][1] /\ first # <<"by hand">>
        /\ IsPrefix(first, Sequence[d])
    BY FirstMigration
  <2> HIDE DEF first
  <2>3. ledger = <<>> /\ \A e \in Deployers : ~ At(e, "done") /\ ~ At(e, "apply")
    <3>1. ledger = <<>> /\ \A e \in Deployers : At(e, "done") => IsPrefix(Sequence[e], ledger)
      BY <1>2 DEF HistoryInv, HistoryIsOneRelease
    <3>2. Len(ledger) = 0 /\ ledger \in Seq(AnyMigration)
      BY <3>1
    <3>3. ASSUME NEW e \in Deployers, At(e, "done") PROVE FALSE
      <4>1. Len(Sequence[e]) >= 1 /\ Sequence[e] \in Seq(AnyMigration)
        BY ReleaseType
      <4>2. Len(Sequence[e]) <= Len(ledger)
        BY <3>1, <3>2, <3>3, LedgerPrefix
      <4> QED  BY <3>2, <4>1, <4>2
    <3>4. ASSUME NEW e \in Deployers, At(e, "apply") PROVE FALSE
      BY <3>2, <3>4 DEF HistoryInv, KnowsPrefix
    <3> QED  BY <3>1, <3>3, <3>4
  <2>4. /\ deploy'[d].at = "apply" /\ deploy'[d].known = 1
        /\ \A e \in Deployers \ {d} : deploy'[e] = deploy[e]
    BY <2>1 DEF HistoryInv, MigrationsTypeOK
  <2>5. \A e \in Deployers : ~ At(e, "done")'
    BY <2>3, <2>4 DEF At
  <2>6. HistoryIsOneRelease'
    BY <2>1, <2>2, <2>5 DEF HistoryIsOneRelease
  <2>7. KnowsPrefix'
    <3>1. ASSUME NEW e \in Deployers, At(e, "apply")' PROVE e = d
      BY <2>3, <2>4, <3>1 DEF At
    <3>2. 1 \in 1..Len(ledger') /\ \A i \in 1..1 : ledger'[i] = Sequence[d][i]
      <4>1. Len(ledger') = 1 /\ ledger'[1] = Sequence[d][1]
        BY <2>1, <2>2
      <4> QED  BY <4>1
    <3> QED  BY <2>4, <3>1, <3>2 DEF KnowsPrefix
  <2> QED  BY <2>6, <2>7
<1> QED  BY <1>1, <1>2

\* Who reads the ledger knows a prefix of its own release.
LEMMA ReadKeeps ==
  ASSUME HistoryInv, NEW d \in Deployers, ReadApplied(d)
  PROVE  HistoryIsOneRelease' /\ KnowsPrefix'
<1>1. CASE ledger = <<>> \/ ~ IsPrefix(ledger, Sequence[d])
  BY <1>1, FailKeepsHistory DEF ReadApplied
<1>2. CASE ledger # <<>> /\ IsPrefix(ledger, Sequence[d])
  <2>1. /\ deploy' = [deploy EXCEPT ![d] = [at |-> "apply", known |-> Len(ledger)]]
        /\ UNCHANGED <<schema, ledger>>
    BY <1>2 DEF ReadApplied
  <2>2. ledger \in Seq(AnyMigration)
    BY DEF HistoryInv, MigrationsTypeOK
  <2>3. Len(ledger) >= 1 /\ \A i \in 1..Len(ledger) : ledger[i] = Sequence[d][i]
    BY <1>2, <2>2, LedgerPrefix
  <2>4. /\ deploy'[d].at = "apply" /\ deploy'[d].known = Len(ledger)
        /\ \A e \in Deployers \ {d} : deploy'[e] = deploy[e]
    BY <2>1 DEF HistoryInv, MigrationsTypeOK
  <2>5. HistoryIsOneRelease'
    <3>1. \A e \in Deployers : At(e, "done")' => At(e, "done")
      BY <2>4 DEF At
    <3> QED  BY <2>1, <3>1 DEF HistoryInv, HistoryIsOneRelease
  <2>6. KnowsPrefix'
    BY <2>1, <2>2, <2>3, <2>4 DEF HistoryInv, KnowsPrefix, At
  <2> QED  BY <2>5, <2>6
<1> QED  BY <1>1, <1>2

\* A migration is applied only on top of exactly what the deployer knows: if the
\* ledger has grown since, its primary key refuses the row.
LEMMA ApplyKeepsHistory ==
  ASSUME HistoryInv, NEW d \in Deployers, ApplyMigration(d)
  PROVE  HistoryIsOneRelease' /\ KnowsPrefix'
<1> DEFINE next == deploy[d].known + 1
<1>1. CASE next \in DOMAIN ledger
  BY <1>1, FailKeepsHistory DEF ApplyMigration
<1>2. CASE next \notin DOMAIN ledger
  <2>1. /\ At(d, "apply") /\ next <= Len(Sequence[d])
        /\ schema' = Append(schema, Sequence[d][next])
        /\ ledger' = Append(ledger, Sequence[d][next])
        /\ deploy' = [deploy EXCEPT ![d].known = next]
    BY <1>2 DEF ApplyMigration
  <2>2. /\ deploy[d].known \in 1..Len(ledger)
        /\ \A i \in 1..deploy[d].known : ledger[i] = Sequence[d][i]
    BY <2>1 DEF HistoryInv, KnowsPrefix
  <2>3. ledger \in Seq(AnyMigration) /\ schema \in Seq(AnyBody) /\ Len(ledger) \in Nat
    <3>1. ledger \in Seq(AnyMigration) /\ schema \in Seq(AnyBody)
      BY DEF HistoryInv, MigrationsTypeOK
    <3> QED  BY <3>1
  <2>4. deploy[d].known = Len(ledger) /\ next = Len(ledger) + 1 /\ ledger # <<>>
    BY <1>2, <2>2, <2>3
  <2>5. schema = ledger
    BY <2>4 DEF HistoryInv, HistoryIsOneRelease
  <2>6. next \in 1..Len(Sequence[d]) /\ Sequence[d][next] \in AnyMigration
    <3>1. Len(Sequence[d]) \in Nat
      BY ReleaseType
    <3>2. next \in 1..Len(Sequence[d])
      BY <2>1, <2>3, <2>4, <3>1
    <3> QED  BY <3>2, ReleaseType
  <2>7. PICK m \in AnyMigration : m = Sequence[d][next]
    BY <2>6
  <2>8. /\ ledger' \in Seq(AnyMigration) /\ Len(ledger') = Len(ledger) + 1
        /\ \A i \in 1..Len(ledger) : ledger'[i] = ledger[i]
        /\ ledger'[next] = m
    <3>1. ledger' = Append(ledger, m)
      BY <2>1, <2>7
    <3> HIDE DEF next
    <3> QED  BY <2>3, <2>4, <3>1
  <2>9. /\ deploy'[d].at = "apply" /\ deploy'[d].known = next
        /\ \A e \in Deployers \ {d} : deploy'[e] = deploy[e]
    BY <2>1 DEF HistoryInv, MigrationsTypeOK, At
  <2> HIDE DEF next
  <2>10. schema' = ledger' /\ schema' # <<"by hand">>
    <3>1. schema' = ledger'
      BY <2>1, <2>5
    <3>2. Len(ledger') >= 2
      <4>1. Len(ledger) >= 1
        BY <2>2, <2>3
      <4> QED  BY <2>3, <2>8, <4>1
    <3>3. Len(<<"by hand">>) = 1
      OBVIOUS
    <3>4. ASSUME schema' = <<"by hand">> PROVE FALSE
      <4>1. Len(ledger') = 1
        BY <3>1, <3>3, <3>4, Zenon
      <4> QED  BY <3>2, <4>1
    <3> QED  BY <3>1, <3>4
  <2>11. \A i \in 1..next : ledger'[i] = Sequence[d][i]
    BY <2>2, <2>3, <2>4, <2>7, <2>8
  <2>12. IsPrefix(ledger', Sequence[d])
    <3>1. Len(ledger') = next /\ next <= Len(Sequence[d])
      BY <2>1, <2>4, <2>8
    <3> QED  BY <2>8, <2>11, <3>1, LedgerPrefix
  <2>13. ASSUME NEW e \in Deployers, At(e, "done")'
         PROVE  IsPrefix(Sequence[e], ledger')
    <3>1. At(e, "done")
      BY <2>9, <2>13 DEF At
    <3>2. IsPrefix(Sequence[e], ledger)
      BY <2>5, <2>10, <3>1, <2>4 DEF HistoryInv, HistoryIsOneRelease
    <3>3. /\ Len(Sequence[e]) <= Len(ledger)
          /\ \A i \in 1..Len(Sequence[e]) : Sequence[e][i] = ledger[i]
      BY <2>3, <3>2, LedgerPrefix
    <3>4. Len(Sequence[e]) \in Nat
      BY ReleaseType
    <3>5. /\ Len(Sequence[e]) <= Len(ledger')
          /\ \A i \in 1..Len(Sequence[e]) : Sequence[e][i] = ledger'[i]
      BY <2>3, <2>8, <3>3, <3>4
    <3> QED  BY <2>8, <3>5, LedgerPrefix
  <2>14. HistoryIsOneRelease'
    BY <2>10, <2>12, <2>13 DEF HistoryIsOneRelease
  <2>15. KnowsPrefix'
    <3> SUFFICES ASSUME NEW e \in Deployers, At(e, "apply")'
                 PROVE  /\ deploy'[e].known \in 1..Len(ledger')
                        /\ \A i \in 1..deploy'[e].known : ledger'[i] = Sequence[e][i]
      BY DEF KnowsPrefix
    <3>1. CASE e = d
      <4>1. next \in 1..Len(ledger')
        BY <2>2, <2>3, <2>4, <2>8
      <4> QED  BY <2>9, <2>11, <3>1, <4>1
    <3>2. CASE e # d
      <4>1. At(e, "apply") /\ deploy'[e].known = deploy[e].known
        BY <2>9, <3>2 DEF At
      <4>2. /\ deploy[e].known \in 1..Len(ledger)
            /\ \A i \in 1..deploy[e].known : ledger[i] = Sequence[e][i]
        BY <4>1 DEF HistoryInv, KnowsPrefix
      <4> QED  BY <2>3, <2>8, <4>1, <4>2
    <3> QED  BY <3>1, <3>2
  <2> QED  BY <2>14, <2>15
<1> QED  BY <1>1, <1>2

\* Who reports success knows its whole release, so the ledger holds it.
LEMMA ReportKeeps ==
  ASSUME HistoryInv, NEW d \in Deployers, Report(d)
  PROVE  HistoryIsOneRelease' /\ KnowsPrefix'
<1>1. /\ At(d, "apply") /\ deploy[d].known = Len(Sequence[d]) /\ UNCHANGED <<schema, ledger>>
      /\ \A e \in Deployers \ {d} : deploy'[e] = deploy[e]
      /\ ~ At(d, "apply")'
  BY DEF Report, GoTo, At, HistoryInv, MigrationsTypeOK
<1>2. /\ deploy[d].known \in 1..Len(ledger)
      /\ \A i \in 1..deploy[d].known : ledger[i] = Sequence[d][i]
  BY <1>1 DEF HistoryInv, KnowsPrefix
<1>3. ledger \in Seq(AnyMigration)
  BY DEF HistoryInv, MigrationsTypeOK
<1>4. IsPrefix(Sequence[d], ledger)
  <2>1. Len(Sequence[d]) <= Len(ledger) /\ \A i \in 1..Len(Sequence[d]) : Sequence[d][i] = ledger[i]
    BY <1>1, <1>2
  <2> QED  BY <1>3, <2>1, LedgerPrefix
<1>5. HistoryIsOneRelease'
  BY <1>1, <1>4 DEF HistoryInv, HistoryIsOneRelease, At
<1>6. KnowsPrefix'
  BY <1>1 DEF HistoryInv, KnowsPrefix, At
<1> QED  BY <1>5, <1>6

\* A new database, or one that was made by hand, has no history yet.
LEMMA HistoryStart == MigrationsInit => HistoryInv
<1> SUFFICES ASSUME MigrationsInit PROVE HistoryInv
  OBVIOUS
<1>1. \A d \in Deployers : deploy[d] = [at |-> "idle", known |-> 0]
  BY DEF MigrationsInit
<1>2. MigrationsTypeOK
  <2>1. <<>> \in Seq(AnyMigration) /\ <<>> \in Seq(AnyBody)
    OBVIOUS
  <2>2. <<"by hand">> \in Seq(AnyBody)
    <3>1. "by hand" \in AnyBody
      BY DEF AnyBody
    <3> QED  BY <3>1, Singleton
  <2>3. \A d \in Deployers : deploy[d].known <= Len(Sequence[d])
    <3> SUFFICES ASSUME NEW d \in Deployers PROVE deploy[d].known <= Len(Sequence[d])
      OBVIOUS
    <3>1. Len(Sequence[d]) \in Nat
      BY ReleaseType, Zenon
    <3>2. deploy[d].known = 0
      BY <1>1
    <3> QED  BY <3>1, <3>2
  <2>4. deploy \in [Deployers -> [at : Stages, known : Nat]]
    BY DEF MigrationsInit, Stages
  <2> QED  BY <2>1, <2>2, <2>3, <2>4 DEF MigrationsInit, MigrationsTypeOK
<1>3. HistoryIsOneRelease
  <2>1. CASE schema = <<"by hand">>
    BY <2>1 DEF MigrationsInit, HistoryIsOneRelease
  <2>2. CASE schema = <<>>
    <3>1. PICK d \in Deployers : TRUE
      BY SequenceType
    <3>2. IsPrefix(<<>>, Sequence[d])
      BY EmptyPrefix, Zenon
    <3>3. <<>> # <<"by hand">>
      OBVIOUS
    <3>4. \A e \in Deployers : ~ At(e, "done")
      BY <1>1 DEF At
    <3> QED  BY <2>2, <3>1, <3>2, <3>3, <3>4 DEF MigrationsInit, HistoryIsOneRelease
  <2> QED  BY <2>1, <2>2 DEF MigrationsInit
<1>4. KnowsPrefix
  BY <1>1 DEF KnowsPrefix, At
<1> QED  BY <1>2, <1>3, <1>4 DEF HistoryInv

\* Every step of every deployer keeps the history.
LEMMA HistoryStep == HistoryInv /\ [MigrationsNext]_migrationVars => HistoryInv'
<1> SUFFICES ASSUME HistoryInv, [MigrationsNext]_migrationVars PROVE HistoryInv'
  OBVIOUS
<1>1. CASE UNCHANGED migrationVars
  BY <1>1 DEF migrationVars, HistoryInv, MigrationsTypeOK, HistoryIsOneRelease, KnowsPrefix, At
<1>2. ASSUME NEW d \in Deployers,
             StartDeploy(d) \/ AcquireLock(d) \/ DatabaseShape(d) \/ ApplyFirst(d)
             \/ ReadApplied(d) \/ ApplyMigration(d) \/ Report(d) \/ LoseLock(d) \/ Killed(d)
      PROVE  HistoryInv'
  <2>1. MigrationsTypeOK'
    BY <1>2, MigrationsTypeStep DEF HistoryInv
  <2>2. HistoryIsOneRelease' /\ KnowsPrefix'
    <3>1. CASE StartDeploy(d) \/ AcquireLock(d) \/ LoseLock(d) \/ Killed(d)
      <4>1. /\ UNCHANGED <<schema, ledger>>
            /\ \A e \in Deployers \ {d} : deploy'[e] = deploy[e]
            /\ deploy'[d] = deploy[d] \/ deploy'[d].at \notin {"apply", "done"}
        BY <3>1 DEF StartDeploy, AcquireLock, LoseLock, Killed, GoTo, HistoryInv, MigrationsTypeOK
      <4> QED  BY <4>1, HistoryUntouched
    <3>2. CASE DatabaseShape(d)
      <4>1. CASE (schema = <<>>) # (ledger = <<>>)
        BY <3>2, <4>1, FailKeepsHistory DEF DatabaseShape
      <4>2. CASE ~ ((schema = <<>>) # (ledger = <<>>))
        <5>1. /\ UNCHANGED <<schema, ledger>>
              /\ \A e \in Deployers \ {d} : deploy'[e] = deploy[e]
              /\ deploy'[d].at \notin {"apply", "done"}
          BY <3>2, <4>2 DEF DatabaseShape, GoTo, HistoryInv, MigrationsTypeOK
        <5> QED  BY <5>1, HistoryUntouched
      <4> QED  BY <4>1, <4>2
    <3> QED  BY <1>2, <3>1, <3>2, FirstKeeps, ReadKeeps, ApplyKeepsHistory, ReportKeeps
  <2> QED  BY <2>1, <2>2 DEF HistoryInv
<1> QED  BY <1>1, <1>2 DEF MigrationsNext

\* What took effect in the database is what the ledger records, and both are the
\* beginning of one release, whoever migrates at the same time, dies or loses the
\* lock (migrate.py): the lock is not needed for it, the ledger's primary key is.
THEOREM HistoryStaysOneRelease == MigrationsSpec => []HistoryIsOneRelease
<1>1. HistoryInv => HistoryIsOneRelease
  BY DEF HistoryInv
<1> QED  BY <1>1, HistoryStart, HistoryStep, PTL DEF MigrationsSpec

(***************************************************************************)
(* Credentials.                                                            *)
(***************************************************************************)

\* A request that a thread serves, and how far it has come.
Bodies == {"whole", "cut"}
Visits == [at : {"proof", "key", "signature", "nonce", "presence", "serve"}, proof : Proof,
           route : WorkerRoutes, body : Bodies,
           consumed : Instants \cup {Never}, seen : Instants \cup {Never}]

\* Beyond the types: no instant that was recorded lies in the future.
VisitsOK ==
  /\ server \in [Servers -> Visits \cup {Idle}]
  /\ servings \in Seq(Visits)
  /\ presence.seen # Never => presence.seen <= dbTime

\* What has been checked of a visit stays true of it, because a key's end never
\* moves and its revocation only lies ahead of what was done before it.
Consumed(v) ==
  /\ v.route = v.proof.route /\ v.body = v.proof.body
  /\ v.consumed <= dbTime /\ v.proof.issued \in (v.consumed - ProofAge)..(v.consumed + FutureSkew)
  /\ InLifeOf(v.proof.key, v.consumed) /\ v.proof.nonce \in spent

Seen(v) == v.seen <= dbTime /\ InLifeOf(v.proof.key, v.seen)

LetIn(s) == server[s].at \in {"presence", "serve"}

VisitOK(s) ==
  /\ server[s].at \in {"key", "signature", "nonce"} => server[s].body = server[s].proof.body
  /\ server[s].at = "nonce" => server[s].route = server[s].proof.route
  /\ LetIn(s) => Consumed(server[s])
  /\ server[s].at = "serve" => Seen(server[s])

ServedOK == \A i \in 1..Len(servings) : Consumed(servings[i]) /\ Seen(servings[i])

\* A nonce lets one visit in, which is served once or not at all.
OneVisit ==
  /\ \A s, z \in Servers : LetIn(s) /\ LetIn(z) /\ server[s].proof.nonce = server[z].proof.nonce
                             => s = z
  /\ \A s \in Servers, i \in 1..Len(servings) :
       LetIn(s) => server[s].proof.nonce # servings[i].proof.nonce
  /\ \A i, j \in 1..Len(servings) : servings[i].proof.nonce = servings[j].proof.nonce => i = j

PresenceProven ==
  presence.seen # Never => \E p \in sent : p.nonce \in spent /\ InLifeOf(p.key, presence.seen)

ProvenInv ==
  /\ CredentialsTypeOK /\ VisitsOK
  /\ \A s \in Servers : VisitOK(s)
  /\ ServedOK /\ OneVisit /\ PresenceProven

\* What every step does to the database: its clock does not go back, keys end
\* once, and what was sent or spent stays so.
Ageing ==
  /\ dbTime <= dbTime' /\ dbTime' \in Instants
  /\ sent \subseteq sent' /\ spent \subseteq spent'
  /\ \A k \in VerificationKeys :
       /\ verification'[k].expires = verification[k].expires
       /\ \/ verification'[k].revoked = verification[k].revoked
          \/ verification[k].revoked = Never /\ verification'[k].revoked = dbTime

\* Instants and Never are integers in their order.
LEMMA InstantsType ==
  /\ Instants \subseteq Nat /\ Never \in Nat
  /\ \A i \in Instants : i < Never /\ i <= LastInstant
BY ClockType DEF Instants, Never

\* The database's columns stay typed whatever a step does to them.
LEMMA DatabaseStep ==
  ASSUME CredentialsTypeOK, VisitsOK, [CredentialsNext]_credentialVars
  PROVE  /\ Ageing
         /\ dbTime' \in Instants /\ skew' \in Skews /\ enabledStation' \in BOOLEAN
         /\ verification' \in [VerificationKeys ->
              [enabled : BOOLEAN, expires : {KeyLife}, revoked : Instants \cup {Never}]]
         /\ sent' \subseteq Proof
<1> USE DEF CredentialsTypeOK, Ageing
<1>0. ASSUME UNCHANGED deviceVars, spent \subseteq spent'
      PROVE  /\ Ageing /\ dbTime' \in Instants /\ skew' \in Skews /\ enabledStation' \in BOOLEAN
             /\ verification' \in [VerificationKeys ->
                  [enabled : BOOLEAN, expires : {KeyLife}, revoked : Instants \cup {Never}]]
             /\ sent' \subseteq Proof
  BY <1>0, InstantsType DEF deviceVars
<1>1. CASE PassTime
  <2>1. dbTime' \in Instants /\ dbTime <= dbTime'
    BY <1>1, ClockType DEF PassTime, Instants
  <2> QED  BY <1>1, <2>1 DEF PassTime
<1>2. ASSUME NEW k \in VerificationKeys, Revoke(k)
      PROVE  /\ Ageing /\ verification' \in [VerificationKeys ->
                  [enabled : BOOLEAN, expires : {KeyLife}, revoked : Instants \cup {Never}]]
  BY <1>2, InstantsType DEF Revoke
<1>3. ASSUME NEW k \in VerificationKeys, SwitchKey(k)
      PROVE  /\ Ageing /\ verification' \in [VerificationKeys ->
                  [enabled : BOOLEAN, expires : {KeyLife}, revoked : Instants \cup {Never}]]
  <2>1. verification[k] \in [enabled : BOOLEAN, expires : {KeyLife}, revoked : Instants \cup {Never}]
    OBVIOUS
  <2>2. [verification[k] EXCEPT !.enabled = ~ verification[k].enabled]
          \in [enabled : BOOLEAN, expires : {KeyLife}, revoked : Instants \cup {Never}]
    BY <2>1
  <2>3. verification' = [verification EXCEPT ![k] =
                           [verification[k] EXCEPT !.enabled = ~ verification[k].enabled]]
    BY <1>3 DEF SwitchKey
  <2>4. Ageing
    BY <1>3, <2>3, InstantsType DEF SwitchKey
  <2> QED  BY <2>2, <2>3, <2>4
<1>4. CASE SwitchStation
  BY <1>4, InstantsType DEF SwitchStation
<1>5. ASSUME NEW k \in VerificationKeys, NEW sealed \in VerificationKeys, NEW n \in Nonces,
             NEW route \in WorkerRoutes, NEW behind \in Skews, Send(k, n, route, behind, sealed)
      PROVE  Ageing /\ sent' \subseteq Proof
  BY <1>5, InstantsType DEF Send, Proof
<1>6. ASSUME NEW s \in Servers, NEW p \in sent, NEW route \in WorkerRoutes, NEW body \in Bodies,
             Arrive(s, p, route, body)
      PROVE  UNCHANGED deviceVars /\ spent \subseteq spent'
  BY <1>6 DEF Arrive
<1>7. ASSUME NEW s \in Servers,
             CheckProof(s) \/ ResolveKey(s) \/ VerifySignature(s) \/ ConsumeNonce(s)
             \/ RecordPresence(s) \/ Serve(s) \/ Break(s)
      PROVE  UNCHANGED deviceVars /\ spent \subseteq spent'
  BY <1>7 DEF CheckProof, ResolveKey, VerifySignature, ConsumeNonce, RecordPresence, Serve, Break
<1>8. CASE UNCHANGED credentialVars
  BY <1>0, <1>8 DEF credentialVars, deviceVars
<1> QED
  BY <1>0, <1>1, <1>2, <1>3, <1>4, <1>5, <1>6, <1>7, <1>8
  DEF CredentialsNext, Revoke, SwitchKey, Send, SwitchStation, PassTime, Bodies

\* A key that was good at an instant stays good for that instant.
LEMMA LifeStays ==
  ASSUME CredentialsTypeOK, Ageing, NEW k \in VerificationKeys, NEW moment \in Instants,
         moment <= dbTime, InLifeOf(k, moment)
  PROVE  InLifeOf(k, moment)'
<1>1. dbTime \in Nat /\ moment \in Nat
  BY InstantsType DEF CredentialsTypeOK
<1> QED  BY <1>1 DEF InLifeOf, Ageing

\* So what was checked of a visit stays true of it.
LEMMA VisitStays ==
  ASSUME CredentialsTypeOK, Ageing, NEW v \in Visits
  PROVE  (Consumed(v) => Consumed(v)') /\ (Seen(v) => Seen(v)')
<1>1. /\ v.proof \in Proof /\ v.proof.key \in VerificationKeys
      /\ v.consumed \in Instants \cup {Never} /\ v.seen \in Instants \cup {Never}
  BY DEF Visits, Proof
<1>2. /\ dbTime \in Instants /\ dbTime' \in Instants /\ dbTime <= dbTime'
      /\ dbTime \in Nat /\ dbTime' \in Nat /\ dbTime < Never
  BY InstantsType DEF CredentialsTypeOK, Ageing
<1>3. ASSUME Consumed(v) PROVE Consumed(v)'
  <2>1. v.consumed \in Instants /\ v.consumed \in Nat /\ v.consumed <= dbTime
    <3>1. v.consumed <= dbTime
      BY <1>3 DEF Consumed
    <3>2. v.consumed # Never
      BY <1>2, <3>1, InstantsType
    <3> QED  BY <1>1, <3>1, <3>2, InstantsType
  <2>2. InLifeOf(v.proof.key, v.consumed)'
    BY <1>1, <1>3, <2>1, LifeStays DEF Consumed
  <2>3. v.consumed <= dbTime'
    BY <1>2, <2>1
  <2> QED  BY <1>3, <2>2, <2>3 DEF Consumed, Ageing
<1>4. ASSUME Seen(v) PROVE Seen(v)'
  <2>1. v.seen \in Instants /\ v.seen \in Nat /\ v.seen <= dbTime
    <3>1. v.seen <= dbTime
      BY <1>4 DEF Seen
    <3>2. v.seen # Never
      BY <1>2, <3>1, InstantsType
    <3> QED  BY <1>1, <3>1, <3>2, InstantsType
  <2>2. InLifeOf(v.proof.key, v.seen)'
    BY <1>1, <1>4, <2>1, LifeStays DEF Seen
  <2>3. v.seen <= dbTime'
    BY <1>2, <2>1
  <2> QED  BY <2>2, <2>3 DEF Seen
<1> QED  BY <1>3, <1>4

\* A step that lets nobody in keeps what is proven of those who were.
LEMMA KeepVisits ==
  ASSUME ProvenInv, Ageing, NEW T \in SUBSET Servers,
         \A z \in Servers \ T : server'[z] = server[z],
         \A z \in T : /\ VisitOK(z)'
                      /\ LetIn(z)' => LetIn(z) /\ server'[z].proof = server[z].proof,
         UNCHANGED servings
  PROVE  /\ \A z \in Servers : VisitOK(z)'
         /\ ServedOK'
         /\ OneVisit'
<1>1. ASSUME NEW z \in Servers \ T PROVE VisitOK(z)'
  <2>1. PICK v \in Visits \cup {Idle} : v = server[z] /\ v = server'[z]
    BY DEF ProvenInv, VisitsOK
  <2>2. CASE v = Idle
    BY <2>1, <2>2 DEF VisitOK, LetIn, Idle
  <2>3. CASE v \in Visits
    <3>1. (Consumed(v) => Consumed(v)') /\ (Seen(v) => Seen(v)')
      BY <2>3, VisitStays DEF ProvenInv
    <3>2. VisitOK(z)
      BY DEF ProvenInv
    <3> QED  BY <2>1, <3>1, <3>2 DEF VisitOK, LetIn
  <2> QED  BY <2>1, <2>2, <2>3
<1>2. ServedOK'
  <2>1. ASSUME NEW i \in 1..Len(servings)
        PROVE  Consumed(servings[i])' /\ Seen(servings[i])'
    <3>1. servings[i] \in Visits
      BY DEF ProvenInv, VisitsOK
    <3>2. PICK v \in Visits : v = servings[i] /\ v = servings'[i]
      BY <3>1
    <3>3. Consumed(v) /\ Seen(v)
      BY <3>2 DEF ProvenInv, ServedOK
    <3>4. Consumed(v)' /\ Seen(v)'
      BY <3>3, VisitStays DEF ProvenInv
    <3> QED  BY <3>2, <3>4
  <2> QED  BY <2>1 DEF ServedOK
<1>3. \A z \in Servers : LetIn(z)' => LetIn(z) /\ server'[z].proof = server[z].proof
  BY DEF LetIn
<1>4. OneVisit'
  BY <1>3 DEF ProvenInv, OneVisit
<1> QED  BY <1>1, <1>2, <1>4

\* The workstation stays shown online for a request that came so far.
LEMMA PresenceStays ==
  ASSUME ProvenInv, Ageing, UNCHANGED presence
  PROVE  /\ PresenceProven' /\ presence'.seen \in Instants \cup {Never}
         /\ presence'.seen # Never => presence'.seen <= dbTime'
<1>1. /\ presence.seen \in Instants \cup {Never}
      /\ presence.seen # Never => presence.seen <= dbTime
      /\ dbTime \in Nat /\ dbTime' \in Nat /\ dbTime <= dbTime'
  BY InstantsType DEF ProvenInv, VisitsOK, CredentialsTypeOK, Ageing
<1>2. ASSUME presence.seen # Never
      PROVE  \E p \in sent' : p.nonce \in spent' /\ InLifeOf(p.key, presence.seen)'
  <2>1. PICK p \in sent : p.nonce \in spent /\ InLifeOf(p.key, presence.seen)
    BY <1>2 DEF ProvenInv, PresenceProven
  <2>2. p \in sent' /\ p.nonce \in spent' /\ p.key \in VerificationKeys
    BY <2>1 DEF Ageing, ProvenInv, CredentialsTypeOK, Proof
  <2>3. PICK moment \in Instants : moment = presence.seen /\ moment <= dbTime
    BY <1>1, <1>2
  <2>4. InLifeOf(p.key, moment)'
    BY <2>1, <2>2, <2>3, LifeStays DEF ProvenInv
  <2> QED  BY <2>2, <2>3, <2>4
<1>3. presence'.seen <= dbTime' \/ presence'.seen = Never
  <2>1. CASE presence.seen = Never
    BY <2>1
  <2>2. CASE presence.seen # Never
    <3>1. presence.seen \in Nat /\ presence.seen <= dbTime
      BY <1>1, <2>2, InstantsType
    <3> QED  BY <1>1, <3>1
  <2> QED  BY <2>1, <2>2
<1> QED  BY <1>1, <1>2, <1>3 DEF PresenceProven

\* What a thread holds stays typed, and it holds a request that was sent.
Typed ==
  /\ server \in [Servers -> Visits \cup {Idle}] /\ servings \in Seq(Visits)
  /\ \A s \in Servers : server[s] = Idle \/ server[s].proof \in sent
  /\ spent \subseteq {p.nonce : p \in sent}

\* Refusing a request, or breaking off, lets nobody in.
LEMMA RefuseStep ==
  ASSUME ProvenInv, Ageing, NEW s \in Servers, Refuse(s), UNCHANGED <<sent, spent>>
  PROVE  /\ Typed' /\ OneVisit'
         /\ \A z \in Servers : VisitOK(z)'
         /\ ServedOK'
<1>1. server' = [server EXCEPT ![s] = Idle] /\ UNCHANGED servings
  BY DEF Refuse
<1>2. server \in [Servers -> Visits \cup {Idle}]
  BY DEF ProvenInv, VisitsOK
<1>3. server'[s] = Idle /\ \A z \in Servers \ {s} : server'[z] = server[z]
  BY <1>1, <1>2
<1>4. VisitOK(s)' /\ ~ LetIn(s)'
  BY <1>3 DEF VisitOK, LetIn, Idle
<1>5. Typed'
  BY <1>1, <1>2 DEF Typed, ProvenInv, VisitsOK, CredentialsTypeOK
<1> QED  BY <1>1, <1>3, <1>4, <1>5, KeepVisits

\* A thread goes on with a request that was sent: what it holds stays typed.
LEMMA GoOnType ==
  ASSUME ProvenInv, NEW s \in Servers, NEW w \in Visits, w.proof \in sent,
         server' = [server EXCEPT ![s] = w],
         UNCHANGED <<sent, servings>>, spent' \subseteq {p.nonce : p \in sent}
  PROVE  Typed' /\ server'[s] = w /\ \A z \in Servers \ {s} : server'[z] = server[z]
BY DEF Typed, ProvenInv, VisitsOK, CredentialsTypeOK

\* A busy thread holds a visit, of a request that was sent.
LEMMA BusyThread ==
  ASSUME ProvenInv, NEW s \in Servers, server[s].at # "idle"
  PROVE  \E v \in Visits : v = server[s] /\ v.proof \in sent
<1>1. server[s] \in Visits
  BY DEF ProvenInv, VisitsOK, Idle
<1>2. server[s] # Idle
  BY DEF Idle
<1> QED  BY <1>1, <1>2 DEF ProvenInv, CredentialsTypeOK

\* A check that is passed takes a request one step further, short of its nonce.
LEMMA CheckStep ==
  ASSUME ProvenInv, Ageing, NEW s \in Servers, NEW stage \in {"key", "signature", "nonce"},
         server[s].at \in {"proof", "key", "signature"}, GoOn(s, stage),
         server[s].body = server[s].proof.body,
         stage = "nonce" => server[s].route = server[s].proof.route,
         UNCHANGED <<sent, spent>>
  PROVE  Typed' /\ OneVisit' /\ (\A z \in Servers : VisitOK(z)') /\ ServedOK'
<1>1. PICK v \in Visits : v = server[s] /\ v.proof \in sent
  BY BusyThread
<1>2. PICK w \in Visits : w = [v EXCEPT !.at = stage]
  BY DEF Visits
<1>3. w.proof = v.proof /\ w.route = v.route /\ w.body = v.body /\ w.at = stage
  BY <1>2 DEF Visits
<1>4. server' = [server EXCEPT ![s] = w] /\ UNCHANGED servings
  BY <1>1, <1>2 DEF GoOn
<1>5. spent' \subseteq {p.nonce : p \in sent}
  BY DEF ProvenInv, CredentialsTypeOK
<1>6. Typed' /\ server'[s] = w /\ \A z \in Servers \ {s} : server'[z] = server[z]
  BY <1>1, <1>3, <1>4, <1>5, GoOnType
<1>7. VisitOK(s)' /\ ~ LetIn(s)'
  BY <1>1, <1>3, <1>6 DEF VisitOK, LetIn
<1> QED  BY <1>4, <1>6, <1>7, KeepVisits

\* authenticate and the two repository calls around it.
LEMMA AuthenticateStep ==
  ASSUME ProvenInv, Ageing, NEW s \in Servers,
         CheckProof(s) \/ ResolveKey(s) \/ VerifySignature(s)
  PROVE  Typed' /\ OneVisit' /\ (\A z \in Servers : VisitOK(z)') /\ ServedOK'
<1>0. VisitOK(s)
  BY DEF ProvenInv
<1>1. CASE CheckProof(s)
  <2>1. UNCHANGED <<sent, spent>> /\ server[s].at = "proof"
    BY <1>1 DEF CheckProof, deviceVars, Reached
  <2>2. CASE server[s].proof.body = server[s].body
    <3>1. Refuse(s) \/ GoOn(s, "key")
      BY <1>1 DEF CheckProof
    <3> QED  BY <2>1, <2>2, <3>1, CheckStep, RefuseStep
  <2>3. CASE server[s].proof.body # server[s].body
    <3>1. Refuse(s)
      BY <1>1, <2>3 DEF CheckProof
    <3> QED  BY <2>1, <3>1, RefuseStep
  <2> QED  BY <2>2, <2>3
<1>2. CASE ResolveKey(s)
  <2>1. UNCHANGED <<sent, spent>> /\ server[s].at = "key"
    BY <1>2 DEF ResolveKey, deviceVars, Reached
  <2>2. Refuse(s) \/ GoOn(s, "signature")
    BY <1>2 DEF ResolveKey
  <2> QED  BY <1>0, <2>1, <2>2, CheckStep, RefuseStep DEF VisitOK
<1>3. CASE VerifySignature(s)
  <2>1. UNCHANGED <<sent, spent>> /\ server[s].at = "signature"
    BY <1>3 DEF VerifySignature, deviceVars, Reached
  <2>2. CASE server[s].proof.route = server[s].route
    <3>1. GoOn(s, "nonce")
      BY <1>3, <2>2 DEF VerifySignature
    <3> QED  BY <1>0, <2>1, <2>2, <3>1, CheckStep DEF VisitOK
  <2>3. CASE server[s].proof.route # server[s].route
    <3>1. Refuse(s)
      BY <1>3, <2>3 DEF VerifySignature
    <3> QED  BY <2>1, <3>1, RefuseStep
  <2> QED  BY <2>2, <2>3
<1> QED  BY <1>1, <1>2, <1>3

\* A request that arrives has nothing proven yet.
LEMMA ArriveStep ==
  ASSUME ProvenInv, Ageing, NEW s \in Servers, NEW p \in sent, NEW route \in WorkerRoutes,
         NEW body \in Bodies, Arrive(s, p, route, body)
  PROVE  Typed' /\ OneVisit' /\ (\A z \in Servers : VisitOK(z)') /\ ServedOK'
<1>1. PICK w : w = [at |-> "proof", proof |-> p, route |-> route, body |-> body,
                    consumed |-> Never, seen |-> Never]
  OBVIOUS
<1>2. w \in Visits /\ w.proof = p /\ w.at = "proof"
  BY <1>1 DEF Visits, ProvenInv, CredentialsTypeOK
<1>3. server' = [server EXCEPT ![s] = w] /\ UNCHANGED <<sent, servings, spent>>
  BY <1>1 DEF Arrive, deviceVars
<1>4. spent' \subseteq {q.nonce : q \in sent}
  BY <1>3 DEF ProvenInv, CredentialsTypeOK
<1>5. Typed' /\ server'[s] = w /\ \A z \in Servers \ {s} : server'[z] = server[z]
  BY <1>2, <1>3, <1>4, GoOnType
<1>6. VisitOK(s)' /\ ~ LetIn(s)'
  BY <1>2, <1>5 DEF VisitOK, LetIn
<1> QED  BY <1>3, <1>5, <1>6, KeepVisits

\* A key that is active now is good for this instant.
LEMMA ActiveNow ==
  ASSUME CredentialsTypeOK, NEW k \in VerificationKeys, KeyActive(k)
  PROVE  InLifeOf(k, dbTime)
<1>1. dbTime \in Instants /\ dbTime < Never
  BY InstantsType DEF CredentialsTypeOK
<1> QED  BY <1>1, InstantsType DEF InLifeOf, KeyActive

\* consume_worker_request_nonce: the nonce was free, so nobody who was let in had it.
LEMMA ConsumeStep ==
  ASSUME ProvenInv, Ageing, NEW s \in Servers, ConsumeNonce(s)
  PROVE  Typed' /\ OneVisit' /\ (\A z \in Servers : VisitOK(z)') /\ ServedOK'
<1>1. PICK v \in Visits : v = server[s] /\ v.proof \in sent /\ v.at = "nonce"
  BY BusyThread DEF ConsumeNonce, Reached
<1>2. CASE ~ (Consumable(v.proof) /\ v.proof.nonce \notin spent)
  BY <1>1, <1>2, RefuseStep DEF ConsumeNonce, deviceVars
<1>3. CASE Consumable(v.proof) /\ v.proof.nonce \notin spent
  <2>1. dbTime \in Instants /\ dbTime \in Nat /\ UNCHANGED <<dbTime, verification>>
    BY InstantsType DEF ProvenInv, CredentialsTypeOK, ConsumeNonce, deviceVars
  <2>2. PICK w \in Visits : w = [v EXCEPT !.at = "presence", !.consumed = dbTime]
    BY <2>1 DEF Visits
  <2>3. /\ w.proof = v.proof /\ w.route = v.route /\ w.body = v.body
        /\ w.at = "presence" /\ w.consumed = dbTime
    BY <2>2 DEF Visits
  <2>4. /\ server' = [server EXCEPT ![s] = w] /\ UNCHANGED <<sent, servings>>
        /\ spent' = spent \cup {v.proof.nonce}
    BY <1>1, <1>3, <2>2 DEF ConsumeNonce, deviceVars
  <2>5. spent' \subseteq {p.nonce : p \in sent}
    BY <1>1, <2>4 DEF ProvenInv, CredentialsTypeOK
  <2>6. Typed' /\ server'[s] = w /\ \A z \in Servers \ {s} : server'[z] = server[z]
    BY <1>1, <2>3, <2>4, <2>5, GoOnType
  <2>7. v.proof.key \in VerificationKeys /\ v.proof.issued \in Instants
    BY DEF Visits, Proof
  <2>8. Consumed(w)'
    <3>1. InLifeOf(v.proof.key, dbTime)
      BY <1>3, <2>7, ActiveNow DEF Consumable, ProvenInv
    <3>2. v.proof.issued \in (dbTime - ProofAge)..(dbTime + FutureSkew)
      <4>1. v.proof.issued \in Nat /\ ProofAge \in Nat /\ FutureSkew \in Nat
        BY <2>7, ClockType, InstantsType
      <4>2. v.proof.issued >= dbTime - ProofAge /\ v.proof.issued <= dbTime + FutureSkew
        BY <1>3 DEF Consumable
      <4> QED  BY <2>1, <4>1, <4>2
    <3>3. v.route = v.proof.route /\ v.body = v.proof.body
      BY <1>1 DEF ProvenInv, VisitOK
    <3> QED  BY <2>1, <2>3, <2>4, <3>1, <3>2, <3>3 DEF Consumed, InLifeOf
  <2>9. VisitOK(s)'
    BY <2>3, <2>6, <2>8 DEF VisitOK, LetIn
  <2>10. ~ LetIn(s)
    BY <1>1 DEF LetIn
  <2>11. \A z \in Servers \ {s} : VisitOK(z)'
    <3> SUFFICES ASSUME NEW z \in Servers \ {s} PROVE VisitOK(z)'
      OBVIOUS
    <3>1. PICK u \in Visits \cup {Idle} : u = server[z] /\ u = server'[z]
      BY <2>6 DEF ProvenInv, VisitsOK
    <3>2. CASE u = Idle
      BY <3>1, <3>2 DEF VisitOK, LetIn, Idle
    <3>3. CASE u \in Visits
      BY <3>1, <3>3, VisitStays DEF ProvenInv, VisitOK, LetIn
    <3> QED  BY <3>1, <3>2, <3>3
  <2>12. ServedOK' /\ \A i \in 1..Len(servings) : servings[i].proof.nonce \in spent
    <3>1. ASSUME NEW i \in 1..Len(servings)
          PROVE  Consumed(servings[i])' /\ Seen(servings[i])' /\ servings[i].proof.nonce \in spent
      <4>1. PICK u \in Visits : u = servings[i]
        BY DEF ProvenInv, VisitsOK
      <4>2. Consumed(u) /\ Seen(u)
        BY <4>1 DEF ProvenInv, ServedOK
      <4>3. Consumed(u)' /\ Seen(u)'
        BY <4>2, VisitStays DEF ProvenInv
      <4>4. servings'[i] = u
        BY <2>4, <4>1
      <4> QED  BY <4>1, <4>2, <4>3, <4>4 DEF Consumed
    <3> QED  BY <2>4, <3>1 DEF ServedOK
  <2>13. \A z \in Servers \ {s} : LetIn(z) => server[z].proof.nonce \in spent
    BY DEF ProvenInv, VisitOK, Consumed
  <2>14. OneVisit'
    <3>1. \A z \in Servers \ {s} : LetIn(z)' =>
            LetIn(z) /\ server'[z].proof = server[z].proof
            /\ server'[z].proof.nonce # server'[s].proof.nonce
      BY <1>3, <2>3, <2>6, <2>13 DEF LetIn
    <3>2. \A i \in 1..Len(servings') : servings'[i] = servings[i]
            /\ servings'[i].proof.nonce # server'[s].proof.nonce
      BY <1>3, <2>3, <2>4, <2>6, <2>12
    <3> QED  BY <2>4, <3>1, <3>2 DEF ProvenInv, OneVisit
  <2> QED  BY <2>6, <2>9, <2>11, <2>12, <2>14
<1> QED  BY <1>2, <1>3

\* record_worker_presence: the worker is seen while its key is active.
LEMMA PresenceStep ==
  ASSUME ProvenInv, Ageing, NEW s \in Servers, RecordPresence(s)
  PROVE  /\ Typed' /\ OneVisit' /\ (\A z \in Servers : VisitOK(z)') /\ ServedOK'
         /\ PresenceProven' /\ presence'.seen \in Instants \cup {Never}
         /\ presence'.seen # Never => presence'.seen <= dbTime'
<1>1. PICK v \in Visits : v = server[s] /\ v.proof \in sent /\ v.at = "presence"
  BY BusyThread DEF RecordPresence, Reached
<1>2. CASE ~ KeyActive(v.proof.key)
  BY <1>1, <1>2, RefuseStep, PresenceStays DEF RecordPresence, deviceVars
<1>3. CASE KeyActive(v.proof.key)
  <2>1. dbTime \in Instants /\ dbTime \in Nat /\ UNCHANGED <<dbTime, verification, sent, spent>>
    BY <1>1, <1>3, InstantsType DEF ProvenInv, CredentialsTypeOK, RecordPresence, deviceVars
  <2>2. PICK w \in Visits : w = [v EXCEPT !.at = "serve", !.seen = dbTime]
    BY <2>1 DEF Visits
  <2>3. /\ w.proof = v.proof /\ w.route = v.route /\ w.body = v.body
        /\ w.at = "serve" /\ w.seen = dbTime /\ w.consumed = v.consumed
    BY <2>2 DEF Visits
  <2>4. /\ server' = [server EXCEPT ![s] = w] /\ UNCHANGED servings
        /\ presence'.seen = dbTime
    <3>1. presence' = [seen |-> dbTime, until |-> dbTime + PresenceSeconds]
      BY <1>1, <1>3 DEF RecordPresence
    <3>2. presence'.seen = dbTime
      BY <3>1
    <3>3. /\ server' = [server EXCEPT ![s].at = "serve", ![s].seen = dbTime]
          /\ UNCHANGED servings
      BY <1>1, <1>3 DEF RecordPresence
    <3> QED  BY <1>1, <2>2, <3>2, <3>3
  <2>5. spent' \subseteq {p.nonce : p \in sent}
    BY <2>1 DEF ProvenInv, CredentialsTypeOK
  <2>6. Typed' /\ server'[s] = w /\ \A z \in Servers \ {s} : server'[z] = server[z]
    BY <1>1, <2>1, <2>3, <2>4, <2>5, GoOnType
  <2>7. v.proof.key \in VerificationKeys
    BY DEF Visits, Proof
  <2>8. InLifeOf(v.proof.key, dbTime) /\ Consumed(v)
    BY <1>1, <1>3, <2>7, ActiveNow DEF ProvenInv, VisitOK, LetIn
  <2>9. Consumed(w)' /\ Seen(w)'
    BY <2>1, <2>3, <2>8 DEF Consumed, Seen, InLifeOf
  <2>10. VisitOK(s)'
    BY <2>3, <2>6, <2>9 DEF VisitOK, LetIn
  <2>11. LetIn(s) /\ server'[s].proof = server[s].proof
    BY <1>1, <2>3, <2>6 DEF LetIn
  <2>12. OneVisit' /\ (\A z \in Servers : VisitOK(z)') /\ ServedOK'
    BY <2>4, <2>6, <2>10, <2>11, KeepVisits
  <2>13. PresenceProven'
    <3>1. v.proof.nonce \in spent'
      BY <2>1, <2>8 DEF Consumed
    <3> QED  BY <1>1, <2>1, <2>4, <2>8, <3>1 DEF PresenceProven, InLifeOf
  <2> QED  BY <2>1, <2>4, <2>6, <2>12, <2>13
<1> QED  BY <1>2, <1>3

\* A request is carried out: its thread is free, so its nonce serves nobody else.
LEMMA ServeStep ==
  ASSUME ProvenInv, Ageing, NEW s \in Servers, Serve(s)
  PROVE  Typed' /\ OneVisit' /\ (\A z \in Servers : VisitOK(z)') /\ ServedOK'
<1>1. PICK v \in Visits : v = server[s] /\ v.proof \in sent /\ v.at = "serve"
  BY BusyThread DEF Serve, Reached
<1>2. server' = [server EXCEPT ![s] = Idle] /\ UNCHANGED <<sent, spent>>
  BY DEF Serve, deviceVars
<1>3. CASE ~ SealHolds(v.proof)
  BY <1>1, <1>2, <1>3, RefuseStep DEF Serve, Refuse
<1>4. CASE SealHolds(v.proof)
  <2>1. servings' = Append(servings, v) /\ servings \in Seq(Visits)
    BY <1>1, <1>4 DEF Serve, ProvenInv, VisitsOK
  <2>2. /\ servings' \in Seq(Visits) /\ Len(servings) \in Nat /\ Len(servings') = Len(servings) + 1
        /\ servings'[Len(servings) + 1] = v
        /\ \A i \in 1..Len(servings) : servings'[i] = servings[i]
    BY <2>1
  <2>3. server'[s] = Idle /\ \A z \in Servers \ {s} : server'[z] = server[z]
    BY <1>2 DEF ProvenInv, VisitsOK
  <2>4. Typed'
    BY <1>2, <2>2 DEF Typed, ProvenInv, VisitsOK, CredentialsTypeOK
  <2>5. LetIn(s) /\ ~ LetIn(s)' /\ VisitOK(s)' /\ Consumed(v) /\ Seen(v)
    BY <1>1, <2>3 DEF LetIn, VisitOK, Idle, ProvenInv
  <2>6. \A z \in Servers \ {s} : VisitOK(z)'
    <3> SUFFICES ASSUME NEW z \in Servers \ {s} PROVE VisitOK(z)'
      OBVIOUS
    <3>1. PICK u \in Visits \cup {Idle} : u = server[z] /\ u = server'[z]
      BY <2>3 DEF ProvenInv, VisitsOK
    <3>2. CASE u = Idle
      BY <3>1, <3>2 DEF VisitOK, LetIn, Idle
    <3>3. CASE u \in Visits
      BY <3>1, <3>3, VisitStays DEF ProvenInv, VisitOK, LetIn
    <3> QED  BY <3>1, <3>2, <3>3
  <2>7. ServedOK'
    <3>1. ASSUME NEW i \in 1..(Len(servings) + 1)
          PROVE  \E u \in Visits : u = servings'[i] /\ Consumed(u)' /\ Seen(u)'
      <4>1. CASE i = Len(servings) + 1
        BY <2>2, <2>5, <4>1, VisitStays DEF ProvenInv
      <4>2. CASE i # Len(servings) + 1
        <5>1. i \in 1..Len(servings)
          BY <2>2, <4>2
        <5>2. PICK u \in Visits : u = servings[i] /\ u = servings'[i]
          BY <2>1, <2>2, <5>1
        <5>3. Consumed(u) /\ Seen(u)
          BY <5>1, <5>2 DEF ProvenInv, ServedOK
        <5> QED  BY <5>2, <5>3, VisitStays DEF ProvenInv
      <4> QED  BY <4>1, <4>2
    <3>2. ASSUME NEW i \in 1..Len(servings') PROVE Consumed(servings[i])' /\ Seen(servings[i])'
      BY <2>2, <3>1, <3>2
    <3> QED  BY <3>2 DEF ServedOK
  <2>8. OneVisit'
    <3>1. \A z \in Servers : LetIn(z)' =>
            z # s /\ LetIn(z) /\ server'[z].proof = server[z].proof
            /\ server'[z].proof.nonce # v.proof.nonce
      BY <1>1, <2>3, <2>5 DEF LetIn, ProvenInv, OneVisit
    <3>2. \A i \in 1..Len(servings) : servings[i].proof.nonce # v.proof.nonce
      BY <1>1, <2>5 DEF ProvenInv, OneVisit
    <3>3. \A i \in 1..Len(servings') : i \in 1..Len(servings) \/ (servings'[i] = v /\ i = Len(servings) + 1)
      <4>1. ASSUME NEW i \in 1..Len(servings'), ~ (i \in 1..Len(servings))
            PROVE  servings'[i] = v /\ i = Len(servings) + 1
        <5>1. i \in 1..(Len(servings) + 1)
          BY <2>2
        <5>2. i = Len(servings) + 1
          BY <2>2, <4>1, <5>1
        <5> QED  BY <2>2, <5>2
      <4> QED  BY <4>1, Zenon
    <3>4. \A z \in Servers, i \in 1..Len(servings') :
            LetIn(z)' => server'[z].proof.nonce # servings'[i].proof.nonce
      BY <2>2, <3>1, <3>3 DEF ProvenInv, OneVisit
    <3>5. \A i, j \in 1..Len(servings') :
            servings'[i].proof.nonce = servings'[j].proof.nonce => i = j
      BY <2>2, <3>2, <3>3 DEF ProvenInv, OneVisit
    <3>6. \A z, y \in Servers : LetIn(z)' /\ LetIn(y)' /\ server'[z].proof.nonce = server'[y].proof.nonce
                                  => z = y
      BY <3>1 DEF ProvenInv, OneVisit
    <3> QED  BY <3>4, <3>5, <3>6 DEF OneVisit
  <2> QED  BY <2>4, <2>5, <2>6, <2>7, <2>8
<1> QED  BY <1>3, <1>4

\* Every step of the worker, the operators and the threads keeps the invariant.
LEMMA ProvenStep == ProvenInv /\ [CredentialsNext]_credentialVars => ProvenInv'
<1> SUFFICES ASSUME ProvenInv, [CredentialsNext]_credentialVars PROVE ProvenInv'
  OBVIOUS
<1>1. /\ Ageing
      /\ dbTime' \in Instants /\ skew' \in Skews /\ enabledStation' \in BOOLEAN
      /\ verification' \in [VerificationKeys ->
           [enabled : BOOLEAN, expires : {KeyLife}, revoked : Instants \cup {Never}]]
      /\ sent' \subseteq Proof
  BY DatabaseStep DEF ProvenInv
<1>2. SUFFICES /\ Typed' /\ OneVisit' /\ (\A z \in Servers : VisitOK(z)') /\ ServedOK'
               /\ PresenceProven' /\ presence'.seen \in Instants \cup {Never}
               /\ presence'.seen # Never => presence'.seen <= dbTime'
  BY <1>1 DEF ProvenInv, CredentialsTypeOK, VisitsOK, Typed
<1>3. ASSUME UNCHANGED <<spent, presence, server, servings>>
      PROVE  /\ Typed' /\ OneVisit' /\ (\A z \in Servers : VisitOK(z)') /\ ServedOK'
  <2>1. Typed'
    BY <1>1, <1>3 DEF Typed, ProvenInv, CredentialsTypeOK, VisitsOK, Ageing
  <2>2. PICK T \in SUBSET Servers : T = {}
    OBVIOUS
  <2>3. \A z \in Servers \ T : server'[z] = server[z]
    BY <1>3
  <2> QED  BY <1>1, <1>3, <2>1, <2>2, <2>3, KeepVisits
<1>4. CASE PassTime \/ SwitchStation \/ UNCHANGED credentialVars
  <2>1. UNCHANGED <<spent, presence, server, servings>>
    BY <1>4 DEF PassTime, SwitchStation, credentialVars
  <2> QED  BY <1>1, <1>3, <2>1, PresenceStays
<1>5. ASSUME NEW k \in VerificationKeys, Revoke(k) \/ SwitchKey(k)
      PROVE  UNCHANGED <<spent, presence, server, servings>>
  BY <1>5 DEF Revoke, SwitchKey
<1>6. ASSUME NEW k \in VerificationKeys, NEW sealed \in VerificationKeys, NEW n \in Nonces,
             NEW route \in WorkerRoutes, NEW behind \in Skews, Send(k, n, route, behind, sealed)
      PROVE  UNCHANGED <<spent, presence, server, servings>>
  BY <1>6 DEF Send
<1>7. ASSUME NEW s \in Servers, NEW p \in sent, NEW route \in WorkerRoutes, NEW body \in Bodies,
             Arrive(s, p, route, body)
      PROVE  /\ Typed' /\ OneVisit' /\ (\A z \in Servers : VisitOK(z)') /\ ServedOK'
             /\ UNCHANGED presence
  BY <1>1, <1>7, ArriveStep DEF Arrive
<1>8. ASSUME NEW s \in Servers,
             CheckProof(s) \/ ResolveKey(s) \/ VerifySignature(s) \/ ConsumeNonce(s)
             \/ Serve(s) \/ Break(s)
      PROVE  /\ Typed' /\ OneVisit' /\ (\A z \in Servers : VisitOK(z)') /\ ServedOK'
             /\ UNCHANGED presence
  <2>1. UNCHANGED presence
    BY <1>8 DEF CheckProof, ResolveKey, VerifySignature, ConsumeNonce, Serve, Break
  <2>2. Break(s) => Refuse(s) /\ UNCHANGED <<sent, spent>>
    BY DEF Break, deviceVars
  <2> QED  BY <1>1, <1>8, <2>1, <2>2, AuthenticateStep, ConsumeStep, ServeStep, RefuseStep
<1>9. ASSUME NEW s \in Servers, RecordPresence(s)
      PROVE  /\ Typed' /\ OneVisit' /\ (\A z \in Servers : VisitOK(z)') /\ ServedOK'
             /\ PresenceProven' /\ presence'.seen \in Instants \cup {Never}
             /\ presence'.seen # Never => presence'.seen <= dbTime'
  BY <1>1, <1>9, PresenceStep
<1> QED
  BY <1>1, <1>3, <1>4, <1>5, <1>6, <1>7, <1>8, <1>9, PresenceStays DEF CredentialsNext, Bodies

\* Nothing is proven before the first request.
LEMMA ProvenStart == CredentialsInit => ProvenInv
<1> SUFFICES ASSUME CredentialsInit PROVE ProvenInv
  OBVIOUS
<1>1. 0 \in Instants
  BY ClockType DEF Instants
<1>2. CredentialsTypeOK
  BY <1>1 DEF CredentialsInit, CredentialsTypeOK
<1>3. VisitsOK
  BY DEF CredentialsInit, VisitsOK
<1>4. \A s \in Servers : VisitOK(s) /\ ~ LetIn(s)
  BY DEF CredentialsInit, VisitOK, LetIn, Idle
<1>5. ServedOK /\ OneVisit /\ PresenceProven
  BY <1>4 DEF CredentialsInit, ServedOK, OneVisit, PresenceProven
<1> QED  BY <1>2, <1>3, <1>4, <1>5 DEF ProvenInv

\* Whatever arrives, again, elsewhere, late or cut, a request is let in at most
\* once, as it was signed, with a fresh proof and a key that was good then
\* (WorkerRequestAuthenticator and the nonce's transaction).
THEOREM ServedStaysProven == CredentialsSpec => []ServedIsProven
<1>1. ProvenInv => ServedIsProven
  <2> SUFFICES ASSUME ProvenInv PROVE ServedIsProven
    OBVIOUS
  <2>1. DOMAIN servings = 1..Len(servings)
    BY DEF ProvenInv, VisitsOK
  <2> QED
    BY <2>1 DEF ProvenInv, ServedIsProven, ServedOK, OneVisit, PresenceProven, Consumed, Seen
<1> QED  BY <1>1, ProvenStart, ProvenStep, PTL DEF CredentialsSpec

(***************************************************************************)
(* The in-memory repository.                                               *)
(***************************************************************************)

\* A stored record: an operation that has ended, and only one, says what it ended with,
\* and one that has not begun has no start.
Records ==
  [state : {"CREATED", "LEASED", "RUNNING"} \cup Endings, station : Stations,
   command : {CommandOf[k] : k \in IdempotencyKeys}, created : Nat, expires : Nat,
   lease : Nat, started : Nat, completed : Nat, outcome : Reasons \cup {Nobody}]
Sound(r) ==
  /\ r \in Records /\ Shaped(r) /\ r.created <= r.expires
  /\ r.outcome = Nobody <=> r.state \notin Endings
  /\ r.state \in {"CREATED", "LEASED"} => r.started = Unset
RecordOK(r) == r = NoRecord \/ Sound(r)

Occupies(o, w) == table[o].state \in {"LEASED", "RUNNING"} /\ table[o].station = w

\* A workstation is occupied by one operation at a time.
OneOccupant ==
  \A w \in Stations, o, p \in Operations : Occupies(o, w) /\ Occupies(p, w) => o = p

CatalogOK ==
  /\ projects \in [Projects -> Stations \cup {Nobody}]
  /\ documents \in [Documents -> Projects \cup {Nobody}]
  /\ \A d \in Documents : documents[d] # Nobody => projects[documents[d]] # Nobody

MemoryInv ==
  /\ instant \in Clock /\ caller \in [Callers -> Clock \cup {Unset}]
  /\ index \in [IdempotencyKeys -> Operations \cup {Nobody}]
  /\ DOMAIN table = Operations /\ \A o \in Operations : RecordOK(table[o])
  /\ OneOccupant
  /\ CatalogOK

-----------------------------------------------------------------------------
\* What every call but a lease, a start and an insertion does to a record: it leaves it
\* alone, or ends it where it is.
MovesOn(r, s) ==
  \/ s = r
  \/ /\ Sound(r) /\ Sound(s) /\ s.station = r.station
     /\ r.state \notin Endings /\ s.state \in Endings

\* A record that ends now is one that may be stored, once its shape is checked.
LEMMA EndedMoves ==
  ASSUME NEW r, Sound(r), r.state \notin Endings, NEW at \in Clock, NEW final \in Endings,
         NEW code \in Reasons, Shaped(Ended(r, final, at, code))
  PROVE  MovesOn(r, Ended(r, final, at, code))
<1>1. PICK e : e = Ended(r, final, at, code)
  OBVIOUS
<1>2. r \in Records /\ at \in Nat /\ Unset \in Nat /\ Nobody \notin Reasons
  BY MemoryAssumption DEF Sound, Clock, Unset
<1>3. e = [r EXCEPT !.state = final, !.lease = Unset, !.completed = at, !.outcome = code]
  BY <1>1 DEF Ended
<1>4. /\ e \in Records /\ e.station = r.station /\ e.state = final /\ e.outcome = code
      /\ e.created = r.created /\ e.expires = r.expires
  BY <1>2, <1>3 DEF Records
<1>5. final \notin {"CREATED", "LEASED"} /\ code # Nobody
  BY <1>2 DEF Endings
<1>6. Shaped(e) /\ r.created <= r.expires
  BY <1>1 DEF Sound
<1>7. Sound(e)
  BY <1>4, <1>5, <1>6 DEF Sound
<1> QED
  BY <1>1, <1>4, <1>7 DEF MovesOn

\* A call that finds a record overdue ends it, and no other.
LEMMA RefreshMoves ==
  ASSUME NEW r, Sound(r), NEW at \in Clock
  PROVE  /\ MovesOn(r, RefreshDue(r, at)) /\ Sound(RefreshDue(r, at))
         /\ RefreshDue(r, at).station = r.station
         /\ RefreshDue(r, at) # r => RefreshDue(r, at).state \in Endings
<1>1. /\ r \in Records /\ Shaped(r) /\ at \in Nat /\ Unset \in Nat /\ at < Unset
  BY MemoryAssumption DEF Sound, Clock, Unset
<1>2. PICK d : d = RefreshDue(r, at)
  OBVIOUS
<1>3. CASE d = r
  BY <1>2, <1>3 DEF MovesOn
<1>4. CASE d # r
  <2>1. PICK final \in Endings, code \in Reasons :
          /\ d = Ended(r, final, at, code) /\ r.state \notin Endings
          /\ \/ at >= r.expires
             \/ final # "EXPIRED" /\ r.state = "LEASED" /\ at >= r.lease
          /\ final \notin {"SUCCEEDED", "FAILED"}
          /\ r.state # "LEASED" => at >= r.expires
    BY <1>2, <1>4, Zenon DEF RefreshDue, Endings, Reasons
  <2>2. Shaped(d)
    <3>1. d = [r EXCEPT !.state = final, !.lease = Unset, !.completed = at, !.outcome = code]
      BY <2>1 DEF Ended
    <3>2. /\ d.lease = Unset /\ d.completed = at /\ d.state = final
          /\ d.created = r.created /\ d.expires = r.expires /\ d.started = r.started
      BY <1>1, <3>1 DEF Records
    <3>3. /\ r.created \in Nat /\ r.expires \in Nat /\ r.started \in Nat /\ r.lease \in Nat
          /\ r.created <= r.expires
          /\ r.lease # Unset => r.created < r.lease /\ r.lease <= r.expires
          /\ r.started # Unset => r.created <= r.started /\ r.started < r.expires
          /\ r.state = "LEASED" => r.started = Unset
      BY <1>1 DEF Records, Sound, Shaped
    <3>4. r.created <= at /\ (r.started # Unset => r.started <= at)
      <4>1. CASE at >= r.expires
        BY <1>1, <3>3, <4>1
      <4>2. CASE r.state = "LEASED" /\ at >= r.lease
        BY <1>1, <3>3, <4>2
      <4> QED
        BY <2>1, <4>1, <4>2
    <3>5. final = "EXPIRED" => at >= r.expires
      BY <2>1
    <3> QED
      BY <2>1, <3>2, <3>3, <3>4, <3>5 DEF Shaped
  <2>3. MovesOn(r, d)
    BY <2>1, <2>2, EndedMoves
  <2> QED
    BY <1>2, <1>4, <2>3 DEF MovesOn
<1> QED
  BY <1>3, <1>4

-----------------------------------------------------------------------------
\* Nothing is taken back: every record is left alone or ends where it is.
AllMoveOn == DOMAIN table' = Operations /\ \A o \in Operations : MovesOn(table[o], table'[o])

\* What moves records on keeps each of them storable and no workstation shared.
LEMMA MovesKeep ==
  ASSUME MemoryInv, AllMoveOn
  PROVE  (\A o \in Operations : RecordOK(table[o])') /\ OneOccupant'
<1>1. \A o \in Operations : RecordOK(table[o]) /\ MovesOn(table[o], table'[o])
  BY DEF MemoryInv, AllMoveOn
<1>2. \A o \in Operations : RecordOK(table[o])'
  BY <1>1 DEF RecordOK, MovesOn
<1>3. \A o \in Operations, w \in Stations : Occupies(o, w)' => Occupies(o, w)
  BY <1>1 DEF Occupies, MovesOn, Endings
<1>4. OneOccupant'
  BY <1>3 DEF MemoryInv, OneOccupant
<1> QED
  BY <1>2, <1>4

\* Replacing one record by one it moves on to leaves the others alone.
LEMMA OneMoves ==
  ASSUME MemoryInv, NEW o \in Operations, NEW s, MovesOn(table[o], s),
         table' = [table EXCEPT ![o] = s]
  PROVE  AllMoveOn
<1>1. DOMAIN table = Operations
  BY DEF MemoryInv
<1>2. DOMAIN table' = Operations /\ table'[o] = s /\ \A p \in Operations \ {o} : table'[p] = table[p]
  BY <1>1
<1> QED
  BY <1>2 DEF AllMoveOn, MovesOn

\* A record that exists may be stored, and a clock that was read is an instant.
LEMMA InUse ==
  ASSUME MemoryInv, NEW o \in Operations, Exists(o)
  PROVE  Sound(table[o])
BY DEF MemoryInv, RecordOK, Exists, NoRecord

\* A thread inside a call has read an instant of the run.
LEMMA ClockRead ==
  ASSUME MemoryInv, NEW c \in Callers, Returns(c)
  PROVE  caller[c] \in Clock
BY DEF MemoryInv, Returns

\* refresh_operation moves the one record that it reads.
LEMMA RefreshOperationMoves ==
  ASSUME MemoryInv, NEW c \in Callers, NEW o \in Operations, RefreshOperation(c, o)
  PROVE  AllMoveOn
BY InUse, ClockRead, RefreshMoves, OneMoves DEF RefreshOperation

\* Storing what an operation ends with moves it on, or raises and changes nothing.
LEMMA StoreMoves ==
  ASSUME MemoryInv, NEW o \in Operations, NEW s, Shaped(s) => MovesOn(table[o], s),
         Store(o, s)
  PROVE  AllMoveOn
<1>1. CASE Shaped(s)
  BY <1>1, OneMoves DEF Store
<1>2. CASE ~ Shaped(s)
  BY <1>2 DEF Store, AllMoveOn, MovesOn, MemoryInv
<1> QED
  BY <1>1, <1>2

\* finish_operation: the record is refreshed, or ends as it is told.
LEMMA FinishMoves ==
  ASSUME MemoryInv, NEW c \in Callers, NEW o \in Operations,
         NEW final \in Endings, FinishOperation(c, o, final)
  PROVE  AllMoveOn
<1>1. Sound(table[o]) /\ caller[c] \in Clock
  BY InUse, ClockRead DEF FinishOperation
<1>2. PICK r : r = RefreshDue(table[o], caller[c])
  OBVIOUS
<1>3. MovesOn(table[o], r)
  BY <1>1, <1>2, RefreshMoves
<1>4. \/ table' = [table EXCEPT ![o] = r]
      \/ /\ r = table[o] /\ r.state = "RUNNING"
         /\ Store(o, Ended(table[o], final, caller[c], CodeOf(final)))
  BY <1>2 DEF FinishOperation
<1>5. CASE table' = [table EXCEPT ![o] = r]
  BY <1>3, <1>5, OneMoves
<1>6. CASE r = table[o] /\ r.state = "RUNNING" /\ Store(o, Ended(table[o], final, caller[c], CodeOf(final)))
  <2>1. table[o].state \notin Endings /\ CodeOf(final) \in Reasons
    BY <1>6 DEF Endings, Reasons, CodeOf
  <2> QED
    BY <1>1, <1>6, <2>1, EndedMoves, StoreMoves
<1> QED
  BY <1>4, <1>5, <1>6

\* apply_worker_success moves the record on as a finish does.
LEMMA ApplyMoves ==
  ASSUME MemoryInv, NEW c \in Callers, NEW o \in Operations,
         NEW p \in Projects, NEW d \in Documents, ApplyWorkerRows(c, o, p, d)
  PROVE  AllMoveOn
<1>1. Sound(table[o]) /\ caller[c] \in Clock
  BY InUse, ClockRead DEF ApplyWorkerRows
<1>2. PICK r : r = RefreshDue(table[o], caller[c])
  OBVIOUS
<1>3. MovesOn(table[o], r)
  BY <1>1, <1>2, RefreshMoves
<1>4. \/ table' = [table EXCEPT ![o] = r]
      \/ /\ r = table[o] /\ r.state = "RUNNING"
         /\ Store(o, Ended(table[o], "SUCCEEDED", caller[c], "result"))
  BY <1>2 DEF ApplyWorkerRows
<1>5. CASE table' = [table EXCEPT ![o] = r]
  BY <1>3, <1>5, OneMoves
<1>6. CASE r = table[o] /\ r.state = "RUNNING" /\ Store(o, Ended(table[o], "SUCCEEDED", caller[c], "result"))
  <2>1. table[o].state \notin Endings /\ "SUCCEEDED" \in Endings /\ "result" \in Reasons
    BY <1>6 DEF Endings, Reasons
  <2> QED
    BY <1>1, <1>6, <2>1, EndedMoves, StoreMoves
<1> QED
  BY <1>4, <1>5, <1>6

\* start_operation on a lease that has ended, or on what is not leased.
LEMMA NoBeginMoves ==
  ASSUME MemoryInv, NEW c \in Callers, NEW o \in Operations, BeginOperation(c, o),
         table[o].state # "LEASED" \/ caller[c] >= table[o].lease
  PROVE  AllMoveOn
<1>1. Sound(table[o]) /\ caller[c] \in Clock
  BY InUse, ClockRead DEF BeginOperation
<1>2. CASE table[o].state # "LEASED"
  BY <1>2 DEF BeginOperation, AllMoveOn, MovesOn, MemoryInv
<1>3. CASE table[o].state = "LEASED"
  <2>1. Store(o, RefreshDue(table[o], caller[c]))
    BY <1>3 DEF BeginOperation
  <2> QED
    BY <1>1, <2>1, RefreshMoves, StoreMoves
<1> QED
  BY <1>2, <1>3

\* lease_next_operation refreshes every record of the workstation.
LEMMA RefreshedMoves ==
  ASSUME MemoryInv, NEW w, NEW at \in Clock
  PROVE  /\ DOMAIN Refreshed(w, at) = Operations
         /\ \A o \in Operations :
              /\ MovesOn(table[o], Refreshed(w, at)[o])
              /\ Exists(o) => Sound(Refreshed(w, at)[o])
<1> SUFFICES ASSUME NEW o \in Operations
             PROVE  /\ MovesOn(table[o], Refreshed(w, at)[o])
                    /\ Exists(o) => Sound(Refreshed(w, at)[o])
  BY DEF Refreshed
<1>1. Refreshed(w, at)[o] = IF Exists(o) /\ table[o].station = w
                              THEN RefreshDue(table[o], at) ELSE table[o]
  BY DEF Refreshed
<1> QED
  BY <1>1, InUse, RefreshMoves DEF MovesOn

\* A lease is given to one waiting record of a workstation all of whose others wait,
\* have ended or end now.
LeasedOne(w, o) ==
  /\ DOMAIN table' = Operations
  /\ table[o].state = "CREATED" /\ table[o].station = w
  /\ table'[o].state = "LEASED" /\ table'[o].station = w /\ table'[o].outcome = table[o].outcome
  /\ Sound(table[o]) /\ Sound(table'[o])
  /\ \A p \in Operations \ {o} :
       /\ MovesOn(table[p], table'[p])
       /\ table[p].station = w => table'[p].state \notin {"LEASED", "RUNNING"}

\* lease_next_operation leases one record or only refreshes.
LEMMA LeaseMoves ==
  ASSUME MemoryInv, NEW c \in Callers, NEW w \in Stations, LeaseNext(c, w)
  PROVE  AllMoveOn \/ \E o \in Operations : LeasedOne(w, o)
<1>1. PICK at : at = caller[c] /\ at \in Clock
  BY ClockRead DEF LeaseNext
<1>2. PICK t : t = Refreshed(w, at)
  OBVIOUS
<1>3. /\ DOMAIN t = Operations
      /\ \A o \in Operations : MovesOn(table[o], t[o]) /\ (Exists(o) => Sound(t[o]))
  BY <1>1, <1>2, RefreshedMoves
<1>4. CASE table' = t
  BY <1>3, <1>4 DEF AllMoveOn
<1>5. ASSUME table' # t
      PROVE  \E o \in Operations, until \in Nat :
               /\ \A p \in Operations : Exists(p) /\ table[p].station = w
                                          => t[p].state \notin {"LEASED", "RUNNING"}
               /\ Exists(o) /\ table[o].station = w /\ t[o].state = "CREATED"
               /\ LET leased == [t[o] EXCEPT !.state = "LEASED", !.lease = until]
                  IN  Shaped(leased) /\ table' = [t EXCEPT ![o] = leased]
  <2> DEFINE mine == {o \in Operations : Exists(o) /\ table[o].station = w}
             waiting == {o \in mine : t[o].state = "CREATED"}
             until(o) == IF at + LeaseSeconds <= t[o].expires
                           THEN at + LeaseSeconds ELSE t[o].expires
             leased(o) == [t[o] EXCEPT !.state = "LEASED", !.lease = until(o)]
  <2>1. IF (\E o \in mine : t[o].state \in {"LEASED", "RUNNING"}) \/ waiting = {}
          THEN table' = t
          ELSE \E o \in LongestWaiting(waiting, t) :
                 table' = IF Shaped(leased(o)) THEN [t EXCEPT ![o] = leased(o)] ELSE t
    BY <1>1, <1>2 DEF LeaseNext
  <2>2. PICK o \in LongestWaiting(waiting, t) :
          table' = IF Shaped(leased(o)) THEN [t EXCEPT ![o] = leased(o)] ELSE t
    BY <1>5, <2>1
  <2>3. o \in mine /\ t[o].state = "CREATED"
    BY <2>2 DEF LongestWaiting
  <2>4. Shaped(leased(o)) /\ table' = [t EXCEPT ![o] = leased(o)]
    BY <1>5, <2>2
  <2>5. until(o) \in Nat
    BY <1>1, <1>3, <2>3, MemoryAssumption DEF Clock, Sound, Records
  <2>6. PICK u \in Nat : u = until(o)
    BY <2>5
  <2> QED
    BY <1>5, <2>1, <2>3, <2>4, <2>6
<1>6. CASE table' # t
  <2>1. PICK o \in Operations, until \in Nat :
          /\ \A p \in Operations : Exists(p) /\ table[p].station = w
                                     => t[p].state \notin {"LEASED", "RUNNING"}
          /\ Exists(o) /\ table[o].station = w /\ t[o].state = "CREATED"
          /\ LET leased == [t[o] EXCEPT !.state = "LEASED", !.lease = until]
             IN  Shaped(leased) /\ table' = [t EXCEPT ![o] = leased]
    BY <1>5, <1>6
  <2>2. t[o] = table[o] /\ Sound(table[o])
    BY <1>3, <2>1, InUse DEF MovesOn, Endings
  <2>3. PICK e : e = [t[o] EXCEPT !.state = "LEASED", !.lease = until]
    OBVIOUS
  <2>4. Shaped(e) /\ table' = [t EXCEPT ![o] = e]
    BY <2>1, <2>3
  <2>5. /\ e \in Records /\ e.state = "LEASED" /\ e.station = w /\ e.outcome = table[o].outcome
        /\ e.created = table[o].created /\ e.expires = table[o].expires
        /\ e.started = table[o].started /\ table[o].state = "CREATED"
    BY <2>1, <2>2, <2>3 DEF Sound, Records
  <2>6. Sound(e)
    BY <2>2, <2>4, <2>5 DEF Sound, Endings
  <2>7. DOMAIN table' = Operations /\ table'[o] = e /\ \A p \in Operations \ {o} : table'[p] = t[p]
    BY <1>3, <2>4
  <2>8. ASSUME NEW p \in Operations \ {o}
        PROVE  /\ MovesOn(table[p], table'[p])
               /\ table[p].station = w => table'[p].state \notin {"LEASED", "RUNNING"}
    <3>1. MovesOn(table[p], table'[p])
      BY <1>3, <2>7
    <3>2. Exists(p) /\ table[p].station = w => table'[p].state \notin {"LEASED", "RUNNING"}
      BY <2>1, <2>7
    <3>3. ~ Exists(p) => table'[p].state \notin {"LEASED", "RUNNING"}
      BY <3>1 DEF Exists, MovesOn, Sound, Records, Endings
    <3> QED
      BY <3>1, <3>2, <3>3
  <2> QED
    BY <2>1, <2>2, <2>5, <2>6, <2>7, <2>8 DEF LeasedOne
<1> QED
  BY <1>4, <1>6

\* A lease leaves the workstation with one operation.
LEMMA LeasedKeeps ==
  ASSUME MemoryInv, NEW w \in Stations, NEW o \in Operations, LeasedOne(w, o)
  PROVE  (\A p \in Operations : RecordOK(table[p])') /\ OneOccupant'
<1>1. \A p \in Operations : RecordOK(table[p])'
  BY DEF LeasedOne, MemoryInv, RecordOK, MovesOn
<1>2. ASSUME NEW p \in Operations, NEW v \in Stations, Occupies(p, v)'
      PROVE  IF v = w THEN p = o ELSE Occupies(p, v)
  BY <1>2 DEF LeasedOne, Occupies, MovesOn, Endings
<1>3. OneOccupant'
  BY <1>2 DEF MemoryInv, OneOccupant
<1> QED
  BY <1>1, <1>3

\* A start whose lease still runs makes the leased record the running one.
BegunOne(o) ==
  /\ DOMAIN table' = Operations /\ \A p \in Operations \ {o} : table'[p] = table[p]
  /\ table[o].state = "LEASED" /\ table'[o].state = "RUNNING"
  /\ table'[o].station = table[o].station /\ table'[o].outcome = table[o].outcome
  /\ Sound(table[o]) /\ Sound(table'[o])

\* start_operation begins the operation, or moves records on.
LEMMA BeginMoves ==
  ASSUME MemoryInv, NEW c \in Callers, NEW o \in Operations, BeginOperation(c, o)
  PROVE  AllMoveOn \/ BegunOne(o)
<1>1. Sound(table[o]) /\ caller[c] \in Clock /\ caller[c] \in Nat
  BY InUse, ClockRead, MemoryAssumption DEF BeginOperation, Clock
<1>2. CASE table[o].state # "LEASED" \/ caller[c] >= table[o].lease
  BY <1>2, NoBeginMoves
<1>3. CASE table[o].state = "LEASED" /\ ~ (caller[c] >= table[o].lease)
  <2>1. PICK e : e = [table[o] EXCEPT !.state = "RUNNING", !.lease = Unset, !.started = caller[c]]
    OBVIOUS
  <2>2. Store(o, e)
    BY <1>3, <2>1 DEF BeginOperation
  <2>3. CASE Shaped(e)
    <3>1. Unset \in Nat
      BY MemoryAssumption DEF Unset
    <3>2. /\ e \in Records /\ e.state = "RUNNING" /\ e.station = table[o].station
          /\ e.outcome = table[o].outcome
          /\ e.created = table[o].created /\ e.expires = table[o].expires
      BY <1>1, <2>1, <3>1 DEF Sound, Records
    <3>3. Sound(e)
      BY <1>1, <1>3, <2>3, <3>2 DEF Sound, Endings
    <3>4. DOMAIN table' = Operations /\ table'[o] = e /\ \A p \in Operations \ {o} : table'[p] = table[p]
      BY <2>2, <2>3 DEF Store, MemoryInv
    <3> QED
      BY <1>1, <1>3, <3>2, <3>3, <3>4 DEF BegunOne
  <2>4. CASE ~ Shaped(e)
    BY <2>2, <2>4 DEF Store, AllMoveOn, MovesOn, MemoryInv
  <2> QED
    BY <2>3, <2>4
<1> QED
  BY <1>2, <1>3

\* A start takes no workstation that the lease had not given.
LEMMA BegunKeeps ==
  ASSUME MemoryInv, NEW o \in Operations, BegunOne(o)
  PROVE  (\A p \in Operations : RecordOK(table[p])') /\ OneOccupant'
<1>1. \A p \in Operations : RecordOK(table[p])'
  BY DEF BegunOne, MemoryInv, RecordOK
<1>2. \A p \in Operations, v \in Stations : Occupies(p, v)' => Occupies(p, v)
  BY DEF BegunOne, Occupies
<1> QED
  BY <1>1, <1>2 DEF MemoryInv, OneOccupant

\* A new record under a key that named none.
CreatedOne(o, k) ==
  /\ DOMAIN table' = Operations /\ \A p \in Operations \ {o} : table'[p] = table[p]
  /\ ~ Exists(o) /\ Sound(table'[o]) /\ table'[o].state = "CREATED"
  /\ index[k] = Nobody /\ index' = [index EXCEPT ![k] = o]

\* create_or_get_operation adds a record, or answers with the one there is.
LEMMA CreateAdds ==
  ASSUME MemoryInv, NEW c \in Callers, NEW o \in Operations, NEW k \in IdempotencyKeys,
         NEW w \in Stations, CreateOrGet(c, o, k, w)
  PROVE  (AllMoveOn /\ UNCHANGED index) \/ CreatedOne(o, k)
<1>1. caller[c] \in Nat /\ Lifetime \in Nat /\ Unset \in Nat
  BY ClockRead, MemoryAssumption DEF CreateOrGet, Clock, Unset
<1>2. CASE index[k] # Nobody
  BY <1>2 DEF CreateOrGet, AllMoveOn, MovesOn, MemoryInv
<1>3. CASE index[k] = Nobody
  <2>1. PICK e : e = [state |-> "CREATED", station |-> w, command |-> CommandOf[k],
                      created |-> caller[c], expires |-> caller[c] + Lifetime,
                      lease |-> Unset, started |-> Unset, completed |-> Unset, outcome |-> Nobody]
    OBVIOUS
  <2>2. table' = [table EXCEPT ![o] = e] /\ index' = [index EXCEPT ![k] = o] /\ ~ Exists(o)
    BY <1>3, <2>1 DEF CreateOrGet
  <2>3. e \in Records /\ e.state = "CREATED" /\ e.outcome = Nobody
    BY <1>1, <2>1 DEF Records
  <2>4. Sound(e)
    BY <1>1, <2>1, <2>3 DEF Sound, Shaped, Endings
  <2>5. DOMAIN table' = Operations /\ table'[o] = e /\ \A p \in Operations \ {o} : table'[p] = table[p]
    BY <2>2 DEF MemoryInv
  <2> QED
    BY <1>3, <2>2, <2>3, <2>4, <2>5 DEF CreatedOne
<1> QED
  BY <1>2, <1>3

\* A new record waits, so it occupies nothing.
LEMMA CreatedKeeps ==
  ASSUME MemoryInv, NEW o \in Operations, NEW k \in IdempotencyKeys, CreatedOne(o, k)
  PROVE  (\A p \in Operations : RecordOK(table[p])') /\ OneOccupant'
<1>1. \A p \in Operations : RecordOK(table[p])'
  BY DEF CreatedOne, MemoryInv, RecordOK
<1>2. \A p \in Operations, v \in Stations : Occupies(p, v)' => Occupies(p, v)
  BY DEF CreatedOne, Occupies
<1> QED
  BY <1>1, <1>2 DEF MemoryInv, OneOccupant

-----------------------------------------------------------------------------
\* Whatever the gateway does to the table: records move on, or one is leased, begun
\* or created.
TableStep ==
  \/ AllMoveOn /\ UNCHANGED index
  \/ \E w \in Stations, o \in Operations : LeasedOne(w, o) /\ UNCHANGED index
  \/ \E o \in Operations : BegunOne(o) /\ UNCHANGED index
  \/ \E o \in Operations, k \in IdempotencyKeys : CreatedOne(o, k)

\* Each method of the repository is one of these changes.
LEMMA EveryTableStep ==
  ASSUME MemoryInv, [MemoryNext]_memoryVars
  PROVE  TableStep
<1>1. ASSUME UNCHANGED <<index, table>> PROVE TableStep
  BY <1>1 DEF TableStep, AllMoveOn, MovesOn, MemoryInv
<1>2. CASE ClockMoves \/ (\E c \in Callers : ReadClock(c)) \/ UNCHANGED memoryVars
  BY <1>1, <1>2 DEF ClockMoves, ReadClock, memoryVars
<1>3. ASSUME NEW c \in Callers, NEW o \in Operations, NEW k \in IdempotencyKeys, NEW w \in Stations,
             CreateOrGet(c, o, k, w)
      PROVE  TableStep
  BY <1>3, CreateAdds DEF TableStep
<1>4. ASSUME NEW c \in Callers, NEW o \in Operations, RefreshOperation(c, o) PROVE TableStep
  BY <1>4, RefreshOperationMoves DEF TableStep, RefreshOperation
<1>5. ASSUME NEW c \in Callers, NEW o \in Operations, BeginOperation(c, o) PROVE TableStep
  BY <1>5, BeginMoves DEF TableStep, BeginOperation
<1>6. ASSUME NEW c \in Callers, NEW w \in Stations, LeaseNext(c, w) PROVE TableStep
  <2>1. UNCHANGED index
    BY <1>6 DEF LeaseNext
  <2> QED
    BY <1>6, <2>1, LeaseMoves DEF TableStep
<1>7. ASSUME NEW c \in Callers, NEW o \in Operations, NEW final \in Endings \ {"EXPIRED"},
             FinishOperation(c, o, final)
      PROVE  TableStep
  BY <1>7, FinishMoves DEF TableStep, FinishOperation
<1>8. ASSUME NEW c \in Callers, NEW o \in Operations, NEW p \in Projects, NEW d \in Documents,
             ApplyWorkerRows(c, o, p, d)
      PROVE  TableStep
  BY <1>8, ApplyMoves DEF TableStep, ApplyWorkerRows
<1> QED
  BY <1>2, <1>3, <1>4, <1>5, <1>6, <1>7, <1>8 DEF MemoryNext

\* A result lists a project for its own workstation, and scans a drawing of a project
\* that is listed: the catalog stays closed.
LEMMA CatalogStep ==
  ASSUME MemoryInv, [MemoryNext]_memoryVars
  PROVE  CatalogOK'
<1>0. CatalogOK
  BY DEF MemoryInv
<1>1. ASSUME UNCHANGED <<projects, documents>> PROVE CatalogOK'
  BY <1>0, <1>1 DEF CatalogOK
<1>2. ASSUME NEW c \in Callers, NEW o \in Operations, NEW p \in Projects, NEW d \in Documents,
             ApplyWorkerRows(c, o, p, d)
      PROVE  CatalogOK'
  <2>1. Sound(table[o]) /\ caller[c] \in Clock
    BY <1>2, InUse, ClockRead DEF ApplyWorkerRows
  <2>2. PICK r : r = RefreshDue(table[o], caller[c])
    OBVIOUS
  <2>3. r.station \in Stations /\ r.station # Nobody
    BY <2>1, <2>2, RefreshMoves, MemoryAssumption DEF Sound, Records
  <2>4. \/ UNCHANGED <<projects, documents>>
        \/ /\ r.command = "list_projects"
           /\ projects' = [projects EXCEPT ![p] = r.station] /\ documents' = documents
        \/ /\ r.command = "scan_drawings" /\ MayScan(r, p, d)
           /\ projects' = projects /\ documents' = [documents EXCEPT ![d] = p]
    BY <1>2, <2>2 DEF ApplyWorkerRows
  <2>5. CASE projects' = [projects EXCEPT ![p] = r.station] /\ documents' = documents
    BY <1>0, <2>3, <2>5 DEF CatalogOK
  <2>6. CASE MayScan(r, p, d) /\ projects' = projects /\ documents' = [documents EXCEPT ![d] = p]
    BY <1>0, <2>3, <2>6 DEF CatalogOK, MayScan
  <2> QED
    BY <1>1, <2>4, <2>5, <2>6
<1> QED
  BY <1>1, <1>2
  DEF MemoryNext, ClockMoves, ReadClock, CreateOrGet, RefreshOperation, BeginOperation,
      LeaseNext, FinishOperation, memoryVars

\* The clock moves within the run, and a thread reads it or lets it go.
LEMMA ClocksStep ==
  ASSUME MemoryInv, [MemoryNext]_memoryVars
  PROVE  (instant \in Clock)' /\ (caller \in [Callers -> Clock \cup {Unset}])'
<1>0. instant \in Clock /\ caller \in [Callers -> Clock \cup {Unset}]
  BY DEF MemoryInv
<1>1. CASE ClockMoves
  BY <1>0, <1>1, MemoryAssumption DEF ClockMoves, Clock
<1>2. CASE UNCHANGED memoryVars
  BY <1>0, <1>2 DEF memoryVars, Clock, Unset
<1>3. ASSUME NEW c \in Callers, ReadClock(c) \/ Returns(c)
      PROVE  (instant \in Clock)' /\ (caller \in [Callers -> Clock \cup {Unset}])'
  <2>1. instant' = instant /\ \E v \in Clock \cup {Unset} : caller' = [caller EXCEPT ![c] = v]
    BY <1>0, <1>3 DEF ReadClock, Returns
  <2> QED
    BY <1>0, <2>1 DEF Clock, Unset
<1> QED
  BY <1>1, <1>2, <1>3
  DEF MemoryNext, CreateOrGet, RefreshOperation, BeginOperation, LeaseNext, FinishOperation,
      ApplyWorkerRows

\* The empty repository is sound.
LEMMA MemoryInitInv == MemoryInit => MemoryInv
BY MemoryAssumption
DEF MemoryInit, MemoryInv, Clock, Unset, RecordOK, OneOccupant, Occupies, NoRecord, CatalogOK

\* Every call leaves the repository sound, at whatever instant it acts.
LEMMA MemoryInvStep == MemoryInv /\ [MemoryNext]_memoryVars => MemoryInv'
<1> SUFFICES ASSUME MemoryInv, [MemoryNext]_memoryVars PROVE MemoryInv'
  OBVIOUS
<1>1. TableStep
  BY EveryTableStep
<1>2. (DOMAIN table = Operations)'
  BY <1>1 DEF TableStep, AllMoveOn, LeasedOne, BegunOne, CreatedOne
<1>3. (\A o \in Operations : RecordOK(table[o]))' /\ OneOccupant'
  BY <1>1, MovesKeep, LeasedKeeps, BegunKeeps, CreatedKeeps DEF TableStep
<1>4. index' \in [IdempotencyKeys -> Operations \cup {Nobody}]
  BY <1>1 DEF TableStep, CreatedOne, MemoryInv
<1> QED
  BY <1>2, <1>3, <1>4, CatalogStep, ClocksStep DEF MemoryInv

\* However stale the instants its callers act at, the in-memory repository stores only
\* records that its model class accepts, ended ones alone with what they ended with,
\* occupies a workstation with one of them and keeps every drawing's project.
THEOREM MemoryStaysSound == MemorySpec => []MemoryInv
BY MemoryInitInv, MemoryInvStep, PTL DEF MemorySpec

\* Every stored record is one that the model class accepts, whoever wrote it when.
LEMMA MemoryInvTypes == MemoryInv => MemoryTypeOK
<1> SUFFICES ASSUME MemoryInv PROVE MemoryTypeOK
  OBVIOUS
<1>1. instant \in Clock /\ \A c \in Callers : caller[c] \in Clock \cup {Unset}
  BY DEF MemoryInv
<1>2. index \in [IdempotencyKeys -> Operations \cup {Nobody}]
  BY DEF MemoryInv
<1>3. \A o \in Operations : Exists(o) => Shaped(table[o])
  BY InUse DEF Sound
<1>4. \A d \in Documents : documents[d] # Nobody => projects[documents[d]] # Nobody
  BY DEF MemoryInv, CatalogOK
<1> QED
  BY <1>1, <1>2, <1>3, <1>4 DEF MemoryTypeOK

-----------------------------------------------------------------------------
\* How a record reads in the abstract life.
RecordFits(o) ==
  /\ Phases[o] = "absent" <=> table[o].state = "absent"
  /\ Phases[o] = "waiting" <=> table[o].state = "CREATED"
  /\ Phases[o] = "held" <=> table[o].state = "LEASED"
  /\ Phases[o] = "running" <=> table[o].state = "RUNNING"
  /\ Phases[o] = "ended" <=> table[o].state \in Endings
  /\ EndedWith[o] # Nobody <=> table[o].state \in Endings
  /\ Sound(table[o]) => EndedWith[o] = table[o].outcome

\* A record that is absent or sound reads so in the abstract life.
LEMMA RecordCases ==
  ASSUME \A o \in Operations : RecordOK(table[o])
  PROVE  \A o \in Operations : RecordFits(o)
<1> SUFFICES ASSUME NEW o \in Operations PROVE RecordFits(o)
  OBVIOUS
<1>1. /\ Phases[o] = PhaseOf(o)
      /\ EndedWith[o] = IF table[o].state # "absent" THEN table[o].outcome ELSE Nobody
  BY DEF Phases, EndedWith, Exists
<1>2. CASE table[o] = NoRecord
  BY <1>1, <1>2 DEF PhaseOf, NoRecord, RecordFits, Endings, Sound, Records
<1>3. CASE Sound(table[o])
  <2>1. table[o].state \in {"CREATED", "LEASED", "RUNNING"} \cup Endings /\ (table[o].outcome = Nobody <=> table[o].state \notin Endings)
    BY <1>3 DEF Sound, Records
  <2> QED
    BY <1>1, <2>1 DEF PhaseOf, RecordFits, Endings
<1> QED
  BY <1>2, <1>3 DEF RecordOK

\* The same of the table after a step.
LEMMA RecordCasesNext ==
  ASSUME (\A o \in Operations : RecordOK(table[o]))'
  PROVE  \A o \in Operations : RecordFits(o)'
<1> SUFFICES ASSUME NEW o \in Operations PROVE RecordFits(o)'
  OBVIOUS
<1>1. /\ Phases'[o] = PhaseOf(o)'
      /\ EndedWith'[o] = IF table'[o].state # "absent" THEN table'[o].outcome ELSE Nobody
  BY DEF Phases, EndedWith, Exists
<1>2. CASE table'[o] = NoRecord
  BY <1>1, <1>2 DEF PhaseOf, NoRecord, RecordFits, Endings, Sound, Records
<1>3. CASE Sound(table'[o])
  <2>1. table'[o].state \in {"CREATED", "LEASED", "RUNNING"} \cup Endings /\ (table'[o].outcome = Nobody <=> table'[o].state \notin Endings)
    BY <1>3 DEF Sound, Records
  <2> QED
    BY <1>1, <2>1 DEF PhaseOf, RecordFits, Endings
<1> QED
  BY <1>2, <1>3 DEF RecordOK

\* The operations that occupy a workstation, before and after a step.
LEMMA WhoOccupies ==
  /\ \A w \in Stations : \A o : o \in Occupied[w] <=> o \in Operations /\ Occupies(o, w)
  /\ \A w \in Stations : \A o : o \in Occupied'[w] <=> o \in Operations /\ Occupies(o, w)'
<1>1. \A o \in Operations :
        /\ PhaseOf(o) \in {"held", "running"} <=> table[o].state \in {"LEASED", "RUNNING"}
        /\ PhaseOf(o)' \in {"held", "running"} <=> table'[o].state \in {"LEASED", "RUNNING"}
  BY DEF PhaseOf
<1>2. \A w \in Stations : Occupied[w] = Occupants(w) /\ Occupied'[w] = Occupants(w)'
  BY DEF Occupied
<1> QED
  BY <1>1, <1>2 DEF Occupants, Occupies

\* Some records end and perhaps one that waits is leased: the abstract step that settles.
LEMMA SettleFits ==
  ASSUME MemoryInv, (\A o \in Operations : RecordOK(table[o]))', UNCHANGED index,
         AllMoveOn \/ \E w \in Stations, o \in Operations : LeasedOne(w, o)
  PROVE  Life!Settle
<1> DEFINE ended == {o \in Operations : Phases[o] # "ended" /\ Phases'[o] = "ended"}
           given == {o \in Operations : Phases[o] # "held" /\ Phases'[o] = "held"}
<1>1. \A o \in Operations : RecordFits(o) /\ RecordFits(o)'
  BY RecordCases, RecordCasesNext DEF MemoryInv
<1>2. ASSUME NEW o \in Operations, MovesOn(table[o], table'[o])
      PROVE  /\ o \notin given
             /\ o \in ended => /\ Phases[o] \in {"waiting", "held", "running"} /\ EndedWith'[o] # Nobody
                               /\ \A w \in Stations : ~ Occupies(o, w)'
             /\ o \notin ended => /\ Phases'[o] = Phases[o] /\ EndedWith'[o] = EndedWith[o]
                                  /\ \A w \in Stations : Occupies(o, w)' <=> Occupies(o, w)
  <2>1. CASE table'[o] = table[o]
    <3>1. Phases'[o] = Phases[o] /\ EndedWith'[o] = EndedWith[o]
      BY <2>1 DEF Phases, PhaseOf, EndedWith, Exists
    <3> QED
      BY <2>1, <3>1 DEF Occupies
  <2>2. CASE Sound(table[o]) /\ table[o].state \notin Endings /\ table'[o].state \in Endings
    <3>1. o \in ended /\ o \notin given /\ EndedWith'[o] # Nobody
      BY <1>1, <2>2 DEF RecordFits, Endings
    <3>2. Phases[o] \in {"waiting", "held", "running"}
      BY <1>1, <2>2 DEF RecordFits, Sound, Records
    <3> QED
      BY <2>2, <3>1, <3>2 DEF Occupies, Endings
  <2> QED
    BY <1>2, <2>1, <2>2 DEF MovesOn
<1>3. Life!Settle =
        /\ DOMAIN Phases' = Operations /\ DOMAIN Occupied' = Stations /\ DOMAIN EndedWith' = Operations
        /\ \A o \in ended : Phases[o] \in {"waiting", "held", "running"} /\ EndedWith'[o] # Nobody
        /\ \A o \in given : /\ Phases[o] = "waiting"
                           /\ \E w \in Stations : \A v \in Stations : o \in Occupied'[v] <=> v = w
        /\ \A o \in Operations \ (ended \cup given) : Phases'[o] = Phases[o]
        /\ \A o \in Operations \ ended : EndedWith'[o] = EndedWith[o]
        /\ \A w \in Stations :
             \/ Occupied'[w] = Occupied[w] \ ended
             \/ Occupied[w] \subseteq ended /\ \E o \in given : Occupied'[w] = {o}
        /\ index' = index
  BY Zenon DEF Life!Settle, ended, given
<1>4. DOMAIN Phases' = Operations /\ DOMAIN Occupied' = Stations /\ DOMAIN EndedWith' = Operations
  BY DEF Phases, Occupied, EndedWith
<1>5. CASE AllMoveOn
  <2>1. \A o \in Operations : MovesOn(table[o], table'[o])
    BY <1>5 DEF AllMoveOn
  <2>2. \A w \in Stations : Occupied'[w] = Occupied[w] \ ended
    <3> HIDE DEF ended, given
    <3> SUFFICES ASSUME NEW w \in Stations, NEW o
                 PROVE  o \in Occupied'[w] <=> o \in Occupied[w] \ ended
      BY DEF Occupied, Occupants
    <3> QED
      BY <1>2, <2>1, WhoOccupies
  <2>3. given = {} /\ ended \subseteq Operations
    BY <1>2, <2>1
  <2> HIDE DEF ended, given
  <2> QED
    BY <1>2, <1>3, <1>4, <2>1, <2>2, <2>3
<1>6. ASSUME NEW w \in Stations, NEW o \in Operations, LeasedOne(w, o) PROVE Life!Settle
  <2>1. /\ \A p \in Operations \ {o} :
             MovesOn(table[p], table'[p]) /\ (table[p].station = w => table'[p].state \notin {"LEASED", "RUNNING"})
        /\ table[o].state = "CREATED" /\ table'[o].state = "LEASED" /\ table'[o].station = w
        /\ Sound(table[o]) /\ Sound(table'[o]) /\ table'[o].outcome = table[o].outcome
    BY <1>6 DEF LeasedOne
  <2>2. given = {o} /\ o \notin ended /\ Phases[o] = "waiting" /\ EndedWith'[o] = EndedWith[o]
    <3>1. o \in given /\ o \notin ended /\ Phases[o] = "waiting" /\ EndedWith'[o] = EndedWith[o]
      BY <1>1, <2>1 DEF RecordFits, Endings
    <3>2. \A p \in Operations \ {o} : p \notin given
      BY <1>2, <2>1
    <3> QED
      BY <3>1, <3>2
  <2>3. ended \subseteq Operations
    OBVIOUS
  <2> HIDE DEF ended, given
  <2>4. Occupied'[w] = {o} /\ Occupied[w] \subseteq ended
    <3>1. ASSUME NEW p \in Operations, Occupies(p, w)' PROVE p = o
      BY <1>2, <2>1, <3>1 DEF Occupies, MovesOn, Endings
    <3>2. Occupies(o, w)'
      BY <2>1 DEF Occupies
    <3>3. ASSUME NEW p \in Operations, Occupies(p, w) PROVE p \in ended
      <4>1. p # o
        BY <2>1, <3>3 DEF Occupies
      <4>2. ~ Occupies(p, w)'
        BY <3>1, <4>1
      <4> QED
        BY <1>2, <2>1, <3>3, <4>1, <4>2
    <3> QED
      BY <3>1, <3>2, <3>3, WhoOccupies
  <2>5. ASSUME NEW v \in Stations, v # w PROVE Occupied'[v] = Occupied[v] \ ended
    <3> SUFFICES ASSUME NEW p PROVE p \in Occupied'[v] <=> p \in Occupied[v] \ ended
      BY DEF Occupied, Occupants
    <3>1. p = o => ~ Occupies(p, v) /\ ~ Occupies(p, v)'
      BY <2>1, <2>5 DEF Occupies
    <3> QED
      BY <1>2, <2>1, <3>1, WhoOccupies
  <2>6. \A v \in Stations :
          \/ Occupied'[v] = Occupied[v] \ ended
          \/ Occupied[v] \subseteq ended /\ \E p \in given : Occupied'[v] = {p}
    BY <2>2, <2>4, <2>5
  <2>7. \A p \in given : /\ Phases[p] = "waiting"
                         /\ \E u \in Stations : \A v \in Stations : p \in Occupied'[v] <=> v = u
    <3>1. \A v \in Stations : o \in Occupied'[v] <=> v = w
      BY <2>1, WhoOccupies DEF Occupies
    <3> QED
      BY <2>2, <3>1
  <2>8. \A p \in Operations \ {o} : MovesOn(table[p], table'[p])
    BY <2>1
  <2> QED
    BY <1>2, <1>3, <1>4, <2>2, <2>3, <2>6, <2>7, <2>8
<1> QED
  BY <1>5, <1>6

\* A start is the abstract start.
LEMMA BegunFits ==
  ASSUME MemoryInv, (\A p \in Operations : RecordOK(table[p]))', NEW o \in Operations,
         BegunOne(o), UNCHANGED index
  PROVE  Life!Begun(o)
<1>1. \A p \in Operations : RecordFits(p) /\ RecordFits(p)'
  BY RecordCases, RecordCasesNext DEF MemoryInv
<1>2. /\ \A p \in Operations \ {o} : table'[p] = table[p]
      /\ table[o].state = "LEASED" /\ table'[o].state = "RUNNING"
      /\ table'[o].station = table[o].station /\ table'[o].outcome = table[o].outcome
      /\ Sound(table[o]) /\ Sound(table'[o])
  BY DEF BegunOne
<1>3. Phases[o] = "held" /\ Phases'[o] = "running" /\ EndedWith'[o] = EndedWith[o]
  BY <1>1, <1>2 DEF RecordFits
<1>4. \A p \in Operations \ {o} : Phases'[p] = Phases[p] /\ EndedWith'[p] = EndedWith[p]
  BY <1>2 DEF Phases, PhaseOf, EndedWith, Exists
<1>5. Phases' = [Phases EXCEPT ![o] = "running"]
  BY <1>3, <1>4 DEF Phases
<1>6. EndedWith' = EndedWith
  BY <1>3, <1>4 DEF EndedWith
<1>7. \A w \in Stations : Occupied'[w] = Occupied[w]
  <2>1. \A p \in Operations, w \in Stations : Occupies(p, w)' <=> Occupies(p, w)
    BY <1>2 DEF Occupies
  <2> QED
    BY <2>1, WhoOccupies
<1>8. Occupied' = Occupied
  BY <1>7 DEF Occupied
<1> QED
  BY <1>3, <1>5, <1>6, <1>8 DEF Life!Begun

\* A creation under a free key is the abstract admission.
LEMMA CreatedFits ==
  ASSUME MemoryInv, (\A p \in Operations : RecordOK(table[p]))', NEW o \in Operations,
         NEW k \in IdempotencyKeys, CreatedOne(o, k)
  PROVE  Life!Admit(k, o)
<1>1. \A p \in Operations : RecordFits(p) /\ RecordFits(p)'
  BY RecordCases, RecordCasesNext DEF MemoryInv
<1>2. /\ \A p \in Operations \ {o} : table'[p] = table[p]
      /\ table[o].state = "absent" /\ table'[o].state = "CREATED"
      /\ index[k] = Nobody /\ index' = [index EXCEPT ![k] = o]
  BY DEF CreatedOne, Exists
<1>3. Phases[o] = "absent" /\ Phases'[o] = "waiting"
  BY <1>1, <1>2 DEF RecordFits
<1>4. EndedWith[o] = Nobody /\ EndedWith'[o] = Nobody
  BY <1>1, <1>2 DEF RecordFits, Endings
<1>5. \A p \in Operations \ {o} : Phases'[p] = Phases[p] /\ EndedWith'[p] = EndedWith[p]
  BY <1>2 DEF Phases, PhaseOf, EndedWith, Exists
<1>6. Phases' = [Phases EXCEPT ![o] = "waiting"]
  BY <1>3, <1>5 DEF Phases
<1>7. EndedWith' = EndedWith
  BY <1>4, <1>5 DEF EndedWith
<1>8. \A w \in Stations : Occupied'[w] = Occupied[w]
  <2>1. \A p \in Operations, w \in Stations : Occupies(p, w)' <=> Occupies(p, w)
    BY <1>2 DEF Occupies
  <2> QED
    BY <2>1, WhoOccupies
<1>9. Occupied' = Occupied
  BY <1>8 DEF Occupied
<1> QED
  BY <1>2, <1>3, <1>6, <1>7, <1>9 DEF Life!Admit

\* Every call is a step of the abstract life, or none at all.
LEMMA MemoryLifeStep ==
  ASSUME MemoryInv, MemoryInv', [MemoryNext]_memoryVars
  PROVE  Life!LifecycleNext
<1>1. TableStep
  BY EveryTableStep
<1>2. (\A o \in Operations : RecordOK(table[o]))'
  BY DEF MemoryInv
<1> QED
  BY <1>1, <1>2, SettleFits, BegunFits, CreatedFits DEF TableStep, Life!LifecycleNext

\* The in-memory repository implements the life of an operation at whatever stale
\* instants its callers act: none revives an operation that ended, occupies a
\* workstation twice, renames a key or rewrites what an operation ended with.
THEOREM MemoryImplementsLife == MemorySpec => MemoryImplementsLifecycle
<1>1. MemoryInit => Life!LifecycleInit
  <2> SUFFICES ASSUME MemoryInit PROVE Life!LifecycleInit
    OBVIOUS
  <2>1. \A o \in Operations : table[o] = NoRecord /\ table[o].state = "absent"
    BY DEF MemoryInit, NoRecord
  <2>2. Phases = [o \in Operations |-> "absent"]
    BY <2>1 DEF Phases, PhaseOf
  <2>3. EndedWith = [o \in Operations |-> Nobody]
    BY <2>1 DEF EndedWith, Exists
  <2>4. \A w \in Stations : Occupied[w] = {}
    BY <2>1, WhoOccupies DEF Occupies
  <2>5. Occupied = [w \in Stations |-> {}]
    BY <2>4 DEF Occupied
  <2>6. index = [k \in IdempotencyKeys |-> Nobody]
    BY DEF MemoryInit
  <2> QED
    BY <2>2, <2>3, <2>5, <2>6 DEF Life!LifecycleInit
<1>2. MemoryInv /\ MemoryInv' /\ [MemoryNext]_memoryVars => [Life!LifecycleNext]_(Life!lifecycleVars)
  BY MemoryLifeStep
<1> QED
  BY <1>1, <1>2, MemoryStaysSound, PTL DEF MemorySpec, MemoryImplementsLifecycle, Life!LifecycleSpec

(***************************************************************************)
(* The compositions that the runs check.                                   *)
(***************************************************************************)

\* The gateway's edge runs each of its parts by that part's own specification, so what
\* is proved of a part holds of the composition too (ingress, repository, migrations).
THEOREM EdgeIsItsParts == EdgeSpec => IngressSpec /\ MemorySpec /\ MigrationsSpec
<1>1. EdgeInit => IngressInit /\ MemoryInit /\ MigrationsInit
  BY DEF EdgeInit
<1>2. [EdgeNext]_edgeVars
        => [IngressNext]_allVars /\ [MemoryNext]_memoryVars /\ [MigrationsNext]_migrationVars
  BY DEF EdgeNext, edgeVars
<1> QED
  BY <1>1, <1>2, PTL DEF EdgeSpec, IngressSpec, MemorySpec, MigrationsSpec

\* The exchange runs the worker and the admission of its requests by their own
\* specifications.
THEOREM ExchangeIsItsParts == ExchangeSpec => WorkerSpec /\ CredentialsSpec
<1>1. ExchangeInit => WorkerInit /\ CredentialsInit
  BY DEF ExchangeInit
<1>2. [ExchangeNext]_exchangeVars => [WorkerNext]_systemVars /\ [CredentialsNext]_credentialVars
  BY DEF ExchangeNext, exchangeVars
<1> QED
  BY <1>1, <1>2, PTL DEF ExchangeSpec, WorkerSpec, CredentialsSpec

\* The ledger and what deployers know of it stay within their types, and every
\* deployer's release stays a prefix of what it knows.
THEOREM HistoryStaysSound == MigrationsSpec => []HistoryInv
BY HistoryStart, HistoryStep, PTL DEF MigrationsSpec

\* Every visit that a thread serves is of a request that was sent, its nonce spent once.
THEOREM VisitsStayProven == CredentialsSpec => []ProvenInv
BY ProvenStart, ProvenStep, PTL DEF CredentialsSpec

\* Each part of the gateway's edge keeps its state within its types (validate_state_shape,
\* the ledger's and the claims' columns).
THEOREM EdgeTypeCorrect == EdgeSpec => []EdgeTypeOK
<1> DEFINE Focused == focus \in {"ingress", "memory", "migrations"}
<1>1. EdgeInit => Focused
  BY DEF EdgeInit
<1>2. Focused /\ [EdgeNext]_edgeVars => Focused'
  BY DEF EdgeNext, edgeVars
<1>3. Focused /\ IngressInv /\ MemoryInv /\ HistoryInv => EdgeTypeOK
  BY MemoryInvTypes DEF IngressInv, HistoryInv, EdgeTypeOK
<1> HIDE DEF Focused
<1>4. EdgeSpec => []Focused
  BY <1>1, <1>2, PTL DEF EdgeSpec
<1>5. EdgeSpec => []IngressInv /\ []MemoryInv /\ []HistoryInv
  BY EdgeIsItsParts, IngressKeepsItsBooks, MemoryStaysSound, HistoryStaysSound
<1> QED
  BY <1>3, <1>4, <1>5, PTL

\* The worker's state and that of the admission of its requests stay within their types.
THEOREM ExchangeTypeCorrect == ExchangeSpec => []ExchangeTypeOK
<1>1. WorkerInv /\ ProvenInv => ExchangeTypeOK
  BY DEF WorkerInv, ProvenInv, ExchangeTypeOK
<1> QED
  BY <1>1, ExchangeIsItsParts, WorkerKeepsItsBooks, VisitsStayProven, PTL

\* So the in-memory repository keeps the promises of that life, however old the instants
\* are at which its callers act.
THEOREM MemoryKeepsPromises ==
  MemorySpec => /\ [](Life!NamesApart /\ Life!OneOccupant)
                /\ [][Life!NothingTakenBack]_(Life!lifecycleVars)
BY MemoryImplementsLife, Life!PromisesKept DEF MemoryImplementsLifecycle

\* The whole exchange, from the worker's file to the gateway's table: what is proved of the
\* queue, of the endpoints, of the worker and of the admission of its requests holds
\* together, whatever is lost, repeated or dies in between.
THEOREM ExchangeKeepsAll ==
  ExchangeSpec =>
    /\ [](OneActivePerWorkstation /\ LiveWithinQuota /\ CatalogIsNewest)
    /\ [](FirstClaimWins /\ AckMeansRecorded /\ EndedWasDispatched)
    /\ [](ExecutesAtMostOnce /\ NothingIsLost /\ InterruptedWriteIsFlagged)
    /\ []ServedIsProven
    /\ TriggerNeverRefuses /\ ImplementsOperationLifecycle
<1>1. ExchangeSpec => WorkerSpec /\ IngressSpec /\ Spec /\ CredentialsSpec
  BY ExchangeIsItsParts, WorkerImplementsIngress, IngressImplementsQueue
<1>2. Spec => /\ [](OneActivePerWorkstation /\ LiveWithinQuota /\ CatalogIsNewest)
              /\ TriggerNeverRefuses /\ ImplementsOperationLifecycle
  <2>1. Spec => [](OneActivePerWorkstation /\ LiveWithinQuota /\ CatalogIsNewest)
    BY OneActiveAlways, QuotaHolds, CatalogStaysNewest, PTL
  <2> QED
    BY <2>1, TriggerAcceptsAll, OperationsImplementLifecycle
<1>3. IngressSpec => [](FirstClaimWins /\ AckMeansRecorded /\ EndedWasDispatched)
  BY FirstClaimAlwaysWins, AckAlwaysMeansRecorded, EndedAlwaysDispatched, PTL
<1>4. WorkerSpec => [](ExecutesAtMostOnce /\ NothingIsLost /\ InterruptedWriteIsFlagged)
  BY CommandsRunAtMostOnce, NoResultIsEverLost, InterruptedWritesAreFlagged, PTL
<1> QED
  BY <1>1, <1>2, <1>3, <1>4, ServedStaysProven

\* What the parts of the gateway's edge keep they keep side by side: results, operations in
\* memory and the schema.
THEOREM EdgeKeepsAll ==
  EdgeSpec => /\ [](FirstClaimWins /\ AckMeansRecorded /\ EndedWasDispatched)
              /\ []HistoryIsOneRelease /\ MemoryImplementsLifecycle
<1>1. IngressSpec => [](FirstClaimWins /\ AckMeansRecorded /\ EndedWasDispatched)
  BY FirstClaimAlwaysWins, AckAlwaysMeansRecorded, EndedAlwaysDispatched, PTL
<1> QED
  BY <1>1, EdgeIsItsParts, HistoryStaysOneRelease, MemoryImplementsLife
=============================================================================
