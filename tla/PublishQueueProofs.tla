------------------------- MODULE PublishQueueProofs -------------------------
(***************************************************************************)
(* Theorems about PublishQueue, for any number of bridges, jobs and plans: *)
(* first what the protocol of starting, plotting and finishing keeps, then *)
(* what the queue remembers, keeps on disk and answers.  With one bridge,  *)
(* final answers stand and the marker files implement the abstract life of *)
(* a job.                                                                  *)
(***************************************************************************)
EXTENDS PublishQueue, FiniteSetTheorems, SequenceTheorems, TLAPS

(***************************************************************************)
(* The inductive invariant.                                                *)
(***************************************************************************)
\* The lock is held for a job, and a start holds it for the head of the queue
\* while no job runs.
GateOK ==
    \A b \in Bridges :
        /\ gate[b].op # "free" => gate[b].job \in Jobs /\ runtime[b] = "ready"
        /\ gate[b].op = "start" =>
              /\ pending[b] # <<>> /\ Head(pending[b]) = gate[b].job
              /\ worker[b].step = "idle"
        /\ gate[b].op = "cancel" =>
              \E i \in DOMAIN pending[b] : pending[b][i] = gate[b].job

\* The worker has a job exactly while it is not idle, in a ready bridge.
WorkerOK ==
    \A b \in Bridges :
        /\ worker[b].step # "idle" <=> worker[b].job \in Jobs
        /\ worker[b].step # "idle" => runtime[b] = "ready"

\* A plan that has a manifest digest has a snapshot.
SnapshotOK ==
    \A b \in Bridges, p \in Plans :
        manifestOf[b][p] # NoJob => states[b][p].state # "absent"

\* Bridge b created the started marker of j in this life.
Owns(b, j) ==
    \/ gate[b].op = "start" /\ gate[b].step = "answer" /\ gate[b].job = j
    \/ worker[b].step # "idle" /\ worker[b].job = j

\* At most one bridge owns a started job, and it plots it once.
PlotOK ==
    /\ \A b \in Bridges, j \in Jobs : Owns(b, j) => j \in started
    /\ \A a, b \in Bridges, j \in Jobs : Owns(a, j) /\ Owns(b, j) => a = b
    /\ \A b \in Bridges, j \in Jobs :
          Owns(b, j) /\ worker[b].step \in {"idle", "plot"} => plots[j] = 0
    /\ \A j \in Jobs : plots[j] <= 1 /\ (plots[j] = 1 => j \in started)

IndInv == TypeOK /\ GateOK /\ WorkerOK /\ SnapshotOK /\ PlotOK

(***************************************************************************)
(* Lemmas about the queue helpers.                                         *)
(***************************************************************************)
\* Removing a waiting job from a queue leaves a queue of jobs (TryCancelPending).
LEMMA WithoutType ==
    ASSUME NEW q \in Seq(Jobs), NEW j \in Jobs,
           \E k \in DOMAIN q : q[k] = j
    PROVE  Without(q, j) \in Seq(Jobs)
<1> DEFINE i == CHOOSE k \in DOMAIN q : q[k] = j
<1>1. i \in 1 .. Len(q)
  OBVIOUS
<1>2. SubSeq(q, 1, i - 1) \in Seq(Jobs)
  BY <1>1
<1>3. SubSeq(q, i + 1, Len(q)) \in Seq(Jobs)
  BY <1>1
<1> QED
  BY <1>2, <1>3 DEF Without

\* The jobs a directory scan finds waiting form a queue, in any order (Recover).
LEMMA ScanType ==
    ASSUME TypeOK, NEW q \in ScanOrders(Queued)
    PROVE  q \in Seq(Jobs)
<1>1. Queued \subseteq Jobs
  BY DEF Queued, TypeOK
<1>2. IsFiniteSet(Queued)
  BY <1>1, JobsFinite, FS_Subset
<1>3. Cardinality(Queued) \in Nat
  BY <1>2, FS_CardinalityType
<1> QED
  BY <1>1, <1>3 DEF ScanOrders

(***************************************************************************)
(* Type correctness.                                                       *)
(***************************************************************************)

\* The helpers of the actions keep the types of the variables they set.
LEMMA HoldType ==
    ASSUME TypeOK, NEW b \in Bridges, NEW j \in Jobs,
           NEW op \in {"enqueue", "cancel", "start"}, NEW s \in {"write", "answer"},
           Hold(b, op, j, s)
    PROVE  gate' \in [Bridges -> Gate]
BY DEF TypeOK, Hold, Gate

\* Releasing _gate leaves it typed.
LEMMA ReleaseType ==
    ASSUME TypeOK, NEW b \in Bridges, Release(b)
    PROVE  gate' \in [Bridges -> Gate]
BY DEF TypeOK, Release, FreeGate, Gate

\* A step of the running job keeps the worker typed.
LEMMA AdvanceType ==
    ASSUME TypeOK, NEW b \in Bridges, worker[b].job \in Jobs,
           NEW s \in {"commit", "promote", "receipt", "complete"},
           NEW ok \in BOOLEAN, Advance(b, s, ok)
    PROVE  worker' \in [Bridges -> Worker]
BY DEF TypeOK, Advance, Worker

\* Storing a snapshot of a plan keeps _states typed.
LEMMA SetSnapshotType ==
    ASSUME TypeOK, NEW b \in Bridges, NEW j \in Jobs,
           NEW s \in JobStates, NEW e \in Errors,
           SetSnapshot(b, j, Snap(s, e))
    PROVE  states' \in [Bridges -> [Plans -> Snapshot]]
BY DEF TypeOK, SetSnapshot, Snap, Snapshot

\* Taking the head off a queue leaves a queue of jobs.
LEMMA DequeueType ==
    ASSUME TypeOK, NEW b \in Bridges, pending[b] # <<>>, Dequeue(b)
    PROVE  pending' \in [Bridges -> Seq(Jobs)]
BY DEF TypeOK, Dequeue

\* Promoting or rolling back PDFs keeps the outputs typed.
LEMMA PutOutputsType ==
    ASSUME TypeOK, NEW j \in Jobs, NEW v \in OutputStates, PutOutputs(j, v)
    PROVE  outputs' \in [Jobs -> OutputStates]
BY DEF TypeOK, PutOutputs

\* Writing a receipt keeps the receipts typed.
LEMMA PutReceiptType ==
    ASSUME TypeOK, NEW j \in Jobs, NEW r \in Receipt, PutReceipt(j, r)
    PROVE  receipt' \in [Jobs -> Receipt]
BY DEF TypeOK, PutReceipt

\* Plotting a job once more keeps the counters natural numbers.
LEMMA CountPlotType ==
    ASSUME TypeOK, NEW j \in Jobs, CountPlot(j)
    PROVE  plots' \in [Jobs -> Nat]
BY DEF TypeOK, CountPlot

\* Every step keeps the types, given the invariant of the lock and the worker.
LEMMA TypeStep ==
    ASSUME TypeOK, GateOK, WorkerOK, SnapshotOK, [Next]_vars
    PROVE  TypeOK'
<1> USE DEF TypeOK, disk, memory, observed
<1>1. ASSUME NEW b \in Bridges, Recover(b) PROVE TypeOK'
  <2>1. pending' \in [Bridges -> Seq(Jobs)]
    BY ScanType, <1>1 DEF Recover
  <2>2. \A p \in Plans : Known(p) => JobOfPlan(p) \in Jobs
    BY DEF Known, JobOfPlan
  <2>3. \A j \in Jobs : RecoveredSnapshot(j) \in Snapshot
    BY DEF RecoveredSnapshot, Snap, Snapshot, JobStates, Errors
  <2>4. states' \in [Bridges -> [Plans -> Snapshot]]
    BY <1>1, <2>2, <2>3 DEF Recover, Absent, Snapshot, Errors
  <2>5. manifestOf' \in [Bridges -> [Plans -> Jobs \cup {NoJob}]]
    BY <1>1, <2>2 DEF Recover
  <2> QED
    BY <1>1, <2>1, <2>2, <2>3, <2>4, <2>5 DEF Recover
<1>2. ASSUME NEW b \in Bridges, StartDisabled(b) PROVE TypeOK'
  BY <1>2 DEF StartDisabled
<1>3. ASSUME NEW b \in Bridges, StartAborted(b) PROVE TypeOK'
  BY <1>3 DEF StartAborted
<1>4. ASSUME NEW b \in Bridges, Exit(b) PROVE TypeOK'
  BY <1>4 DEF Exit, Absent, Snapshot, Errors, FreeGate, Gate, IdleWorker, Worker
<1>5. ASSUME NEW b \in Bridges, NEW j \in Jobs, TryEnqueue(b, j) PROVE TypeOK'
  <2>1. gate' \in [Bridges -> Gate]
    BY HoldType, ReleaseType, <1>5 DEF TryEnqueue
  <2> QED
    BY <1>5, <2>1 DEF TryEnqueue
<1>6. ASSUME NEW b \in Bridges, NEW j \in Jobs, TryCancelPending(b, j) PROVE TypeOK'
  <2>1. gate' \in [Bridges -> Gate]
    BY HoldType, ReleaseType, <1>6 DEF TryCancelPending
  <2> QED
    BY <1>6, <2>1 DEF TryCancelPending
<1>7. ASSUME NEW b \in Bridges, NEW p \in Plans, GetStatus(b, p) PROVE TypeOK'
  <2>1. told' \subseteq Told
    BY <1>7 DEF GetStatus, Tell, Told, Snapshot, JobStates, SnapshotOK
  <2> QED
    BY <1>7, <2>1 DEF GetStatus
<1>8. ASSUME NEW b \in Bridges, RecordPending(b) PROVE TypeOK'
  <2>1. gate[b].job \in Jobs
    BY <1>8 DEF RecordPending, GateOK
  <2>2. gate' \in [Bridges -> Gate]
    BY HoldType, ReleaseType, <1>8, <2>1 DEF RecordPending
  <2>3. request' \subseteq Jobs
    BY <1>8, <2>1 DEF RecordPending
  <2> QED
    BY <1>8, <2>1, <2>2, <2>3 DEF RecordPending
<1>9. ASSUME NEW b \in Bridges, AcceptEnqueue(b) PROVE TypeOK'
  <2>1. gate[b].job \in Jobs
    BY <1>9 DEF AcceptEnqueue, GateOK
  <2>2. gate' \in [Bridges -> Gate]
    BY HoldType, ReleaseType, <1>9, <2>1 DEF AcceptEnqueue
  <2>3. pending' \in [Bridges -> Seq(Jobs)]
    BY <1>9, <2>1 DEF AcceptEnqueue
  <2>4. states' \in [Bridges -> [Plans -> Snapshot]]
    BY SetSnapshotType, <1>9, <2>1 DEF AcceptEnqueue, JobStates, Errors
  <2>5. manifestOf' \in [Bridges -> [Plans -> Jobs \cup {NoJob}]]
    BY <1>9, <2>1 DEF AcceptEnqueue
  <2>6. told' \subseteq Told
    BY <1>9, <2>1 DEF AcceptEnqueue, Tell, Told, Snap, JobStates, Errors
  <2> QED
    BY <1>9, <2>1, <2>2, <2>3, <2>4, <2>5, <2>6 DEF AcceptEnqueue
<1>10. ASSUME NEW b \in Bridges, RecordCancelled(b) PROVE TypeOK'
  <2>1. gate[b].job \in Jobs
    BY <1>10 DEF RecordCancelled, GateOK
  <2>2. gate' \in [Bridges -> Gate]
    BY HoldType, ReleaseType, <1>10, <2>1 DEF RecordCancelled
  <2>3. cancelled' \subseteq Jobs
    BY <1>10, <2>1 DEF RecordCancelled
  <2> QED
    BY <1>10, <2>1, <2>2, <2>3 DEF RecordCancelled
<1>11. ASSUME NEW b \in Bridges, AcceptCancel(b) PROVE TypeOK'
  <2>1. gate[b].job \in Jobs
    BY <1>11 DEF AcceptCancel, GateOK
  <2>2. gate' \in [Bridges -> Gate]
    BY HoldType, ReleaseType, <1>11, <2>1 DEF AcceptCancel
  <2>3. pending' \in [Bridges -> Seq(Jobs)]
    BY <1>11, <2>1, WithoutType DEF AcceptCancel, GateOK
  <2>4. states' \in [Bridges -> [Plans -> Snapshot]]
    BY SetSnapshotType, <1>11, <2>1 DEF AcceptCancel, JobStates, Errors
  <2>5. told' \subseteq Told
    BY <1>11, <2>1 DEF AcceptCancel, Tell, Told, Snap, JobStates, Errors
  <2> QED
    BY <1>11, <2>1, <2>2, <2>3, <2>4, <2>5 DEF AcceptCancel
<1>12. ASSUME NEW b \in Bridges, TryStartNext(b) PROVE TypeOK'
  <2>1. Head(pending[b]) \in Jobs /\ Tail(pending[b]) \in Seq(Jobs)
    BY <1>12 DEF TryStartNext
  <2>2. gate' \in [Bridges -> Gate]
    BY HoldType, ReleaseType, <1>12, <2>1 DEF TryStartNext, Refuse
  <2>3. pending' \in [Bridges -> Seq(Jobs)]
    BY DequeueType, <1>12 DEF TryStartNext, Refuse
  <2>4. states' \in [Bridges -> [Plans -> Snapshot]]
    BY SetSnapshotType, <1>12, <2>1 DEF TryStartNext, Refuse, JobStates, Errors
  <2> QED
    BY <1>12, <2>1, <2>2, <2>3, <2>4 DEF TryStartNext
<1>13. ASSUME NEW b \in Bridges, RecordStarted(b) PROVE TypeOK'
  <2>1. gate[b].job \in Jobs
    BY <1>13 DEF RecordStarted, GateOK
  <2>2. Head(pending[b]) \in Jobs /\ Tail(pending[b]) \in Seq(Jobs)
    BY <1>13 DEF RecordStarted, GateOK
  <2>3. gate' \in [Bridges -> Gate]
    BY HoldType, ReleaseType, <1>13, <2>1 DEF RecordStarted, Refuse
  <2>4. pending' \in [Bridges -> Seq(Jobs)]
    BY DequeueType, <1>13 DEF RecordStarted, Refuse, GateOK
  <2>5. states' \in [Bridges -> [Plans -> Snapshot]]
    BY SetSnapshotType, <1>13, <2>2 DEF RecordStarted, Refuse, JobStates, Errors
  <2>6. started' \subseteq Jobs
    BY <1>13, <2>1 DEF RecordStarted
  <2> QED
    BY <1>13, <2>1, <2>2, <2>3, <2>4, <2>5, <2>6 DEF RecordStarted
<1>14. ASSUME NEW b \in Bridges, BeginRun(b) PROVE TypeOK'
  <2>1. gate[b].job \in Jobs /\ Tail(pending[b]) \in Seq(Jobs)
    BY <1>14 DEF BeginRun, GateOK
  <2>2. gate' \in [Bridges -> Gate]
    BY HoldType, ReleaseType, <1>14, <2>1 DEF BeginRun
  <2>3. pending' \in [Bridges -> Seq(Jobs)]
    BY DequeueType, <1>14 DEF BeginRun, GateOK
  <2>4. states' \in [Bridges -> [Plans -> Snapshot]]
    BY SetSnapshotType, <1>14, <2>1 DEF BeginRun, JobStates, Errors
  <2>5. worker' \in [Bridges -> Worker]
    BY <1>14, <2>1 DEF BeginRun, Worker
  <2> QED
    BY <1>14, <2>1, <2>2, <2>3, <2>4, <2>5 DEF BeginRun
<1>15. ASSUME NEW b \in Bridges, Plot(b) PROVE TypeOK'
  <2>1. worker[b].job \in Jobs
    BY <1>15 DEF Plot, WorkerAt, WorkerOK
  <2>2. worker' \in [Bridges -> Worker]
    BY AdvanceType, <1>15, <2>1 DEF Plot
  <2>3. plots' \in [Jobs -> Nat]
    <3>1. plots \in [Jobs -> Nat]
      OBVIOUS
    <3> HIDE DEF TypeOK, disk, observed
    <3> QED
      BY CountPlotType, <1>15, <2>1, <3>1 DEF Plot
  <2> QED
    BY <1>15, <2>1, <2>2, <2>3 DEF Plot
<1>16. ASSUME NEW b \in Bridges, CommitFirst(b) PROVE TypeOK'
  <2>1. worker[b].job \in Jobs
    BY <1>16 DEF CommitFirst, WorkerAt, WorkerOK
  <2>2. worker' \in [Bridges -> Worker]
    BY AdvanceType, <1>16, <2>1 DEF CommitFirst
  <2>3. outputs' \in [Jobs -> OutputStates]
    <3>1. outputs \in [Jobs -> OutputStates]
      OBVIOUS
    <3> HIDE DEF TypeOK, disk, observed
    <3> QED
      BY PutOutputsType, <1>16, <2>1, <3>1 DEF CommitFirst, OutputStates
  <2> QED
    BY <1>16, <2>1, <2>2, <2>3 DEF CommitFirst
<1>17. ASSUME NEW b \in Bridges, CommitRest(b) PROVE TypeOK'
  <2>1. worker[b].job \in Jobs
    BY <1>17 DEF CommitRest, WorkerAt, WorkerOK
  <2>2. worker' \in [Bridges -> Worker]
    BY AdvanceType, <1>17, <2>1 DEF CommitRest
  <2>3. outputs' \in [Jobs -> OutputStates]
    <3>1. outputs \in [Jobs -> OutputStates]
      OBVIOUS
    <3> DEFINE rest == IF outputs[worker[b].job] = "partial"
                       THEN "plotted" ELSE outputs[worker[b].job]
    <3>2. rest \in OutputStates
      BY <2>1, <3>1 DEF OutputStates
    <3>3. "none" \in OutputStates
      BY DEF OutputStates
    <3>4. \/ PutOutputs(worker[b].job, rest)
          \/ PutOutputs(worker[b].job, "none")
          \/ outputs' = outputs
      BY <1>17 DEF CommitRest
    <3> HIDE DEF TypeOK, disk, observed, rest
    <3> QED
      BY PutOutputsType, <2>1, <3>1, <3>2, <3>3, <3>4
  <2> QED
    BY <1>17, <2>1, <2>2, <2>3 DEF CommitRest
<1>18. ASSUME NEW b \in Bridges, WriteReceipt(b) PROVE TypeOK'
  <2>1. worker[b].job \in Jobs
    BY <1>18 DEF WriteReceipt, WorkerAt, WorkerOK
  <2>2. worker' \in [Bridges -> Worker]
    BY AdvanceType, <1>18, <2>1 DEF WriteReceipt
  <2>3. receipt' \in [Jobs -> Receipt]
    <3>1. receipt \in [Jobs -> Receipt]
      OBVIOUS
    <3> HIDE DEF TypeOK, disk, observed
    <3> QED
      BY PutReceiptType, <1>18, <2>1, <3>1 DEF WriteReceipt, Receipt, OutputStates
  <2> QED
    BY <1>18, <2>1, <2>2, <2>3 DEF WriteReceipt
<1>19. ASSUME NEW b \in Bridges, Complete(b) PROVE TypeOK'
  <2>1. worker[b].job \in Jobs
    BY <1>19 DEF Complete, WorkerAt, WorkerOK
  <2>2. worker' \in [Bridges -> Worker]
    BY <1>19 DEF Complete, IdleWorker, Worker
  <2>3. states' \in [Bridges -> [Plans -> Snapshot]]
    BY SetSnapshotType, <1>19, <2>1 DEF Complete, JobStates, Errors
  <2> QED
    BY <1>19, <2>1, <2>2, <2>3 DEF Complete
<1>20. ASSUME NEW j \in Touched, ChangeStagedFiles(j) PROVE TypeOK'
  BY <1>20 DEF ChangeStagedFiles
<1>21. ASSUME NEW j \in Touched, AlterOutputs(j) PROVE TypeOK'
  BY <1>21 DEF AlterOutputs, PutOutputs, OutputStates
<1>22. CASE UNCHANGED vars
  BY <1>22 DEF vars
<1> QED
  BY <1>1, <1>2, <1>3, <1>4, <1>5, <1>6, <1>7, <1>8, <1>9, <1>10, <1>11, <1>12, <1>13, <1>14, <1>15, <1>16, <1>17, <1>18, <1>19, <1>20, <1>21, <1>22
  DEF Next, PipeStep, WorkerStep

(***************************************************************************)
(* The lock and the worker.                                                *)
(***************************************************************************)
\* A step of the executor keeps its job and touches no other part of memory.
WorkerMoves(b) ==
    /\ worker[b].step # "idle"
    /\ \E s \in {"commit", "promote", "receipt", "complete"}, ok \in BOOLEAN :
            Advance(b, s, ok)
    /\ UNCHANGED <<runtime, pending, states, manifestOf, gate, told>>

\* Execute and the receipt are steps of the executor.
LEMMA ExecMoves ==
    ASSUME NEW b \in Bridges,
           Plot(b) \/ CommitFirst(b) \/ CommitRest(b) \/ WriteReceipt(b)
    PROVE  WorkerMoves(b)
<1>1. CASE Plot(b)
  BY <1>1 DEF Plot, WorkerMoves, WorkerAt
<1>2. CASE CommitFirst(b)
  BY <1>2 DEF CommitFirst, WorkerMoves, WorkerAt, observed
<1>3. CASE CommitRest(b)
  BY <1>3 DEF CommitRest, WorkerMoves, WorkerAt, observed
<1>4. CASE WriteReceipt(b)
  BY <1>4 DEF WriteReceipt, WorkerMoves, WorkerAt, observed
<1> QED
  BY <1>1, <1>2, <1>3, <1>4

\* Every step keeps the invariant of the lock.
LEMMA GateStep ==
    ASSUME TypeOK, GateOK, WorkerOK, [Next]_vars
    PROVE  GateOK'
<1> USE DEF TypeOK, GateOK, Gate, Worker
<1>1. ASSUME NEW b \in Bridges, Recover(b) PROVE GateOK'
  BY <1>1 DEF Recover
<1>2. ASSUME NEW b \in Bridges, StartDisabled(b) PROVE GateOK'
  BY <1>2 DEF StartDisabled
<1>3. ASSUME NEW b \in Bridges, StartAborted(b) PROVE GateOK'
  BY <1>3 DEF StartAborted
<1>4. ASSUME NEW b \in Bridges, Exit(b) PROVE GateOK'
  BY <1>4 DEF Exit, FreeGate
<1>5. ASSUME NEW b \in Bridges, NEW j \in Jobs, TryEnqueue(b, j) PROVE GateOK'
  BY <1>5 DEF TryEnqueue, Serving, Hold
<1>6. ASSUME NEW b \in Bridges, NEW j \in Jobs, TryCancelPending(b, j) PROVE GateOK'
  BY <1>6 DEF TryCancelPending, Serving, Hold, PendingJobs
<1>7. ASSUME NEW b \in Bridges, NEW p \in Plans, GetStatus(b, p) PROVE GateOK'
  BY <1>7 DEF GetStatus, memory
<1>8. ASSUME NEW b \in Bridges, RecordPending(b) PROVE GateOK'
  <2>1. CASE Hold(b, "enqueue", gate[b].job, "answer")
    BY <1>8, <2>1 DEF RecordPending, Hold
  <2>2. CASE Release(b)
    BY <1>8, <2>2 DEF RecordPending, Release, FreeGate
  <2> QED
    BY <1>8, <2>1, <2>2 DEF RecordPending
<1>9. ASSUME NEW b \in Bridges, AcceptEnqueue(b) PROVE GateOK'
  BY <1>9 DEF AcceptEnqueue, Release, FreeGate
<1>10. ASSUME NEW b \in Bridges, RecordCancelled(b) PROVE GateOK'
  <2>1. CASE Hold(b, "cancel", gate[b].job, "answer")
    BY <1>10, <2>1 DEF RecordCancelled, Hold
  <2>2. CASE Release(b)
    BY <1>10, <2>2 DEF RecordCancelled, Release, FreeGate
  <2> QED
    BY <1>10, <2>1, <2>2 DEF RecordCancelled
<1>11. ASSUME NEW b \in Bridges, AcceptCancel(b) PROVE GateOK'
  BY <1>11 DEF AcceptCancel, Release, FreeGate
<1>12. ASSUME NEW b \in Bridges, TryStartNext(b) PROVE GateOK'
  <2>1. CASE Hold(b, "start", Head(pending[b]), "write") /\ pending' = pending
    BY <1>12, <2>1 DEF TryStartNext, Serving, Hold
  <2>2. CASE Refuse(b)
    BY <1>12, <2>2 DEF TryStartNext, Serving, Refuse, Release, Dequeue, FreeGate
  <2> QED
    BY <1>12, <2>1, <2>2 DEF TryStartNext
<1>13. ASSUME NEW b \in Bridges, RecordStarted(b) PROVE GateOK'
  <2>1. CASE Hold(b, "start", gate[b].job, "answer") /\ pending' = pending
    BY <1>13, <2>1 DEF RecordStarted, Hold
  <2>2. CASE Refuse(b)
    BY <1>13, <2>2 DEF RecordStarted, Refuse, Release, Dequeue, FreeGate
  <2> QED
    BY <1>13, <2>1, <2>2 DEF RecordStarted
<1>14. ASSUME NEW b \in Bridges, BeginRun(b) PROVE GateOK'
  BY <1>14 DEF BeginRun, Release, FreeGate, Dequeue
<1>15. ASSUME NEW b \in Bridges, WorkerMoves(b) PROVE GateOK'
  <2>1. PICK s \in {"commit", "promote", "receipt", "complete"}, ok \in BOOLEAN :
            Advance(b, s, ok)
    BY <1>15 DEF WorkerMoves
  <2> QED
    BY <1>15, <2>1 DEF WorkerMoves, Advance
<1>16. ASSUME NEW b \in Bridges, Complete(b) PROVE GateOK'
  BY <1>16 DEF Complete, Serving, IdleWorker
<1>17. ASSUME NEW j \in Touched, ChangeStagedFiles(j) PROVE GateOK'
  BY <1>17 DEF ChangeStagedFiles, memory
<1>18. ASSUME NEW j \in Touched, AlterOutputs(j) PROVE GateOK'
  BY <1>18 DEF AlterOutputs, memory
<1>19. CASE UNCHANGED vars
  BY <1>19 DEF vars
<1> QED
  BY ExecMoves, <1>1, <1>2, <1>3, <1>4, <1>5, <1>6, <1>7, <1>8, <1>9, <1>10, <1>11, <1>12, <1>13, <1>14, <1>15, <1>16, <1>17, <1>18, <1>19
  DEF Next, PipeStep, WorkerStep

\* Every step keeps the invariant of the worker.
LEMMA WorkerStepOK ==
    ASSUME TypeOK, GateOK, WorkerOK, [Next]_vars
    PROVE  WorkerOK'
<1> USE DEF TypeOK, WorkerOK, Worker
<1>1. ASSUME NEW b \in Bridges, Recover(b) PROVE WorkerOK'
  BY <1>1 DEF Recover
<1>2. ASSUME NEW b \in Bridges, StartDisabled(b) PROVE WorkerOK'
  BY <1>2 DEF StartDisabled
<1>3. ASSUME NEW b \in Bridges, StartAborted(b) PROVE WorkerOK'
  BY <1>3 DEF StartAborted
<1>4. ASSUME NEW b \in Bridges, Exit(b) PROVE WorkerOK'
  BY <1>4, NoJobFresh DEF Exit, IdleWorker
<1>5. ASSUME NEW b \in Bridges, NEW j \in Jobs, TryEnqueue(b, j) PROVE WorkerOK'
  BY <1>5 DEF TryEnqueue
<1>6. ASSUME NEW b \in Bridges, NEW j \in Jobs, TryCancelPending(b, j) PROVE WorkerOK'
  BY <1>6 DEF TryCancelPending
<1>7. ASSUME NEW b \in Bridges, NEW p \in Plans, GetStatus(b, p) PROVE WorkerOK'
  BY <1>7 DEF GetStatus, memory
<1>8. ASSUME NEW b \in Bridges, RecordPending(b) PROVE WorkerOK'
  BY <1>8 DEF RecordPending
<1>9. ASSUME NEW b \in Bridges, AcceptEnqueue(b) PROVE WorkerOK'
  BY <1>9 DEF AcceptEnqueue
<1>10. ASSUME NEW b \in Bridges, RecordCancelled(b) PROVE WorkerOK'
  BY <1>10 DEF RecordCancelled
<1>11. ASSUME NEW b \in Bridges, AcceptCancel(b) PROVE WorkerOK'
  BY <1>11 DEF AcceptCancel
<1>12. ASSUME NEW b \in Bridges, TryStartNext(b) PROVE WorkerOK'
  BY <1>12 DEF TryStartNext
<1>13. ASSUME NEW b \in Bridges, RecordStarted(b) PROVE WorkerOK'
  BY <1>13 DEF RecordStarted
<1>14. ASSUME NEW b \in Bridges, BeginRun(b) PROVE WorkerOK'
  BY <1>14 DEF BeginRun, GateOK
<1>15. ASSUME NEW b \in Bridges, WorkerMoves(b) PROVE WorkerOK'
  <2>1. PICK s \in {"commit", "promote", "receipt", "complete"}, ok \in BOOLEAN :
            Advance(b, s, ok)
    BY <1>15 DEF WorkerMoves
  <2> QED
    BY <1>15, <2>1 DEF WorkerMoves, Advance
<1>16. ASSUME NEW b \in Bridges, Complete(b) PROVE WorkerOK'
  BY <1>16, NoJobFresh DEF Complete, IdleWorker
<1>17. ASSUME NEW j \in Touched, ChangeStagedFiles(j) PROVE WorkerOK'
  BY <1>17 DEF ChangeStagedFiles, memory
<1>18. ASSUME NEW j \in Touched, AlterOutputs(j) PROVE WorkerOK'
  BY <1>18 DEF AlterOutputs, memory
<1>19. CASE UNCHANGED vars
  BY <1>19 DEF vars
<1> QED
  BY ExecMoves, <1>1, <1>2, <1>3, <1>4, <1>5, <1>6, <1>7, <1>8, <1>9, <1>10, <1>11, <1>12, <1>13, <1>14, <1>15, <1>16, <1>17, <1>18, <1>19
  DEF Next, PipeStep, WorkerStep

\* A step that records a manifest digest records a snapshot.
LEMMA SnapshotStep ==
    ASSUME TypeOK, GateOK, WorkerOK, SnapshotOK, [Next]_vars
    PROVE  SnapshotOK'
<1> USE DEF TypeOK, SnapshotOK
<1>1. ASSUME NEW b \in Bridges, Recover(b) PROVE SnapshotOK'
  BY <1>1 DEF Recover, RecoveredSnapshot, Snap
<1>2. ASSUME NEW b \in Bridges, StartDisabled(b) PROVE SnapshotOK'
  BY <1>2 DEF StartDisabled
<1>3. ASSUME NEW b \in Bridges, StartAborted(b) PROVE SnapshotOK'
  BY <1>3 DEF StartAborted
<1>4. ASSUME NEW b \in Bridges, Exit(b) PROVE SnapshotOK'
  BY <1>4 DEF Exit, Absent
<1>5. ASSUME NEW b \in Bridges, NEW j \in Jobs, TryEnqueue(b, j) PROVE SnapshotOK'
  BY <1>5 DEF TryEnqueue
<1>6. ASSUME NEW b \in Bridges, NEW j \in Jobs, TryCancelPending(b, j) PROVE SnapshotOK'
  BY <1>6 DEF TryCancelPending
<1>7. ASSUME NEW b \in Bridges, NEW p \in Plans, GetStatus(b, p) PROVE SnapshotOK'
  BY <1>7 DEF GetStatus, memory
<1>8. ASSUME NEW b \in Bridges, RecordPending(b) PROVE SnapshotOK'
  BY <1>8 DEF RecordPending
<1>9. ASSUME NEW b \in Bridges, AcceptEnqueue(b) PROVE SnapshotOK'
  BY <1>9 DEF AcceptEnqueue, SetSnapshot, Snap, GateOK
<1>10. ASSUME NEW b \in Bridges, RecordCancelled(b) PROVE SnapshotOK'
  BY <1>10 DEF RecordCancelled
<1>11. ASSUME NEW b \in Bridges, AcceptCancel(b) PROVE SnapshotOK'
  BY <1>11 DEF AcceptCancel, SetSnapshot, Snap, GateOK
<1>12. ASSUME NEW b \in Bridges, TryStartNext(b) PROVE SnapshotOK'
  <2>1. CASE UNCHANGED states
    BY <1>12, <2>1 DEF TryStartNext, Hold
  <2>2. CASE Refuse(b)
    BY <1>12, <2>2 DEF TryStartNext, Refuse, SetSnapshot, Snap
  <2> QED
    BY <1>12, <2>1, <2>2 DEF TryStartNext
<1>13. ASSUME NEW b \in Bridges, RecordStarted(b) PROVE SnapshotOK'
  <2>1. CASE UNCHANGED states
    BY <1>13, <2>1 DEF RecordStarted, Hold
  <2>2. CASE Refuse(b)
    BY <1>13, <2>2 DEF RecordStarted, GateOK, Refuse, SetSnapshot, Snap
  <2> QED
    BY <1>13, <2>1, <2>2 DEF RecordStarted
<1>14. ASSUME NEW b \in Bridges, BeginRun(b) PROVE SnapshotOK'
  BY <1>14 DEF BeginRun, SetSnapshot, Snap, GateOK
<1>15. ASSUME NEW b \in Bridges, WorkerMoves(b) PROVE SnapshotOK'
  BY <1>15 DEF WorkerMoves
<1>16. ASSUME NEW b \in Bridges, Complete(b) PROVE SnapshotOK'
  BY <1>16 DEF Complete, SetSnapshot, Snap, WorkerOK, WorkerAt
<1>17. ASSUME NEW j \in Touched, ChangeStagedFiles(j) PROVE SnapshotOK'
  BY <1>17 DEF ChangeStagedFiles, memory
<1>18. ASSUME NEW j \in Touched, AlterOutputs(j) PROVE SnapshotOK'
  BY <1>18 DEF AlterOutputs, memory
<1>19. CASE UNCHANGED vars
  BY <1>19 DEF vars
<1> QED
  BY ExecMoves, <1>1, <1>2, <1>3, <1>4, <1>5, <1>6, <1>7, <1>8, <1>9, <1>10, <1>11, <1>12, <1>13, <1>14, <1>15, <1>16, <1>17, <1>18, <1>19
  DEF Next, PipeStep, WorkerStep

(***************************************************************************)
(* Plotting once.                                                          *)
(***************************************************************************)
\* A step that starts nothing and plots nothing: it creates no owner.
Quiet ==
    /\ UNCHANGED <<started, plots>>
    /\ \A c \in Bridges :
          /\ gate'[c].op = "start" /\ gate'[c].step = "answer" => gate'[c] = gate[c]
          /\ worker'[c] = worker[c] \/ worker'[c].step = "idle"

\* A step that moves neither the markers, the owners nor the counters keeps PlotOK.
LEMMA QuietPlotOK ==
    ASSUME TypeOK, GateOK, PlotOK, Quiet
    PROVE  PlotOK'
<1>1. ASSUME NEW c \in Bridges, NEW j \in Jobs, Owns(c, j)'
      PROVE  Owns(c, j) /\ worker'[c].step = worker[c].step
  BY <1>1 DEF Owns, Quiet, GateOK, TypeOK, Gate, Worker
<1> QED
  BY <1>1 DEF PlotOK, Quiet

\* All steps but RecordStarted, BeginRun and those of the executor are quiet.
LEMMA QuietSteps ==
    ASSUME TypeOK
    PROVE  /\ \A b \in Bridges :
                \/ Recover(b) \/ StartDisabled(b) \/ StartAborted(b) \/ Exit(b)
                \/ \E j \in Jobs : TryEnqueue(b, j) \/ TryCancelPending(b, j)
                \/ \E p \in Plans : GetStatus(b, p)
                \/ PipeStep(b) \/ TryStartNext(b) \/ Complete(b)
                => Quiet
           /\ \A j \in Jobs : ChangeStagedFiles(j) \/ AlterOutputs(j) => Quiet
<1> USE DEF TypeOK, Gate, Worker, Quiet, disk, observed
<1>1. ASSUME NEW b \in Bridges, Recover(b) PROVE Quiet
  BY <1>1 DEF Recover
<1>2. ASSUME NEW b \in Bridges, StartDisabled(b) PROVE Quiet
  BY <1>2 DEF StartDisabled
<1>3. ASSUME NEW b \in Bridges, StartAborted(b) PROVE Quiet
  BY <1>3 DEF StartAborted
<1>4. ASSUME NEW b \in Bridges, Exit(b) PROVE Quiet
  BY <1>4 DEF Exit, FreeGate, IdleWorker
<1>5. ASSUME NEW b \in Bridges, NEW j \in Jobs, TryEnqueue(b, j) PROVE Quiet
  BY <1>5 DEF TryEnqueue, Hold
<1>6. ASSUME NEW b \in Bridges, NEW j \in Jobs, TryCancelPending(b, j) PROVE Quiet
  BY <1>6 DEF TryCancelPending, Hold
<1>7. ASSUME NEW b \in Bridges, NEW p \in Plans, GetStatus(b, p) PROVE Quiet
  BY <1>7 DEF GetStatus, memory
<1>8. ASSUME NEW b \in Bridges, RecordPending(b) PROVE Quiet
  <2>1. CASE Hold(b, "enqueue", gate[b].job, "answer")
    BY <1>8, <2>1 DEF RecordPending, Hold
  <2>2. CASE Release(b)
    BY <1>8, <2>2 DEF RecordPending, Release, FreeGate
  <2> QED
    BY <1>8, <2>1, <2>2 DEF RecordPending
<1>9. ASSUME NEW b \in Bridges, AcceptEnqueue(b) PROVE Quiet
  BY <1>9 DEF AcceptEnqueue, Release, FreeGate
<1>10. ASSUME NEW b \in Bridges, RecordCancelled(b) PROVE Quiet
  <2>1. CASE Hold(b, "cancel", gate[b].job, "answer")
    BY <1>10, <2>1 DEF RecordCancelled, Hold
  <2>2. CASE Release(b)
    BY <1>10, <2>2 DEF RecordCancelled, Release, FreeGate
  <2> QED
    BY <1>10, <2>1, <2>2 DEF RecordCancelled
<1>11. ASSUME NEW b \in Bridges, AcceptCancel(b) PROVE Quiet
  BY <1>11 DEF AcceptCancel, Release, FreeGate
<1>12. ASSUME NEW b \in Bridges, TryStartNext(b) PROVE Quiet
  <2>1. CASE Hold(b, "start", Head(pending[b]), "write")
    BY <1>12, <2>1 DEF TryStartNext, Hold
  <2>2. CASE Refuse(b)
    BY <1>12, <2>2 DEF TryStartNext, Refuse, Release, FreeGate
  <2> QED
    BY <1>12, <2>1, <2>2 DEF TryStartNext
<1>13. ASSUME NEW b \in Bridges, Complete(b) PROVE Quiet
  BY <1>13 DEF Complete, IdleWorker
<1>14. ASSUME NEW j \in Jobs, ChangeStagedFiles(j) PROVE Quiet
  BY <1>14 DEF ChangeStagedFiles, memory
<1>15. ASSUME NEW j \in Jobs, AlterOutputs(j) PROVE Quiet
  BY <1>15 DEF AlterOutputs, memory
<1> QED
  BY <1>1, <1>2, <1>3, <1>4, <1>5, <1>6, <1>7, <1>8, <1>9, <1>10, <1>11, <1>12, <1>13, <1>14, <1>15
  DEF PipeStep

\* The started marker makes one bridge the owner, and the owner plots once.
LEMMA PlotStep ==
    ASSUME IndInv, [Next]_vars
    PROVE  PlotOK'
<1> USE DEF IndInv
<1>1. ASSUME NEW b \in Bridges, RecordStarted(b) PROVE PlotOK'
  <2>1. CASE Refuse(b)
    <3>1. Quiet
      BY <1>1, <2>1 DEF RecordStarted, Refuse, Release, FreeGate, Quiet, TypeOK,
                        Gate, Worker, Hold, observed
    <3> QED
      BY <3>1, QuietPlotOK
  <2>2. CASE /\ gate[b].job \notin started
             /\ started' = started \cup {gate[b].job}
             /\ Hold(b, "start", gate[b].job, "answer")
    <3>1. UNCHANGED <<worker, plots>>
      BY <1>1 DEF RecordStarted, observed
    <3>2. ASSUME NEW c \in Bridges, NEW j \in Jobs, Owns(c, j)'
          PROVE  Owns(c, j) \/ (c = b /\ j = gate[b].job)
      BY <2>2, <3>1, <3>2 DEF Owns, Hold, TypeOK, Gate
    <3>3. \A c \in Bridges : ~Owns(c, gate[b].job)
      BY <1>1, <2>2 DEF PlotOK, GateOK, RecordStarted
    <3>4. plots[gate[b].job] = 0
      <4>1. gate[b].job \in Jobs
        BY <1>1 DEF GateOK, RecordStarted
      <4>2. plots[gate[b].job] \in Nat
        BY <4>1 DEF TypeOK
      <4> QED
        BY <2>2, <4>1, <4>2 DEF PlotOK
    <3> QED
      BY <2>2, <3>1, <3>2, <3>3, <3>4 DEF PlotOK
  <2> QED
    BY <1>1, <2>1, <2>2 DEF RecordStarted
<1>2. ASSUME NEW b \in Bridges, BeginRun(b) PROVE PlotOK'
  <2>1. UNCHANGED <<started, plots>>
    BY <1>2 DEF BeginRun, disk, observed
  <2>2. ASSUME NEW c \in Bridges, NEW j \in Jobs, Owns(c, j)'
        PROVE  /\ Owns(c, j)
               /\ worker'[c].step \in {"idle", "plot"} =>
                     worker[c].step \in {"idle", "plot"}
    BY <1>2, <2>2 DEF BeginRun, Owns, Release, FreeGate, GateOK, TypeOK, Gate, Worker
  <2> QED
    BY <2>1, <2>2 DEF PlotOK
<1>3. ASSUME NEW b \in Bridges, WorkerMoves(b)
      PROVE  /\ \A c \in Bridges, j \in Jobs : Owns(c, j)' => Owns(c, j)
             /\ worker'[b].step \notin {"idle", "plot"}
             /\ \A c \in Bridges : c # b => worker'[c] = worker[c]
  <2>1. PICK s \in {"commit", "promote", "receipt", "complete"}, ok \in BOOLEAN :
            Advance(b, s, ok)
    BY <1>3 DEF WorkerMoves
  <2> QED
    BY <1>3, <2>1 DEF WorkerMoves, Advance, Owns, TypeOK, Gate, Worker
<1>4. ASSUME NEW b \in Bridges, Plot(b) PROVE PlotOK'
  <2>1. WorkerMoves(b) /\ UNCHANGED started
    BY <1>4, ExecMoves DEF Plot, disk
  <2>2. Owns(b, worker[b].job) /\ worker[b].job \in Jobs /\ plots[worker[b].job] = 0
    BY <1>4 DEF Plot, WorkerAt, WorkerOK, Owns, PlotOK
  <2>3. CASE CountPlot(worker[b].job)
    <3>1. \A j \in Jobs : plots'[j] = IF j = worker[b].job THEN 1 ELSE plots[j]
      BY <2>2, <2>3 DEF CountPlot, TypeOK
    <3> QED
      BY <1>3, <2>1, <2>2, <3>1 DEF PlotOK
  <2>4. CASE UNCHANGED plots
    BY <1>3, <2>1, <2>4 DEF PlotOK
  <2> QED
    BY <1>4, <2>3, <2>4 DEF Plot
<1>5. ASSUME NEW b \in Bridges, CommitFirst(b) \/ CommitRest(b) \/ WriteReceipt(b)
      PROVE  PlotOK'
  <2>1. WorkerMoves(b)
    BY <1>5, ExecMoves
  <2>2. UNCHANGED <<started, plots>>
    BY <1>5 DEF CommitFirst, CommitRest, WriteReceipt, observed
  <2> QED
    BY <1>3, <2>1, <2>2 DEF PlotOK
<1>6. CASE UNCHANGED vars
  BY <1>6, QuietPlotOK DEF vars, Quiet
<1> QED
  BY <1>1, <1>2, <1>4, <1>5, <1>6, QuietSteps, QuietPlotOK, TouchedType
  DEF Next, PipeStep, WorkerStep

\* The invariant holds initially.
LEMMA IndInvInit ==
    ASSUME Init
    PROVE  IndInv
<1>1. TypeOK
  BY DEF Init, TypeOK, Receipt, OutputStates, Snapshot, Errors, Gate, Worker,
         NoReceipt, Absent, FreeGate, IdleWorker
<1>2. GateOK /\ WorkerOK /\ SnapshotOK
  BY NoJobFresh DEF Init, GateOK, WorkerOK, SnapshotOK, FreeGate, IdleWorker
<1>3. PlotOK
  BY DEF Init, PlotOK, Owns, FreeGate, IdleWorker
<1> QED
  BY <1>1, <1>2, <1>3 DEF IndInv

\* Every behaviour keeps the invariant.
THEOREM Inductive == Spec => []IndInv
<1>1. ASSUME IndInv, [Next]_vars PROVE IndInv'
  BY <1>1, TypeStep, GateStep, WorkerStepOK, SnapshotStep, PlotStep DEF IndInv
<1> QED
  BY <1>1, IndInvInit, PTL DEF Spec

\* The variables of every reachable state of the queue have their types.
THEOREM TypeCorrect == Spec => []TypeOK
<1>1. IndInv => TypeOK
  BY DEF IndInv
<1> QED
  BY <1>1, Inductive, PTL

\* However many bridges share a workspace, and however often they crash and
\* restart, no staged job is plotted twice.
THEOREM PlotsAtMostOnce == Spec => []PlotAtMostOnce
<1>1. IndInv => PlotAtMostOnce
  BY DEF IndInv, PlotOK, PlotAtMostOnce
<1> QED
  BY <1>1, Inductive, PTL

(***************************************************************************)
(* One bridge.  With a single AutoCAD process the lock _gate covers every  *)
(* check and the write that follows it.                                    *)
(***************************************************************************)
OneBridge == \A a, b \in Bridges : a = b

\* While a start or a cancellation holds the lock, the other has not happened.
CancelOK ==
    /\ CancelledNeverStarts
    /\ \A b \in Bridges :
          /\ gate[b].op = "start" /\ gate[b].step = "write" => gate[b].job \notin cancelled
          /\ gate[b].op = "cancel" => gate[b].job \notin started

\* Memory knows every plan on disk, but for the one being accepted.
PlanOK ==
    /\ OneJobPerPlan
    /\ \A b \in Bridges :
          /\ gate[b].op = "enqueue" => states[b][PlanOf[gate[b].job]].state = "absent"
          /\ runtime[b] = "ready" => \A j \in request :
                \/ states[b][PlanOf[j]].state # "absent"
                \/ gate[b].op = "enqueue" /\ gate[b].step = "answer" /\ gate[b].job = j

\* Under the lock, a start and a cancellation of one job exclude each other.
LEMMA CancelStep ==
    ASSUME OneBridge, IndInv, CancelOK, [Next]_vars
    PROVE  CancelOK'
<1> USE DEF OneBridge, IndInv, CancelOK, TypeOK, GateOK, Gate,
            CancelledNeverStarts, disk
<1>1. ASSUME NEW b \in Bridges, Recover(b) PROVE CancelOK'
  BY <1>1 DEF Recover
<1>2. ASSUME NEW b \in Bridges, StartDisabled(b) PROVE CancelOK'
  BY <1>2 DEF StartDisabled
<1>3. ASSUME NEW b \in Bridges, StartAborted(b) PROVE CancelOK'
  BY <1>3 DEF StartAborted
<1>4. ASSUME NEW b \in Bridges, Exit(b) PROVE CancelOK'
  BY <1>4 DEF Exit, FreeGate
<1>5. ASSUME NEW b \in Bridges, NEW j \in Jobs, TryEnqueue(b, j) PROVE CancelOK'
  BY <1>5 DEF TryEnqueue, Hold
<1>6. ASSUME NEW b \in Bridges, NEW j \in Jobs, TryCancelPending(b, j) PROVE CancelOK'
  BY <1>6 DEF TryCancelPending, Hold
<1>7. ASSUME NEW b \in Bridges, NEW p \in Plans, GetStatus(b, p) PROVE CancelOK'
  BY <1>7 DEF GetStatus, memory
<1>8. ASSUME NEW b \in Bridges, RecordPending(b) PROVE CancelOK'
  <2>1. CASE Hold(b, "enqueue", gate[b].job, "answer")
    BY <1>8, <2>1 DEF RecordPending, Hold
  <2>2. CASE Release(b)
    BY <1>8, <2>2 DEF RecordPending, Release, FreeGate
  <2> QED
    BY <1>8, <2>1, <2>2 DEF RecordPending
<1>9. ASSUME NEW b \in Bridges, AcceptEnqueue(b) PROVE CancelOK'
  BY <1>9 DEF AcceptEnqueue, Release, FreeGate
<1>10. ASSUME NEW b \in Bridges, RecordCancelled(b) PROVE CancelOK'
  <2>1. CASE /\ cancelled' = cancelled \cup {gate[b].job}
             /\ Hold(b, "cancel", gate[b].job, "answer")
    BY <1>10, <2>1 DEF RecordCancelled, Hold
  <2>2. CASE Release(b) /\ UNCHANGED cancelled
    BY <1>10, <2>2 DEF RecordCancelled, Release, FreeGate
  <2> QED
    BY <1>10, <2>1, <2>2 DEF RecordCancelled
<1>11. ASSUME NEW b \in Bridges, AcceptCancel(b) PROVE CancelOK'
  BY <1>11 DEF AcceptCancel, Release, FreeGate
<1>12. ASSUME NEW b \in Bridges, TryStartNext(b) PROVE CancelOK'
  <2>1. CASE Startable(Head(pending[b])) /\ Hold(b, "start", Head(pending[b]), "write")
    BY <1>12, <2>1 DEF TryStartNext, Hold, Startable
  <2>2. CASE Refuse(b)
    BY <1>12, <2>2 DEF TryStartNext, Refuse, Release, FreeGate
  <2> QED
    BY <1>12, <2>1, <2>2 DEF TryStartNext
<1>13. ASSUME NEW b \in Bridges, RecordStarted(b) PROVE CancelOK'
  <2>1. CASE /\ started' = started \cup {gate[b].job}
             /\ Hold(b, "start", gate[b].job, "answer")
    BY <1>13, <2>1 DEF RecordStarted, Hold
  <2>2. CASE Refuse(b) /\ UNCHANGED started
    BY <1>13, <2>2 DEF RecordStarted, Refuse, Release, FreeGate
  <2> QED
    BY <1>13, <2>1, <2>2 DEF RecordStarted
<1>14. ASSUME NEW b \in Bridges, BeginRun(b) PROVE CancelOK'
  BY <1>14 DEF BeginRun, Release, FreeGate
<1>15. ASSUME NEW b \in Bridges,
             Plot(b) \/ CommitFirst(b) \/ CommitRest(b) \/ WriteReceipt(b)
      PROVE  CancelOK'
  <2>1. UNCHANGED <<started, cancelled, gate>>
    BY <1>15 DEF Plot, CommitFirst, CommitRest, WriteReceipt, disk
  <2> QED
    BY <2>1
<1>16. ASSUME NEW b \in Bridges, Complete(b) PROVE CancelOK'
  BY <1>16 DEF Complete
<1>17. ASSUME NEW j \in Touched, ChangeStagedFiles(j) PROVE CancelOK'
  BY <1>17 DEF ChangeStagedFiles, memory
<1>18. ASSUME NEW j \in Touched, AlterOutputs(j) PROVE CancelOK'
  BY <1>18 DEF AlterOutputs, memory
<1>19. CASE UNCHANGED vars
  BY <1>19 DEF vars
<1> QED
  BY <1>1, <1>2, <1>3, <1>4, <1>5, <1>6, <1>7, <1>8, <1>9, <1>10, <1>11, <1>12, <1>13, <1>14, <1>15, <1>16, <1>17, <1>18, <1>19, TouchedType
  DEF Next, PipeStep, WorkerStep

\* A plan that is on disk is never accepted for a second job.
LEMMA PlanStep ==
    ASSUME OneBridge, IndInv, PlanOK, [Next]_vars
    PROVE  PlanOK'
<1> USE DEF OneBridge, IndInv, PlanOK, TypeOK, GateOK, Gate,
            OneJobPerPlan, disk
<1>1. ASSUME NEW b \in Bridges, Recover(b) PROVE PlanOK'
  <2>1. \A j \in Jobs : RecoveredSnapshot(j).state # "absent"
    BY DEF RecoveredSnapshot, Snap
  <2>2. \A j \in request : Known(PlanOf[j]) /\ JobOfPlan(PlanOf[j]) \in Jobs
    BY DEF Known, JobOfPlan
  <2>3. ASSUME NEW j \in request PROVE states'[b][PlanOf[j]].state # "absent"
    BY <1>1, <2>1, <2>2, PlanOfType DEF Recover
  <2>4. gate[b].op = "free" /\ UNCHANGED <<request, gate>>
    BY <1>1 DEF Recover
  <2> QED
    BY <2>3, <2>4
<1>2. ASSUME NEW b \in Bridges, StartDisabled(b) PROVE PlanOK'
  BY <1>2 DEF StartDisabled
<1>3. ASSUME NEW b \in Bridges, StartAborted(b) PROVE PlanOK'
  BY <1>3 DEF StartAborted
<1>4. ASSUME NEW b \in Bridges, Exit(b) PROVE PlanOK'
  BY <1>4 DEF Exit, FreeGate
<1>5. ASSUME NEW b \in Bridges, NEW j \in Jobs, TryEnqueue(b, j) PROVE PlanOK'
  BY <1>5 DEF TryEnqueue, Hold, Serving
<1>6. ASSUME NEW b \in Bridges, NEW j \in Jobs, TryCancelPending(b, j) PROVE PlanOK'
  BY <1>6 DEF TryCancelPending, Hold, Serving
<1>7. ASSUME NEW b \in Bridges, NEW p \in Plans, GetStatus(b, p) PROVE PlanOK'
  BY <1>7 DEF GetStatus, memory
<1>8. ASSUME NEW b \in Bridges, RecordPending(b) PROVE PlanOK'
  <2>1. CASE /\ request' = request \cup {gate[b].job}
             /\ Hold(b, "enqueue", gate[b].job, "answer")
    <3>1. gate[b].job \in Jobs
      BY <1>8 DEF RecordPending
    <3>2. \A j \in request : PlanOf[j] # PlanOf[gate[b].job]
      <4>1. /\ states[b][PlanOf[gate[b].job]].state = "absent"
            /\ runtime[b] = "ready" /\ gate[b].step # "answer"
        BY <1>8 DEF RecordPending
      <4>2. \A j \in request : states[b][PlanOf[j]].state # "absent"
        BY <4>1
      <4> QED
        BY <4>1, <4>2
    <3>3. OneJobPerPlan'
      BY <2>1, <3>1, <3>2
    <3>4. /\ UNCHANGED <<states, runtime>>
          /\ \A c \in Bridges : c = b
          /\ gate'[b] = [op |-> "enqueue", job |-> gate[b].job, step |-> "answer"]
      BY <1>8, <2>1 DEF RecordPending, Hold
    <3> QED
      BY <1>8, <2>1, <3>3, <3>4 DEF RecordPending
  <2>2. CASE Release(b) /\ UNCHANGED request
    BY <1>8, <2>2 DEF RecordPending, Release, FreeGate
  <2> QED
    BY <1>8, <2>1, <2>2 DEF RecordPending
<1>9. ASSUME NEW b \in Bridges, AcceptEnqueue(b) PROVE PlanOK'
  BY <1>9, PlanOfType DEF AcceptEnqueue, Release, FreeGate, SetSnapshot, Snap
<1>10. ASSUME NEW b \in Bridges, RecordCancelled(b) PROVE PlanOK'
  <2>1. CASE Hold(b, "cancel", gate[b].job, "answer")
    BY <1>10, <2>1 DEF RecordCancelled, Hold
  <2>2. CASE Release(b)
    BY <1>10, <2>2 DEF RecordCancelled, Release, FreeGate
  <2> QED
    BY <1>10, <2>1, <2>2 DEF RecordCancelled
<1>11. ASSUME NEW b \in Bridges, AcceptCancel(b) PROVE PlanOK'
  BY <1>11 DEF AcceptCancel, Release, FreeGate, SetSnapshot, Snap
<1>12. ASSUME NEW b \in Bridges, TryStartNext(b) PROVE PlanOK'
  <2>1. CASE Hold(b, "start", Head(pending[b]), "write") /\ UNCHANGED states
    BY <1>12, <2>1 DEF TryStartNext, Hold, Serving
  <2>2. CASE Refuse(b)
    BY <1>12, <2>2 DEF TryStartNext, Refuse, Release, FreeGate, SetSnapshot, Snap, Serving
  <2> QED
    BY <1>12, <2>1, <2>2 DEF TryStartNext
<1>13. ASSUME NEW b \in Bridges, RecordStarted(b) PROVE PlanOK'
  <2>1. CASE Hold(b, "start", gate[b].job, "answer") /\ UNCHANGED states
    BY <1>13, <2>1 DEF RecordStarted, Hold
  <2>2. CASE Refuse(b)
    BY <1>13, <2>2 DEF RecordStarted, Refuse, Release, FreeGate, SetSnapshot, Snap
  <2> QED
    BY <1>13, <2>1, <2>2 DEF RecordStarted
<1>14. ASSUME NEW b \in Bridges, BeginRun(b) PROVE PlanOK'
  BY <1>14 DEF BeginRun, Release, FreeGate, SetSnapshot, Snap
<1>15. ASSUME NEW b \in Bridges,
             Plot(b) \/ CommitFirst(b) \/ CommitRest(b) \/ WriteReceipt(b)
      PROVE  PlanOK'
  <2>1. UNCHANGED <<request, gate, states, runtime>>
    BY <1>15 DEF Plot, CommitFirst, CommitRest, WriteReceipt, disk
  <2> QED
    BY <2>1
<1>16. ASSUME NEW b \in Bridges, Complete(b) PROVE PlanOK'
  BY <1>16 DEF Complete, Serving, SetSnapshot, Snap
<1>17. ASSUME NEW j \in Touched, ChangeStagedFiles(j) PROVE PlanOK'
  BY <1>17 DEF ChangeStagedFiles, memory
<1>18. ASSUME NEW j \in Touched, AlterOutputs(j) PROVE PlanOK'
  BY <1>18 DEF AlterOutputs, memory
<1>19. CASE UNCHANGED vars
  BY <1>19 DEF vars
<1> QED
  BY <1>1, <1>2, <1>3, <1>4, <1>5, <1>6, <1>7, <1>8, <1>9, <1>10, <1>11, <1>12, <1>13, <1>14, <1>15, <1>16, <1>17, <1>18, <1>19, TouchedType
  DEF Next, PipeStep, WorkerStep

\* With one bridge, CancelOK and PlanOK join the invariant.
LEMMA OneBridgeInductive ==
    OneBridge => (Spec => [](CancelOK /\ PlanOK))
<1> SUFFICES ASSUME OneBridge PROVE Spec => [](CancelOK /\ PlanOK)
  OBVIOUS
<1>1. Init => CancelOK /\ PlanOK
  BY DEF Init, CancelOK, PlanOK, CancelledNeverStarts, OneJobPerPlan, FreeGate
<1>2. IndInv /\ CancelOK /\ PlanOK /\ [Next]_vars => CancelOK' /\ PlanOK'
  BY CancelStep, PlanStep
<1> QED
  BY <1>1, <1>2, Inductive, PTL DEF Spec

\* With one bridge, a job is cancelled or started, never both, across crashes and
\* restarts.
THEOREM OneBridgeSafe ==
    OneBridge => (Spec => []CancelledNeverStarts)
<1> SUFFICES ASSUME OneBridge PROVE Spec => []CancelledNeverStarts
  OBVIOUS
<1>1. CancelOK /\ PlanOK => CancelledNeverStarts
  BY DEF CancelOK
<1> QED
  BY <1>1, OneBridgeInductive, PTL

\* With one bridge, a plan is accepted for one job directory only, across crashes
\* and restarts.
THEOREM OneBridgeOnePlan ==
    OneBridge => (Spec => []OneJobPerPlan)
<1> SUFFICES ASSUME OneBridge PROVE Spec => []OneJobPerPlan
  OBVIOUS
<1>1. CancelOK /\ PlanOK => OneJobPerPlan
  BY DEF PlanOK
<1> QED
  BY <1>1, OneBridgeInductive, PTL

(***************************************************************************)
(* Queues of distinct jobs.                                                *)
(***************************************************************************)
JobsIn(q) == {q[i] : i \in DOMAIN q}
Distinct(q) == \A i, k \in DOMAIN q : q[i] = q[k] => i = k

\* A job that is accepted joins the end of the queue (AcceptEnqueue).
LEMMA AppendQueue ==
    ASSUME NEW q \in Seq(Jobs), NEW j \in Jobs, Distinct(q), j \notin JobsIn(q)
    PROVE  Distinct(Append(q, j)) /\ JobsIn(Append(q, j)) = JobsIn(q) \cup {j}
<1>1. /\ DOMAIN Append(q, j) = 1 .. Len(q) + 1
      /\ \A i \in 1 .. Len(q) : Append(q, j)[i] = q[i]
      /\ Append(q, j)[Len(q) + 1] = j
  OBVIOUS
<1>2. DOMAIN q = 1 .. Len(q) /\ Len(q) \in Nat
  OBVIOUS
<1> QED
  BY <1>1, <1>2 DEF Distinct, JobsIn

\* The head leaves the queue (Dequeue).
LEMMA TailQueue ==
    ASSUME NEW q \in Seq(Jobs), q # <<>>, Distinct(q)
    PROVE  Distinct(Tail(q)) /\ JobsIn(Tail(q)) = JobsIn(q) \ {Head(q)}
<1>1. /\ DOMAIN Tail(q) = 1 .. Len(q) - 1
      /\ \A i \in 1 .. Len(q) - 1 : Tail(q)[i] = q[i + 1]
      /\ Head(q) = q[1]
  OBVIOUS
<1>2. DOMAIN q = 1 .. Len(q) /\ Len(q) \in Nat /\ Len(q) >= 1
  OBVIOUS
<1>3. Distinct(Tail(q))
  BY <1>1, <1>2 DEF Distinct
<1>4. ASSUME NEW j \in JobsIn(q), j # Head(q) PROVE j \in JobsIn(Tail(q))
  <2>1. PICK i \in 2 .. Len(q) : q[i] = j
    BY <1>1, <1>2, <1>4 DEF JobsIn
  <2>2. i - 1 \in DOMAIN Tail(q) /\ Tail(q)[i - 1] = j
    BY <1>1, <1>2, <2>1
  <2> QED
    BY <2>2 DEF JobsIn
<1>5. ASSUME NEW j \in JobsIn(Tail(q)) PROVE j \in JobsIn(q) \ {Head(q)}
  BY <1>1, <1>2, <1>5 DEF JobsIn, Distinct
<1> QED
  BY <1>3, <1>4, <1>5

\* A part of a queue.
LEMMA PartOfQueue ==
    ASSUME NEW S, NEW q \in Seq(S), NEW m \in 1 .. Len(q) + 1, NEW n \in 0 .. Len(q), m <= n + 1
    PROVE  /\ SubSeq(q, m, n) \in Seq(S) /\ Len(SubSeq(q, m, n)) = n - m + 1
           /\ \A k \in 1 .. n - m + 1 : SubSeq(q, m, n)[k] = q[m + k - 1]
OBVIOUS

\* A cancelled job leaves the queue and the others stay (AcceptCancel).
LEMMA WithoutQueue ==
    ASSUME NEW q \in Seq(Jobs), NEW j \in JobsIn(q), Distinct(q)
    PROVE  Distinct(Without(q, j)) /\ JobsIn(Without(q, j)) = JobsIn(q) \ {j}
<1> DEFINE i == CHOOSE k \in DOMAIN q : q[k] = j
           r == SubSeq(q, 1, i - 1) \o SubSeq(q, i + 1, Len(q))
<1>1. i \in 1 .. Len(q) /\ q[i] = j /\ DOMAIN q = 1 .. Len(q) /\ Len(q) \in Nat
  BY DEF JobsIn
<1> HIDE DEF i, r
<1>2. /\ DOMAIN r = 1 .. Len(q) - 1
      /\ \A k \in 1 .. Len(q) - 1 : r[k] = IF k < i THEN q[k] ELSE q[k + 1]
  <2> DEFINE s == SubSeq(q, 1, i - 1)
             t == SubSeq(q, i + 1, Len(q))
  <2>1. /\ s \in Seq(Jobs) /\ Len(s) = i - 1
        /\ \A k \in 1 .. i - 1 : s[k] = q[1 + k - 1]
    <3>1. 1 \in 1 .. Len(q) + 1 /\ i - 1 \in 0 .. Len(q) /\ 1 <= (i - 1) + 1
      BY <1>1
    <3>2. /\ s \in Seq(Jobs) /\ Len(s) = (i - 1) - 1 + 1
          /\ \A k \in 1 .. (i - 1) - 1 + 1 : s[k] = q[1 + k - 1]
      BY <3>1, PartOfQueue
    <3> HIDE DEF s
    <3>3. (i - 1) - 1 + 1 = i - 1
      BY <1>1
    <3> QED
      BY <3>2, <3>3
  <2>2. /\ t \in Seq(Jobs) /\ Len(t) = Len(q) - i
        /\ \A k \in 1 .. Len(q) - i : t[k] = q[i + 1 + k - 1]
    <3>1. i + 1 \in 1 .. Len(q) + 1 /\ Len(q) \in 0 .. Len(q) /\ i + 1 <= Len(q) + 1
      BY <1>1
    <3>2. /\ t \in Seq(Jobs) /\ Len(t) = Len(q) - (i + 1) + 1
          /\ \A k \in 1 .. Len(q) - (i + 1) + 1 : t[k] = q[i + 1 + k - 1]
      BY <3>1, PartOfQueue
    <3> HIDE DEF t
    <3>3. Len(q) - (i + 1) + 1 = Len(q) - i
      BY <1>1
    <3> QED
      BY <3>2, <3>3
  <2> HIDE DEF s, t
  <2>3. /\ s \o t \in Seq(Jobs) /\ Len(s \o t) = Len(q) - 1
        /\ \A k \in 1 .. Len(q) - 1 :
              (s \o t)[k] = IF k < i THEN s[k] ELSE t[k - (i - 1)]
    <3>1. /\ s \o t \in Seq(Jobs) /\ Len(s \o t) = Len(s) + Len(t)
          /\ \A k \in 1 .. Len(s) + Len(t) :
                (s \o t)[k] = IF k <= Len(s) THEN s[k] ELSE t[k - Len(s)]
      BY <2>1, <2>2, ConcatProperties
    <3>2. Len(s) + Len(t) = Len(q) - 1 /\ \A k \in Nat : k <= Len(s) <=> k < i
      BY <1>1, <2>1, <2>2
    <3> QED
      BY <2>1, <3>1, <3>2
  <2>4. \A k \in i .. Len(q) - 1 : t[k - (i - 1)] = q[k + 1]
    BY <1>1, <2>2
  <2>5. r = s \o t
    BY DEF r, s, t
  <2>6. DOMAIN (s \o t) = 1 .. Len(q) - 1
    BY <2>3
  <2>7. ASSUME NEW k \in 1 .. Len(q) - 1
        PROVE  (s \o t)[k] = IF k < i THEN q[k] ELSE q[k + 1]
    <3>1. CASE k < i
      BY <1>1, <2>1, <2>3, <3>1
    <3>2. CASE ~(k < i)
      <4>1. k \in i .. Len(q) - 1
        BY <1>1, <3>2
      <4> QED
        BY <2>3, <2>4, <3>2, <4>1
    <3> QED
      BY <3>1, <3>2
  <2> QED
    BY <2>5, <2>6, <2>7
<1>3. r = Without(q, j)
  BY DEF Without, i, r
<1>4. Distinct(r)
  BY <1>1, <1>2 DEF Distinct
<1>5. ASSUME NEW h \in JobsIn(q), h # j PROVE h \in JobsIn(r)
  <2>1. PICK k \in 1 .. Len(q) : q[k] = h
    BY <1>1 DEF JobsIn
  <2>2. CASE k < i
    BY <1>1, <1>2, <2>1, <2>2 DEF JobsIn
  <2>3. CASE k > i
    <3>1. k - 1 \in DOMAIN r /\ r[k - 1] = h
      BY <1>1, <1>2, <2>1, <2>3
    <3> QED
      BY <3>1 DEF JobsIn
  <2> QED
    BY <1>1, <1>5, <2>1, <2>2, <2>3
<1>6. ASSUME NEW h \in JobsIn(r) PROVE h \in JobsIn(q) \ {j}
  BY <1>1, <1>2, <1>6 DEF JobsIn, Distinct
<1> QED
  BY <1>3, <1>4, <1>5, <1>6

\* A directory scan lists every waiting job once, whatever its order (Recover).
LEMMA ScanQueue ==
    ASSUME NEW S \in SUBSET Jobs, NEW q \in ScanOrders(S)
    PROVE  Distinct(q) /\ JobsIn(q) = S
<1> DEFINE n == Cardinality(S)
<1>1. IsFiniteSet(S) /\ n \in Nat
  BY JobsFinite, FS_Subset, FS_CardinalityType
<1>2. q \in [1 .. n -> S] /\ Distinct(q)
  BY DEF ScanOrders, Distinct
<1>3. q \in Injection(1 .. n, S)
  BY <1>2 DEF Injection, IsInjective, Distinct
<1>4. Cardinality(1 .. n) = n
  <2> HIDE DEF n
  <2> QED
    BY <1>1, FS_Interval
<1>5. q \in Surjection(1 .. n, S)
  BY <1>1, <1>3, <1>4, FS_Injection
<1> QED
  BY <1>2, <1>5 DEF Surjection, JobsIn

(***************************************************************************)
(* A step belongs to one bridge, or to the world outside.                  *)
(***************************************************************************)
BridgeStep(b) ==
    \/ Recover(b) \/ StartDisabled(b) \/ StartAborted(b) \/ Exit(b)
    \/ \E j \in Jobs : TryEnqueue(b, j) \/ TryCancelPending(b, j)
    \/ \E p \in Plans : GetStatus(b, p)
    \/ PipeStep(b) \/ WorkerStep(b)

OutsideStep == \E j \in Touched : ChangeStagedFiles(j) \/ AlterOutputs(j)

\* The memory of a bridge stays as it is.
SameMemory(c) ==
    /\ runtime'[c] = runtime[c] /\ pending'[c] = pending[c]
    /\ states'[c] = states[c] /\ manifestOf'[c] = manifestOf[c]
    /\ gate'[c] = gate[c] /\ worker'[c] = worker[c]

\* Bridges share files only: a step of one leaves the memory of the others.
LEMMA MemoryIsPrivate ==
    ASSUME TypeOK, NEW b \in Bridges, NEW c \in Bridges, c # b, BridgeStep(b)
    PROVE  SameMemory(c)
<1> USE DEF TypeOK, SameMemory
<1>1. CASE Recover(b) \/ StartDisabled(b) \/ StartAborted(b) \/ Exit(b)
  BY <1>1 DEF Recover, StartDisabled, StartAborted, Exit
<1>2. ASSUME NEW j \in Jobs, TryEnqueue(b, j) \/ TryCancelPending(b, j)
      PROVE  SameMemory(c)
  BY <1>2 DEF TryEnqueue, TryCancelPending, Hold
<1>3. ASSUME NEW p \in Plans, GetStatus(b, p) PROVE SameMemory(c)
  BY <1>3 DEF GetStatus, memory
<1>4. CASE RecordPending(b) \/ RecordCancelled(b)
  BY <1>4 DEF RecordPending, RecordCancelled, Hold, Release
<1>5. CASE AcceptEnqueue(b) \/ AcceptCancel(b)
  BY <1>5 DEF AcceptEnqueue, AcceptCancel, SetSnapshot, Release
<1>6. CASE TryStartNext(b)
  BY <1>6 DEF TryStartNext, Hold, Refuse, Dequeue, SetSnapshot, Release
<1>7. CASE RecordStarted(b)
  BY <1>7 DEF RecordStarted, Hold, Refuse, Dequeue, SetSnapshot, Release
<1>8. CASE BeginRun(b)
  BY <1>8 DEF BeginRun, Dequeue, SetSnapshot, Release
<1>9. CASE Plot(b) \/ CommitFirst(b) \/ CommitRest(b) \/ WriteReceipt(b)
  BY <1>9, ExecMoves DEF WorkerMoves, Advance
<1>10. CASE Complete(b)
  BY <1>10 DEF Complete, SetSnapshot
<1> QED
  BY <1>1, <1>2, <1>3, <1>4, <1>5, <1>6, <1>7, <1>8, <1>9, <1>10
  DEF BridgeStep, PipeStep, WorkerStep

\* Every step is one of these, or nothing happens.
LEMMA StepKinds ==
    ASSUME [Next]_vars
    PROVE  (\E b \in Bridges : BridgeStep(b)) \/ OutsideStep \/ UNCHANGED vars
BY DEF Next, BridgeStep, OutsideStep

\* What other programs do to the files leaves the memory of every bridge.
LEMMA OutsideKeepsMemory ==
    ASSUME OutsideStep \/ UNCHANGED vars
    PROVE  \A c \in Bridges : SameMemory(c)
BY DEF OutsideStep, ChangeStagedFiles, AlterOutputs, SameMemory, memory, vars

(***************************************************************************)
(* The queue agrees with the snapshots.                                    *)
(***************************************************************************)
\* In the memory of a bridge a plan is Pending exactly while its job waits, the
\* job being run is the Running one of its plan, and a plan that is being
\* accepted is not known yet.
MemoryOf(b) ==
    /\ Distinct(pending[b])
    /\ \A p \in Plans :
          states[b][p].state = "Pending" <=> manifestOf[b][p] \in JobsIn(pending[b])
    /\ \A j \in JobsIn(pending[b]) : manifestOf[b][PlanOf[j]] = j
    /\ \A p \in Plans : manifestOf[b][p] # NoJob => PlanOf[manifestOf[b][p]] = p
    /\ worker[b].job # NoJob =>
          /\ states[b][PlanOf[worker[b].job]].state = "Running"
          /\ manifestOf[b][PlanOf[worker[b].job]] = worker[b].job
    /\ gate[b].op = "enqueue" => states[b][PlanOf[gate[b].job]].state = "absent"

MemoryOK == \A b \in Bridges : MemoryOf(b)

\* Recovery fills the queue with the jobs it reports as Pending.
LEMMA RecoverMemory ==
    ASSUME IndInv, NEW b \in Bridges, Recover(b)
    PROVE  MemoryOf(b)'
<1> USE DEF TypeOK, IndInv
<1>1. Distinct(pending'[b]) /\ JobsIn(pending'[b]) = Queued
  <2>1. Queued \subseteq Jobs
    BY DEF Queued
  <2>2. PICK q \in ScanOrders(Queued) : pending' = [pending EXCEPT ![b] = q]
    BY DEF Recover
  <2>3. pending'[b] = q
    BY <2>2
  <2> QED
    BY <2>1, <2>3, ScanQueue
<1>2. \A i, j \in request : PlanOf[i] = PlanOf[j] => i = j
  BY DEF Recover, RecoveryConflict
<1>3. \A j \in request : Known(PlanOf[j]) /\ JobOfPlan(PlanOf[j]) = j
  BY <1>2 DEF Known, JobOfPlan
<1>4. \A p \in Plans : Known(p) => JobOfPlan(p) \in request /\ PlanOf[JobOfPlan(p)] = p
  BY DEF Known, JobOfPlan
<1>5. \A j \in request : RecoveredSnapshot(j).state = "Pending" <=> j \in Queued
  BY DEF RecoveredSnapshot, Queued, Snap
<1>6. /\ \A p \in Plans : Known(p) =>
            /\ states'[b][p] = RecoveredSnapshot(JobOfPlan(p))
            /\ manifestOf'[b][p] = JobOfPlan(p)
      /\ \A p \in Plans : ~Known(p) =>
            states'[b][p] = Absent /\ manifestOf'[b][p] = NoJob
  BY DEF Recover
<1>7. Queued \subseteq request /\ NoJob \notin Queued /\ request \subseteq Jobs
  BY NoJobFresh DEF Queued
<1>8. worker'[b].job = NoJob /\ gate'[b].op = "free"
  BY DEF Recover, WorkerOK, GateOK, Worker, Gate
<1>9. \A p \in Plans :
        states'[b][p].state = "Pending" <=> manifestOf'[b][p] \in JobsIn(pending'[b])
  <2> SUFFICES ASSUME NEW p \in Plans
               PROVE  states'[b][p].state = "Pending" <=> manifestOf'[b][p] \in Queued
    BY <1>1
  <2>1. CASE Known(p)
    BY <1>4, <1>5, <1>6, <2>1
  <2>2. CASE ~Known(p)
    BY <1>6, <1>7, <2>2 DEF Absent
  <2> QED
    BY <2>1, <2>2
<1>10. \A j \in JobsIn(pending'[b]) : manifestOf'[b][PlanOf[j]] = j
  <2> SUFFICES ASSUME NEW j \in Queued PROVE manifestOf'[b][PlanOf[j]] = j
    BY <1>1
  <2>1. j \in request /\ PlanOf[j] \in Plans
    BY <1>7, PlanOfType
  <2> QED
    BY <1>3, <1>6, <2>1
<1>11. \A p \in Plans : manifestOf'[b][p] # NoJob => PlanOf[manifestOf'[b][p]] = p
  BY <1>4, <1>6
<1> QED
  BY <1>1, <1>8, <1>9, <1>10, <1>11 DEF MemoryOf

\* A job that leaves the queue takes its plan out of Pending; the other plans and
\* the running job, which has a plan of its own, stay as they are (Refuse,
\* AcceptCancel, BeginRun).
LEMMA LeaveQueue ==
    ASSUME TypeOK, NEW b \in Bridges, MemoryOf(b), NEW j \in JobsIn(pending[b]),
           NEW s \in JobStates \ {"Pending"}, NEW e \in Errors,
           Distinct(pending'[b]), JobsIn(pending'[b]) = JobsIn(pending[b]) \ {j},
           states'[b] = [states[b] EXCEPT ![PlanOf[j]] = Snap(s, e)],
           manifestOf'[b] = manifestOf[b],
           worker'[b].job = worker[b].job \/ (worker'[b].job = j /\ s = "Running"),
           gate'[b].op = "free"
    PROVE  MemoryOf(b)'
<1>1. JobsIn(pending[b]) \subseteq Jobs
  BY DEF TypeOK, JobsIn
<1>2. /\ PlanOf[j] \in Plans
      /\ states[b] \in [Plans -> Snapshot]
      /\ manifestOf[b] \in [Plans -> Jobs \cup {NoJob}]
      /\ worker[b].job \in Jobs \cup {NoJob}
  BY <1>1, PlanOfType DEF TypeOK, Worker
<1>3. \A p \in Plans : states'[b][p] = IF p = PlanOf[j] THEN Snap(s, e) ELSE states[b][p]
  BY <1>2
<1>4. manifestOf[b][PlanOf[j]] = j /\ states[b][PlanOf[j]].state = "Pending"
  BY <1>1, <1>2 DEF MemoryOf
<1>5. ASSUME NEW p \in Plans
      PROVE  states'[b][p].state = "Pending" <=> manifestOf'[b][p] \in JobsIn(pending'[b])
  <2>1. CASE p = PlanOf[j]
    BY <1>3, <1>4, <2>1 DEF Snap
  <2>2. CASE p # PlanOf[j]
    <3>1. manifestOf[b][p] # j
      BY <1>1, <2>2, NoJobFresh DEF MemoryOf
    <3> QED
      BY <1>3, <2>2, <3>1 DEF MemoryOf
  <2> QED
    BY <2>1, <2>2
<1>6. ASSUME worker'[b].job # NoJob
      PROVE  /\ states'[b][PlanOf[worker'[b].job]].state = "Running"
             /\ manifestOf'[b][PlanOf[worker'[b].job]] = worker'[b].job
  <2>1. CASE worker'[b].job = j /\ s = "Running"
    BY <1>2, <1>3, <1>4, <2>1 DEF Snap
  <2>2. CASE worker'[b].job = worker[b].job
    <3>1. PlanOf[worker[b].job] \in Plans /\ PlanOf[worker[b].job] # PlanOf[j]
      BY <1>2, <1>4, <1>6, <2>2, PlanOfType DEF MemoryOf
    <3> QED
      BY <1>3, <1>6, <2>2, <3>1 DEF MemoryOf
  <2> QED
    BY <2>1, <2>2
<1> QED
  BY <1>5, <1>6 DEF MemoryOf

\* A job that is refused, started or completed leaves the states it was in
\* together with the queue or the worker.
LEMMA MemoryStep ==
    ASSUME IndInv, MemoryOK, [Next]_vars
    PROVE  MemoryOK'
<1> USE DEF IndInv, TypeOK, GateOK, Gate, Worker
<1>1. ASSUME NEW b \in Bridges, SameMemory(b) PROVE MemoryOf(b)'
  BY <1>1 DEF MemoryOK, MemoryOf, SameMemory
<1>2. ASSUME NEW b \in Bridges, pending[b] # <<>>, Refuse(b), worker[b].step = "idle",
             UNCHANGED <<manifestOf, worker>>
      PROVE  MemoryOf(b)'
  <2> DEFINE j == Head(pending[b])
  <2>1. j \in Jobs /\ j \in JobsIn(pending[b])
    BY <1>2 DEF JobsIn
  <2>2. Distinct(pending'[b]) /\ JobsIn(pending'[b]) = JobsIn(pending[b]) \ {j}
    BY <1>2, TailQueue DEF Refuse, Dequeue, MemoryOK, MemoryOf
  <2>3. states'[b] = [states[b] EXCEPT ![PlanOf[j]] = Snap("Failed", "start_refused")]
    BY <1>2, <2>1 DEF Refuse, SetSnapshot
  <2>4. gate'[b].op = "free" /\ worker'[b] = worker[b] /\ manifestOf'[b] = manifestOf[b]
    BY <1>2 DEF Refuse, Release, FreeGate
  <2> HIDE DEF j, IndInv, TypeOK, GateOK, Gate, Worker
  <2> QED
    <3>1. TypeOK /\ MemoryOf(b)
      BY DEF IndInv, MemoryOK
    <3> QED
      BY <2>1, <2>2, <2>3, <2>4, <3>1, LeaveQueue DEF JobStates, Errors
<1>3. ASSUME NEW b \in Bridges, Exit(b) PROVE MemoryOf(b)'
  BY <1>3, NoJobFresh DEF Exit, MemoryOf, FreeGate, IdleWorker, Absent, JobsIn, Distinct
<1>4. ASSUME NEW b \in Bridges, NEW j \in Jobs, TryEnqueue(b, j) PROVE MemoryOf(b)'
  BY <1>4 DEF TryEnqueue, Hold, MemoryOK, MemoryOf
<1>5. ASSUME NEW b \in Bridges, NEW j \in Jobs, TryCancelPending(b, j) PROVE MemoryOf(b)'
  BY <1>5 DEF TryCancelPending, Hold, MemoryOK, MemoryOf
<1>6. ASSUME NEW b \in Bridges, NEW p \in Plans, GetStatus(b, p) PROVE MemoryOf(b)'
  BY <1>6, <1>1 DEF GetStatus, memory, SameMemory
<1>7. ASSUME NEW b \in Bridges, RecordPending(b) PROVE MemoryOf(b)'
  <2>1. gate'[b].op = "enqueue" => gate[b].op = "enqueue" /\ gate'[b].job = gate[b].job
    BY <1>7 DEF RecordPending, Hold, Release, FreeGate
  <2> QED
    BY <1>7, <2>1 DEF RecordPending, MemoryOK, MemoryOf
<1>8. ASSUME NEW b \in Bridges, RecordCancelled(b) PROVE MemoryOf(b)'
  <2>1. gate'[b].op # "enqueue"
    BY <1>8 DEF RecordCancelled, Hold, Release, FreeGate
  <2> QED
    BY <1>8, <2>1 DEF RecordCancelled, MemoryOK, MemoryOf
<1>9. ASSUME NEW b \in Bridges, AcceptEnqueue(b) PROVE MemoryOf(b)'
  <2> DEFINE j == gate[b].job
  <2> USE PlanOfType
  <2>1. j \in Jobs /\ states[b][PlanOf[j]].state = "absent"
    BY <1>9 DEF AcceptEnqueue, MemoryOK, MemoryOf
  <2>2. PlanOf[j] \in Plans /\ manifestOf[b][PlanOf[j]] = NoJob
    <3>1. PlanOf[j] \in Plans
      BY <2>1, PlanOfType
    <3> HIDE DEF j
    <3> QED
      BY <2>1, <3>1 DEF SnapshotOK
  <2>3. j \notin JobsIn(pending[b])
    BY <2>1, <2>2, NoJobFresh DEF MemoryOK, MemoryOf
  <2>4. Distinct(pending'[b]) /\ JobsIn(pending'[b]) = JobsIn(pending[b]) \cup {j}
    BY <1>9, <2>1, <2>3, AppendQueue DEF AcceptEnqueue, MemoryOK, MemoryOf
  <2>5. /\ states'[b] = [states[b] EXCEPT ![PlanOf[j]] = Snap("Pending", "none")]
        /\ manifestOf'[b] = [manifestOf[b] EXCEPT ![PlanOf[j]] = j]
        /\ worker'[b] = worker[b]
        /\ gate'[b].op = "free"
    BY <1>9, <2>1 DEF AcceptEnqueue, SetSnapshot, Release, FreeGate
  <2> HIDE DEF j, IndInv, TypeOK, GateOK, Gate, Worker
  <2>6. /\ MemoryOf(b) /\ pending[b] \in Seq(Jobs)
        /\ states[b] \in [Plans -> Snapshot] /\ manifestOf[b] \in [Plans -> Jobs \cup {NoJob}]
        /\ worker[b].job \in Jobs \cup {NoJob}
    BY DEF MemoryOK, IndInv, TypeOK, Worker
  <2>7. /\ \A p \in Plans : states'[b][p] =
              IF p = PlanOf[j] THEN Snap("Pending", "none") ELSE states[b][p]
        /\ \A p \in Plans : manifestOf'[b][p] =
              IF p = PlanOf[j] THEN j ELSE manifestOf[b][p]
    BY <2>5, <2>6
  <2>8. \A p \in Plans : p # PlanOf[j] => manifestOf[b][p] # j
    BY <2>1, <2>6, NoJobFresh DEF MemoryOf
  <2>9. ASSUME NEW p \in Plans
        PROVE  states'[b][p].state = "Pending" <=> manifestOf'[b][p] \in JobsIn(pending'[b])
    BY <2>4, <2>6, <2>7, <2>8 DEF MemoryOf, Snap
  <2>10. \A h \in JobsIn(pending'[b]) : manifestOf'[b][PlanOf[h]] = h
    <3>1. \A h \in JobsIn(pending[b]) : h \in Jobs /\ PlanOf[h] \in Plans
      BY <2>6 DEF JobsIn
    <3>2. \A h \in JobsIn(pending[b]) : PlanOf[h] # PlanOf[j] /\ manifestOf[b][PlanOf[h]] = h
      BY <2>2, <2>6, <3>1, NoJobFresh DEF MemoryOf
    <3> QED
      BY <2>2, <2>4, <2>7, <3>1, <3>2
  <2>11. worker[b].job # NoJob =>
            PlanOf[worker[b].job] \in Plans /\ PlanOf[worker[b].job] # PlanOf[j]
    BY <2>1, <2>6, PlanOfType DEF MemoryOf
  <2>12. \A p \in Plans : manifestOf'[b][p] # NoJob => PlanOf[manifestOf'[b][p]] = p
    BY <2>6, <2>7 DEF MemoryOf
  <2> QED
    BY <2>4, <2>5, <2>6, <2>7, <2>9, <2>10, <2>11, <2>12 DEF MemoryOf
<1>10. ASSUME NEW b \in Bridges, AcceptCancel(b) PROVE MemoryOf(b)'
  <2> DEFINE j == gate[b].job
  <2>1. j \in Jobs /\ j \in JobsIn(pending[b])
    BY <1>10 DEF AcceptCancel, JobsIn
  <2>2. Distinct(pending'[b]) /\ JobsIn(pending'[b]) = JobsIn(pending[b]) \ {j}
    BY <1>10, <2>1, WithoutQueue DEF AcceptCancel, MemoryOK, MemoryOf
  <2>3. /\ states'[b] = [states[b] EXCEPT ![PlanOf[j]] = Snap("Cancelled", "none")]
        /\ manifestOf'[b] = manifestOf[b]
        /\ worker'[b] = worker[b]
        /\ gate'[b].op = "free"
    BY <1>10, <2>1 DEF AcceptCancel, SetSnapshot, Release, FreeGate
  <2> HIDE DEF j, IndInv, TypeOK, GateOK, Gate, Worker
  <2> QED
    <3>1. TypeOK /\ MemoryOf(b)
      BY DEF IndInv, MemoryOK
    <3> QED
      BY <2>1, <2>2, <2>3, <3>1, LeaveQueue DEF JobStates, Errors
<1>11. ASSUME NEW b \in Bridges, TryStartNext(b) PROVE MemoryOf(b)'
  <2>1. CASE Refuse(b)
    BY <1>2, <1>11, <2>1 DEF TryStartNext
  <2>2. CASE ~Refuse(b)
    <3>1. gate'[b].op = "start" /\ UNCHANGED <<pending, states, manifestOf, worker>>
      BY <1>11, <2>2 DEF TryStartNext, Hold
    <3> QED
      BY <3>1 DEF MemoryOK, MemoryOf
  <2> QED
    BY <2>1, <2>2
<1>12. ASSUME NEW b \in Bridges, RecordStarted(b) PROVE MemoryOf(b)'
  <2>1. CASE Refuse(b)
    BY <1>2, <1>12, <2>1 DEF RecordStarted
  <2>2. CASE ~Refuse(b)
    <3>1. gate'[b].op = "start" /\ UNCHANGED <<pending, states, manifestOf, worker>>
      BY <1>12, <2>2 DEF RecordStarted, Hold
    <3> QED
      BY <3>1 DEF MemoryOK, MemoryOf
  <2> QED
    BY <2>1, <2>2
<1>13. ASSUME NEW b \in Bridges, BeginRun(b) PROVE MemoryOf(b)'
  <2> DEFINE j == gate[b].job
  <2>1. j \in Jobs /\ j \in JobsIn(pending[b]) /\ pending[b] # <<>> /\ j = Head(pending[b])
    BY <1>13 DEF BeginRun, JobsIn
  <2>2. Distinct(pending'[b]) /\ JobsIn(pending'[b]) = JobsIn(pending[b]) \ {j}
    BY <1>13, <2>1, TailQueue DEF BeginRun, Dequeue, MemoryOK, MemoryOf
  <2>3. /\ states'[b] = [states[b] EXCEPT ![PlanOf[j]] = Snap("Running", "none")]
        /\ manifestOf'[b] = manifestOf[b]
        /\ worker'[b].job = j
        /\ gate'[b].op = "free"
    BY <1>13, <2>1 DEF BeginRun, SetSnapshot, Release, FreeGate
  <2> HIDE DEF j, IndInv, TypeOK, GateOK, Gate, Worker
  <2> QED
    <3>1. TypeOK /\ MemoryOf(b)
      BY DEF IndInv, MemoryOK
    <3> QED
      BY <2>1, <2>2, <2>3, <3>1, LeaveQueue DEF JobStates, Errors
<1>14. ASSUME NEW b \in Bridges, WorkerMoves(b) PROVE MemoryOf(b)'
  <2>1. worker'[b].job = worker[b].job
    BY <1>14 DEF WorkerMoves, Advance
  <2> QED
    BY <1>14, <2>1 DEF WorkerMoves, MemoryOK, MemoryOf
<1>15. ASSUME NEW b \in Bridges, Complete(b) PROVE MemoryOf(b)'
  <2> DEFINE j == worker[b].job
  <2>1. j \in Jobs
    BY <1>15 DEF Complete, WorkerAt, WorkerOK
  <2>2. PICK s \in {"Succeeded", "Failed"}, e \in Errors : SetSnapshot(b, j, Snap(s, e))
    BY <1>15 DEF Complete, Errors
  <2>3. /\ states'[b] = [states[b] EXCEPT ![PlanOf[j]] = Snap(s, e)]
        /\ manifestOf'[b] = manifestOf[b] /\ pending'[b] = pending[b]
        /\ worker'[b].job = NoJob
        /\ gate'[b].op = "free"
    BY <1>15, <2>1, <2>2 DEF Complete, SetSnapshot, IdleWorker, Serving
  <2> HIDE DEF j, IndInv, TypeOK, GateOK, Gate, Worker
  <2>4. j # NoJob /\ states[b][PlanOf[j]].state = "Running" /\ manifestOf[b][PlanOf[j]] = j
    BY <2>1, NoJobFresh DEF MemoryOK, MemoryOf, j
  <2> QED
    BY <2>1, <2>3, <2>4 DEF MemoryOK, MemoryOf, Snap
<1>16. ASSUME NEW b \in Bridges, StartDisabled(b) \/ StartAborted(b) PROVE MemoryOf(b)'
  BY <1>16 DEF StartDisabled, StartAborted, MemoryOK, MemoryOf
<1>17. ASSUME NEW b \in Bridges, BridgeStep(b) PROVE MemoryOK'
  <2>1. MemoryOf(b)'
    BY <1>3, <1>4, <1>5, <1>6, <1>7, <1>8, <1>9, <1>10, <1>11, <1>12, <1>13, <1>14,
       <1>15, <1>16, <1>17, RecoverMemory, ExecMoves DEF BridgeStep, PipeStep, WorkerStep
  <2> QED
    BY <1>1, <1>17, <2>1, MemoryIsPrivate DEF MemoryOK
<1> QED
  BY <1>1, <1>17, StepKinds, OutsideKeepsMemory DEF MemoryOK

(***************************************************************************)
(* What is answered is on disk.                                            *)
(***************************************************************************)
\* The marker files bear out that job j is in state s.
OnDisk(j, s) ==
    /\ j \in request
    /\ s = "Cancelled" => j \in cancelled
    /\ s = "Running" => j \in started
    /\ s = "Succeeded" => receipt[j].state = "succeeded"

\* What a bridge remembers, is about to answer or is about to complete is on disk.
DiskOf(b) ==
    /\ \A p \in Plans :
          manifestOf[b][p] # NoJob => OnDisk(manifestOf[b][p], states[b][p].state)
    /\ gate[b].step = "answer" =>
          /\ gate[b].op = "enqueue" => gate[b].job \in request
          /\ gate[b].op = "cancel" => gate[b].job \in cancelled
    /\ worker[b].step = "complete" /\ worker[b].ok =>
          receipt[worker[b].job].state = "succeeded"

\* Every other marker of a job comes after its request and a receipt after its
\* started marker.
MarkersOK ==
    /\ started \subseteq request /\ cancelled \subseteq request
    /\ \A j \in Jobs : HasReceipt(j) => j \in started

DiskOK == MarkersOK /\ (\A t \in told : OnDisk(t.job, t.state)) /\ \A b \in Bridges : DiskOf(b)

\* Markers are created once and never removed, and a receipt is never replaced.
LEMMA MarkersGrow ==
    ASSUME IndInv, [Next]_vars
    PROVE  /\ request \subseteq request'
           /\ started \subseteq started'
           /\ cancelled \subseteq cancelled'
           /\ \A j \in Jobs : HasReceipt(j) => receipt'[j] = receipt[j]
<1> USE DEF disk, memory
<1>1. ASSUME NEW b \in Bridges, BridgeStep(b), ~WriteReceipt(b)
      PROVE  /\ UNCHANGED receipt
             /\ request \subseteq request' /\ started \subseteq started'
             /\ cancelled \subseteq cancelled'
  BY <1>1 DEF BridgeStep, PipeStep, WorkerStep, Recover, StartDisabled, StartAborted, Exit,
              TryEnqueue, TryCancelPending, GetStatus, RecordPending, AcceptEnqueue,
              RecordCancelled, AcceptCancel, TryStartNext, RecordStarted, BeginRun,
              Plot, CommitFirst, CommitRest, Complete
<1>2. ASSUME NEW b \in Bridges, WriteReceipt(b)
      PROVE  /\ UNCHANGED <<request, started, cancelled>>
             /\ \A j \in Jobs : HasReceipt(j) => receipt'[j] = receipt[j]
  BY <1>2 DEF WriteReceipt, PutReceipt, IndInv, TypeOK
<1>3. CASE OutsideStep
  BY <1>3 DEF OutsideStep, ChangeStagedFiles, AlterOutputs
<1>4. CASE UNCHANGED vars
  BY <1>4 DEF vars
<1> QED
  BY <1>1, <1>2, <1>3, <1>4, StepKinds

\* What is on disk once stays there.
LEMMA OnDiskStays ==
    ASSUME IndInv, [Next]_vars, NEW j \in Jobs, NEW s, OnDisk(j, s)
    PROVE  OnDisk(j, s)'
BY MarkersGrow DEF OnDisk, HasReceipt

\* Without new markers of its own a bridge keeps what it remembers on disk.
LEMMA DiskOfSame ==
    ASSUME IndInv, [Next]_vars, NEW c \in Bridges, SameMemory(c), DiskOf(c)
    PROVE  DiskOf(c)'
<1>1. ASSUME NEW p \in Plans, manifestOf'[c][p] # NoJob
      PROVE  OnDisk(manifestOf[c][p], states[c][p].state)'
  <2>1. manifestOf[c][p] \in Jobs /\ manifestOf'[c][p] = manifestOf[c][p]
    BY <1>1 DEF SameMemory, IndInv, TypeOK
  <2>2. states'[c][p].state = states[c][p].state
    BY DEF SameMemory
  <2>3. OnDisk(manifestOf[c][p], states[c][p].state)
    BY <1>1, <2>1 DEF DiskOf
  <2> QED
    BY <2>1, <2>2, <2>3, MarkersGrow DEF OnDisk, HasReceipt
<1>2. gate'[c].step = "answer" =>
          /\ gate'[c].op = "enqueue" => gate'[c].job \in request'
          /\ gate'[c].op = "cancel" => gate'[c].job \in cancelled'
  BY MarkersGrow DEF SameMemory, DiskOf
<1>3. worker'[c].step = "complete" /\ worker'[c].ok =>
          receipt'[worker'[c].job].state = "succeeded"
  BY MarkersGrow DEF SameMemory, DiskOf, IndInv, WorkerOK, HasReceipt
<1> QED
  BY <1>1, <1>2, <1>3 DEF DiskOf

\* A new snapshot of one plan that is on disk leaves all snapshots on disk.
LEMMA SnapshotOnDisk ==
    ASSUME IndInv, [Next]_vars, NEW b \in Bridges, DiskOf(b), NEW j \in Jobs, NEW s, NEW e,
           SetSnapshot(b, j, Snap(s, e)), OnDisk(j, s)',
           manifestOf' = manifestOf \/ manifestOf' = [manifestOf EXCEPT ![b][PlanOf[j]] = j],
           manifestOf'[b][PlanOf[j]] = j
    PROVE  \A p \in Plans :
              manifestOf'[b][p] # NoJob => OnDisk(manifestOf[b][p], states[b][p].state)'
<1> SUFFICES ASSUME NEW p \in Plans, manifestOf'[b][p] # NoJob
             PROVE  OnDisk(manifestOf[b][p], states[b][p].state)'
  OBVIOUS
<1>1. PlanOf[j] \in Plans
  BY PlanOfType
<1>2. CASE p = PlanOf[j]
  <2>1. states'[b][p].state = s
    BY <1>1, <1>2 DEF SetSnapshot, Snap, IndInv, TypeOK
  <2> QED
    BY <1>2, <2>1 DEF OnDisk
<1>3. CASE p # PlanOf[j]
  <2>1. states'[b][p] = states[b][p] /\ manifestOf'[b][p] = manifestOf[b][p]
    BY <1>1, <1>3 DEF SetSnapshot, IndInv, TypeOK
  <2>2. manifestOf[b][p] \in Jobs
    BY <2>1 DEF IndInv, TypeOK
  <2>3. OnDisk(manifestOf[b][p], states[b][p].state)
    BY <2>1 DEF DiskOf
  <2> QED
    BY <2>1, <2>2, <2>3, MarkersGrow DEF OnDisk, HasReceipt
<1> QED
  BY <1>2, <1>3

\* A refused start is on disk as it was: the request is there, nothing more is said.
LEMMA RefuseOnDisk ==
    ASSUME IndInv, MemoryOK, [Next]_vars, NEW b \in Bridges, DiskOf(b),
           pending[b] # <<>>, Refuse(b), UNCHANGED <<manifestOf, worker>>
    PROVE  DiskOf(b)'
<1>1. PICK j \in Jobs : j = Head(pending[b]) /\ j \in JobsIn(pending[b]) /\ PlanOf[j] \in Plans
  BY PlanOfType DEF JobsIn, IndInv, TypeOK
<1>2. manifestOf[b][PlanOf[j]] = j
  BY <1>1 DEF MemoryOK, MemoryOf
<1>3. SetSnapshot(b, j, Snap("Failed", "start_refused")) /\ Release(b)
  BY <1>1 DEF Refuse
<1>4. OnDisk(j, "Failed")'
  <2>1. j \in request
    BY <1>1, <1>2, NoJobFresh DEF DiskOf, OnDisk
  <2> QED
    BY <2>1, MarkersGrow DEF OnDisk
<1>5. \A p \in Plans :
        manifestOf'[b][p] # NoJob => OnDisk(manifestOf[b][p], states[b][p].state)'
  BY <1>1, <1>2, <1>3, <1>4, SnapshotOnDisk
<1>6. gate'[b].step # "answer"
  BY <1>3 DEF Release, FreeGate, IndInv, TypeOK
<1>7. worker'[b].step = "complete" /\ worker'[b].ok =>
          receipt'[worker'[b].job].state = "succeeded"
  BY MarkersGrow DEF DiskOf, IndInv, WorkerOK, HasReceipt
<1> QED
  BY <1>5, <1>6, <1>7 DEF DiskOf

\* Each step of a bridge keeps what it remembers on disk: every marker is moved
\* into place before the memory changes.
LEMMA DiskOfStep ==
    ASSUME IndInv, MemoryOK, MarkersOK, [Next]_vars,
           NEW b \in Bridges, DiskOf(b), BridgeStep(b)
    PROVE  DiskOf(b)'
<1> DEFINE Remembered == \A p \in Plans :
               manifestOf'[b][p] # NoJob => OnDisk(manifestOf[b][p], states[b][p].state)'
           Completing == worker'[b].step = "complete" /\ worker'[b].ok =>
               receipt'[worker'[b].job].state = "succeeded"
<1>a. ASSUME UNCHANGED <<states, manifestOf>> PROVE Remembered
  <2> SUFFICES ASSUME NEW p \in Plans, manifestOf'[b][p] # NoJob
               PROVE  OnDisk(manifestOf[b][p], states[b][p].state)'
    OBVIOUS
  <2>1. manifestOf[b][p] \in Jobs /\ OnDisk(manifestOf[b][p], states[b][p].state)
    BY <1>a DEF DiskOf, IndInv, TypeOK
  <2> QED
    BY <1>a, <2>1, MarkersGrow DEF OnDisk, HasReceipt
<1>b. ASSUME UNCHANGED worker PROVE Completing
  BY <1>b, MarkersGrow DEF DiskOf, IndInv, WorkerOK, HasReceipt
<1> HIDE DEF Remembered, Completing
<1>1. CASE Recover(b)
  <2>1. ASSUME NEW p \in Plans, Known(p)
        PROVE  JobOfPlan(p) \in request /\ OnDisk(JobOfPlan(p), RecoveredSnapshot(JobOfPlan(p)).state)
    <3>1. JobOfPlan(p) \in request
      BY <2>1 DEF Known, JobOfPlan
    <3> QED
      BY <3>1 DEF OnDisk, RecoveredSnapshot, Snap
  <2>2. Remembered
    BY <1>1, <2>1 DEF Recover, Remembered, OnDisk, disk, IndInv, TypeOK
  <2>3. gate' = gate /\ gate[b].op = "free" /\ worker' = worker
    BY <1>1 DEF Recover, IndInv, GateOK
  <2> QED
    BY <1>b, <2>2, <2>3 DEF DiskOf, Remembered, Completing
<1>2. CASE StartDisabled(b) \/ StartAborted(b)
  BY <1>2, DiskOfSame DEF StartDisabled, StartAborted, SameMemory, DiskOf, OnDisk, disk
<1>3. CASE Exit(b)
  BY <1>3 DEF Exit, DiskOf, FreeGate, IdleWorker, IndInv, TypeOK
<1>4. ASSUME NEW j \in Jobs, TryEnqueue(b, j) PROVE DiskOf(b)'
  <2>1. gate'[b].step = "write"
    BY <1>4 DEF TryEnqueue, Hold, IndInv, TypeOK
  <2> QED
    BY <1>4, <1>a, <1>b, <2>1 DEF TryEnqueue, DiskOf, Remembered, Completing
<1>5. ASSUME NEW j \in Jobs, TryCancelPending(b, j) PROVE DiskOf(b)'
  <2>1. gate'[b].step = "answer" => gate'[b].op = "cancel" /\ gate'[b].job \in cancelled'
    BY <1>5 DEF TryCancelPending, Hold, IndInv, TypeOK, disk
  <2> QED
    BY <1>5, <1>a, <1>b, <2>1 DEF TryCancelPending, DiskOf, Remembered, Completing
<1>6. ASSUME NEW p \in Plans, GetStatus(b, p) PROVE DiskOf(b)'
  BY <1>6, DiskOfSame DEF GetStatus, memory, SameMemory
<1>7. CASE RecordPending(b)
  <2>1. gate'[b].step = "answer" => gate'[b].op = "enqueue" /\ gate'[b].job \in request'
    BY <1>7 DEF RecordPending, Hold, Release, FreeGate, IndInv, TypeOK
  <2> QED
    BY <1>7, <1>a, <1>b, <2>1 DEF RecordPending, DiskOf, Remembered, Completing
<1>8. CASE AcceptEnqueue(b)
  <2>1. PICK j \in Jobs : j = gate[b].job /\ j \in request /\ PlanOf[j] \in Plans
    BY <1>8, PlanOfType DEF AcceptEnqueue, DiskOf, IndInv, GateOK
  <2>2. OnDisk(j, "Pending")'
    BY <2>1, MarkersGrow DEF OnDisk
  <2>3. manifestOf' = [manifestOf EXCEPT ![b][PlanOf[j]] = j] /\ manifestOf'[b][PlanOf[j]] = j
    BY <1>8, <2>1 DEF AcceptEnqueue, IndInv, TypeOK
  <2>4. SetSnapshot(b, j, Snap("Pending", "none"))
    BY <1>8, <2>1 DEF AcceptEnqueue
  <2>5. Remembered
    BY <2>1, <2>2, <2>3, <2>4, SnapshotOnDisk DEF Remembered
  <2>6. gate'[b].step = "write" /\ worker' = worker
    BY <1>8 DEF AcceptEnqueue, Release, FreeGate, IndInv, TypeOK
  <2> QED
    BY <1>b, <2>5, <2>6 DEF DiskOf, Remembered, Completing
<1>9. CASE RecordCancelled(b)
  <2>1. gate'[b].step = "answer" => gate'[b].op = "cancel" /\ gate'[b].job \in cancelled'
    BY <1>9 DEF RecordCancelled, Hold, Release, FreeGate, IndInv, TypeOK
  <2> QED
    BY <1>9, <1>a, <1>b, <2>1 DEF RecordCancelled, DiskOf, Remembered, Completing
<1>10. CASE AcceptCancel(b)
  <2>1. PICK j \in Jobs : /\ j = gate[b].job /\ j \in cancelled
                          /\ PlanOf[j] \in Plans /\ j \in JobsIn(pending[b])
    BY <1>10, PlanOfType DEF AcceptCancel, DiskOf, IndInv, GateOK, JobsIn
  <2>2. OnDisk(j, "Cancelled")'
    BY <2>1, MarkersGrow DEF OnDisk, MarkersOK
  <2>3. manifestOf' = manifestOf /\ manifestOf[b][PlanOf[j]] = j
    BY <1>10, <2>1 DEF AcceptCancel, MemoryOK, MemoryOf
  <2>4. SetSnapshot(b, j, Snap("Cancelled", "none"))
    BY <1>10, <2>1 DEF AcceptCancel
  <2>5. Remembered
    BY <2>1, <2>2, <2>3, <2>4, SnapshotOnDisk DEF Remembered
  <2>6. gate'[b].step = "write" /\ worker' = worker
    BY <1>10 DEF AcceptCancel, Release, FreeGate, IndInv, TypeOK
  <2> QED
    BY <1>b, <2>5, <2>6 DEF DiskOf, Remembered, Completing
<1>11. CASE TryStartNext(b)
  <2>1. CASE Refuse(b)
    BY <1>11, <2>1, RefuseOnDisk DEF TryStartNext
  <2>2. CASE Hold(b, "start", Head(pending[b]), "write") /\ UNCHANGED states
    <3>1. gate'[b].step = "write"
      BY <2>2 DEF Hold, IndInv, TypeOK
    <3> QED
      BY <1>11, <1>a, <1>b, <2>2, <3>1 DEF TryStartNext, DiskOf, Remembered, Completing
  <2> QED
    BY <1>11, <2>1, <2>2 DEF TryStartNext
<1>12. CASE RecordStarted(b)
  <2>1. CASE Refuse(b)
    BY <1>12, <2>1, RefuseOnDisk DEF RecordStarted, IndInv, GateOK
  <2>2. CASE Hold(b, "start", gate[b].job, "answer") /\ UNCHANGED states
    <3>1. gate'[b].op = "start"
      BY <2>2 DEF Hold, IndInv, TypeOK
    <3> QED
      BY <1>12, <1>a, <1>b, <2>2, <3>1 DEF RecordStarted, DiskOf, Remembered, Completing
  <2> QED
    BY <1>12, <2>1, <2>2 DEF RecordStarted
<1>13. CASE BeginRun(b)
  <2>1. PICK j \in Jobs : /\ j = gate[b].job /\ PlanOf[j] \in Plans
                          /\ j \in JobsIn(pending[b]) /\ Owns(b, j)
    <3>1. /\ gate[b].job \in Jobs /\ pending[b] # <<>> /\ Head(pending[b]) = gate[b].job
          /\ pending[b] \in Seq(Jobs)
      BY <1>13 DEF BeginRun, IndInv, TypeOK, GateOK
    <3>2. Head(pending[b]) \in JobsIn(pending[b])
      BY <3>1 DEF JobsIn
    <3>3. Owns(b, gate[b].job)
      BY <1>13 DEF BeginRun, Owns
    <3> QED
      BY <3>1, <3>2, <3>3, PlanOfType
  <2>2. OnDisk(j, "Running")'
    BY <2>1, MarkersGrow DEF OnDisk, MarkersOK, IndInv, PlotOK
  <2>3. manifestOf' = manifestOf /\ manifestOf[b][PlanOf[j]] = j
    BY <1>13, <2>1 DEF BeginRun, MemoryOK, MemoryOf
  <2>4. SetSnapshot(b, j, Snap("Running", "none"))
    BY <1>13, <2>1 DEF BeginRun
  <2>5. Remembered
    BY <2>1, <2>2, <2>3, <2>4, SnapshotOnDisk DEF Remembered
  <2>6. gate'[b].step = "write" /\ worker'[b].step = "plot"
    BY <1>13 DEF BeginRun, Release, FreeGate, IndInv, TypeOK
  <2> QED
    BY <2>5, <2>6 DEF DiskOf, Remembered
<1>14. CASE Plot(b) \/ CommitFirst(b) \/ CommitRest(b) \/ WriteReceipt(b)
  <2>1. WorkerMoves(b)
    BY <1>14, ExecMoves
  <2>2. Remembered
    BY <1>a, <2>1 DEF WorkerMoves
  <2>3. Completing
    <3>1. CASE WriteReceipt(b)
      <4>1. worker[b].job \in Jobs
        BY <3>1 DEF WriteReceipt, WorkerAt, IndInv, WorkerOK
      <4> QED
        BY <3>1, <4>1 DEF WriteReceipt, Advance, PutReceipt, Completing, IndInv, TypeOK
    <3>2. CASE Plot(b) \/ CommitFirst(b) \/ CommitRest(b)
      <4>1. worker'[b].step # "complete"
        BY <3>2 DEF Plot, CommitFirst, CommitRest, Advance, IndInv, TypeOK
      <4> QED
        BY <4>1 DEF Completing
    <3> QED
      BY <1>14, <3>1, <3>2
  <2> QED
    BY <2>1, <2>2, <2>3, MarkersGrow DEF WorkerMoves, DiskOf, Remembered, Completing
<1>15. CASE Complete(b)
  <2>1. PICK j \in Jobs : j = worker[b].job /\ PlanOf[j] \in Plans
    BY <1>15, PlanOfType DEF Complete, WorkerAt, IndInv, WorkerOK
  <2>2. manifestOf' = manifestOf /\ manifestOf[b][PlanOf[j]] = j
    BY <1>15, <2>1, NoJobFresh DEF Complete, MemoryOK, MemoryOf
  <2>3. PICK s, e : /\ s = (IF worker[b].ok THEN "Succeeded" ELSE "Failed")
                    /\ SetSnapshot(b, j, Snap(s, e))
    BY <1>15, <2>1 DEF Complete
  <2>4. OnDisk(j, s)'
    <3>1. j \in request
      BY <2>1, <2>2, NoJobFresh DEF DiskOf, OnDisk
    <3>2. s = "Succeeded" => receipt[j].state = "succeeded"
      BY <1>15, <2>1, <2>3 DEF Complete, WorkerAt, DiskOf
    <3> QED
      BY <1>15, <2>3, <3>1, <3>2 DEF OnDisk, Complete, disk
  <2>5. Remembered
    BY <2>1, <2>2, <2>3, <2>4, SnapshotOnDisk DEF Remembered
  <2>6. gate'[b].op = "free" /\ worker'[b].step = "idle"
    BY <1>15 DEF Complete, Serving, IdleWorker, IndInv, TypeOK
  <2> QED
    BY <2>5, <2>6 DEF DiskOf, Remembered
<1> QED
  BY <1>1, <1>2, <1>3, <1>4, <1>5, <1>6, <1>7, <1>8, <1>9, <1>10, <1>11, <1>12, <1>13,
     <1>14, <1>15 DEF BridgeStep, PipeStep, WorkerStep

\* A marker is created for a job that is on disk already.
LEMMA MarkersStep ==
    ASSUME IndInv, MemoryOK, DiskOK, [Next]_vars
    PROVE  MarkersOK'
<1> USE DEF IndInv
<1>1. ASSUME NEW b \in Bridges, NEW j \in JobsIn(pending[b]) PROVE j \in request
  <2>1. j \in Jobs /\ PlanOf[j] \in Plans /\ manifestOf[b][PlanOf[j]] = j
    <3>1. pending[b] \in Seq(Jobs) /\ MemoryOf(b)
      BY DEF TypeOK, MemoryOK
    <3>2. j \in Jobs
      BY <1>1, <3>1 DEF JobsIn
    <3> QED
      BY <1>1, <3>1, <3>2, PlanOfType DEF MemoryOf
  <2> QED
    BY <2>1, NoJobFresh DEF DiskOK, DiskOf, OnDisk
<1>2. ASSUME NEW b \in Bridges, RecordCancelled(b) PROVE MarkersOK'
  <2>1. gate[b].job \in JobsIn(pending[b])
    BY <1>2 DEF RecordCancelled, GateOK, JobsIn
  <2> QED
    BY <1>1, <1>2, <2>1 DEF RecordCancelled, DiskOK, MarkersOK, HasReceipt
<1>3. ASSUME NEW b \in Bridges, RecordStarted(b) PROVE MarkersOK'
  <2>1. /\ gate[b].job \in Jobs /\ pending[b] # <<>> /\ Head(pending[b]) = gate[b].job
        /\ pending[b] \in Seq(Jobs)
    BY <1>3 DEF RecordStarted, TypeOK, GateOK
  <2>2. gate[b].job \in JobsIn(pending[b])
    BY <2>1 DEF JobsIn
  <2> QED
    BY <1>1, <1>3, <2>2 DEF RecordStarted, DiskOK, MarkersOK, HasReceipt
<1>4. ASSUME NEW b \in Bridges, WriteReceipt(b) PROVE MarkersOK'
  <2>1. worker[b].job \in Jobs /\ worker[b].job \in started
    BY <1>4 DEF WriteReceipt, WorkerAt, WorkerOK, PlotOK, Owns
  <2> QED
    BY <1>4, <2>1 DEF WriteReceipt, PutReceipt, TypeOK, DiskOK, MarkersOK, HasReceipt
<1>5. ASSUME NEW b \in Bridges, BridgeStep(b),
             ~RecordCancelled(b), ~RecordStarted(b), ~WriteReceipt(b)
      PROVE  MarkersOK'
  <2>1. UNCHANGED <<started, cancelled, receipt>>
    BY <1>5 DEF BridgeStep, PipeStep, WorkerStep, Recover, StartDisabled, StartAborted, Exit,
                TryEnqueue, TryCancelPending, GetStatus, RecordPending, AcceptEnqueue,
                AcceptCancel, TryStartNext, BeginRun, Plot, CommitFirst, CommitRest,
                Complete, disk
  <2> QED
    BY <2>1, MarkersGrow DEF DiskOK, MarkersOK, HasReceipt
<1>6. CASE OutsideStep \/ UNCHANGED vars
  BY <1>6 DEF OutsideStep, ChangeStagedFiles, AlterOutputs, vars, DiskOK, MarkersOK, HasReceipt
<1> QED
  BY <1>2, <1>3, <1>4, <1>5, <1>6, StepKinds

\* An answer repeats what the bridge remembers, or what it has just put on disk.
LEMMA ToldStep ==
    ASSUME IndInv, MemoryOK, DiskOK, [Next]_vars
    PROVE  \A t \in told' : OnDisk(t.job, t.state)'
<1> USE DEF IndInv
<1>1. ASSUME told' = told PROVE \A t \in told' : OnDisk(t.job, t.state)'
  BY <1>1, OnDiskStays DEF DiskOK, TypeOK, Told
<1>2. ASSUME NEW j \in Jobs, NEW snap, Tell(j, snap), OnDisk(j, snap.state)'
      PROVE  \A t \in told' : OnDisk(t.job, t.state)'
  <2>1. \A t \in told : t.job \in Jobs /\ OnDisk(t.job, t.state)
    BY DEF DiskOK, TypeOK, Told
  <2>2. \A t \in told : OnDisk(t.job, t.state)'
    BY <2>1, OnDiskStays
  <2> QED
    BY <1>2, <2>2 DEF Tell
<1>3. ASSUME NEW b \in Bridges, NEW p \in Plans, GetStatus(b, p)
      PROVE  \A t \in told' : OnDisk(t.job, t.state)'
  <2>1. PICK j \in Jobs : j = manifestOf[b][p] /\ Tell(j, states[b][p])
    BY <1>3 DEF GetStatus, TypeOK
  <2> PICK snap : snap = states[b][p]
    OBVIOUS
  <2>2. OnDisk(j, snap.state)
    BY <1>3, <2>1 DEF GetStatus, DiskOK, DiskOf
  <2> QED
    BY <1>2, <2>1, <2>2, OnDiskStays
<1>4. ASSUME NEW b \in Bridges, AcceptEnqueue(b)
      PROVE  \A t \in told' : OnDisk(t.job, t.state)'
  <2>1. PICK j \in Jobs : j = gate[b].job /\ j \in request
    BY <1>4 DEF AcceptEnqueue, GateOK, DiskOK, DiskOf
  <2>2. Tell(j, Snap("Pending", "none")) /\ OnDisk(j, Snap("Pending", "none").state)'
    BY <1>4, <2>1, MarkersGrow DEF AcceptEnqueue, OnDisk, Snap
  <2> QED
    BY <1>2, <2>2
<1>5. ASSUME NEW b \in Bridges, AcceptCancel(b)
      PROVE  \A t \in told' : OnDisk(t.job, t.state)'
  <2>1. PICK j \in Jobs : j = gate[b].job /\ j \in cancelled /\ j \in request
    BY <1>5 DEF AcceptCancel, GateOK, DiskOK, DiskOf, MarkersOK
  <2>2. Tell(j, Snap("Cancelled", "none")) /\ OnDisk(j, Snap("Cancelled", "none").state)'
    BY <1>5, <2>1, MarkersGrow DEF AcceptCancel, OnDisk, Snap
  <2> QED
    BY <1>2, <2>2
<1>6. ASSUME NEW b \in Bridges, BridgeStep(b), ~AcceptEnqueue(b), ~AcceptCancel(b),
             \A p \in Plans : ~GetStatus(b, p)
      PROVE  told' = told
  BY <1>6 DEF BridgeStep, PipeStep, WorkerStep, Recover, StartDisabled, StartAborted, Exit,
              TryEnqueue, TryCancelPending, RecordPending, RecordCancelled, TryStartNext,
              RecordStarted, BeginRun, Plot, CommitFirst, CommitRest, WriteReceipt,
              Complete, observed
<1>7. CASE OutsideStep \/ UNCHANGED vars
  BY <1>1, <1>7 DEF OutsideStep, ChangeStagedFiles, AlterOutputs, observed, vars
<1> QED
  BY <1>1, <1>3, <1>4, <1>5, <1>6, <1>7, StepKinds

\* Every step keeps memory and answers on disk.
LEMMA DiskStep ==
    ASSUME IndInv, MemoryOK, DiskOK, [Next]_vars
    PROVE  DiskOK'
<1>1. ASSUME NEW b \in Bridges, BridgeStep(b), NEW c \in Bridges PROVE DiskOf(c)'
  <2>1. CASE c = b
    BY <1>1, <2>1, DiskOfStep DEF DiskOK
  <2>2. CASE c # b
    BY <1>1, <2>2, MemoryIsPrivate, DiskOfSame DEF DiskOK, IndInv
  <2> QED
    BY <2>1, <2>2
<1>2. ASSUME OutsideStep \/ UNCHANGED vars, NEW c \in Bridges PROVE DiskOf(c)'
  BY <1>2, OutsideKeepsMemory, DiskOfSame DEF DiskOK
<1>3. \A c \in Bridges : DiskOf(c)'
  BY <1>1, <1>2, StepKinds
<1> QED
  BY <1>3, MarkersStep, ToldStep DEF DiskOK

(***************************************************************************)
(* A success is earned.                                                    *)
(***************************************************************************)
\* The job that is committed, or for which the executor reports a success, was
\* plotted by this bridge.
EarnedOf(b) ==
    \/ worker[b].step \in {"commit", "promote"}
    \/ worker[b].step \in {"receipt", "complete"} /\ worker[b].ok
    => plots[worker[b].job] = 1

EarnedOK == SuccessIsEarned /\ \A b \in Bridges : EarnedOf(b)

\* Only the bridge that started a job plots it, commits it and signs for it.
LEMMA EarnedStep ==
    ASSUME IndInv, EarnedOK, [Next]_vars
    PROVE  EarnedOK'
<1> USE DEF IndInv, TypeOK, Worker
<1>1. ASSUME UNCHANGED <<receipt, plots>>,
             \A c \in Bridges : worker'[c] = worker[c] \/ worker'[c].step \in {"idle", "plot"}
      PROVE  EarnedOK'
  BY <1>1, MarkersGrow DEF EarnedOK, SuccessIsEarned, EarnedOf
<1>2. ASSUME NEW b \in Bridges, Plot(b) PROVE EarnedOK'
  <2>1. /\ worker[b].job \in Jobs /\ worker[b].step = "plot" /\ Owns(b, worker[b].job)
        /\ plots[worker[b].job] = 0
        /\ UNCHANGED <<receipt, started>>
    BY <1>2 DEF Plot, WorkerAt, WorkerOK, PlotOK, Owns, disk
  <2>2. CASE CountPlot(worker[b].job) /\ Advance(b, "commit", FALSE)
    <3>1. plots' = [plots EXCEPT ![worker[b].job] = 1]
      BY <2>1, <2>2 DEF CountPlot
    <3>2. ASSUME NEW c \in Bridges PROVE EarnedOf(c)'
      <4>1. CASE c = b
        BY <2>1, <2>2, <3>1, <4>1 DEF Advance, EarnedOf
      <4>2. CASE c # b
        <5>1. worker'[c] = worker[c]
          BY <2>2, <4>2 DEF Advance
        <5>2. worker[c].step # "idle" => worker[c].job \in Jobs /\ worker[c].job # worker[b].job
          BY <2>1, <4>2 DEF WorkerOK, PlotOK, Owns
        <5> QED
          BY <2>1, <3>1, <5>1, <5>2 DEF EarnedOK, EarnedOf
      <4> QED
        BY <4>1, <4>2
    <3>3. SuccessIsEarned'
      BY <2>1, <3>1 DEF EarnedOK, SuccessIsEarned
    <3> QED
      BY <3>2, <3>3 DEF EarnedOK
  <2>3. CASE Advance(b, "receipt", FALSE) /\ UNCHANGED plots
    BY <2>1, <2>3 DEF Advance, EarnedOK, EarnedOf, SuccessIsEarned
  <2> QED
    BY <1>2, <2>2, <2>3 DEF Plot
<1>3. ASSUME NEW b \in Bridges, CommitFirst(b) \/ CommitRest(b) PROVE EarnedOK'
  <2>1. worker[b].step \in {"commit", "promote"} /\ UNCHANGED <<receipt, plots, started>>
    BY <1>3 DEF CommitFirst, CommitRest, WorkerAt, observed
  <2>2. PICK s \in {"promote", "receipt"}, ok \in BOOLEAN : Advance(b, s, ok)
    BY <1>3 DEF CommitFirst, CommitRest
  <2> QED
    BY <2>1, <2>2 DEF Advance, EarnedOK, EarnedOf, SuccessIsEarned
<1>4. ASSUME NEW b \in Bridges, WriteReceipt(b) PROVE EarnedOK'
  <2>1. /\ worker[b].job \in Jobs /\ worker[b].job \in started /\ worker[b].step = "receipt"
        /\ UNCHANGED <<plots, started>>
    BY <1>4 DEF WriteReceipt, WorkerAt, WorkerOK, PlotOK, Owns, observed
  <2>2. PICK ok \in BOOLEAN : Advance(b, "complete", ok) /\ (ok => worker[b].ok)
    BY <1>4 DEF WriteReceipt
  <2>3. \A c \in Bridges : EarnedOf(c)'
    BY <2>1, <2>2 DEF Advance, EarnedOK, EarnedOf
  <2>4. ASSUME NEW j \in Jobs, receipt'[j].state = "succeeded"
        PROVE  j \in started' /\ plots'[j] = 1 /\ receipt'[j].bound # "none"
    <3>1. CASE receipt'[j] = receipt[j]
      BY <2>1, <2>4, <3>1 DEF EarnedOK, SuccessIsEarned
    <3>2. CASE receipt'[j] # receipt[j]
      <4>1. j = worker[b].job /\ worker[b].ok /\ receipt'[j].bound \in {"plotted", "altered"}
        <5>1. \/ /\ worker[b].ok /\ outputs[worker[b].job] \in {"plotted", "altered"}
                 /\ receipt' = [receipt EXCEPT ![worker[b].job] =
                        [state |-> "succeeded", bound |-> outputs[worker[b].job]]]
              \/ receipt' = [receipt EXCEPT ![worker[b].job] =
                        [state |-> "failed", bound |-> "none"]]
          BY <1>4, <3>2 DEF WriteReceipt, PutReceipt
        <5> QED
          BY <2>1, <2>4, <3>2, <5>1
      <4> QED
        BY <2>1, <4>1 DEF EarnedOK, EarnedOf
    <3> QED
      BY <3>1, <3>2
  <2> QED
    BY <2>3, <2>4 DEF EarnedOK, SuccessIsEarned
<1>5. ASSUME NEW b \in Bridges, BridgeStep(b),
             ~Plot(b), ~CommitFirst(b), ~CommitRest(b), ~WriteReceipt(b)
      PROVE  EarnedOK'
  <2>1. UNCHANGED <<receipt, plots>>
    BY <1>5 DEF BridgeStep, PipeStep, WorkerStep, Recover, StartDisabled, StartAborted, Exit,
                TryEnqueue, TryCancelPending, GetStatus, RecordPending, AcceptEnqueue,
                RecordCancelled, AcceptCancel, TryStartNext, RecordStarted, BeginRun,
                Complete, disk, observed
  <2>2. worker'[b] = worker[b] \/ worker'[b].step \in {"idle", "plot"}
    BY <1>5 DEF BridgeStep, PipeStep, WorkerStep, Recover, StartDisabled, StartAborted, Exit,
                TryEnqueue, TryCancelPending, GetStatus, RecordPending, AcceptEnqueue,
                RecordCancelled, AcceptCancel, TryStartNext, RecordStarted, BeginRun,
                Complete, memory, IdleWorker
  <2> QED
    BY <1>1, <1>5, <2>1, <2>2, MemoryIsPrivate DEF SameMemory
<1>6. CASE OutsideStep \/ UNCHANGED vars
  BY <1>1, <1>6 DEF OutsideStep, ChangeStagedFiles, AlterOutputs, memory, observed, vars
<1> QED
  BY <1>2, <1>3, <1>4, <1>5, <1>6, StepKinds

(***************************************************************************)
(* The theorems.                                                           *)
(***************************************************************************)
AnswersInv == IndInv /\ MemoryOK /\ DiskOK /\ EarnedOK

\* Memory, marker files and answers agree in every behaviour.
THEOREM AnswersInductive == Spec => []AnswersInv
<1>1. Init => AnswersInv
  <2> SUFFICES ASSUME Init PROVE AnswersInv
    OBVIOUS
  <2>1. MemoryOK
    BY NoJobFresh DEF Init, MemoryOK, MemoryOf, Distinct, JobsIn, Absent, IdleWorker, FreeGate
  <2>2. DiskOK
    BY DEF Init, DiskOK, DiskOf, MarkersOK, HasReceipt, NoReceipt, FreeGate, IdleWorker
  <2>3. EarnedOK
    BY DEF Init, EarnedOK, EarnedOf, SuccessIsEarned, NoReceipt, IdleWorker
  <2> QED
    BY <2>1, <2>2, <2>3, IndInvInit DEF AnswersInv
<1>2. AnswersInv /\ IndInv' /\ [Next]_vars => AnswersInv'
  BY MemoryStep, DiskStep, EarnedStep DEF AnswersInv
<1> QED
  BY <1>1, <1>2, Inductive, PTL DEF Spec

\* Whatever a bridge answers over the pipe is already on disk, with any number of
\* bridges (TryEnqueue, TryCancelPending, Complete).
THEOREM AnswersStayOnDisk == Spec => []AnswersAreDurable
<1>1. AnswersInv => AnswersAreDurable
  BY DEF AnswersInv, DiskOK, AnswersAreDurable, OnDisk
<1> QED
  BY <1>1, AnswersInductive, PTL

\* A success receipt exists only for a job that was started and plotted once.
THEOREM EverySuccessIsEarned == Spec => []SuccessIsEarned
<1>1. AnswersInv => SuccessIsEarned
  BY DEF AnswersInv, EarnedOK
<1> QED
  BY <1>1, AnswersInductive, PTL

\* The queue, the snapshots and the worker of a bridge agree, so neither
\* queue_state_missing nor the exception of Complete can occur.
THEOREM QueueStaysConsistent == Spec => []QueueMatchesStates
<1>1. ASSUME AnswersInv, NEW b \in Bridges, NEW p \in Plans
      PROVE  manifestOf[b][p] \in JobsIn(pending[b]) <=>
                \E i \in DOMAIN pending[b] : pending[b][i] = manifestOf[b][p]
  BY DEF JobsIn
<1>2. AnswersInv => QueueMatchesStates
  BY <1>1 DEF AnswersInv, MemoryOK, MemoryOf, Distinct, QueueMatchesStates
<1> QED
  BY <1>2, AnswersInductive, PTL

(***************************************************************************)
(* One bridge: final answers stand.                                        *)
(***************************************************************************)
\* A final state carries no error, and an interrupted job has a started marker
\* and will never have a receipt.
Sealed(j, s, e) ==
    /\ s \in {"Succeeded", "Cancelled"} => e = "none"
    /\ e = "job_interrupted" => s = "Failed" /\ j \in started /\ ~HasReceipt(j)

Final(t) == t.state \in {"Succeeded", "Cancelled"} \/ t.error = "job_interrupted"

StandOK ==
    /\ FinalAnswersStand
    /\ \A t \in told : Sealed(t.job, t.state, t.error)
    /\ \A b \in Bridges, p \in Plans : manifestOf[b][p] # NoJob =>
          Sealed(manifestOf[b][p], states[b][p].state, states[b][p].error)

\* A plan that is absent, Pending or Running has no final answer yet.
LEMMA OpenPlan ==
    ASSUME StandOK, NEW b \in Bridges, NEW p \in Plans, runtime[b] = "ready",
           states[b][p].state \in {"absent", "Pending", "Running"},
           NEW t \in told, Final(t)
    PROVE  PlanOf[t.job] # p
<1> SUFFICES ASSUME PlanOf[t.job] = p PROVE FALSE
  OBVIOUS
<1>1. states[b][p] = Snap(t.state, t.error)
  BY DEF StandOK, FinalAnswersStand, Final
<1>2. t.state \in {"Succeeded", "Cancelled", "Failed"}
  BY DEF StandOK, Sealed, Final
<1> QED
  BY <1>1, <1>2 DEF Snap

\* A step that writes no receipt and no answer, and changes no snapshot.
LEMMA StandSame ==
    ASSUME IndInv, StandOK, [Next]_vars,
           UNCHANGED <<runtime, states, manifestOf, told, receipt>>
    PROVE  StandOK'
BY MarkersGrow DEF StandOK, FinalAnswersStand, Sealed, HasReceipt

\* A new snapshot of an open plan contradicts no final answer.
LEMMA StandSet ==
    ASSUME OneBridge, IndInv, StandOK, [Next]_vars,
           NEW b \in Bridges, NEW j \in Jobs, runtime[b] = "ready",
           states[b][PlanOf[j]].state \in {"absent", "Pending", "Running"},
           NEW s, NEW e, SetSnapshot(b, j, Snap(s, e)),
           e # "job_interrupted", s \in {"Succeeded", "Cancelled"} => e = "none",
           manifestOf' = manifestOf \/ manifestOf' = [manifestOf EXCEPT ![b][PlanOf[j]] = j],
           told' = told \/ Tell(j, Snap(s, e)),
           UNCHANGED <<runtime, receipt>>
    PROVE  StandOK'
<1>1. PlanOf[j] \in Plans /\ \A c \in Bridges : c = b
  BY PlanOfType DEF OneBridge
<1>2. \A p \in Plans : states'[b][p] = IF p = PlanOf[j] THEN Snap(s, e) ELSE states[b][p]
  BY <1>1 DEF SetSnapshot, IndInv, TypeOK
<1>3. \A t \in told' : t \in told \/ (t.job = j /\ t.state = s /\ t.error = e)
  BY DEF Tell, Snap
<1>4. ASSUME NEW t \in told', Final(t) PROVE states'[b][PlanOf[t.job]] = Snap(t.state, t.error)
  <2>1. CASE t \in told
    <3>1. PlanOf[t.job] \in Plans /\ PlanOf[t.job] # PlanOf[j]
      BY <1>1, <1>4, <2>1, OpenPlan, PlanOfType DEF IndInv, TypeOK, Told
    <3> QED
      BY <1>2, <1>4, <2>1, <3>1 DEF StandOK, FinalAnswersStand, Final
  <2>2. CASE t.job = j /\ t.state = s /\ t.error = e
    BY <1>1, <1>2, <2>2
  <2> QED
    BY <1>3, <2>1, <2>2
<1>5. FinalAnswersStand'
  BY <1>1, <1>4 DEF FinalAnswersStand, Final
<1>6. ASSUME NEW t \in told' PROVE Sealed(t.job, t.state, t.error)'
  <2>1. CASE t \in told
    BY <2>1, MarkersGrow DEF StandOK, Sealed, HasReceipt
  <2>2. CASE t.job = j /\ t.state = s /\ t.error = e
    BY <2>2 DEF Sealed
  <2> QED
    BY <1>3, <2>1, <2>2
<1>7. ASSUME NEW p \in Plans, manifestOf'[b][p] # NoJob
      PROVE  Sealed(manifestOf[b][p], states[b][p].state, states[b][p].error)'
  <2>1. CASE p = PlanOf[j]
    BY <1>1, <1>2, <2>1 DEF Sealed, Snap
  <2>2. CASE p # PlanOf[j]
    <3>1. manifestOf'[b][p] = manifestOf[b][p]
      BY <1>1, <2>2 DEF IndInv, TypeOK
    <3> QED
      BY <1>2, <1>7, <2>2, <3>1, MarkersGrow DEF StandOK, Sealed, HasReceipt
  <2> QED
    BY <2>1, <2>2
<1> QED
  BY <1>1, <1>5, <1>6, <1>7 DEF StandOK

\* Recovery finds on disk what the bridge answered in an earlier life.
LEMMA StandRecover ==
    ASSUME OneBridge, AnswersInv, StandOK, [Next]_vars, NEW b \in Bridges, Recover(b)
    PROVE  StandOK'
<1>1. /\ \A c \in Bridges : c = b
      /\ UNCHANGED <<request, started, cancelled, receipt, told>>
  BY DEF OneBridge, Recover, disk, observed
<1>2. /\ \A i, j \in request : PlanOf[i] = PlanOf[j] => i = j
      /\ \A j \in request \cap cancelled : j \notin started /\ ~HasReceipt(j)
      /\ \A j \in request : j \in Jobs /\ PlanOf[j] \in Plans
  BY PlanOfType DEF Recover, RecoveryConflict, AnswersInv, IndInv, TypeOK
<1>3. \A j \in request : Known(PlanOf[j]) /\ JobOfPlan(PlanOf[j]) = j
  BY <1>2 DEF Known, JobOfPlan
<1>4. \A j \in request : states'[b][PlanOf[j]] = RecoveredSnapshot(j)
  BY <1>2, <1>3 DEF Recover, AnswersInv, IndInv, TypeOK
<1>5. ASSUME NEW t \in told, Final(t)
      PROVE  t.job \in request /\ RecoveredSnapshot(t.job) = Snap(t.state, t.error)
  <2>1. /\ OnDisk(t.job, t.state) /\ Sealed(t.job, t.state, t.error)
    BY DEF AnswersInv, DiskOK, StandOK
  <2>2. t.job \in request
    BY <2>1 DEF OnDisk
  <2>3. CASE t.state = "Cancelled"
    BY <2>1, <2>2, <2>3 DEF OnDisk, Sealed, RecoveredSnapshot
  <2>4. CASE t.state = "Succeeded"
    BY <1>2, <2>1, <2>2, <2>4 DEF OnDisk, Sealed, RecoveredSnapshot, HasReceipt
  <2>5. CASE t.error = "job_interrupted"
    BY <1>2, <2>1, <2>2, <2>5 DEF Sealed, RecoveredSnapshot
  <2> QED
    BY <1>5, <2>2, <2>3, <2>4, <2>5 DEF Final
<1>6. FinalAnswersStand'
  BY <1>1, <1>4, <1>5 DEF FinalAnswersStand, Final
<1>7. ASSUME NEW p \in Plans, manifestOf'[b][p] # NoJob
      PROVE  Sealed(manifestOf[b][p], states[b][p].state, states[b][p].error)'
  <2>1. PICK j \in request : manifestOf'[b][p] = j /\ p = PlanOf[j]
    BY <1>7 DEF Recover, Known, JobOfPlan, AnswersInv, IndInv, TypeOK
  <2>2. states'[b][p] = RecoveredSnapshot(j)
    BY <1>4, <2>1
  <2>3. Sealed(j, RecoveredSnapshot(j).state, RecoveredSnapshot(j).error)
    BY DEF Sealed, RecoveredSnapshot, Snap
  <2> QED
    BY <1>1, <2>1, <2>2, <2>3 DEF Sealed, HasReceipt
<1>8. \A t \in told' : Sealed(t.job, t.state, t.error)'
  BY <1>1 DEF StandOK, Sealed, HasReceipt
<1> QED
  BY <1>1, <1>6, <1>7, <1>8 DEF StandOK

\* A refused start fails a plan that was Pending.
LEMMA StandRefuse ==
    ASSUME OneBridge, AnswersInv, StandOK, [Next]_vars, NEW b \in Bridges,
           pending[b] # <<>>, runtime[b] = "ready", Refuse(b),
           UNCHANGED <<runtime, manifestOf, told, receipt>>
    PROVE  StandOK'
<1>1. PICK j \in Jobs : j = Head(pending[b]) /\ j \in JobsIn(pending[b]) /\ PlanOf[j] \in Plans
  BY PlanOfType DEF JobsIn, AnswersInv, IndInv, TypeOK
<1>2. manifestOf[b][PlanOf[j]] = j /\ states[b][PlanOf[j]].state = "Pending"
  BY <1>1 DEF AnswersInv, MemoryOK, MemoryOf
<1>3. SetSnapshot(b, j, Snap("Failed", "start_refused"))
  BY <1>1 DEF Refuse
<1> QED
  BY <1>2, <1>3, StandSet DEF AnswersInv

\* Every step leaves the final answers standing.
LEMMA StandStep ==
    ASSUME OneBridge, AnswersInv, StandOK, [Next]_vars
    PROVE  StandOK'
<1> USE DEF AnswersInv, IndInv
<1>1. ASSUME NEW b \in Bridges, StartDisabled(b) \/ StartAborted(b) \/ Exit(b) PROVE StandOK'
  <2>1. runtime'[b] # "ready" /\ UNCHANGED <<told, receipt>>
    BY <1>1 DEF StartDisabled, StartAborted, Exit, TypeOK, disk, observed
  <2>2. \A p \in Plans : manifestOf'[b][p] # NoJob =>
            UNCHANGED <<manifestOf, states>>
    BY <1>1 DEF StartDisabled, StartAborted, Exit, TypeOK
  <2> QED
    BY <2>1, <2>2, MarkersGrow DEF OneBridge, StandOK, FinalAnswersStand, Sealed, HasReceipt
<1>2. ASSUME NEW b \in Bridges, NEW p \in Plans, GetStatus(b, p) PROVE StandOK'
  <2>1. /\ runtime[b] = "ready" /\ UNCHANGED <<runtime, states, manifestOf, started, receipt>>
        /\ manifestOf[b][p] # NoJob /\ PlanOf[manifestOf[b][p]] = p
    BY <1>2 DEF GetStatus, Serving, memory, disk, MemoryOK, MemoryOf
  <2>2. /\ states[b][p] \in Snapshot
        /\ told' = told \cup {[job |-> manifestOf[b][p], state |-> states[b][p].state,
                              error |-> states[b][p].error]}
    BY <1>2 DEF GetStatus, Tell, TypeOK
  <2>3. states[b][p] = Snap(states[b][p].state, states[b][p].error)
    BY <2>2 DEF Snapshot, Snap
  <2>4. Sealed(manifestOf[b][p], states[b][p].state, states[b][p].error)
    BY <2>1 DEF StandOK
  <2>5. \A c \in Bridges : c = b
    BY DEF OneBridge
  <2>6. FinalAnswersStand'
    BY <2>1, <2>2, <2>3, <2>5 DEF StandOK, FinalAnswersStand
  <2>7. \A t \in told' : Sealed(t.job, t.state, t.error)'
    BY <2>1, <2>2, <2>4 DEF StandOK, Sealed, HasReceipt
  <2> QED
    BY <2>1, <2>6, <2>7 DEF StandOK, Sealed, HasReceipt
<1>3. ASSUME NEW b \in Bridges, AcceptEnqueue(b) PROVE StandOK'
  <2>1. PICK j \in Jobs : /\ j = gate[b].job /\ runtime[b] = "ready"
                          /\ states[b][PlanOf[j]].state = "absent"
    BY <1>3 DEF AcceptEnqueue, GateOK, MemoryOK, MemoryOf
  <2>2. /\ SetSnapshot(b, j, Snap("Pending", "none")) /\ Tell(j, Snap("Pending", "none"))
        /\ manifestOf' = [manifestOf EXCEPT ![b][PlanOf[j]] = j]
        /\ UNCHANGED <<runtime, receipt>>
    BY <1>3, <2>1 DEF AcceptEnqueue, disk
  <2>3. manifestOf'[b][PlanOf[j]] = j
    BY <2>2, PlanOfType DEF TypeOK
  <2> QED
    BY <2>1, <2>2, <2>3, StandSet
<1>4. ASSUME NEW b \in Bridges, AcceptCancel(b) PROVE StandOK'
  <2>1. PICK j \in Jobs : j = gate[b].job /\ runtime[b] = "ready" /\ j \in JobsIn(pending[b])
    BY <1>4 DEF AcceptCancel, GateOK, JobsIn
  <2>2. states[b][PlanOf[j]].state = "Pending" /\ manifestOf[b][PlanOf[j]] = j
    BY <2>1, PlanOfType DEF MemoryOK, MemoryOf
  <2>3. /\ SetSnapshot(b, j, Snap("Cancelled", "none")) /\ Tell(j, Snap("Cancelled", "none"))
        /\ UNCHANGED <<runtime, receipt, manifestOf>>
    BY <1>4, <2>1 DEF AcceptCancel, disk
  <2> QED
    BY <2>1, <2>2, <2>3, StandSet
<1>5. ASSUME NEW b \in Bridges, TryStartNext(b) PROVE StandOK'
  <2>1. /\ runtime[b] = "ready" /\ pending[b] # <<>>
        /\ UNCHANGED <<runtime, manifestOf, told, receipt>>
    BY <1>5 DEF TryStartNext, Serving, disk, observed
  <2>2. Refuse(b) \/ UNCHANGED states
    BY <1>5 DEF TryStartNext
  <2> QED
    BY <2>1, <2>2, StandRefuse, StandSame
<1>6. ASSUME NEW b \in Bridges, RecordStarted(b) PROVE StandOK'
  <2>1. /\ runtime[b] = "ready" /\ pending[b] # <<>>
        /\ UNCHANGED <<runtime, manifestOf, told, receipt>>
    BY <1>6 DEF RecordStarted, GateOK, observed
  <2>2. Refuse(b) \/ UNCHANGED states
    BY <1>6 DEF RecordStarted
  <2> QED
    BY <2>1, <2>2, StandRefuse, StandSame
<1>7. ASSUME NEW b \in Bridges, BeginRun(b) PROVE StandOK'
  <2>1. PICK j \in Jobs : j = gate[b].job /\ runtime[b] = "ready" /\ j \in JobsIn(pending[b])
    <3>1. /\ gate[b].job \in Jobs /\ pending[b] # <<>> /\ Head(pending[b]) = gate[b].job
          /\ pending[b] \in Seq(Jobs) /\ runtime[b] = "ready"
      BY <1>7 DEF BeginRun, TypeOK, GateOK
    <3> QED
      BY <3>1 DEF JobsIn
  <2>2. states[b][PlanOf[j]].state = "Pending" /\ manifestOf[b][PlanOf[j]] = j
    BY <2>1, PlanOfType DEF MemoryOK, MemoryOf
  <2>3. /\ SetSnapshot(b, j, Snap("Running", "none"))
        /\ UNCHANGED <<runtime, receipt, manifestOf, told>>
    BY <1>7, <2>1 DEF BeginRun, disk, observed
  <2> QED
    BY <2>1, <2>2, <2>3, StandSet
<1>8. ASSUME NEW b \in Bridges, WriteReceipt(b) PROVE StandOK'
  <2>1. PICK j \in Jobs : j = worker[b].job /\ runtime[b] = "ready" /\ PlanOf[j] \in Plans
    BY <1>8, PlanOfType DEF WriteReceipt, WorkerAt, WorkerOK
  <2>2. manifestOf[b][PlanOf[j]] = j /\ states[b][PlanOf[j]].state = "Running"
    BY <2>1, NoJobFresh DEF MemoryOK, MemoryOf
  <2>3. UNCHANGED <<runtime, states, manifestOf, told, started>>
    BY <1>8 DEF WriteReceipt, observed
  <2>4. \A h \in Jobs : h # j => receipt'[h] = receipt[h]
    BY <1>8, <2>1 DEF WriteReceipt, PutReceipt, TypeOK
  <2>5. ASSUME NEW t \in told PROVE Sealed(t.job, t.state, t.error)'
    <3>1. t.job \in Jobs
      BY DEF TypeOK, Told
    <3>2. t.job = j => t.error # "job_interrupted"
      BY <2>1, <2>2, OpenPlan DEF Final
    <3> QED
      BY <2>3, <2>4, <3>1, <3>2 DEF StandOK, Sealed, HasReceipt
  <2>6. ASSUME NEW p \in Plans, manifestOf[b][p] # NoJob
        PROVE  Sealed(manifestOf[b][p], states[b][p].state, states[b][p].error)'
    <3>1. manifestOf[b][p] \in Jobs /\ PlanOf[manifestOf[b][p]] = p
      BY <2>6 DEF TypeOK, MemoryOK, MemoryOf
    <3>2. manifestOf[b][p] = j => states[b][p].state = "Running"
      BY <2>2, <3>1
    <3> QED
      BY <2>3, <2>4, <2>6, <3>1, <3>2 DEF StandOK, Sealed, HasReceipt
  <2>7. FinalAnswersStand'
    BY <2>3 DEF StandOK, FinalAnswersStand
  <2> QED
    BY <2>3, <2>5, <2>6, <2>7 DEF StandOK, OneBridge
<1>9. ASSUME NEW b \in Bridges, Complete(b) PROVE StandOK'
  <2>1. PICK j \in Jobs : j = worker[b].job /\ runtime[b] = "ready" /\ PlanOf[j] \in Plans
    BY <1>9, PlanOfType DEF Complete, WorkerAt, WorkerOK
  <2>2. manifestOf[b][PlanOf[j]] = j /\ states[b][PlanOf[j]].state = "Running"
    BY <2>1, NoJobFresh DEF MemoryOK, MemoryOf
  <2>3. UNCHANGED <<runtime, receipt, manifestOf, told>>
    BY <1>9 DEF Complete, disk, observed
  <2>4. \/ SetSnapshot(b, j, Snap("Succeeded", "none"))
        \/ SetSnapshot(b, j, Snap("Failed", "publish_failed"))
    BY <1>9, <2>1 DEF Complete
  <2> QED
    BY <2>1, <2>2, <2>3, <2>4, StandSet
<1>10. ASSUME NEW b \in Bridges,
              \/ \E j \in Jobs : TryEnqueue(b, j) \/ TryCancelPending(b, j)
              \/ RecordPending(b) \/ RecordCancelled(b)
              \/ Plot(b) \/ CommitFirst(b) \/ CommitRest(b)
       PROVE  StandOK'
  <2>1. UNCHANGED <<runtime, states, manifestOf, told, receipt>>
    BY <1>10 DEF TryEnqueue, TryCancelPending, RecordPending, RecordCancelled, Plot,
                 CommitFirst, CommitRest, disk, observed
  <2> QED
    BY <2>1, StandSame
<1>11. CASE OutsideStep \/ UNCHANGED vars
  <2>1. UNCHANGED <<runtime, states, manifestOf, told, receipt>>
    BY <1>11 DEF OutsideStep, ChangeStagedFiles, AlterOutputs, memory, observed, vars
  <2> QED
    BY <2>1, StandSame
<1> QED
  BY <1>1, <1>2, <1>3, <1>4, <1>5, <1>6, <1>7, <1>8, <1>9, <1>10, <1>11, StandRecover, StepKinds
  DEF BridgeStep, PipeStep, WorkerStep

\* With one bridge a final answer is never taken back, across crashes and
\* restarts: every later life of the bridge answers the same.
THEOREM FinalAnswersNeverChange == OneBridge => (Spec => []FinalAnswersStand)
<1> SUFFICES ASSUME OneBridge PROVE Spec => []FinalAnswersStand
  OBVIOUS
<1>1. Init => StandOK
  BY DEF Init, StandOK, FinalAnswersStand
<1>2. AnswersInv /\ StandOK /\ [Next]_vars => StandOK'
  BY StandStep
<1>3. StandOK => FinalAnswersStand
  BY DEF StandOK
<1> QED
  BY <1>1, <1>2, <1>3, AnswersInductive, PTL DEF Spec

(***************************************************************************)
(* One bridge: the marker files implement the abstract life of a job.      *)
(***************************************************************************)
LifeInv == AnswersInv /\ CancelOK /\ PlanOK

\* The phase of a job, marker by marker.
LEMMA PhaseCases ==
    ASSUME NEW j \in Jobs
    PROVE  /\ j \notin request => Phase[j] = "staged"
           /\ j \in request /\ j \in cancelled => Phase[j] = "cancelled"
           /\ j \in request /\ j \notin cancelled /\ j \notin started => Phase[j] = "accepted"
           /\ j \in request /\ j \notin cancelled /\ j \in started =>
                 Phase[j] = IF HasReceipt(j) THEN receipt[j].state ELSE "started"
BY DEF Phase

\* Only the four steps that create a marker move a job to another phase.
LEMMA PhaseSame ==
    ASSUME UNCHANGED <<request, cancelled, started, receipt>>
    PROVE  UNCHANGED Phase
BY DEF Phase, HasReceipt

\* Each marker that a bridge creates is one step of the abstract life of the job,
\* and every other step leaves the phases alone.
LEMMA LifeStep ==
    ASSUME OneBridge, LifeInv, LifeInv', [Next]_vars
    PROVE  [Lifecycle!Next]_Phase
<1> USE DEF LifeInv, AnswersInv, IndInv
<1>1. \A j \in Jobs : HasReceipt(j) => j \in started /\ j \in request
  BY DEF DiskOK, MarkersOK
<1>2. ASSUME NEW b \in Bridges, NEW j \in JobsIn(pending[b])
      PROVE  j \in Jobs /\ j \in request
  <2>1. pending[b] \in Seq(Jobs) /\ MemoryOf(b)
    BY DEF TypeOK, MemoryOK
  <2>2. j \in Jobs /\ PlanOf[j] \in Plans
    BY <1>2, <2>1, PlanOfType DEF JobsIn
  <2> QED
    BY <1>2, <2>1, <2>2, NoJobFresh DEF MemoryOf, DiskOK, DiskOf, OnDisk
<1>3. ASSUME NEW j \in Jobs, NEW to,
             \A h \in Jobs : h # j => Phase'[h] = Phase[h], Phase'[j] = to
      PROVE  Phase' = [Phase EXCEPT ![j] = to]
  BY <1>3 DEF Phase
<1>4. ASSUME NEW b \in Bridges, RecordPending(b) PROVE [Lifecycle!Next]_Phase
  <2>1. CASE UNCHANGED request
    BY <1>4, <2>1, PhaseSame DEF RecordPending
  <2>2. CASE request' = request \cup {gate[b].job} /\ gate[b].job \notin request
    <3>1. PICK j \in Jobs : j = gate[b].job
      BY <1>4 DEF RecordPending, GateOK
    <3>2. \A i \in Jobs : PlanOf[i] = PlanOf[j] => i \notin request
      <4>1. /\ gate[b].op = "enqueue" /\ gate[b].step = "write" /\ runtime[b] = "ready"
            /\ states[b][PlanOf[j]].state = "absent"
        BY <1>4, <3>1 DEF RecordPending, GateOK, PlanOK
      <4>2. \A i \in request : states[b][PlanOf[i]].state # "absent"
        BY <4>1 DEF PlanOK
      <4> QED
        BY <4>1, <4>2
    <3>3. j \notin cancelled /\ j \notin started /\ ~HasReceipt(j)
      BY <2>2, <3>1 DEF DiskOK, MarkersOK
    <3>4. UNCHANGED <<cancelled, started, receipt>>
      BY <1>4 DEF RecordPending
    <3>5. Phase'[j] = "accepted" /\ \A h \in Jobs : h # j => Phase'[h] = Phase[h]
      BY <2>2, <3>1, <3>3, <3>4 DEF Phase, HasReceipt
    <3>6. Lifecycle!Accept(j)
      BY <2>2, <3>1, <3>2, <3>5, <1>3, PhaseCases DEF Lifecycle!Accept, Lifecycle!Move
    <3> QED
      BY <3>6 DEF Lifecycle!Next
  <2> QED
    BY <1>4, <2>1, <2>2 DEF RecordPending
<1>5. ASSUME NEW b \in Bridges, RecordCancelled(b) PROVE [Lifecycle!Next]_Phase
  <2>1. CASE UNCHANGED cancelled
    BY <1>5, <2>1, PhaseSame DEF RecordCancelled
  <2>2. CASE cancelled' = cancelled \cup {gate[b].job} /\ gate[b].job \notin cancelled
    <3>1. PICK j \in Jobs : j = gate[b].job /\ j \in request /\ j \notin started
      <4>1. gate[b].job \in JobsIn(pending[b]) /\ gate[b].job \notin started
        BY <1>5 DEF RecordCancelled, GateOK, CancelOK, JobsIn
      <4> QED
        BY <1>2, <4>1
    <3>2. UNCHANGED <<request, started, receipt>>
      BY <1>5 DEF RecordCancelled
    <3>3. Phase'[j] = "cancelled" /\ \A h \in Jobs : h # j => Phase'[h] = Phase[h]
      BY <2>2, <3>1, <3>2 DEF Phase, HasReceipt
    <3>4. Lifecycle!Cancel(j)
      BY <2>2, <3>1, <3>3, <1>3, PhaseCases DEF Lifecycle!Cancel, Lifecycle!Move
    <3> QED
      BY <3>4 DEF Lifecycle!Next
  <2> QED
    BY <1>5, <2>1, <2>2 DEF RecordCancelled
<1>6. ASSUME NEW b \in Bridges, RecordStarted(b) PROVE [Lifecycle!Next]_Phase
  <2>1. CASE UNCHANGED started
    BY <1>6, <2>1, PhaseSame DEF RecordStarted
  <2>2. CASE started' = started \cup {gate[b].job} /\ gate[b].job \notin started
    <3>1. PICK j \in Jobs : j = gate[b].job /\ j \in request /\ j \notin cancelled
      <4>1. /\ gate[b].job \in Jobs /\ pending[b] # <<>> /\ Head(pending[b]) = gate[b].job
            /\ pending[b] \in Seq(Jobs) /\ gate[b].job \notin cancelled
        BY <1>6 DEF RecordStarted, GateOK, CancelOK, TypeOK
      <4>2. gate[b].job \in JobsIn(pending[b])
        BY <4>1 DEF JobsIn
      <4> QED
        BY <1>2, <4>1, <4>2
    <3>2. UNCHANGED <<request, cancelled, receipt>>
      BY <1>6 DEF RecordStarted
    <3>3. ~HasReceipt(j)
      BY <1>1, <2>2, <3>1
    <3>4. Phase'[j] = "started" /\ \A h \in Jobs : h # j => Phase'[h] = Phase[h]
      BY <2>2, <3>1, <3>2, <3>3 DEF Phase, HasReceipt
    <3>5. Lifecycle!Start(j)
      BY <2>2, <3>1, <3>4, <1>3, PhaseCases DEF Lifecycle!Start, Lifecycle!Move
    <3> QED
      BY <3>5 DEF Lifecycle!Next
  <2> QED
    BY <1>6, <2>1, <2>2 DEF RecordStarted
<1>7. ASSUME NEW b \in Bridges, WriteReceipt(b) PROVE [Lifecycle!Next]_Phase
  <2>1. CASE UNCHANGED receipt
    BY <1>7, <2>1, PhaseSame DEF WriteReceipt
  <2>2. CASE ~UNCHANGED receipt
    <3>1. PICK j \in Jobs : j = worker[b].job /\ j \in started /\ j \in request /\ j \notin cancelled
      <4>1. worker[b].job \in Jobs /\ worker[b].job \in started
        BY <1>7 DEF WriteReceipt, WorkerAt, WorkerOK, PlotOK, Owns
      <4> QED
        BY <4>1 DEF DiskOK, MarkersOK, CancelOK, CancelledNeverStarts
    <3>2. PICK r : /\ ~HasReceipt(j) /\ r.state \in {"succeeded", "failed"}
                   /\ receipt' = [receipt EXCEPT ![j] = r]
      BY <1>7, <2>2, <3>1 DEF WriteReceipt, PutReceipt
    <3>3. UNCHANGED <<request, cancelled, started>>
      BY <1>7 DEF WriteReceipt
    <3>4. Phase'[j] = r.state /\ \A h \in Jobs : h # j => Phase'[h] = Phase[h]
      BY <3>1, <3>2, <3>3 DEF Phase, HasReceipt, TypeOK
    <3>5. Lifecycle!Finish(j)
      BY <3>1, <3>2, <3>4, <1>3, PhaseCases DEF Lifecycle!Finish, Lifecycle!Move
    <3> QED
      BY <3>5 DEF Lifecycle!Next
  <2> QED
    BY <2>1, <2>2
<1>8. ASSUME NEW b \in Bridges, BridgeStep(b), ~RecordPending(b), ~RecordCancelled(b),
             ~RecordStarted(b), ~WriteReceipt(b)
      PROVE  UNCHANGED <<request, cancelled, started, receipt>>
  BY <1>8 DEF BridgeStep, PipeStep, WorkerStep, Recover, StartDisabled, StartAborted, Exit,
              TryEnqueue, TryCancelPending, GetStatus, AcceptEnqueue, AcceptCancel,
              TryStartNext, BeginRun, Plot, CommitFirst, CommitRest, Complete, disk
<1>9. CASE OutsideStep \/ UNCHANGED vars
  BY <1>9, PhaseSame DEF OutsideStep, ChangeStagedFiles, AlterOutputs, vars
<1> QED
  BY <1>4, <1>5, <1>6, <1>7, <1>8, <1>9, PhaseSame, StepKinds

\* The marker files of one bridge implement the durable life of a job: a plan is
\* accepted once, a job is cancelled or started, and it ends once at most.
THEOREM QueueImplementsLifecycle == OneBridge => (Spec => ImplementsLifecycle)
<1> SUFFICES ASSUME OneBridge PROVE Spec => ImplementsLifecycle
  OBVIOUS
<1>1. Init => Lifecycle!Init /\ CancelOK /\ PlanOK
  BY DEF Init, Lifecycle!Init, Phase, CancelOK, PlanOK, CancelledNeverStarts, OneJobPerPlan,
         FreeGate
<1>2. AnswersInv /\ CancelOK /\ PlanOK /\ [Next]_vars => CancelOK' /\ PlanOK'
  BY CancelStep, PlanStep DEF AnswersInv
<1>3. LifeInv /\ LifeInv' /\ [Next]_vars => [Lifecycle!Next]_Phase
  BY LifeStep
<1>4. LifeInv <=> AnswersInv /\ CancelOK /\ PlanOK
  BY DEF LifeInv
<1> QED
  BY <1>1, <1>2, <1>3, <1>4, AnswersInductive, PTL DEF Spec, ImplementsLifecycle, Lifecycle!Spec
=============================================================================
