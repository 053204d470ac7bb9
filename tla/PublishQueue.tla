---------------------------- MODULE PublishQueue ----------------------------
(***************************************************************************)
(* The durable publish queue inside the AutoCAD plug-in: PublishJobQueue,  *)
(* its file journal, the idle-time worker and the terminal receipt         *)
(* (src/dotnet/CadPlotMcp.Core).                                           *)
(*                                                                         *)
(* A bridge is one AutoCAD process.  Its pipe thread serves one request at *)
(* a time and its main thread runs one job at a time; the two meet at the  *)
(* lock _gate.  Everything a bridge remembers is lost when the process     *)
(* ends; what survives is the set of marker files beside each staged job,  *)
(* which every bridge with the same workspace shares.  The lock protects a *)
(* bridge from itself only, so an operation is split where another process *)
(* or a crash can come between: the checks, the atomic File.Move of the    *)
(* marker, and the change of memory with the answer to the client.         *)
(***************************************************************************)
EXTENDS Naturals, Sequences, FiniteSets

CONSTANTS
    Bridges,    \* AutoCAD processes that use one workspace
    Jobs,       \* staged job directories; a manifest digest names one job
    Plans,      \* plan identifiers
    PlanOf,     \* the plan a job's manifest carries; two jobs may share one
    Capacity,   \* pending slots of a queue
    Touched,    \* jobs whose files other programs may change (a bound)
    NoJob

ASSUME JobsFinite == IsFiniteSet(Jobs)
ASSUME PlanOfType == PlanOf \in [Jobs -> Plans]
ASSUME CapacityType == Capacity \in 1 .. 1000
ASSUME TouchedType == Touched \subseteq Jobs
ASSUME NoJobFresh == NoJob \notin Jobs

VARIABLES
    \* the workspace, shared by all bridges and kept across crashes
    request,    \* jobs with .cadplot-queue-request.json
    started,    \* jobs with .cadplot-queue-started.json
    cancelled,  \* jobs with .cadplot-queue-cancelled.json
    receipt,    \* per job, receipt.json
    outputs,    \* per job, what the final PDF names hold
    intact,     \* jobs whose manifest and staged DWG still match the request
    \* memory of each bridge
    runtime,    \* whether the plug-in runs, and with which capability
    pending,    \* _pending
    states,     \* _states: a snapshot per plan
    manifestOf, \* _manifestHashes: the job a plan was accepted for
    gate,       \* the operation that holds _gate
    worker,     \* the job PublishJobWorker executes
    \* what the outside world saw
    told,       \* snapshots answered over the pipe
    plots       \* per job, how often it was plotted

disk == <<request, started, cancelled, receipt, outputs, intact>>
memory == <<runtime, pending, states, manifestOf, gate, worker>>
observed == <<told, plots>>
vars == <<request, started, cancelled, receipt, outputs, intact, runtime,
          pending, states, manifestOf, gate, worker, told, plots>>

JobStates == {"Pending", "Running", "Succeeded", "Failed", "Cancelled"}
Errors == {"none", "start_refused", "publish_failed", "job_interrupted"}
OutputStates == {"none", "partial", "plotted", "altered"}

Snapshot == [state : JobStates \cup {"absent"}, error : Errors]
Receipt == [state : {"none", "succeeded", "failed"}, bound : OutputStates]
Gate == [op : {"free", "enqueue", "cancel", "start"},
         job : Jobs \cup {NoJob}, step : {"write", "answer"}]
Worker == [job : Jobs \cup {NoJob},
           step : {"idle", "plot", "commit", "promote", "receipt", "complete"},
           ok : BOOLEAN]
Told == [job : Jobs, state : JobStates, error : Errors]

Absent == [state |-> "absent", error |-> "none"]
NoReceipt == [state |-> "none", bound |-> "none"]
FreeGate == [op |-> "free", job |-> NoJob, step |-> "write"]
IdleWorker == [job |-> NoJob, step |-> "idle", ok |-> FALSE]
Snap(s, e) == [state |-> s, error |-> e]

(***************************************************************************)
(* Queue helpers.                                                          *)
(***************************************************************************)
PendingJobs(b) == {pending[b][i] : i \in DOMAIN pending[b]}

\* the orders in which a directory scan can list the jobs of S
ScanOrders(S) ==
    {q \in [1 .. Cardinality(S) -> S] :
        \A m, n \in 1 .. Cardinality(S) : q[m] = q[n] => m = n}

\* q without j, the rest in order; a queue holds a job at most once
Without(q, j) ==
    LET i == CHOOSE k \in DOMAIN q : q[k] = j
    IN  SubSeq(q, 1, i - 1) \o SubSeq(q, i + 1, Len(q))

SetSnapshot(b, j, snap) ==
    states' = [states EXCEPT ![b][PlanOf[j]] = snap]

Hold(b, op, j, step) ==
    gate' = [gate EXCEPT ![b] = [op |-> op, job |-> j, step |-> step]]

Dequeue(b) == pending' = [pending EXCEPT ![b] = Tail(@)]

Release(b) == gate' = [gate EXCEPT ![b] = FreeGate]

Tell(j, snap) ==
    told' = told \cup {[job |-> j, state |-> snap.state, error |-> snap.error]}

(***************************************************************************)
(* Startup.  Recover scans the job directories and rebuilds the memory.    *)
(* Every kind of conflicting evidence raises InvalidDataException.         *)
(***************************************************************************)
HasReceipt(j) == receipt[j].state # "none"
Queued == request \ (started \cup cancelled \cup {j \in Jobs : HasReceipt(j)})

RecoveryConflict ==
    \/ (started \cup cancelled) \ request # {}
    \/ request \ intact # {}
    \/ \E i, j \in request : i # j /\ PlanOf[i] = PlanOf[j]
    \/ \E j \in request \cap cancelled : j \in started \/ HasReceipt(j)
    \/ \E j \in request \ cancelled : HasReceipt(j) /\ j \notin started
    \/ \E j \in request \ cancelled : /\ receipt[j].state = "succeeded"
                                      /\ outputs[j] # receipt[j].bound
    \/ Cardinality(Queued) > Capacity

\* Seeded fault: the receipt is not looked at.
RecoveredSnapshotByMarker(j) ==
    IF j \in cancelled THEN Snap("Cancelled", "none")
    ELSE IF j \in started THEN Snap("Failed", "job_interrupted")
    ELSE Snap("Pending", "none")

RecoveredSnapshot(j) ==
    IF j \in cancelled THEN Snap("Cancelled", "none")
    ELSE IF HasReceipt(j) THEN
        IF receipt[j].state = "succeeded" THEN Snap("Succeeded", "none")
                                          ELSE Snap("Failed", "publish_failed")
    ELSE IF j \in started THEN Snap("Failed", "job_interrupted")
    ELSE Snap("Pending", "none")

JobOfPlan(p) == CHOOSE j \in request : PlanOf[j] = p
Known(p) == \E j \in request : PlanOf[j] = p

Recover(b) ==
    /\ runtime[b] = "off"
    /\ ~RecoveryConflict
    /\ runtime' = [runtime EXCEPT ![b] = "ready"]
    /\ \E q \in ScanOrders(Queued) : pending' = [pending EXCEPT ![b] = q]
    /\ states' = [states EXCEPT ![b] = [p \in Plans |->
            IF Known(p) THEN RecoveredSnapshot(JobOfPlan(p)) ELSE Absent]]
    /\ manifestOf' = [manifestOf EXCEPT ![b] = [p \in Plans |->
            IF Known(p) THEN JobOfPlan(p) ELSE NoJob]]
    /\ UNCHANGED <<disk, gate, worker, observed>>

\* The runtime swallows ArgumentException, IOException, UnauthorizedAccess-
\* Exception, SecurityException and CryptographicException: publishing is then
\* disabled and the status command says publish_queue_initialization_failed.
StartDisabled(b) ==
    /\ runtime[b] = "off"
    /\ runtime' = [runtime EXCEPT ![b] = "disabled"]
    /\ UNCHANGED <<disk, pending, states, manifestOf, gate, worker, observed>>

\* InvalidDataException is none of those: the constructor rethrows it before
\* the pipe host exists.
StartAborted(b) ==
    /\ runtime[b] = "off"
    /\ RecoveryConflict
    /\ runtime' = [runtime EXCEPT ![b] = "aborted"]
    /\ UNCHANGED <<disk, pending, states, manifestOf, gate, worker, observed>>

\* The AutoCAD process exits or crashes, between any two steps.
Exit(b) ==
    /\ runtime[b] # "off"
    /\ runtime' = [runtime EXCEPT ![b] = "off"]
    /\ pending' = [pending EXCEPT ![b] = <<>>]
    /\ states' = [states EXCEPT ![b] = [p \in Plans |-> Absent]]
    /\ manifestOf' = [manifestOf EXCEPT ![b] = [p \in Plans |-> NoJob]]
    /\ gate' = [gate EXCEPT ![b] = FreeGate]
    /\ worker' = [worker EXCEPT ![b] = IdleWorker]
    /\ UNCHANGED <<disk, observed>>

(***************************************************************************)
(* queue_publish_job.                                                      *)
(***************************************************************************)
Serving(b) == runtime[b] = "ready" /\ gate[b].op = "free"

\* Seeded fault: no duplicate_plan check in memory.
TryEnqueueUnchecked(b, j) ==
    /\ Serving(b)
    /\ j \in intact
    /\ Len(pending[b]) < Capacity
    /\ ~HasReceipt(j)
    /\ j \notin request \cup started \cup cancelled
    /\ Hold(b, "enqueue", j, "write")
    /\ UNCHANGED <<disk, runtime, pending, states, manifestOf, worker, observed>>

\* Validation, the capacity and duplicate checks, and the journal's look for
\* existing markers.  A refusal changes nothing.
TryEnqueue(b, j) ==
    /\ Serving(b)
    /\ j \in intact
    /\ Len(pending[b]) < Capacity
    /\ states[b][PlanOf[j]].state = "absent"
    /\ ~HasReceipt(j)
    /\ j \notin request \cup started \cup cancelled
    /\ Hold(b, "enqueue", j, "write")
    /\ UNCHANGED <<disk, runtime, pending, states, manifestOf, worker, observed>>

\* Seeded fault: a failed write is taken for a success.
RecordPendingUnchecked(b) ==
    /\ gate[b].op = "enqueue" /\ gate[b].step = "write"
    /\ \/ /\ gate[b].job \notin request
          /\ request' = request \cup {gate[b].job}
          /\ Hold(b, "enqueue", gate[b].job, "answer")
       \/ /\ Hold(b, "enqueue", gate[b].job, "answer")
          /\ UNCHANGED request
    /\ UNCHANGED <<started, cancelled, receipt, outputs, intact, runtime,
                   pending, states, manifestOf, worker, observed>>

\* WriteAtomicCreate: File.Move never overwrites, and may fail.
RecordPending(b) ==
    /\ gate[b].op = "enqueue" /\ gate[b].step = "write"
    /\ \/ /\ gate[b].job \notin request
          /\ request' = request \cup {gate[b].job}
          /\ Hold(b, "enqueue", gate[b].job, "answer")
       \/ /\ Release(b)
          /\ UNCHANGED request
    /\ UNCHANGED <<started, cancelled, receipt, outputs, intact, runtime,
                   pending, states, manifestOf, worker, observed>>

AcceptEnqueue(b) ==
    LET j == gate[b].job IN
    /\ gate[b].op = "enqueue" /\ gate[b].step = "answer"
    /\ pending' = [pending EXCEPT ![b] = Append(@, j)]
    /\ SetSnapshot(b, j, Snap("Pending", "none"))
    /\ manifestOf' = [manifestOf EXCEPT ![b][PlanOf[j]] = j]
    /\ Tell(j, Snap("Pending", "none"))
    /\ Release(b)
    /\ UNCHANGED <<disk, runtime, worker, plots>>

(***************************************************************************)
(* cancel_publish_job, for an exact plan and manifest digest.              *)
(***************************************************************************)
\* Seeded fault: a running job can be cancelled.
TryCancelAnyKnown(b, j) ==
    LET p == PlanOf[j] IN
    /\ Serving(b)
    /\ manifestOf[b][p] = j
    /\ states[b][p].state \in {"Pending", "Running"}
    /\ j \in request \ cancelled /\ j \in intact
    /\ Hold(b, "cancel", j, "write")
    /\ UNCHANGED <<disk, runtime, pending, states, manifestOf, worker, observed>>

TryCancelPending(b, j) ==
    LET p == PlanOf[j] IN
    /\ Serving(b)
    /\ manifestOf[b][p] = j
    /\ states[b][p].state = "Pending"
    /\ j \in PendingJobs(b)
    /\ j \in request /\ j \in intact
    /\ j \notin started /\ ~HasReceipt(j)
    /\ Hold(b, "cancel", j, IF j \in cancelled THEN "answer" ELSE "write")
    /\ UNCHANGED <<disk, runtime, pending, states, manifestOf, worker, observed>>

RecordCancelled(b) ==
    /\ gate[b].op = "cancel" /\ gate[b].step = "write"
    /\ \/ /\ gate[b].job \notin cancelled
          /\ cancelled' = cancelled \cup {gate[b].job}
          /\ Hold(b, "cancel", gate[b].job, "answer")
       \/ /\ Release(b)
          /\ UNCHANGED cancelled
    /\ UNCHANGED <<request, started, receipt, outputs, intact, runtime,
                   pending, states, manifestOf, worker, observed>>

\* Seeded fault: the cancelled job stays in the queue.
AcceptCancelKeepsQueue(b) ==
    LET j == gate[b].job IN
    /\ gate[b].op = "cancel" /\ gate[b].step = "answer"
    /\ SetSnapshot(b, j, Snap("Cancelled", "none"))
    /\ Tell(j, Snap("Cancelled", "none"))
    /\ Release(b)
    /\ UNCHANGED <<disk, runtime, pending, manifestOf, worker, plots>>

AcceptCancel(b) ==
    LET j == gate[b].job IN
    /\ gate[b].op = "cancel" /\ gate[b].step = "answer"
    /\ pending' = [pending EXCEPT ![b] = Without(@, j)]
    /\ SetSnapshot(b, j, Snap("Cancelled", "none"))
    /\ Tell(j, Snap("Cancelled", "none"))
    /\ Release(b)
    /\ UNCHANGED <<disk, runtime, manifestOf, worker, plots>>

\* Seeded fault: a plan nobody queued is answered too.
GetStatusUnchecked(b, p) ==
    /\ Serving(b)
    /\ Tell(manifestOf[b][p], states[b][p])
    /\ UNCHANGED <<disk, memory, plots>>

\* publish_job_status, and the repeated cancellation of a cancelled job: both
\* answer with the snapshot and change nothing.
GetStatus(b, p) ==
    /\ Serving(b)
    /\ manifestOf[b][p] # NoJob
    /\ Tell(manifestOf[b][p], states[b][p])
    /\ UNCHANGED <<disk, memory, plots>>

(***************************************************************************)
(* The worker: on an idle event the main thread takes the oldest job,      *)
(* executes it, writes the receipt and completes it.                       *)
(***************************************************************************)
Startable(j) ==
    /\ j \in request /\ j \in intact
    /\ j \notin cancelled \cup started
    /\ ~HasReceipt(j)

\* Seeded fault: a job that cannot start stays at the head.
RefuseKeepsHead(b) ==
    /\ UNCHANGED <<pending, states>>
    /\ Release(b)

\* A refused start takes the job out of the queue and fails it in memory only.
Refuse(b) ==
    /\ Dequeue(b)
    /\ SetSnapshot(b, Head(pending[b]), Snap("Failed", "start_refused"))
    /\ Release(b)

TryStartNext(b) ==
    /\ Serving(b)
    /\ worker[b].step = "idle"
    /\ pending[b] # <<>>
    /\ IF Startable(Head(pending[b]))
       THEN /\ Hold(b, "start", Head(pending[b]), "write")
            /\ UNCHANGED <<pending, states>>
       ELSE Refuse(b)
    /\ UNCHANGED <<disk, runtime, manifestOf, worker, observed>>

\* Seeded fault: the move overwrites an existing marker.
RecordStartedOverwriting(b) ==
    /\ gate[b].op = "start" /\ gate[b].step = "write"
    /\ \/ /\ started' = started \cup {gate[b].job}
          /\ Hold(b, "start", gate[b].job, "answer")
          /\ UNCHANGED <<pending, states>>
       \/ /\ Refuse(b)
          /\ UNCHANGED started
    /\ UNCHANGED <<request, cancelled, receipt, outputs, intact, runtime,
                   manifestOf, worker, observed>>

RecordStarted(b) ==
    /\ gate[b].op = "start" /\ gate[b].step = "write"
    /\ \/ /\ gate[b].job \notin started
          /\ started' = started \cup {gate[b].job}
          /\ Hold(b, "start", gate[b].job, "answer")
          /\ UNCHANGED <<pending, states>>
       \/ /\ Refuse(b)
          /\ UNCHANGED started
    /\ UNCHANGED <<request, cancelled, receipt, outputs, intact, runtime,
                   manifestOf, worker, observed>>

BeginRun(b) ==
    LET j == gate[b].job IN
    /\ gate[b].op = "start" /\ gate[b].step = "answer"
    /\ Dequeue(b)
    /\ SetSnapshot(b, j, Snap("Running", "none"))
    /\ worker' = [worker EXCEPT ![b] = [job |-> j, step |-> "plot", ok |-> FALSE]]
    /\ Release(b)
    /\ UNCHANGED <<disk, runtime, manifestOf, observed>>

WorkerAt(b, step) == worker[b].step = step

PutOutputs(j, content) == outputs' = [outputs EXCEPT ![j] = content]
PutReceipt(j, r) == receipt' = [receipt EXCEPT ![j] = r]
CountPlot(j) == plots' = [plots EXCEPT ![j] = @ + 1]

Advance(b, step, ok) ==
    worker' = [worker EXCEPT ![b] = [job |-> @.job, step |-> step, ok |-> ok]]

\* Seeded fault: a failed plot is reported as a success.
PlotFailureIgnored(b) ==
    LET j == worker[b].job IN
    /\ WorkerAt(b, "plot")
    /\ \/ /\ j \in intact /\ outputs[j] = "none"
          /\ CountPlot(j)
          /\ Advance(b, "commit", FALSE)
       \/ /\ Advance(b, "receipt", TRUE)
          /\ UNCHANGED plots
    /\ UNCHANGED <<disk, runtime, pending, states, manifestOf, gate, told>>

\* Execute up to the commit: the job is validated again, no final name may
\* exist, and every sheet is plotted to a temporary name.  Any of these, or
\* AutoCAD itself, can fail.
Plot(b) ==
    LET j == worker[b].job IN
    /\ WorkerAt(b, "plot")
    /\ \/ /\ j \in intact /\ outputs[j] = "none"
          /\ CountPlot(j)
          /\ Advance(b, "commit", FALSE)
       \/ /\ Advance(b, "receipt", FALSE)
          /\ UNCHANGED plots
    /\ UNCHANGED <<disk, runtime, pending, states, manifestOf, gate, told>>

\* Commit moves the files one by one.  The first move makes outputs partial; a
\* failure before it leaves the final names alone.
CommitFirst(b) ==
    LET j == worker[b].job IN
    /\ WorkerAt(b, "commit")
    /\ \/ /\ outputs[j] = "none"
          /\ PutOutputs(j, "partial")
          /\ Advance(b, "promote", FALSE)
       \/ /\ Advance(b, "receipt", FALSE)
          /\ UNCHANGED outputs
    /\ UNCHANGED <<request, started, cancelled, receipt, intact, runtime,
                   pending, states, manifestOf, gate, observed>>

\* The rest of the moves succeed, even if a promoted file was changed meanwhile;
\* or the moves made so far are rolled back; or the rollback is refused as well
\* (output_commit_partial).
CommitRest(b) ==
    LET j == worker[b].job IN
    /\ WorkerAt(b, "promote")
    /\ \/ /\ PutOutputs(j, IF outputs[j] = "partial" THEN "plotted" ELSE outputs[j])
          /\ Advance(b, "receipt", TRUE)
       \/ /\ outputs[j] = "partial"
          /\ PutOutputs(j, "none")
          /\ Advance(b, "receipt", FALSE)
       \/ /\ Advance(b, "receipt", FALSE)
          /\ UNCHANGED outputs
    /\ UNCHANGED <<request, started, cancelled, receipt, intact, runtime,
                   pending, states, manifestOf, gate, observed>>

\* Seeded fault: a receipt that cannot be written leaves ProcessNext.
WriteReceiptThrows(b) ==
    LET j == worker[b].job IN
    /\ WorkerAt(b, "receipt")
    /\ \/ /\ worker[b].ok
          /\ j \in intact /\ outputs[j] \in {"plotted", "altered"}
          /\ ~HasReceipt(j)
          /\ PutReceipt(j, [state |-> "succeeded", bound |-> outputs[j]])
          /\ Advance(b, "complete", TRUE)
       \/ /\ ~worker[b].ok
          /\ ~HasReceipt(j)
          /\ PutReceipt(j, [state |-> "failed", bound |-> "none"])
          /\ Advance(b, "complete", FALSE)
       \/ /\ worker' = [worker EXCEPT ![b] = IdleWorker]
          /\ UNCHANGED receipt
    /\ UNCHANGED <<request, started, cancelled, outputs, intact, runtime,
                   pending, states, manifestOf, gate, observed>>

\* A receipt for a success binds the outputs found on disk now; any receipt is
\* created once.  A failure to write it turns the execution into a failure.
WriteReceipt(b) ==
    LET j == worker[b].job IN
    /\ WorkerAt(b, "receipt")
    /\ \/ /\ worker[b].ok
          /\ j \in intact /\ outputs[j] \in {"plotted", "altered"}
          /\ ~HasReceipt(j)
          /\ PutReceipt(j, [state |-> "succeeded", bound |-> outputs[j]])
          /\ Advance(b, "complete", TRUE)
       \/ /\ ~worker[b].ok
          /\ ~HasReceipt(j)
          /\ PutReceipt(j, [state |-> "failed", bound |-> "none"])
          /\ Advance(b, "complete", FALSE)
       \/ /\ Advance(b, "complete", FALSE)
          /\ UNCHANGED receipt
    /\ UNCHANGED <<request, started, cancelled, outputs, intact, runtime,
                   pending, states, manifestOf, gate, observed>>

\* Complete takes the lock, so it waits for the pipe thread.
Complete(b) ==
    /\ WorkerAt(b, "complete")
    /\ Serving(b)
    /\ SetSnapshot(b, worker[b].job,
            IF worker[b].ok THEN Snap("Succeeded", "none")
                            ELSE Snap("Failed", "publish_failed"))
    /\ worker' = [worker EXCEPT ![b] = IdleWorker]
    /\ UNCHANGED <<disk, runtime, pending, manifestOf, gate, observed>>

(***************************************************************************)
(* Other programs can change the staged files, and create or change PDFs.  *)
(***************************************************************************)
ChangeStagedFiles(j) ==
    /\ j \in intact
    /\ intact' = intact \ {j}
    /\ UNCHANGED <<request, started, cancelled, receipt, outputs, memory, observed>>

AlterOutputs(j) ==
    /\ outputs[j] # "altered"
    /\ PutOutputs(j, "altered")
    /\ UNCHANGED <<request, started, cancelled, receipt, intact, memory, observed>>

(***************************************************************************)
(* The specification.                                                      *)
(***************************************************************************)
Init ==
    /\ request = {} /\ started = {} /\ cancelled = {}
    /\ receipt = [j \in Jobs |-> NoReceipt]
    /\ outputs = [j \in Jobs |-> "none"]
    /\ intact = Jobs
    /\ runtime = [b \in Bridges |-> "off"]
    /\ pending = [b \in Bridges |-> <<>>]
    /\ states = [b \in Bridges |-> [p \in Plans |-> Absent]]
    /\ manifestOf = [b \in Bridges |-> [p \in Plans |-> NoJob]]
    /\ gate = [b \in Bridges |-> FreeGate]
    /\ worker = [b \in Bridges |-> IdleWorker]
    /\ told = {}
    /\ plots = [j \in Jobs |-> 0]

PipeStep(b) == \/ RecordPending(b) \/ AcceptEnqueue(b)
               \/ RecordCancelled(b) \/ AcceptCancel(b)

WorkerStep(b) == \/ TryStartNext(b) \/ RecordStarted(b) \/ BeginRun(b)
                 \/ Plot(b) \/ CommitFirst(b) \/ CommitRest(b)
                 \/ WriteReceipt(b) \/ Complete(b)

Next ==
    \/ \E b \in Bridges :
        \/ Recover(b) \/ StartDisabled(b) \/ StartAborted(b) \/ Exit(b)
        \/ \E j \in Jobs : TryEnqueue(b, j) \/ TryCancelPending(b, j)
        \/ \E p \in Plans : GetStatus(b, p)
        \/ PipeStep(b) \/ WorkerStep(b)
    \/ \E j \in Touched : ChangeStagedFiles(j) \/ AlterOutputs(j)

Spec == Init /\ [][Next]_vars

\* A thread that holds the lock or runs a job goes on, and AutoCAD raises idle
\* events while it runs.  The two steps that acquire the lock are strongly
\* fair: Monitor queues its waiters and the pipe thread holds it only briefly.
Fairness == \A b \in Bridges :
    /\ WF_vars(PipeStep(b)) /\ WF_vars(WorkerStep(b))
    /\ SF_vars(TryStartNext(b)) /\ SF_vars(Complete(b))

FairSpec == Spec /\ Fairness
(***************************************************************************)
(* Properties.                                                             *)
(***************************************************************************)
\* Every variable has its type.
TypeOK ==
    /\ request \subseteq Jobs /\ started \subseteq Jobs
    /\ cancelled \subseteq Jobs /\ intact \subseteq Jobs
    /\ receipt \in [Jobs -> Receipt]
    /\ outputs \in [Jobs -> OutputStates]
    /\ runtime \in [Bridges -> {"off", "ready", "disabled", "aborted"}]
    /\ pending \in [Bridges -> Seq(Jobs)]
    /\ states \in [Bridges -> [Plans -> Snapshot]]
    /\ manifestOf \in [Bridges -> [Plans -> Jobs \cup {NoJob}]]
    /\ gate \in [Bridges -> Gate]
    /\ worker \in [Bridges -> Worker]
    /\ told \subseteq Told
    /\ plots \in [Jobs -> Nat]

\* No staged job is plotted twice, whatever crashes, restarts and other bridges
\* do: the started marker is created once, and a started job is never replayed
\* (RecordStarted, Recover).
PlotAtMostOnce == \A j \in Jobs : plots[j] <= 1

\* A success receipt exists only for a job that a bridge started and plotted
\* itself: PDFs that appear from elsewhere never make a job succeed
\* (Execute, PublishReceiptWriter.Write).
SuccessIsEarned ==
    \A j \in Jobs : receipt[j].state = "succeeded" =>
        j \in started /\ plots[j] = 1 /\ receipt[j].bound # "none"

\* Whatever a bridge answers over the pipe is already on disk, so a crash right
\* after the answer cannot take it back (TryEnqueue, TryCancelPending, Complete).
AnswersAreDurable ==
    \A t \in told :
        /\ t.job \in request
        /\ t.state = "Cancelled" => t.job \in cancelled
        /\ t.state = "Running" => t.job \in started
        /\ t.state = "Succeeded" => receipt[t.job].state = "succeeded"

\* The queue, the snapshots and the idle worker agree: a plan is Pending exactly
\* while its job waits, once, in the queue (TryCancelPending would find
\* queue_state_missing), and the job being plotted is the Running one of its plan,
\* so Complete never throws "Only a running publish job can be completed" out of
\* the idle handler.
QueueMatchesStates ==
    \A b \in Bridges :
        /\ \A i, k \in DOMAIN pending[b] : pending[b][i] = pending[b][k] => i = k
        /\ \A p \in Plans : states[b][p].state = "Pending" <=>
                \E i \in DOMAIN pending[b] : pending[b][i] = manifestOf[b][p]
        /\ worker[b].job # NoJob =>
                /\ states[b][PlanOf[worker[b].job]].state = "Running"
                /\ manifestOf[b][PlanOf[worker[b].job]] = worker[b].job

\* A job with a cancellation marker is never started, nor a started one
\* cancelled (TryCancelPending against TryStartNext; ADR 0006).
CancelledNeverStarts == cancelled \cap started = {}

\* A plan is queued for one job directory only, across restarts: staging the
\* same plan again never plots it again (duplicate_plan).
OneJobPerPlan ==
    \A i, j \in request : PlanOf[i] = PlanOf[j] => i = j

\* A final answer stands: once a client was told Succeeded, Cancelled or
\* job_interrupted, every later life of the bridge gives the same answer.
FinalAnswersStand ==
    \A b \in Bridges, t \in told :
        /\ runtime[b] = "ready"
        /\ t.state \in {"Succeeded", "Cancelled"} \/ t.error = "job_interrupted"
        => states[b][PlanOf[t.job]] = Snap(t.state, t.error)

\* A pending job does not wait for ever in a bridge that keeps running: a job
\* at the head that cannot start is thrown out and lets the next one pass.
PendingIsServed ==
    \A b \in Bridges, p \in Plans :
        states[b][p].state = "Pending" ~> states[b][p].state # "Pending"

\* A running job reaches Succeeded or Failed unless the process ends, however
\* plotting, the commit or the receipt go wrong (ProcessNext).
RunsComplete ==
    \A b \in Bridges, p \in Plans :
        states[b][p].state = "Running" ~> states[b][p].state # "Running"

\* Conflicting recovery evidence only disables publishing: the bridge still
\* starts and answers status with publish_queue_initialization_failed.
RefusedRecoveryIsReported == \A b \in Bridges : runtime[b] # "aborted"

\* The durable phase of a job, read off its marker files.
Phase == [j \in Jobs |->
    CASE j \notin request -> "staged"
      [] j \in request /\ j \in cancelled -> "cancelled"
      [] j \in request \ cancelled /\ j \notin started -> "accepted"
      [] j \in (request \ cancelled) \cap started -> 
            IF HasReceipt(j) THEN receipt[j].state ELSE "started"]

Lifecycle == INSTANCE PublishLifecycle WITH phase <- Phase

\* The marker files of one bridge implement the durable life of a job.
ImplementsLifecycle == Lifecycle!Spec
=============================================================================
