----------------------------- MODULE RemoteWorker ------------------------------
(***************************************************************************)
(* The workstation worker (WorkerRunner.run_once in run_worker_loop) against*)
(* the gateway: what it keeps in its SQLite file, what it forgets when it   *)
(* dies, and what the HTTPS exchange can lose.                              *)
(*                                                                          *)
(* An iteration first delivers the oldest result in the outbox; only with an*)
(* empty outbox does it poll, authorize the dispatch (consuming its nonce), *)
(* report the start, execute, save the signed result and deliver it.  Every *)
(* exception, whatever its cause, ends the iteration and nothing else.  More*)
(* than one process may run on the workstation (the service and a --once    *)
(* run), all sharing the file.                                              *)
(***************************************************************************)
EXTENDS ResultIngress

CONSTANTS
  Processes,      \* the worker processes of the one workstation
  Station         \* that workstation

ASSUME StationType == Workstations = {Station}

VARIABLES
  nonces,         \* accepted_dispatch_nonces
  outbox,         \* pending_worker_results
  wpc, task,      \* each process: its next step and the operation it works on
  sending, via,   \* the result it delivers and the handler that got it
  executions,     \* history: how often the command of an operation was begun
  saved           \* history: every result ever saved

fileVars == <<nonces, outbox>>
procVars == <<wpc, task, sending, via>>
history == <<executions, saved>>
workerVars == <<fileVars, procVars, history>>
systemVars == <<allVars, workerVars>>

WorkerInit ==
  /\ IngressInit
  /\ nonces = {} /\ outbox = {}
  /\ wpc = [p \in Processes |-> "idle"]
  /\ task = [p \in Processes |-> NoOp]
  /\ sending = [p \in Processes |-> NoClaim]
  /\ via = [p \in Processes |-> NoHandler]
  /\ executions = [o \in Ops |-> 0]
  /\ saved = {}

\* The iteration is over: what was only in memory is gone.
EndIteration(p) ==
  /\ wpc' = [wpc EXCEPT ![p] = "idle"]
  /\ task' = [task EXCEPT ![p] = NoOp]
  /\ sending' = [sending EXCEPT ![p] = NoClaim]
  /\ via' = [via EXCEPT ![p] = NoHandler]

StepTo(p, step) == wpc' = [wpc EXCEPT ![p] = step] /\ UNCHANGED <<task, sending, via>>

-----------------------------------------------------------------------------
\* run_once reads the outbox in the order of completion.
Oldest(e) == e \in outbox /\ \A f \in outbox : e.completed <= f.completed

TakePending(p) ==
  /\ wpc[p] = "idle"
  /\ \E e \in outbox : Oldest(e) /\ sending' = [sending EXCEPT ![p] = e]
  /\ wpc' = [wpc EXCEPT ![p] = "delivering"]
  /\ UNCHANGED <<allVars, fileVars, task, via, history>>

FindNonePending(p) ==
  /\ wpc[p] = "idle" /\ outbox = {}
  /\ StepTo(p, "polling")
  /\ UNCHANGED <<allVars, fileVars, history>>

\* poll: the gateway leases an operation for this request, or answers 204.
Poll(p, o) ==
  /\ wpc[p] = "polling"
  /\ PollLease(Station, o)
  /\ wpc' = [wpc EXCEPT ![p] = "awaiting"]
  /\ task' = [task EXCEPT ![p] = o]
  /\ UNCHANGED <<fileVars, sending, via, history>>

PollIdle(p) ==
  /\ wpc[p] = "polling"
  /\ PollNothing(Station) /\ EndIteration(p)
  /\ UNCHANGED <<fileVars, history>>

\* The stored dispatch arrives; an error of the poll handler ends the iteration.
ReceiveTask(p) ==
  /\ wpc[p] = "awaiting" /\ task[p] \notin building
  /\ IF dispatch[task[p]] # NoDispatch THEN StepTo(p, "authorizing") ELSE EndIteration(p)
  /\ UNCHANGED <<allVars, fileVars, history>>

\* authorize_for_worker: the dispatch is this worker's, signed, and not over.
Authorized(o) == dispatch[o].issued - MaxSkew <= now /\ now < dispatch[o].expires

\* consume_dispatch_nonce, which first forgets the nonces of dispatches that are over.
Authorize(p) ==
  LET nonce == <<task[p], dispatch[task[p]]>>
      kept == {n \in nonces : now < n[2].expires}
      valid == Authorized(task[p])
  IN  /\ wpc[p] = "authorizing"
      /\ nonces' = IF valid THEN kept \cup {nonce} ELSE nonces
      /\ IF valid /\ nonce \notin kept THEN StepTo(p, "starting") ELSE EndIteration(p)
      /\ UNCHANGED <<allVars, outbox, history>>

\* on_authorized reports the start.  The command runs only when the gateway's
\* acknowledgement arrives; when it is lost the operation is left running.
StartAccepted(p) ==
  /\ wpc[p] = "starting"
  /\ Start(task[p])
  /\ \/ /\ StepTo(p, "executing")
        /\ executions' = [executions EXCEPT ![task[p]] = @ + 1]
     \/ EndIteration(p) /\ UNCHANGED executions
  /\ UNCHANGED <<fileVars, saved>>

StartRefused(p) ==
  /\ wpc[p] = "starting"
  /\ now >= dispatch[task[p]].expires \/ state[task[p]] # "LEASED"
  /\ EndIteration(p)
  /\ UNCHANGED <<allVars, fileVars, history>>

\* save_pending_result: an operation has one row; another result for it is an error,
\* which ends the iteration (Interrupted).
SavePending(e) ==
  /\ \A stored \in outbox : stored.op = e.op => stored = e
  /\ outbox' = outbox \cup {e}

\* The command ends, one way or another, and its signed result is saved before
\* the first attempt to deliver it.
Execute(p, outcome) ==
  LET e == [op |-> task[p], outcome |-> outcome, completed |-> now]
  IN  /\ wpc[p] = "executing"
      /\ SavePending(e)
      /\ saved' = saved \cup {e}
      /\ sending' = [sending EXCEPT ![p] = e]
      /\ wpc' = [wpc EXCEPT ![p] = "delivering"]
      /\ UNCHANGED <<allVars, nonces, task, via, executions>>

\* complete: the request reaches a handler, whose answer may or may not arrive.
Deliver(p, h) ==
  /\ wpc[p] = "delivering"
  /\ \A q \in Processes : via[q] # h
  /\ Submit(h, sending[p])
  /\ wpc' = [wpc EXCEPT ![p] = "waiting"]
  /\ via' = [via EXCEPT ![p] = h]
  /\ UNCHANGED <<fileVars, task, sending, history>>

Acknowledged(p) ==
  /\ wpc[p] = "waiting" /\ pc[via[p]] = "acked"
  /\ StepTo(p, "acknowledging")
  /\ UNCHANGED <<allVars, fileVars, history>>

\* A seeded fault: the row is deleted once the result has been sent.
DeletePendingEarly(p) ==
  /\ wpc[p] \in {"waiting", "acknowledging"}
  /\ outbox' = outbox \ {sending[p]}
  /\ EndIteration(p)
  /\ UNCHANGED <<allVars, nonces, history>>

\* acknowledge_pending_result deletes the exact row; another process may have
\* done so already, which is an error that ends the iteration too.
DeletePending(p) ==
  /\ wpc[p] = "acknowledging"
  /\ outbox' = outbox \ {sending[p]}
  /\ EndIteration(p)
  /\ UNCHANGED <<allVars, nonces, history>>

Refused(p) ==
  /\ wpc[p] = "waiting" /\ pc[via[p]] \in {"idle", "unavailable"}
  /\ EndIteration(p)
  /\ UNCHANGED <<allVars, fileVars, history>>

\* The exchange times out while the gateway is still at it, or the process dies
\* and starts again: between any two steps, with only the file left.
Interrupted(p) ==
  /\ wpc[p] # "idle"
  /\ EndIteration(p)
  /\ UNCHANGED <<allVars, fileVars, history>>

ProcessStep(p) ==
  \/ TakePending(p) \/ FindNonePending(p) \/ PollIdle(p) \/ ReceiveTask(p)
  \/ \E o \in Ops : Poll(p, o)
  \/ Authorize(p) \/ StartAccepted(p) \/ StartRefused(p)
  \/ \E c \in Outcomes : Execute(p, c)
  \/ \E h \in Handlers : Deliver(p, h)
  \/ Acknowledged(p) \/ DeletePending(p) \/ Refused(p)

GatewayStep ==
  /\ \/ IngressTick
     \/ QueueStep
     \/ \E o \in Ops : PollDispatch(o) \/ PollDies(o)
     \/ \E h \in Handlers : HandlerStep(h) \/ HandlerDies(h)
  /\ UNCHANGED workerVars

WorkerNext ==
  \/ GatewayStep
  \/ \E p \in Processes : ProcessStep(p) \/ Interrupted(p)

WorkerSpec == WorkerInit /\ [][WorkerNext]_systemVars

\* The steps of a calm phase: nothing is lost, nobody dies, and a handler is done
\* long before its application lease runs out.
CalmStep ==
  \/ /\ \/ IngressTick /\ \A h \in Handlers : pc[h] \notin Working
        \/ QueueStep
        \/ \E o \in Ops : PollDispatch(o)
        \/ \E h \in Handlers : HandlerStep(h)
     /\ UNCHANGED workerVars
  \/ \E p \in Processes : ProcessStep(p)

\* run_worker_loop keeps iterating, handlers keep running, time passes, and after
\* any number of faults there comes a phase without.
WorkerFairSpec ==
  /\ WorkerSpec
  /\ <>[][CalmStep]_systemVars
  /\ WF_systemVars(IngressTick /\ UNCHANGED workerVars)
  /\ \A p \in Processes :
       WF_systemVars(\/ TakePending(p) \/ Acknowledged(p) \/ Refused(p)
                     \/ DeletePending(p) \/ \E h \in Handlers : Deliver(p, h))
  /\ \A h \in Handlers : WF_systemVars(HandlerStep(h) /\ UNCHANGED workerVars)

-----------------------------------------------------------------------------
WorkerTypeOK ==
  /\ IngressTypeOK
  /\ nonces \subseteq Ops \X Dispatch /\ outbox \subseteq Envelope /\ saved \subseteq Envelope
  /\ wpc \in [Processes -> {"idle", "polling", "awaiting", "authorizing", "starting",
                            "executing", "delivering", "waiting", "acknowledging"}]
  /\ task \in [Processes -> Ops \cup {NoOp}]
  /\ sending \in [Processes -> Envelope \cup {NoClaim}]
  /\ via \in [Processes -> Handlers \cup {NoHandler}]
  /\ executions \in [Ops -> Nat]

\* The command of an operation is begun at most once, whatever crashes, however
\* often requests and answers are lost and however many processes poll.
ExecutesAtMostOnce == \A o \in Ops : executions[o] <= 1

\* A saved result is in the outbox until the gateway has recorded it, across
\* crashes between saving, delivering, acknowledging and deleting.
NothingIsLost == \A e \in saved : e \in outbox \/ Recorded(e)

\* A translation that may have written a drawing never just expires: an
\* interrupted write is left to a person (ADR 0011).
InterruptedWriteIsFlagged ==
  \A o \in Ops : state[o] = "EXPIRED" /\ request[o].task = "apply" => executions[o] = 0

\* A result that the gateway claimed and recorded is acknowledged in the end, and
\* leaves the outbox: lost answers, dead handlers and application leases that
\* lapsed half-way only delay it.
RecordedIsAcknowledged ==
  \A e \in Envelope :
    (e \in outbox /\ claim[e.op] = e /\ Recorded(e)) ~> (e \notin outbox)

\* No result is stranded in the outbox, where it would keep the worker from ever
\* polling again (run_worker_loop: "poll forever"; RemoteTranslationBackend:
\* "never strand an undeliverable pending result").
OutboxDrains == (outbox # {}) ~> (outbox = {})
=============================================================================
