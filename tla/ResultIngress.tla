----------------------------- MODULE ResultIngress -----------------------------
(***************************************************************************)
(* The worker endpoints of the gateway on top of the operation queue: the   *)
(* poll handler that leases an operation and stores the signed dispatch, and*)
(* GatewayWorkerIngress.complete, which a request handler runs in a thread  *)
(* of its own, one transaction at a time:                                   *)
(*   classify -> claim -> acquire -> check -> apply -> mark -> acked        *)
(* A worker that got no answer sends the result again, so several handlers  *)
(* can be anywhere in that sequence for one dispatch; any of them can die   *)
(* with its process between two transactions.                               *)
(*                                                                          *)
(* Here the sender is anyone who holds the device's key: it may present any *)
(* signed result for any stored dispatch, any number of times.  An operation*)
(* is leased once, so its dispatch and the dispatch's nonce are named by it.*)
(***************************************************************************)
EXTENDS GatewayOperations

CONSTANTS
  Handlers,       \* the completion requests served at the same time
  MaxAge,         \* max_result_age_seconds
  ApplyTime,      \* RESULT_APPLICATION_LEASE_SECONDS
  MaxSkew,        \* MAX_CLOCK_SKEW
  NoHandler, NoClaim, NoDispatch

ASSUME IngressConstants ==
  /\ MaxAge \in Nat \ {0}
  /\ ApplyTime \in Nat \ {0}
  /\ MaxSkew \in Nat
  /\ NoHandler \notin Handlers
  /\ {"attention"} \cap (Results \cup Codes) = {}

\* What a result envelope says: a success, a failure or "attention required".
Outcomes == Results \cup Codes \cup {"attention"}

\* The signed result: its digest and completion time stand for the whole of it.
Envelope == [op : Ops, outcome : Outcomes, completed : Time]

ASSUME NoClaimFresh == NoClaim \notin Envelope

Dispatch == [issued : Time, expires : Time]

ASSUME NoDispatchFresh == NoDispatch \notin Dispatch

VARIABLES
  building,       \* operations leased by a poll handler that has not answered yet
  dispatch,       \* worker_dispatches
  claim,          \* worker_result_replays: the result that claimed the nonce
  applyOwner,     \* ... application_id, as the handler that drew it
  applyEnd,       \* ... application_lease_expires_at
  applied,        \* ... applied_at is set
  pc, env         \* each handler: its next step, and the result it was sent

ingressVars == <<building, dispatch, claim, applyOwner, applyEnd, applied, pc, env>>
replayVars == <<claim, applyOwner, applyEnd, applied>>
allVars == <<vars, ingressVars>>

Working == {"classify", "claim", "acquire", "check", "apply", "mark"}
Answered == {"acked", "unavailable"}

IngressInit ==
  /\ Init
  /\ building = {}
  /\ dispatch = [o \in Ops |-> NoDispatch]
  /\ claim = [o \in Ops |-> NoClaim]
  /\ applyOwner = [o \in Ops |-> NoHandler]
  /\ applyEnd = [o \in Ops |-> 0]
  /\ applied = [o \in Ops |-> FALSE]
  /\ pc = [h \in Handlers |-> "idle"]
  /\ env = [h \in Handlers |-> NoClaim]

-----------------------------------------------------------------------------
\* _poll: the lease is one transaction, the dispatch another.

PollLease(w, o) ==
  /\ LeaseOperation(w, o)
  /\ building' = building \cup {o}
  /\ UNCHANGED <<dispatch, replayVars, pc, env>>

PollNothing(w) == LeaseNothing(w) /\ UNCHANGED ingressVars

\* get_operation, GatewayDispatchAdapter.build and store_dispatch.  A lease that
\* ran out in the meantime is dispatch_expired; so is an operation somebody moved.
PollDispatch(o) ==
  /\ o \in building
  /\ building' = building \ {o}
  /\ dispatch' = IF state[o] = "LEASED" /\ now < leaseEnd[o]
                   THEN [dispatch EXCEPT ![o] = [issued |-> now, expires |-> leaseEnd[o]]]
                   ELSE dispatch
  /\ UNCHANGED <<vars, replayVars, pc, env>>

\* The process dies between the two transactions, or the store fails.
PollDies(o) ==
  /\ o \in building
  /\ building' = building \ {o}
  /\ UNCHANGED <<vars, dispatch, replayVars, pc, env>>

\* A seeded fault: the lease alone decides, not the stored dispatch.
StartAnyLease(o) == StartOperation(o) /\ UNCHANGED ingressVars

\* GatewayWorkerIngress.start: an unknown or overdue dispatch is refused.
Start(o) ==
  /\ dispatch[o] # NoDispatch
  /\ now < dispatch[o].expires
  /\ StartOperation(o)
  /\ UNCHANGED ingressVars

-----------------------------------------------------------------------------
\* complete.  A handler goes on to its next step or its answer, or leaves with an
\* error: every code it raises reaches the worker as the same refusal.

Goto(h, step) == pc' = [pc EXCEPT ![h] = step] /\ UNCHANGED env

Leave(h) == pc' = [pc EXCEPT ![h] = "idle"] /\ env' = [env EXCEPT ![h] = NoClaim]

GotoIf(h, condition, step) == IF condition THEN Goto(h, step) ELSE Leave(h)

\* _require_fresh_completion, by the gateway's clock.
Fresh(e) ==
  /\ e.completed >= dispatch[e.op].issued - MaxSkew
  /\ e.completed <= expires[e.op]
  /\ now < expires[e.op]
  /\ e.completed <= now + MaxSkew
  /\ now - e.completed <= MaxAge

\* A request for a stored dispatch reaches a free handler.  It will draw a new
\* application id: what the handler's last request acquired is no longer its own.
Submit(h, e) ==
  /\ pc[h] \notin Working
  /\ dispatch[e.op] # NoDispatch
  /\ pc' = [pc EXCEPT ![h] = "classify"]
  /\ env' = [env EXCEPT ![h] = e]
  /\ applyOwner' = [o \in Ops |-> IF applyOwner[o] = h THEN NoHandler ELSE applyOwner[o]]
  /\ UNCHANGED <<vars, building, dispatch, claim, applyEnd, applied>>

Classify(h) ==
  /\ pc[h] = "classify"
  /\ \/ claim[env[h].op] = NoClaim /\ Goto(h, "claim")
     \/ claim[env[h].op] = env[h] /\ Goto(h, "acquire")
     \/ claim[env[h].op] \notin {NoClaim, env[h]} /\ Leave(h)
  /\ UNCHANGED <<vars, building, dispatch, replayVars>>

\* The freshness check and claim_worker_result_replay, which looks at the nonce
\* again and lets no result in whose own deadline has passed.
CanClaim(e) == Fresh(e) /\ now < Earlier(e.completed + MaxAge, expires[e.op])

\* A seeded fault: the insert trusts what classify saw.
ClaimUnchecked(h) ==
  /\ pc[h] = "claim"
  /\ \/ /\ CanClaim(env[h])
        /\ claim' = [claim EXCEPT ![env[h].op] = env[h]]
        /\ Goto(h, "acquire")
     \/ /\ ~ CanClaim(env[h])
        /\ Leave(h) /\ UNCHANGED claim
  /\ UNCHANGED <<vars, building, dispatch, applyOwner, applyEnd, applied>>

Claim(h) ==
  /\ pc[h] = "claim"
  /\ \/ /\ claim[env[h].op] = NoClaim /\ CanClaim(env[h])
        /\ claim' = [claim EXCEPT ![env[h].op] = env[h]]
        /\ Goto(h, "acquire")
     \/ /\ claim[env[h].op] = env[h] /\ Fresh(env[h])
        /\ Goto(h, "acquire") /\ UNCHANGED claim
     \/ /\ \/ ~ Fresh(env[h])
           \/ claim[env[h].op] = NoClaim /\ ~ CanClaim(env[h])
           \/ claim[env[h].op] \notin {NoClaim, env[h]}
        /\ Leave(h) /\ UNCHANGED claim
  /\ UNCHANGED <<vars, building, dispatch, applyOwner, applyEnd, applied>>

\* A seeded fault: the lease of a handler that died is never given up.
BusyForever(o, h) == applyEnd[o] # 0 /\ applyOwner[o] # h

\* acquire_worker_result_application: another handler's lease that still runs.
Busy(o, h) == applyEnd[o] > now /\ applyOwner[o] # h

Acquire(h) ==
  LET o == env[h].op
  IN  /\ pc[h] = "acquire"
      /\ \/ /\ claim[o] = env[h] /\ applied[o] /\ Goto(h, "acked")
            /\ UNCHANGED <<applyOwner, applyEnd>>
         \/ /\ claim[o] # env[h] \/ (~ applied[o] /\ Busy(o, h))
            /\ Leave(h)
            /\ UNCHANGED <<applyOwner, applyEnd>>
         \/ /\ claim[o] = env[h] /\ ~ applied[o] /\ ~ Busy(o, h)
            /\ Goto(h, "check")
            /\ applyOwner' = [applyOwner EXCEPT ![o] = h]
            /\ applyEnd' = [applyEnd EXCEPT ![o] = now + ApplyTime]
      /\ UNCHANGED <<vars, building, dispatch, claim, applied>>

-----------------------------------------------------------------------------
\* The service's reading of an envelope: the state it asks for and what is
\* recorded with it (worker_result_needs_application, worker_fail).

Target(e) == IF e.outcome \in Results THEN "SUCCEEDED"
             ELSE IF e.outcome \in Codes THEN "FAILED" ELSE "ATTENTION_REQUIRED"

Recording(e) ==
  IF e.outcome # "attention" THEN e.outcome
  ELSE IF request[e.op].task = "list" THEN "worker_failure"
  ELSE "translation_attention_required"

Recorded(e) == state[e.op] = Target(e) /\ result[e.op] = Recording(e)

\* A seeded fault: any ended operation counts as an exact retry.
CheckAnyTerminal(h) ==
  LET e == env[h]
  IN  /\ pc[h] = "check"
      /\ \/ state[e.op] \in Terminal /\ Goto(h, "mark")
         \/ state[e.op] = "RUNNING" /\ Fresh(e) /\ Goto(h, "apply")
         \/ state[e.op] \notin Terminal /\ ~ (state[e.op] = "RUNNING" /\ Fresh(e))
            /\ Leave(h)
      /\ UNCHANGED <<vars, building, dispatch, replayVars>>

\* _result_needs_application reads the row as it is, without a refresh; a running
\* operation then needs a result that is still fresh.
Check(h) ==
  LET e == env[h]
      needed == ~ Recorded(e) /\ state[e.op] = "RUNNING" /\ Fresh(e)
  IN  /\ pc[h] = "check"
      /\ \/ Recorded(e) /\ Goto(h, "mark")
         \/ needed /\ Goto(h, "apply")
         \/ ~ Recorded(e) /\ ~ needed /\ Leave(h)
      /\ UNCHANGED <<vars, building, dispatch, replayVars>>

\* _apply_result for an operation that is running and not overdue.
ApplySuccess(h) ==
  /\ env[h].outcome \in Results
  /\ ApplyWorkerSuccess(env[h].op, env[h].outcome) /\ Goto(h, "mark")

ApplyFailure(h) ==
  /\ env[h].outcome \in Codes
  /\ FailOperation(env[h].op, env[h].outcome) /\ Goto(h, "mark")

\* worker_fail(attention_required=True): finish_operation asserts a result or
\* FAILED, so the transaction is rolled back and the request is answered 503.
ApplyAttention(h) ==
  /\ env[h].outcome = "attention"
  /\ Goto(h, "unavailable") /\ UNCHANGED vars

\* A row that another handler moved to the same end is fine, and so is one that
\* the deadline moved there (the idempotent re-read of _retry_idempotent_finish);
\* any other row answers invalid_state or operation_expired.  What is overdue is
\* refreshed on the way.
ApplySettled(h) ==
  LET e == env[h]
      o == e.op
  IN  IF Due(o)
        THEN /\ Refresh({o}) /\ UNCHANGED now
             /\ GotoIf(h, /\ e.outcome = "attention" /\ DueState(o) = Target(e)
                          /\ DueCode(o) = Recording(e), "mark")
        ELSE /\ state[o] # "RUNNING"
             /\ GotoIf(h, Recorded(e), "mark")
             /\ UNCHANGED vars

Apply(h) ==
  /\ pc[h] = "apply"
  /\ \/ /\ state[env[h].op] = "RUNNING" /\ ~ Due(env[h].op)
        /\ ApplySuccess(h) \/ ApplyFailure(h) \/ ApplyAttention(h)
     \/ ApplySettled(h)
  /\ UNCHANGED <<building, dispatch, replayVars>>

\* mark_worker_result_applied: only while the application lease is this handler's.
Mark(h) ==
  LET o == env[h].op
      holds == /\ claim[o] = env[h]
               /\ applied[o] \/ (applyOwner[o] = h /\ applyEnd[o] > now)
  IN  /\ pc[h] = "mark"
      /\ applied' = [applied EXCEPT ![o] = @ \/ holds]
      /\ GotoIf(h, holds, "acked")
      /\ UNCHANGED <<vars, building, dispatch, claim, applyOwner, applyEnd>>

\* The handler's process dies; what it committed stays.
HandlerDies(h) ==
  /\ pc[h] \in Working /\ Leave(h)
  /\ UNCHANGED <<vars, building, dispatch, replayVars>>

\* Past the bound every operation is overdue and no result is fresh: only the
\* application leases still run, so time goes on by bringing their ends nearer.
LateTick ==
  /\ now = MaxTime
  /\ \E o \in Ops : applyEnd[o] > now
  /\ applyEnd' = [o \in Ops |-> IF applyEnd[o] > now THEN applyEnd[o] - 1 ELSE applyEnd[o]]
  /\ UNCHANGED <<vars, building, dispatch, claim, applyOwner, applied, pc, env>>

HandlerStep(h) ==
  Classify(h) \/ Claim(h) \/ Acquire(h) \/ Check(h) \/ Apply(h) \/ Mark(h)

\* What the rest of the gateway does to the queue.
QueueStep ==
  /\ \/ \E o \in Ops, r \in Request : CreateOperation(o, r)
     \/ \E o \in Ops : GetOperation(o)
  /\ UNCHANGED ingressVars

IngressTick == LateTick \/ (Tick /\ UNCHANGED ingressVars)

PollStep ==
  \/ \E w \in Workstations : PollNothing(w) \/ \E o \in Ops : PollLease(w, o)
  \/ \E o \in Ops : PollDispatch(o) \/ PollDies(o)

IngressNext ==
  \/ IngressTick
  \/ QueueStep
  \/ PollStep
  \/ \E o \in Ops : Start(o)
  \/ \E h \in Handlers, e \in Envelope : Submit(h, e)
  \/ \E h \in Handlers : HandlerStep(h) \/ HandlerDies(h)

IngressSpec == IngressInit /\ [][IngressNext]_allVars

-----------------------------------------------------------------------------
IngressTypeOK ==
  /\ TypeOK
  /\ building \subseteq Ops
  /\ dispatch \in [Ops -> Dispatch \cup {NoDispatch}]
  /\ claim \in [Ops -> Envelope \cup {NoClaim}]
  /\ applyOwner \in [Ops -> Handlers \cup {NoHandler}]
  /\ applyEnd \in [Ops -> Nat]
  /\ applied \in [Ops -> BOOLEAN]
  /\ pc \in [Handlers -> {"idle"} \cup Working \cup Answered]
  /\ env \in [Handlers -> Envelope \cup {NoClaim}]
  /\ \A h \in Handlers : pc[h] \in Working \cup Answered => env[h] \in Envelope

\* However many results are signed for a dispatch and however their handlers
\* interleave, the operation ends with what the first one to claim the nonce said.
FirstClaimWins ==
  \A o \in Ops : state[o] \in {"SUCCEEDED", "FAILED"} =>
    claim[o] # NoClaim /\ Recorded(claim[o])

\* A worker deletes its only copy of a result when it is acknowledged: by then the
\* operation's row says what that result said.  The same holds of a replay row
\* marked applied, for a retry that finds it is acknowledged without looking further.
AckMeansRecorded ==
  /\ \A h \in Handlers : pc[h] = "acked" => Recorded(env[h])
  /\ \A o \in Ops : applied[o] => claim[o] # NoClaim /\ Recorded(claim[o])

\* A success or failure is applied only for a dispatch that was stored and whose
\* operation was started while the dispatch was valid.
EndedWasDispatched ==
  \A o \in Ops : state[o] \in {"RUNNING", "SUCCEEDED", "FAILED"} =>
    dispatch[o] # NoDispatch /\ dispatch[o].issued <= started[o]
    /\ started[o] < dispatch[o].expires

\* A worker's report that a write needs attention is recorded, as the test
\* test_unknown_remote_write_finishes_attention_required expects: a handler that
\* came to apply one never leaves the operation running.
AttentionIsRecorded ==
  \A h \in Handlers : pc[h] = "unavailable" => state[env[h].op] # "RUNNING"
=============================================================================
