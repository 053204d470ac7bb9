--------------------------- MODULE GatewayOperations ---------------------------
(***************************************************************************)
(* The durable operation queue of the public gateway: the table            *)
(* cadplot_gateway.operations as PostgresGatewayRepository changes it.      *)
(* Every public method of the repository is one database transaction that  *)
(* holds the workstation's or the operation's row lock, so each is one      *)
(* action here.  `now' is the database clock.                              *)
(*                                                                         *)
(* A client's request becomes an operation (create_or_get_operation); the  *)
(* worker of the workstation leases it, starts it and reports how it       *)
(* ended.  Nothing sweeps the table: an overdue operation is moved on only *)
(* when somebody asks about it, polls for it or finishes it.               *)
(***************************************************************************)
EXTENDS Integers, FiniteSets

CONSTANTS
  Ops,            \* operation ids (fresh UUIDs, so not chosen by a client)
  Workstations,
  Clients,        \* (owner, OAuth client) pairs
  Keys,           \* idempotency keys, each used by one client
  ClientOf,       \* the client that sends a key
  Tasks,          \* the kinds of task requested
  Results,        \* what a successful worker result may say
  Codes,          \* the sanitized error codes of a FAILED operation
  TTL,            \* operation_ttl
  LeaseTime,      \* lease_seconds
  MaxActive,      \* max_active_operations_per_client
  MaxTime,        \* bound: the last instant of the run
  NoRequest, NoResult, NoOp

\* "list" fills the catalog, "translate" and "apply" are translation tasks and
\* "apply" is the one that writes a drawing.
TaskKinds == {"list", "translate", "apply"}

\* The error codes that the repository itself records.
OwnCodes == {"lease_expired", "operation_expired", "translation_attention_required",
             "worker_failure"}

ASSUME OpsFinite == IsFiniteSet(Ops)
ASSUME ClientOfType == ClientOf \in [Keys -> Clients]
ASSUME TasksType == Tasks \subseteq TaskKinds
ASSUME TimesType == /\ TTL \in Nat \ {0}
                    /\ LeaseTime \in Nat \ {0}
                    /\ MaxTime \in Nat
                    /\ MaxActive \in Nat \ {0}
ASSUME OutcomesApart == /\ Results \cap Codes = {}
                        /\ (Results \cup Codes) \cap OwnCodes = {}
                        /\ NoResult \notin Results \cup Codes \cup OwnCodes
                        /\ NoOp \notin Ops \cup Results \cup Codes \cup OwnCodes

VARIABLES
  now,
  state,          \* operations.state; "ABSENT" where there is no row
  request,        \* the immutable columns: key, workstation and task
  expires,        \* operations.expires_at
  leaseEnd,       \* operations.lease_expires_at, 0 where it is NULL
  started,        \* operations.started_at
  result,         \* operations.result, or operations.error_code
  catalog         \* per workstation, the operation whose rows were upserted last

opsVars == <<state, request, expires, leaseEnd, started, result, catalog>>
vars == <<now, opsVars>>

Time == 0..MaxTime
Request == [key : Keys, workstation : Workstations, task : Tasks]
Terminal == {"SUCCEEDED", "FAILED", "EXPIRED", "ATTENTION_REQUIRED"}
OperationState == {"CREATED", "LEASED", "RUNNING"} \cup Terminal

Present(o) == state[o] # "ABSENT"
On(o, w) == Present(o) /\ request[o].workstation = w
Active(o) == state[o] \in {"LEASED", "RUNNING"}
Earlier(s, t) == IF s <= t THEN s ELSE t

-----------------------------------------------------------------------------
\* _refresh_locked: what an overdue row becomes, and which code it is given.

\* A seeded fault: a running operation is never overdue.
DueUnlessRunning(o) == \/ state[o] = "CREATED" /\ now >= expires[o]
                       \/ state[o] = "LEASED" /\ now >= leaseEnd[o]

Due(o) == \/ state[o] \in {"CREATED", "RUNNING"} /\ now >= expires[o]
          \/ state[o] = "LEASED" /\ now >= leaseEnd[o]

\* A seeded fault: the write is looked for in the wrong state.
UnknownWriteLeased(o) == state[o] = "LEASED" /\ request[o].task = "apply"

UnknownWrite(o) == state[o] = "RUNNING" /\ request[o].task = "apply"

DueState(o) ==
  IF state[o] = "LEASED" \/ UnknownWrite(o) THEN "ATTENTION_REQUIRED" ELSE "EXPIRED"

DueCode(o) ==
  IF state[o] = "LEASED" THEN "lease_expired"
  ELSE IF UnknownWrite(o) THEN "translation_attention_required"
  ELSE "operation_expired"

RefreshedState(S) ==
  [o \in Ops |-> IF o \in S /\ Due(o) THEN DueState(o) ELSE state[o]]

RefreshedResult(S) ==
  [o \in Ops |-> IF o \in S /\ Due(o) THEN DueCode(o) ELSE result[o]]

RefreshedLease(S) ==
  [o \in Ops |-> IF o \in S /\ Due(o) THEN 0 ELSE leaseEnd[o]]

\* A seeded fault: the transition forgets the error code.
RefreshWithoutCode(S) ==
  /\ state' = RefreshedState(S)
  /\ leaseEnd' = RefreshedLease(S)
  /\ UNCHANGED <<request, expires, started, result, catalog>>

Refresh(S) ==
  /\ state' = RefreshedState(S)
  /\ result' = RefreshedResult(S)
  /\ leaseEnd' = RefreshedLease(S)
  /\ UNCHANGED <<request, expires, started, catalog>>

-----------------------------------------------------------------------------
Init ==
  /\ now = 0
  /\ state = [o \in Ops |-> "ABSENT"]
  /\ request = [o \in Ops |-> NoRequest]
  /\ expires = [o \in Ops |-> 0]
  /\ leaseEnd = [o \in Ops |-> 0]
  /\ started = [o \in Ops |-> 0]
  /\ result = [o \in Ops |-> NoResult]
  /\ catalog = [w \in Workstations |-> NoOp]

Tick == now < MaxTime /\ now' = now + 1 /\ UNCHANGED opsVars

\* The operations that quota_sql counts for a client on a workstation.
Live(c, w) ==
  {o \in Ops : On(o, w) /\ ClientOf[request[o].key] = c /\ ~ Due(o)
               /\ state[o] \notin Terminal}

\* A row is inserted for a key the client has not used, while the client is
\* below its quota.  A used key returns the existing row or idempotency_conflict
\* and a full quota active_operation_limit: none of them changes anything.
CreateOperation(o, r) ==
  /\ state[o] = "ABSENT"
  /\ now + TTL <= MaxTime
  /\ \A p \in Ops : Present(p) => request[p].key # r.key
  /\ Cardinality(Live(ClientOf[r.key], r.workstation)) < MaxActive
  /\ state' = [state EXCEPT ![o] = "CREATED"]
  /\ request' = [request EXCEPT ![o] = r]
  /\ expires' = [expires EXCEPT ![o] = now + TTL]
  /\ UNCHANGED <<now, leaseEnd, started, result, catalog>>

\* get_operation: the caller is shown the row after refresh_operation.
GetOperation(o) == Present(o) /\ Refresh({o}) /\ UNCHANGED now

\* lease_next_operation refreshes every row of the workstation and then finds
\* an active operation, or no unlocked CREATED one, ...
LeaseNothing(w) == Refresh({o \in Ops : On(o, w)}) /\ UNCHANGED now

\* A seeded fault: the active_sql query is skipped.
LeaseOperationBusy(w, o) ==
  LET mine == {p \in Ops : On(p, w)}
      fresh == RefreshedState(mine)
  IN  /\ o \in mine /\ fresh[o] = "CREATED"
      /\ state' = [fresh EXCEPT ![o] = "LEASED"]
      /\ leaseEnd' = [RefreshedLease(mine) EXCEPT ![o] = Earlier(now + LeaseTime, expires[o])]
      /\ result' = RefreshedResult(mine)
      /\ UNCHANGED <<now, request, expires, started, catalog>>

\* A seeded fault: a run that was not finished is handed out again.
LeaseOperationAgain(w, o) ==
  LET mine == {p \in Ops : On(p, w)}
      fresh == RefreshedState(mine)
  IN  /\ \A p \in mine \ {o} : fresh[p] \notin {"LEASED", "RUNNING"}
      /\ o \in mine /\ fresh[o] \in {"CREATED", "RUNNING"}
      /\ state' = [fresh EXCEPT ![o] = "LEASED"]
      /\ leaseEnd' = [RefreshedLease(mine) EXCEPT ![o] = Earlier(now + LeaseTime, expires[o])]
      /\ result' = RefreshedResult(mine)
      /\ UNCHANGED <<now, request, expires, started, catalog>>

\* ... or leases one.  FOR UPDATE SKIP LOCKED passes over the rows that a
\* concurrent get_operation holds, so any eligible row may be the one.
LeaseOperation(w, o) ==
  LET mine == {p \in Ops : On(p, w)}
      fresh == RefreshedState(mine)
  IN  /\ \A p \in mine : fresh[p] \notin {"LEASED", "RUNNING"}
      /\ o \in mine /\ fresh[o] = "CREATED"
      /\ state' = [fresh EXCEPT ![o] = "LEASED"]
      /\ leaseEnd' = [RefreshedLease(mine) EXCEPT ![o] = Earlier(now + LeaseTime, expires[o])]
      /\ result' = RefreshedResult(mine)
      /\ UNCHANGED <<now, request, expires, started, catalog>>

\* A seeded fault: a lease is good for as long as nobody has refreshed it.
StartOperationLate(o) ==
  /\ state[o] = "LEASED"
  /\ state' = [state EXCEPT ![o] = "RUNNING"]
  /\ started' = [started EXCEPT ![o] = now]
  /\ leaseEnd' = [leaseEnd EXCEPT ![o] = 0]
  /\ UNCHANGED <<now, request, expires, result, catalog>>

\* A lease is turned into a run before it ends, into ATTENTION_REQUIRED after.
\* Any other state is INVALID_STATE and stays.
StartOperation(o) ==
  /\ state[o] = "LEASED"
  /\ IF now >= leaseEnd[o]
       THEN Refresh({o})
       ELSE /\ state' = [state EXCEPT ![o] = "RUNNING"]
            /\ started' = [started EXCEPT ![o] = now]
            /\ leaseEnd' = [leaseEnd EXCEPT ![o] = 0]
            /\ UNCHANGED <<request, expires, result, catalog>>
  /\ UNCHANGED now

\* finish_operation with FAILED, the only target it reaches: with
\* ATTENTION_REQUIRED there is no result and its assertion fails.
FailOperation(o, code) ==
  /\ Due(o) \/ state[o] = "RUNNING"
  /\ IF Due(o)
       THEN Refresh({o})
       ELSE /\ state' = [state EXCEPT ![o] = "FAILED"]
            /\ result' = [result EXCEPT ![o] = code]
            /\ UNCHANGED <<request, expires, leaseEnd, started, catalog>>
  /\ UNCHANGED now

\* apply_worker_success: the catalog rows and the transition, in one transaction.
Succeed(o, r) ==
  /\ state' = [state EXCEPT ![o] = "SUCCEEDED"]
  /\ result' = [result EXCEPT ![o] = r]
  /\ catalog' = IF request[o].task = "list"
                  THEN [catalog EXCEPT ![request[o].workstation] = o] ELSE catalog
  /\ UNCHANGED <<request, expires, leaseEnd, started>>

\* A seeded fault: the rows are written for an operation that already ended.
ApplyWorkerSuccessLate(o, r) == Present(o) /\ Succeed(o, r) /\ UNCHANGED now

ApplyWorkerSuccess(o, r) ==
  /\ Due(o) \/ state[o] = "RUNNING"
  /\ IF Due(o) THEN Refresh({o}) ELSE Succeed(o, r)
  /\ UNCHANGED now

Next ==
  \/ Tick
  \/ \E o \in Ops, r \in Request : CreateOperation(o, r)
  \/ \E o \in Ops : GetOperation(o)
  \/ \E w \in Workstations : LeaseNothing(w)
  \/ \E w \in Workstations, o \in Ops : LeaseOperation(w, o)
  \/ \E o \in Ops : StartOperation(o)
  \/ \E o \in Ops, c \in Codes : FailOperation(o, c)
  \/ \E o \in Ops, r \in Results : ApplyWorkerSuccess(o, r)

Spec == Init /\ [][Next]_vars

\* Time passes, and the client keeps calling get_operation for what it created.
FairSpec == Spec /\ WF_vars(Tick) /\ \A o \in Ops : WF_vars(GetOperation(o))

-----------------------------------------------------------------------------
\* The CHECK constraint operations_state_shape: the result or error code that
\* each state comes with.
ShapeOK(o) ==
  /\ state[o] = "SUCCEEDED" => result[o] \in Results
  /\ state[o] = "FAILED" => result[o] \in Codes
  /\ state[o] = "EXPIRED" => result[o] = "operation_expired"
  /\ state[o] = "ATTENTION_REQUIRED" =>
       result[o] \in {"lease_expired", "translation_attention_required", "worker_failure"}
  /\ state[o] \notin Terminal => result[o] = NoResult

\* The columns' types and the table's CHECK constraint, which every transition of
\* the repository satisfies: a transition that did not would be rolled back.
TypeOK ==
  /\ now \in Time
  /\ state \in [Ops -> OperationState \cup {"ABSENT"}]
  /\ request \in [Ops -> Request \cup {NoRequest}]
  /\ expires \in [Ops -> Time]
  /\ leaseEnd \in [Ops -> Time]
  /\ started \in [Ops -> Time]
  /\ result \in [Ops -> Results \cup Codes \cup OwnCodes \cup {NoResult}]
  /\ catalog \in [Workstations -> Ops \cup {NoOp}]
  /\ \A o \in Ops : (Present(o) => request[o] \in Request) /\ ShapeOK(o)

\* Two operations of one workstation are never leased or running together
\* (lease_next_operation looks at the active rows under the workstation's lock,
\* and an overdue lease never becomes a run).
OneActivePerWorkstation ==
  \A o, p \in Ops : Active(o) /\ Active(p) /\ request[o].workstation = request[p].workstation
                    => o = p

\* The operations of a client that are not overdue never exceed its quota on a
\* workstation, whatever is leased, started or overtaken by its deadline after
\* the count was made (quota_sql).
LiveWithinQuota ==
  \A c \in Clients, w \in Workstations : Cardinality(Live(c, w)) <= MaxActive

\* The catalog of a workstation holds the rows of the last operation to start
\* among those that succeeded: a late result never puts older rows back.
CatalogIsNewest ==
  \A o \in Ops :
    /\ state[o] = "SUCCEEDED" /\ request[o].task = "list"
    => LET c == catalog[request[o].workstation]
       IN  c # NoOp /\ state[c] = "SUCCEEDED" /\ started[o] <= started[c]

\* The trigger enforce_operation_transition accepts every update the repository
\* makes: the identity stays, a row that keeps its state is not touched, only the
\* listed transitions happen and each respects its deadline.  A refused update
\* would surface as repository_failure in the middle of a handler.
TriggerAccepts(o) ==
  /\ request'[o] = request[o] /\ expires'[o] = expires[o]
  /\ state'[o] = state[o] => result'[o] = result[o] /\ started'[o] = started[o]
  /\ <<state[o], state'[o]>> \in
       {<<s, s>> : s \in OperationState}
       \cup ({"CREATED"} \X {"LEASED", "EXPIRED"})
       \cup ({"LEASED"} \X {"RUNNING", "ATTENTION_REQUIRED"})
       \cup ({"RUNNING"} \X Terminal)
  /\ state[o] = "LEASED" /\ state'[o] = "RUNNING" => now < leaseEnd[o]
  /\ state[o] = "LEASED" /\ state'[o] = "ATTENTION_REQUIRED" => now >= leaseEnd[o]
  /\ state[o] = "RUNNING" /\ state'[o] \in {"SUCCEEDED", "FAILED"} => now < expires[o]

TriggerNeverRefuses == [][\A o \in Ops : Present(o) => TriggerAccepts(o)]_vars

\* An operation that its client keeps asking about ends, whether or not a worker
\* ever shows up, loses its lease or dies in the middle of the run.
OperationsEnd == \A o \in Ops : Present(o) ~> state[o] \in Terminal

-----------------------------------------------------------------------------
\* The table as the life of operations that OperationLifecycle describes.
Owners(k) == {o \in Ops : Present(o) /\ request[o].key = k}

LifeNamed ==
  [k \in Keys |-> IF Owners(k) = {} THEN NoOp ELSE CHOOSE o \in Owners(k) : TRUE]

LifePhase ==
  [o \in Ops |-> CASE state[o] = "ABSENT" -> "absent"
                   [] state[o] = "CREATED" -> "waiting"
                   [] state[o] = "LEASED" -> "held"
                   [] state[o] = "RUNNING" -> "running"
                   [] OTHER -> "ended"]

LifeHolders ==
  [w \in Workstations |-> {o \in Ops : Active(o) /\ request[o].workstation = w}]

LifeEnding == [o \in Ops |-> IF state[o] \in Terminal THEN result[o] ELSE NoOp]

Lifecycle == INSTANCE OperationLifecycle WITH
  Operations <- Ops, Stations <- Workstations, IdempotencyKeys <- Keys, Nobody <- NoOp,
  named <- LifeNamed, phase <- LifePhase, holders <- LifeHolders, ending <- LifeEnding

\* The table implements the life of an operation, step by step: a key names one
\* operation for good, a workstation is occupied by one at a time, and no refresh,
\* late start or late result moves an operation back or changes how it ended.
ImplementsOperationLifecycle == Lifecycle!LifecycleSpec
=============================================================================
