--------------------------- MODULE MemoryRepository ---------------------------
(***************************************************************************)
(* InMemoryGatewayRepository: the reference repository that the gateway     *)
(* runs on in development and in its tests.  One lock makes each method     *)
(* atomic, but its caller reads the clock before it takes the lock, so a    *)
(* call may act at an instant that others have already passed.  Every       *)
(* record it stores is validated anew (_updated), and a refused record is   *)
(* an exception that leaves the table as it was.                            *)
(***************************************************************************)
EXTENDS Integers, FiniteSets

CONSTANTS
  Operations, Stations, IdempotencyKeys,
  CommandOf,       \* the task that each key is first used for
  Projects,        \* project ids that a worker may report
  Documents,       \* drawing ids that a worker may report
  Callers,         \* threads of the gateway
  Lifetime,        \* operation_ttl
  LeaseSeconds,
  EndOfTime,       \* bound: the last instant of the run
  Nobody

Clock == 0..EndOfTime
Unset == EndOfTime + 1        \* a timestamp that is None
Endings == {"SUCCEEDED", "FAILED", "EXPIRED", "ATTENTION_REQUIRED"}
\* What an operation may have ended with.
Reasons ==
  {"result", "worker_failure", "operation_expired", "lease_expired", "translation_attention_required"}

ASSUME MemoryAssumption ==
  /\ Lifetime \in Nat /\ LeaseSeconds \in Nat \ {0} /\ EndOfTime \in Nat
  /\ Nobody \notin Stations \cup Reasons

VARIABLES
  instant,         \* the process's clock
  caller,          \* the instant each thread has read, Unset where it has none
  index,           \* _idempotency
  table,           \* _operations
  projects,        \* _projects: the workstation of each
  documents        \* _drawings: the project of each

memoryVars == <<instant, caller, index, table, projects, documents>>

NoRecord == [state |-> "absent"]
Exists(o) == table[o].state # "absent"

MemoryInit ==
  /\ instant = 0
  /\ caller = [c \in Callers |-> Unset]
  /\ index = [k \in IdempotencyKeys |-> Nobody]
  /\ table = [o \in Operations |-> NoRecord]
  /\ projects = [p \in Projects |-> Nobody]
  /\ documents = [d \in Documents |-> Nobody]

ClockMoves ==
  /\ instant < EndOfTime /\ instant' = instant + 1
  /\ UNCHANGED <<caller, index, table, projects, documents>>

\* GatewayService._now, before the repository is called.
ReadClock(c) ==
  /\ caller[c] = Unset /\ caller' = [caller EXCEPT ![c] = instant]
  /\ UNCHANGED <<instant, index, table, projects, documents>>

\* The call of a thread that has read the clock returns or raises.
Returns(c) == caller[c] # Unset /\ caller' = [caller EXCEPT ![c] = Unset] /\ UNCHANGED instant

-----------------------------------------------------------------------------
\* OperationRecord.validate_state_shape: the instants that a record may hold.
Shaped(r) ==
  /\ r.lease # Unset => r.created < r.lease /\ r.lease <= r.expires
  /\ r.started # Unset => r.created <= r.started /\ r.started < r.expires
  /\ r.completed # Unset => r.created <= r.completed
                            /\ (r.started # Unset => r.started <= r.completed)
  /\ r.state \in {"SUCCEEDED", "FAILED"} => r.started # Unset
  /\ r.state = "EXPIRED" => r.completed >= r.expires

\* _updated: the new record is stored if it is one, else the call raises.
Store(o, r) == table' = IF Shaped(r) THEN [table EXCEPT ![o] = r] ELSE table

Ended(r, state, at, code) ==
  [r EXCEPT !.state = state, !.lease = Unset, !.completed = at, !.outcome = code]

\* _refresh_due, with _expire and _attention_required.
RefreshDue(r, at) ==
  CASE r.state = "CREATED" /\ at >= r.expires -> Ended(r, "EXPIRED", at, "operation_expired")
    [] r.state = "LEASED" /\ at >= r.lease -> Ended(r, "ATTENTION_REQUIRED", at, "lease_expired")
    [] r.state = "RUNNING" /\ at >= r.expires ->
         IF r.command = "apply"
           THEN Ended(r, "ATTENTION_REQUIRED", at, "translation_attention_required")
           ELSE Ended(r, "EXPIRED", at, "operation_expired")
    [] OTHER -> r

\* create_or_get_operation: a known key changes nothing, whatever it asks for.
CreateOrGet(c, o, k, w) ==
  /\ Returns(c)
  /\ ~ Exists(o) /\ caller[c] + Lifetime <= EndOfTime
  /\ IF index[k] # Nobody THEN UNCHANGED <<index, table>>
     ELSE /\ index' = [index EXCEPT ![k] = o]
          /\ table' = [table EXCEPT ![o] =
               [state |-> "CREATED", station |-> w, command |-> CommandOf[k],
                created |-> caller[c], expires |-> caller[c] + Lifetime,
                lease |-> Unset, started |-> Unset, completed |-> Unset, outcome |-> Nobody]]
  /\ UNCHANGED <<projects, documents>>

\* refresh_operation, which a client's get_operation ends in.
RefreshOperation(c, o) ==
  /\ Returns(c) /\ Exists(o)
  /\ table' = [table EXCEPT ![o] = RefreshDue(@, caller[c])]
  /\ UNCHANGED <<index, projects, documents>>

\* lease_next_operation: everything of the workstation is refreshed, and the
\* oldest that waits is leased unless one of them is active.  A lease lasts a second at
\* least, and what has expired no longer waits, so no lease ends as it begins.
Refreshed(w, at) ==
  [o \in Operations |->
     IF Exists(o) /\ table[o].station = w THEN RefreshDue(table[o], at) ELSE table[o]]

LongestWaiting(waiting, t) == {o \in waiting : \A p \in waiting : t[o].created <= t[p].created}

LeaseNext(c, w) ==
  LET t == Refreshed(w, caller[c])
      mine == {o \in Operations : Exists(o) /\ table[o].station = w}
      waiting == {o \in mine : t[o].state = "CREATED"}
      until(o) == IF caller[c] + LeaseSeconds <= t[o].expires
                    THEN caller[c] + LeaseSeconds ELSE t[o].expires
      leased(o) == [t[o] EXCEPT !.state = "LEASED", !.lease = until(o)]
  IN  /\ Returns(c)
      /\ IF (\E o \in mine : t[o].state \in {"LEASED", "RUNNING"}) \/ waiting = {}
           THEN table' = t
           ELSE \E o \in LongestWaiting(waiting, t) :
                  table' = IF Shaped(leased(o)) THEN [t EXCEPT ![o] = leased(o)] ELSE t
      /\ UNCHANGED <<index, projects, documents>>

\* start_operation: a lease that has ended is given up instead.
BeginOperation(c, o) ==
  LET r == table[o]
  IN  /\ Returns(c) /\ Exists(o)
      /\ IF r.state # "LEASED" THEN UNCHANGED table
         ELSE IF caller[c] >= r.lease THEN Store(o, RefreshDue(r, caller[c]))
         ELSE Store(o, [r EXCEPT !.state = "RUNNING", !.lease = Unset, !.started = caller[c]])
      /\ UNCHANGED <<index, projects, documents>>

CodeOf(state) == IF state = "SUCCEEDED" THEN "result" ELSE "worker_failure"

\* A seeded fault: an operation that has already ended is finished again.
FinishAnyOperation(c, o, state) ==
  LET r == RefreshDue(table[o], caller[c])
  IN  /\ Returns(c) /\ Exists(o)
      /\ IF r # table[o] THEN table' = [table EXCEPT ![o] = r]
         ELSE Store(o, Ended(r, state, caller[c], CodeOf(state)))
      /\ UNCHANGED <<index, projects, documents>>

\* finish_operation: an overdue operation is moved on, one that is not running
\* stays.
FinishOperation(c, o, state) ==
  LET r == RefreshDue(table[o], caller[c])
  IN  /\ Returns(c) /\ Exists(o)
      /\ IF r # table[o] \/ r.state # "RUNNING" THEN table' = [table EXCEPT ![o] = r]
         ELSE Store(o, Ended(r, state, caller[c], CodeOf(state)))
      /\ UNCHANGED <<index, projects, documents>>

\* _validate_worker_catalog_application: what a result may write.
MayList(r, p) == projects[p] \in {Nobody, r.station}
MayScan(r, p, d) == projects[p] = r.station /\ documents[d] \in {Nobody, p}

\* apply_worker_success: the rows and the transition, or neither; a repeated
\* success is answered from the record.  The rows are written before the record
\* is validated.
ApplyWorkerRows(c, o, p, d) ==
  LET r == RefreshDue(table[o], caller[c])
      done == Ended(r, "SUCCEEDED", caller[c], "result")
      may == CASE r.command = "list_projects" -> MayList(r, p)
               [] r.command = "scan_drawings" -> MayScan(r, p, d)
               [] OTHER -> TRUE
  IN  /\ Returns(c) /\ Exists(o)
      /\ IF r # table[o] \/ r.state # "RUNNING" \/ ~ may
           THEN table' = [table EXCEPT ![o] = r] /\ UNCHANGED <<projects, documents>>
           ELSE /\ Store(o, done)
                /\ projects' = IF r.command = "list_projects"
                                 THEN [projects EXCEPT ![p] = r.station] ELSE projects
                /\ documents' = IF r.command = "scan_drawings"
                                  THEN [documents EXCEPT ![d] = p] ELSE documents
      /\ UNCHANGED index

MemoryNext ==
  \/ ClockMoves
  \/ \E c \in Callers : ReadClock(c)
  \/ \E c \in Callers, o \in Operations, k \in IdempotencyKeys, w \in Stations :
       CreateOrGet(c, o, k, w)
  \/ \E c \in Callers, o \in Operations : RefreshOperation(c, o) \/ BeginOperation(c, o)
  \/ \E c \in Callers, w \in Stations : LeaseNext(c, w)
  \/ \E c \in Callers, o \in Operations, state \in Endings \ {"EXPIRED"} :
       FinishOperation(c, o, state)
  \/ \E c \in Callers, o \in Operations, p \in Projects, d \in Documents :
       ApplyWorkerRows(c, o, p, d)

MemorySpec == MemoryInit /\ [][MemoryNext]_memoryVars

-----------------------------------------------------------------------------
\* Every stored record is one that the model class accepts, and the catalog holds
\* no drawing without its project.
MemoryTypeOK ==
  /\ instant \in Clock /\ \A c \in Callers : caller[c] \in Clock \cup {Unset}
  /\ index \in [IdempotencyKeys -> Operations \cup {Nobody}]
  /\ \A o \in Operations : Exists(o) => Shaped(table[o])
  /\ \A d \in Documents : documents[d] # Nobody => projects[documents[d]] # Nobody

PhaseOf(o) ==
  CASE table[o].state = "absent" -> "absent"
    [] table[o].state = "CREATED" -> "waiting"
    [] table[o].state = "LEASED" -> "held"
    [] table[o].state = "RUNNING" -> "running"
    [] OTHER -> "ended"

Occupants(w) == {o \in Operations : PhaseOf(o) \in {"held", "running"} /\ table[o].station = w}

\* The table as the life of operations that OperationLifecycle describes.
Phases == [o \in Operations |-> PhaseOf(o)]
Occupied == [w \in Stations |-> Occupants(w)]
EndedWith == [o \in Operations |-> IF Exists(o) THEN table[o].outcome ELSE Nobody]

Life == INSTANCE OperationLifecycle WITH
  named <- index, phase <- Phases, holders <- Occupied, ending <- EndedWith

\* The in-memory repository implements the life of an operation although its
\* callers act at instants that have passed: a stale clock neither revives an
\* operation that ended, nor occupies a workstation twice, nor renames a key.
MemoryImplementsLifecycle == Life!LifecycleSpec
=============================================================================
