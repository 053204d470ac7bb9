------------------------ MODULE GatewayOperationsProofs ------------------------
(***************************************************************************)
(* Proofs about the operation queue of the gateway, for any number of       *)
(* operations, workstations, clients and keys, any deadlines and any quota. *)
(*                                                                         *)
(* The invariants are proved together, as Inv: that two operations of a     *)
(* workstation are never active at once is what orders their starts, and    *)
(* the order of the starts is what keeps the catalog from going back.       *)
(***************************************************************************)
EXTENDS GatewayOperations, FiniteSetTheorems, TLAPS

\* Whoever runs on a workstation was started after everything that succeeded
\* there, and nothing was started in the future.
StartOrder ==
  /\ \A o \in Ops : started[o] <= now
  /\ \A o, p \in Ops : /\ state[o] = "RUNNING" /\ state[p] = "SUCCEEDED"
                       /\ request[o].workstation = request[p].workstation
                       => started[p] <= started[o]

Inv == /\ TypeOK
       /\ OneActivePerWorkstation
       /\ StartOrder
       /\ CatalogIsNewest
       /\ LiveWithinQuota

-----------------------------------------------------------------------------
\* _refresh_locked leaves the columns typed and gives an overdue row the error
\* code that the CHECK constraint asks for.
LEMMA RefreshType ==
  ASSUME TypeOK, NEW S, Refresh(S), UNCHANGED now
  PROVE  TypeOK'
<1>1. /\ state' \in [Ops -> OperationState \cup {"ABSENT"}]
      /\ result' \in [Ops -> Results \cup Codes \cup OwnCodes \cup {NoResult}]
  BY DEF TypeOK, Refresh, RefreshedState, RefreshedResult, DueState, DueCode, UnknownWrite,
         Due, OperationState, Terminal, OwnCodes
<1>2. leaseEnd' \in [Ops -> Time]
  BY TimesType DEF TypeOK, Refresh, RefreshedLease, Time
<1>3. \A o \in Ops : (Present(o) => request[o] \in Request)' /\ ShapeOK(o)'
  <2> SUFFICES ASSUME NEW o \in Ops
               PROVE  (Present(o) => request[o] \in Request)' /\ ShapeOK(o)'
    OBVIOUS
  <2>1. CASE o \in S /\ Due(o)
    BY <2>1 DEF TypeOK, Refresh, RefreshedState, RefreshedResult, DueState, DueCode,
                UnknownWrite, Due, Present, ShapeOK, Terminal
  <2>2. CASE ~ (o \in S /\ Due(o))
    BY <2>2 DEF TypeOK, Refresh, RefreshedState, RefreshedResult, Present, ShapeOK, Terminal
  <2> QED  BY <2>1, <2>2
<1> QED  BY <1>1, <1>2, <1>3 DEF TypeOK, Refresh

\* Every transaction leaves the columns typed and each row in a shape that the
\* CHECK constraint operations_state_shape admits.
LEMMA TypeStep ==
  ASSUME TypeOK, [Next]_vars
  PROVE  TypeOK'
<1>1. CASE Tick
  BY <1>1, TimesType DEF Tick, TypeOK, opsVars, Time, Present, ShapeOK
<1>2. ASSUME NEW o \in Ops, NEW r \in Request, CreateOperation(o, r) PROVE TypeOK'
  <2>1. expires' \in [Ops -> Time]
    BY <1>2, TimesType DEF CreateOperation, TypeOK, Time
  <2>2. \A p \in Ops : (Present(p) => request[p] \in Request)' /\ ShapeOK(p)'
    BY <1>2 DEF CreateOperation, TypeOK, Present, ShapeOK, Terminal
  <2> QED  BY <1>2, <2>1, <2>2 DEF CreateOperation, TypeOK, OperationState
<1>3. ASSUME NEW o \in Ops, GetOperation(o) PROVE TypeOK'
  BY <1>3, RefreshType DEF GetOperation
<1>4. ASSUME NEW w \in Workstations, LeaseNothing(w) PROVE TypeOK'
  BY <1>4, RefreshType DEF LeaseNothing
<1>5. ASSUME NEW w \in Workstations, NEW o \in Ops, LeaseOperation(w, o) PROVE TypeOK'
  <2> DEFINE mine == {p \in Ops : On(p, w)}
  <2>0. /\ state' = [RefreshedState(mine) EXCEPT ![o] = "LEASED"]
        /\ leaseEnd' = [RefreshedLease(mine) EXCEPT ![o] = Earlier(now + LeaseTime, expires[o])]
        /\ result' = RefreshedResult(mine)
        /\ RefreshedState(mine)[o] = "CREATED"
        /\ UNCHANGED <<now, request, expires, started, catalog>>
    BY <1>5 DEF LeaseOperation
  <2> HIDE DEF mine
  <2>1. /\ state' \in [Ops -> OperationState \cup {"ABSENT"}]
        /\ result' \in [Ops -> Results \cup Codes \cup OwnCodes \cup {NoResult}]
    BY <2>0 DEF TypeOK, RefreshedState, RefreshedResult, DueState, DueCode, UnknownWrite,
                Due, OperationState, Terminal, OwnCodes
  <2>2. leaseEnd' \in [Ops -> Time]
    <3>1. Earlier(now + LeaseTime, expires[o]) \in Time
      BY TimesType DEF Earlier, TypeOK, Time
    <3>2. RefreshedLease(mine) \in [Ops -> Time]
      BY TimesType DEF RefreshedLease, TypeOK, Time
    <3> QED  BY <2>0, <3>1, <3>2
  <2>3. \A p \in Ops : (Present(p) => request[p] \in Request)' /\ ShapeOK(p)'
    <3> SUFFICES ASSUME NEW p \in Ops
                 PROVE  (Present(p) => request[p] \in Request)' /\ ShapeOK(p)'
      OBVIOUS
    <3>1. CASE p = o
      BY <2>0, <3>1 DEF TypeOK, RefreshedState, RefreshedResult, DueState, UnknownWrite,
                        Present, ShapeOK, Terminal
    <3>2. CASE p # o /\ p \in mine /\ Due(p)
      BY <2>0, <3>2 DEF TypeOK, RefreshedState, RefreshedResult, DueState, DueCode,
                        UnknownWrite, Due, Present, ShapeOK, Terminal
    <3>3. CASE p # o /\ ~ (p \in mine /\ Due(p))
      BY <2>0, <3>3 DEF TypeOK, RefreshedState, RefreshedResult, Present, ShapeOK, Terminal
    <3> QED  BY <3>1, <3>2, <3>3
  <2> QED  BY <2>0, <2>1, <2>2, <2>3 DEF TypeOK
<1>6. ASSUME NEW o \in Ops, StartOperation(o) PROVE TypeOK'
  <2>1. CASE now >= leaseEnd[o]
    BY <1>6, <2>1, RefreshType DEF StartOperation
  <2>2. CASE ~ (now >= leaseEnd[o])
    <3>1. leaseEnd' \in [Ops -> Time] /\ started' \in [Ops -> Time]
      BY <1>6, <2>2, TimesType DEF StartOperation, TypeOK, Time
    <3>2. \A p \in Ops : (Present(p) => request[p] \in Request)' /\ ShapeOK(p)'
      BY <1>6, <2>2 DEF StartOperation, TypeOK, Present, ShapeOK, Terminal
    <3> QED  BY <1>6, <2>2, <3>1, <3>2 DEF StartOperation, TypeOK, OperationState
  <2> QED  BY <2>1, <2>2
<1>7. ASSUME NEW o \in Ops, NEW c \in Codes, FailOperation(o, c) PROVE TypeOK'
  <2>1. CASE Due(o)
    BY <1>7, <2>1, RefreshType DEF FailOperation
  <2>2. CASE ~ Due(o)
    <3>1. \A p \in Ops : (Present(p) => request[p] \in Request)' /\ ShapeOK(p)'
      BY <1>7, <2>2 DEF FailOperation, TypeOK, Present, ShapeOK, Terminal
    <3> QED  BY <1>7, <2>2, <3>1 DEF FailOperation, TypeOK, OperationState, Terminal
  <2> QED  BY <2>1, <2>2
<1>8. ASSUME NEW o \in Ops, NEW r \in Results, ApplyWorkerSuccess(o, r) PROVE TypeOK'
  <2>1. CASE Due(o)
    BY <1>8, <2>1, RefreshType DEF ApplyWorkerSuccess
  <2>2. CASE ~ Due(o)
    <3>1. \A p \in Ops : (Present(p) => request[p] \in Request)' /\ ShapeOK(p)'
      BY <1>8, <2>2 DEF ApplyWorkerSuccess, Succeed, TypeOK, Present, ShapeOK, Terminal
    <3>2. catalog' \in [Workstations -> Ops \cup {NoOp}]
      BY <1>8, <2>2 DEF ApplyWorkerSuccess, Succeed, TypeOK
    <3> QED
      BY <1>8, <2>2, <3>1, <3>2
      DEF ApplyWorkerSuccess, Succeed, TypeOK, OperationState, Terminal
  <2> QED  BY <2>1, <2>2
<1>9. CASE UNCHANGED vars
  BY <1>9 DEF vars, opsVars, TypeOK, Present, ShapeOK
<1> QED  BY <1>1, <1>2, <1>3, <1>4, <1>5, <1>6, <1>7, <1>8, <1>9 DEF Next

-----------------------------------------------------------------------------
\* What a step may do to the rows of a workstation, in the terms the invariants
\* need: no row becomes active or succeeds, the ended rows and the starts stay.
Quiet ==
  /\ UNCHANGED <<request, started, catalog>> /\ now <= now'
  /\ \A o \in Ops : state'[o] # state[o] =>
       /\ state[o] \notin Terminal
       /\ state'[o] \notin {"LEASED", "RUNNING", "SUCCEEDED"}

\* Nothing but a lease, a start and a success can disturb the invariants on
\* active rows, on the order of the starts and on the catalog.
LEMMA QuietKeeps ==
  ASSUME Inv, Quiet, now' \in Time
  PROVE  OneActivePerWorkstation' /\ StartOrder' /\ CatalogIsNewest'
<1> USE DEF Quiet, Terminal
<1>1. OneActivePerWorkstation'
  BY DEF Inv, OneActivePerWorkstation, Active
<1>2. StartOrder'
  BY DEF Inv, StartOrder, TypeOK, Time
<1>3. CatalogIsNewest'
  <2> SUFFICES ASSUME NEW o \in Ops, (state[o] = "SUCCEEDED" /\ request[o].task = "list")'
               PROVE  LET c == catalog[request[o].workstation]
                      IN  (c # NoOp /\ state[c] = "SUCCEEDED" /\ started[o] <= started[c])'
    BY DEF CatalogIsNewest
  <2>1. state[o] = "SUCCEEDED" /\ request[o].task = "list"
    OBVIOUS
  <2>2. request[o].workstation \in Workstations
    BY <2>1 DEF Inv, TypeOK, Present, Request
  <2> DEFINE c == catalog[request[o].workstation]
  <2>3. c # NoOp /\ state[c] = "SUCCEEDED" /\ started[o] <= started[c]
    BY <2>1 DEF Inv, CatalogIsNewest
  <2>4. c \in Ops
    BY <2>2, <2>3 DEF Inv, TypeOK
  <2>5. state'[c] = "SUCCEEDED"
    BY <2>3, <2>4
  <2> QED  BY <2>3, <2>5
<1> QED  BY <1>1, <1>2, <1>3

\* The rows that quota_sql counts shrink whenever no row is inserted, and so the
\* quota is kept.
LEMMA QuotaShrinks ==
  ASSUME LiveWithinQuota,
         \A c \in Clients, w \in Workstations : Live(c, w)' \subseteq Live(c, w)
  PROVE  LiveWithinQuota'
<1> SUFFICES ASSUME NEW c \in Clients, NEW w \in Workstations
             PROVE  Cardinality(Live(c, w)') <= MaxActive
  BY DEF LiveWithinQuota
<1>1. Live(c, w) \subseteq Ops
  BY DEF Live
<1>2. IsFiniteSet(Live(c, w))
  BY <1>1, OpsFinite, FS_Subset
<1>3. /\ Cardinality(Live(c, w)') <= Cardinality(Live(c, w))
      /\ Cardinality(Live(c, w)') \in Nat /\ Cardinality(Live(c, w)) \in Nat
  BY <1>2, FS_Subset, FS_CardinalityType
<1> QED  BY <1>3, TimesType DEF LiveWithinQuota

\* _refresh_locked disturbs nothing.
LEMMA RefreshKeeps ==
  ASSUME Inv, NEW S, Refresh(S), UNCHANGED now
  PROVE  Inv'
<1>1. TypeOK'
  BY RefreshType DEF Inv
<1>2. Quiet /\ now' \in Time
  <2>1. \A o \in Ops : state'[o] # state[o] =>
          /\ state[o] \notin Terminal
          /\ state'[o] \notin {"LEASED", "RUNNING", "SUCCEEDED"}
    BY DEF Inv, TypeOK, Refresh, RefreshedState, DueState, Due, Terminal
  <2> QED  BY <2>1 DEF Quiet, Inv, TypeOK, Refresh, Time
<1>3. \A c \in Clients, w \in Workstations : Live(c, w)' \subseteq Live(c, w)
  <2> SUFFICES ASSUME NEW c \in Clients, NEW w \in Workstations, NEW o \in Live(c, w)'
               PROVE  o \in Live(c, w)
    OBVIOUS
  <2>1. o \in Ops /\ state'[o] \notin Terminal
    BY DEF Live
  <2>2. ~ (o \in S /\ Due(o))
    BY <2>1 DEF Refresh, RefreshedState, DueState, Terminal
  <2>3. /\ state'[o] = state[o] /\ leaseEnd'[o] = leaseEnd[o]
        /\ UNCHANGED <<now, request, expires>>
    BY <2>1, <2>2 DEF Refresh, RefreshedState, RefreshedLease
  <2> QED  BY <2>1, <2>3 DEF Live, On, Present, Due
<1> QED  BY <1>1, <1>2, <1>3, QuietKeeps, QuotaShrinks DEF Inv

-----------------------------------------------------------------------------
\* A tick brings deadlines nearer and changes no row.
LEMMA TickKeeps ==
  ASSUME Inv, Tick, TypeOK'
  PROVE  Inv'
<1>1. Quiet /\ now' \in Time
  BY DEF Inv, TypeOK, Tick, Quiet, opsVars, Time
<1>2. \A c \in Clients, w \in Workstations : Live(c, w)' \subseteq Live(c, w)
  BY TimesType DEF Inv, TypeOK, Tick, opsVars, Live, On, Present, Due, Time
<1> QED  BY <1>1, <1>2, QuietKeeps, QuotaShrinks DEF Inv

\* A new row is neither active nor ended, and the count that admits it is taken
\* in the same transaction.
LEMMA CreateKeeps ==
  ASSUME Inv, NEW o \in Ops, NEW r \in Request, CreateOperation(o, r), TypeOK'
  PROVE  Inv'
<1>0. /\ state[o] = "ABSENT" /\ state' = [state EXCEPT ![o] = "CREATED"]
      /\ request' = [request EXCEPT ![o] = r]
      /\ expires' = [expires EXCEPT ![o] = now + TTL]
      /\ Cardinality(Live(ClientOf[r.key], r.workstation)) < MaxActive
      /\ UNCHANGED <<now, leaseEnd, started, result, catalog>>
  BY DEF CreateOperation
<1>1. \A p \in Ops \ {o} : state'[p] = state[p] /\ request'[p] = request[p]
  BY <1>0 DEF Inv, TypeOK
<1>2. state'[o] = "CREATED"
  BY <1>0 DEF Inv, TypeOK
<1>3. OneActivePerWorkstation'
  BY <1>1, <1>2 DEF Inv, OneActivePerWorkstation, Active
<1>4. StartOrder'
  BY <1>0, <1>1, <1>2 DEF Inv, StartOrder
<1>5. CatalogIsNewest'
  <2> SUFFICES ASSUME NEW p \in Ops, (state[p] = "SUCCEEDED" /\ request[p].task = "list")'
               PROVE  LET c == catalog[request[p].workstation]
                      IN  (c # NoOp /\ state[c] = "SUCCEEDED" /\ started[p] <= started[c])'
    BY DEF CatalogIsNewest
  <2>1. p # o /\ state[p] = "SUCCEEDED" /\ request'[p] = request[p]
    BY <1>1, <1>2
  <2> DEFINE c == catalog[request[p].workstation]
  <2>2. c # NoOp /\ state[c] = "SUCCEEDED" /\ started[p] <= started[c]
    BY <2>1 DEF Inv, CatalogIsNewest
  <2>3. c \in Ops /\ c # o
    BY <1>0, <2>1, <2>2 DEF Inv, TypeOK, Present, Request
  <2>4. state'[c] = "SUCCEEDED" /\ catalog' = catalog /\ started' = started
    BY <1>0, <1>1, <2>2, <2>3
  <2> QED  BY <2>1, <2>2, <2>4
<1>6. LiveWithinQuota'
  <2> SUFFICES ASSUME NEW c \in Clients, NEW w \in Workstations
               PROVE  Cardinality(Live(c, w)') <= MaxActive
    BY DEF LiveWithinQuota
  <2>1. Live(c, w)' \subseteq Live(c, w) \cup {o}
    BY <1>0, <1>1 DEF Inv, TypeOK, Live, On, Present, Due
  <2>2. IsFiniteSet(Live(c, w)) /\ o \notin Live(c, w)
    BY <1>0, OpsFinite, FS_Subset DEF Live, On, Present
  <2>3. /\ Cardinality(Live(c, w)) <= MaxActive /\ Cardinality(Live(c, w)) \in Nat
        /\ IsFiniteSet(Live(c, w) \cup {o})
        /\ Cardinality(Live(c, w) \cup {o}) = Cardinality(Live(c, w)) + 1
    BY <2>2, FS_AddElement, FS_CardinalityType DEF Inv, LiveWithinQuota
  <2>4. CASE c = ClientOf[r.key] /\ w = r.workstation
    <3>1. Cardinality(Live(c, w)') <= Cardinality(Live(c, w) \cup {o})
      BY <2>1, <2>3, FS_Subset
    <3>2. Cardinality(Live(c, w)') \in Nat
      BY <2>1, <2>3, FS_Subset, FS_CardinalityType
    <3> QED  BY <1>0, <2>3, <2>4, <3>1, <3>2, TimesType
  <2>5. CASE ~ (c = ClientOf[r.key] /\ w = r.workstation)
    <3>1. request'[o] = r
      BY <1>0 DEF Inv, TypeOK
    <3>2. o \notin Live(c, w)'
      BY <2>5, <3>1 DEF Live, On
    <3>3. Live(c, w)' \subseteq Live(c, w)
      BY <2>1, <3>2
    <3>4. Cardinality(Live(c, w)') <= Cardinality(Live(c, w)) /\ Cardinality(Live(c, w)') \in Nat
      BY <2>2, <3>3, FS_Subset, FS_CardinalityType
    <3> QED  BY <2>3, <3>4, TimesType
  <2> QED  BY <2>4, <2>5
<1> QED  BY <1>3, <1>4, <1>5, <1>6 DEF Inv

-----------------------------------------------------------------------------
\* A step that starts nothing and ends nothing well leaves the catalog and the
\* rows it came from alone.
LEMMA CatalogStays ==
  ASSUME Inv, UNCHANGED <<request, started, catalog>>,
         \A o \in Ops : state[o] = "SUCCEEDED" <=> state'[o] = "SUCCEEDED"
  PROVE  CatalogIsNewest'
<1> SUFFICES ASSUME NEW o \in Ops, (state[o] = "SUCCEEDED" /\ request[o].task = "list")'
             PROVE  LET c == catalog[request[o].workstation]
                    IN  (c # NoOp /\ state[c] = "SUCCEEDED" /\ started[o] <= started[c])'
  BY DEF CatalogIsNewest
<1>1. state[o] = "SUCCEEDED" /\ request[o].task = "list"
  OBVIOUS
<1> DEFINE c == catalog[request[o].workstation]
<1>2. c # NoOp /\ state[c] = "SUCCEEDED" /\ started[o] <= started[c]
  BY <1>1 DEF Inv, CatalogIsNewest
<1>3. c \in Ops
  BY <1>1, <1>2 DEF Inv, TypeOK, Present, Request
<1> QED  BY <1>2, <1>3

\* lease_next_operation looks at every row of the workstation before it makes one
\* of them active.
LEMMA LeaseKeeps ==
  ASSUME Inv, NEW w \in Workstations, NEW o \in Ops, LeaseOperation(w, o), TypeOK'
  PROVE  Inv'
<1> DEFINE mine == {p \in Ops : On(p, w)}
<1>0. /\ state' = [RefreshedState(mine) EXCEPT ![o] = "LEASED"]
      /\ leaseEnd' = [RefreshedLease(mine) EXCEPT ![o] = Earlier(now + LeaseTime, expires[o])]
      /\ \A p \in mine : RefreshedState(mine)[p] \notin {"LEASED", "RUNNING"}
      /\ o \in mine /\ RefreshedState(mine)[o] = "CREATED"
      /\ UNCHANGED <<now, request, expires, started, catalog>>
  BY DEF LeaseOperation
<1>1. On(o, w) /\ \A p \in Ops : On(p, w) => p \in mine
  BY <1>0
<1> HIDE DEF mine
<1>2. state'[o] = "LEASED" /\ state[o] = "CREATED" /\ ~ Due(o)
  BY <1>0 DEF RefreshedState, DueState, Inv, TypeOK
<1>3. \A p \in Ops \ {o} : \/ state'[p] = state[p] /\ leaseEnd'[p] = leaseEnd[p]
                           \/ /\ state'[p] \in {"ATTENTION_REQUIRED", "EXPIRED"}
                              /\ state[p] \notin Terminal
  BY <1>0 DEF RefreshedState, RefreshedLease, DueState, Due, Terminal, Inv, TypeOK
<1>4. \A p \in Ops \ {o} : On(p, w) => state'[p] \notin {"LEASED", "RUNNING"}
  BY <1>0, <1>1 DEF RefreshedState, Inv, TypeOK
<1>5. OneActivePerWorkstation'
  <2> SUFFICES ASSUME NEW p \in Ops, NEW q \in Ops, (Active(p) /\ Active(q))',
                      (request[p].workstation = request[q].workstation)'
               PROVE  p = q
    BY DEF OneActivePerWorkstation
  <2>1. \A x \in Ops \ {o} : Active(x)' => Active(x) /\ ~ On(x, w)
    BY <1>3, <1>4 DEF Active
  <2>2. \A x \in Ops \ {o} : Active(x)' => request[x].workstation # w
    BY <2>1 DEF On, Present, Active
  <2>3. request[o].workstation = w
    BY <1>1 DEF On
  <2> QED  BY <1>0, <2>1, <2>2, <2>3 DEF Inv, OneActivePerWorkstation
<1>6. StartOrder'
  BY <1>0, <1>2, <1>3 DEF Inv, StartOrder
<1>7. CatalogIsNewest'
  BY <1>0, <1>2, <1>3, CatalogStays DEF Terminal
<1>8. \A c \in Clients, v \in Workstations : Live(c, v)' \subseteq Live(c, v)
  <2> SUFFICES ASSUME NEW c \in Clients, NEW v \in Workstations, NEW p \in Live(c, v)'
               PROVE  p \in Live(c, v)
    OBVIOUS
  <2>1. CASE p = o
    BY <1>0, <1>2, <2>1 DEF Live, On, Present, Terminal
  <2>2. CASE p # o
    <3>1. p \in Ops /\ state'[p] = state[p] /\ leaseEnd'[p] = leaseEnd[p]
      BY <1>3, <2>2 DEF Live, Terminal
    <3> QED  BY <1>0, <3>1 DEF Live, On, Present, Due
  <2> QED  BY <2>1, <2>2
<1> QED  BY <1>5, <1>6, <1>7, <1>8, QuotaShrinks DEF Inv

\* A run begins now, and so after everything else on the workstation.
LEMMA StartKeeps ==
  ASSUME Inv, NEW o \in Ops, StartOperation(o), TypeOK'
  PROVE  Inv'
<1>1. CASE now >= leaseEnd[o]
  BY <1>1, RefreshKeeps DEF StartOperation
<1>2. CASE ~ (now >= leaseEnd[o])
  <2>0. /\ state[o] = "LEASED" /\ state' = [state EXCEPT ![o] = "RUNNING"]
        /\ started' = [started EXCEPT ![o] = now]
        /\ leaseEnd' = [leaseEnd EXCEPT ![o] = 0]
        /\ UNCHANGED <<now, request, expires, result, catalog>>
    BY <1>2 DEF StartOperation
  <2>1. /\ state'[o] = "RUNNING" /\ started'[o] = now
        /\ \A p \in Ops \ {o} : /\ state'[p] = state[p] /\ started'[p] = started[p]
                                /\ leaseEnd'[p] = leaseEnd[p]
    BY <2>0 DEF Inv, TypeOK
  <2>2. \A p \in Ops : Active(p)' <=> Active(p)
    BY <2>0, <2>1 DEF Active
  <2>3. OneActivePerWorkstation'
    BY <2>0, <2>2 DEF Inv, OneActivePerWorkstation
  <2>4. StartOrder'
    BY <2>0, <2>1 DEF Inv, StartOrder, TypeOK, Time
  <2>5. CatalogIsNewest'
    <3> SUFFICES ASSUME NEW p \in Ops, (state[p] = "SUCCEEDED" /\ request[p].task = "list")'
                 PROVE  LET c == catalog[request[p].workstation]
                        IN  (c # NoOp /\ state[c] = "SUCCEEDED" /\ started[p] <= started[c])'
      BY DEF CatalogIsNewest
    <3>1. p # o /\ state[p] = "SUCCEEDED" /\ request' = request /\ catalog' = catalog
      BY <2>0, <2>1
    <3> DEFINE c == catalog[request[p].workstation]
    <3>2. c # NoOp /\ state[c] = "SUCCEEDED" /\ started[p] <= started[c]
      BY <3>1 DEF Inv, CatalogIsNewest
    <3>3. c \in Ops /\ c # o
      BY <2>0, <3>1, <3>2 DEF Inv, TypeOK, Present, Request
    <3> QED  BY <2>1, <3>1, <3>2, <3>3
  <2>6. \A c \in Clients, w \in Workstations : Live(c, w)' \subseteq Live(c, w)
    <3> SUFFICES ASSUME NEW c \in Clients, NEW w \in Workstations, NEW p \in Live(c, w)'
                 PROVE  p \in Live(c, w)
      OBVIOUS
    <3>1. CASE p = o
      BY <1>2, <2>0, <3>1 DEF Live, On, Present, Due, Terminal
    <3>2. CASE p # o
      BY <2>0, <2>1, <3>2 DEF Live, On, Present, Due
    <3> QED  BY <3>1, <3>2
  <2> QED  BY <2>3, <2>4, <2>5, <2>6, QuotaShrinks DEF Inv
<1> QED  BY <1>1, <1>2

\* A failure ends a run and touches nothing else.
LEMMA FailKeeps ==
  ASSUME Inv, NEW o \in Ops, NEW c \in Codes, FailOperation(o, c), TypeOK'
  PROVE  Inv'
<1>1. CASE Due(o)
  BY <1>1, RefreshKeeps DEF FailOperation
<1>2. CASE ~ Due(o)
  <2>0. /\ state[o] = "RUNNING" /\ state' = [state EXCEPT ![o] = "FAILED"]
        /\ UNCHANGED <<now, request, expires, leaseEnd, started, catalog>>
    BY <1>2 DEF FailOperation
  <2>1. state'[o] = "FAILED" /\ \A p \in Ops \ {o} : state'[p] = state[p]
    BY <2>0 DEF Inv, TypeOK
  <2>2. Quiet /\ now' \in Time
    BY <2>0, <2>1 DEF Quiet, Terminal, Inv, TypeOK, Time
  <2>3. \A d \in Clients, w \in Workstations : Live(d, w)' \subseteq Live(d, w)
    BY <2>0, <2>1 DEF Live, On, Present, Due, Terminal
  <2> QED  BY <2>2, <2>3, QuietKeeps, QuotaShrinks DEF Inv
<1> QED  BY <1>1, <1>2

\* The rows of the one run of the workstation are the newest.
LEMMA SuccessKeeps ==
  ASSUME Inv, NEW o \in Ops, NEW r \in Results, ApplyWorkerSuccess(o, r), TypeOK'
  PROVE  Inv'
<1>1. CASE Due(o)
  BY <1>1, RefreshKeeps DEF ApplyWorkerSuccess
<1>2. CASE ~ Due(o)
  <2>0. /\ state[o] = "RUNNING" /\ state' = [state EXCEPT ![o] = "SUCCEEDED"]
        /\ catalog' = IF request[o].task = "list"
                        THEN [catalog EXCEPT ![request[o].workstation] = o] ELSE catalog
        /\ UNCHANGED <<now, request, expires, leaseEnd, started>>
    BY <1>2 DEF ApplyWorkerSuccess, Succeed
  <2>1. state'[o] = "SUCCEEDED" /\ \A p \in Ops \ {o} : state'[p] = state[p]
    BY <2>0 DEF Inv, TypeOK
  <2>2. OneActivePerWorkstation'
    BY <2>0, <2>1 DEF Inv, OneActivePerWorkstation, Active
  <2>3. StartOrder'
    <3> SUFFICES ASSUME NEW p \in Ops, NEW q \in Ops,
                        (state[p] = "RUNNING" /\ state[q] = "SUCCEEDED")',
                        (request[p].workstation = request[q].workstation)'
                 PROVE  started[q] <= started[p]
      BY <2>0 DEF StartOrder, Inv
    <3>1. p # o /\ state[p] = "RUNNING" /\ request[p].workstation = request[q].workstation
      BY <2>0, <2>1
    <3>2. q # o
      BY <2>0, <3>1 DEF Inv, OneActivePerWorkstation, Active
    <3> QED  BY <2>1, <3>1, <3>2 DEF Inv, StartOrder
  <2>4. CatalogIsNewest'
    <3> SUFFICES ASSUME NEW p \in Ops, (state[p] = "SUCCEEDED" /\ request[p].task = "list")'
                 PROVE  LET c == catalog[request[p].workstation]
                        IN  (c # NoOp /\ state[c] = "SUCCEEDED" /\ started[p] <= started[c])'
      BY DEF CatalogIsNewest
    <3>0. /\ request' = request /\ started' = started
          /\ request[p].workstation \in Workstations
          /\ request[o].workstation \in Workstations
      BY <2>0, <2>1 DEF Inv, TypeOK, Present, Request
    <3> DEFINE c == catalog[request[p].workstation]
               d == catalog'[request[p].workstation]
    <3>1. CASE request[o].task = "list" /\ request[p].workstation = request[o].workstation
      <4>1. d = o
        BY <2>0, <3>0, <3>1 DEF Inv, TypeOK
      <4>2. started[p] <= started[o]
        <5>1. CASE p = o
          BY <5>1 DEF Inv, TypeOK, Time
        <5>2. CASE p # o
          BY <2>0, <2>1, <3>1, <5>2 DEF Inv, StartOrder
        <5> QED  BY <5>1, <5>2
      <4>3. o # NoOp
        BY OutcomesApart
      <4> QED  BY <2>1, <3>0, <4>1, <4>2, <4>3
    <3>2. CASE ~ (request[o].task = "list" /\ request[p].workstation = request[o].workstation)
      <4>1. d = c
        BY <2>0, <3>0, <3>2 DEF Inv, TypeOK
      <4>2. p # o /\ state[p] = "SUCCEEDED"
        BY <2>1, <3>0, <3>2
      <4>3. c # NoOp /\ state[c] = "SUCCEEDED" /\ started[p] <= started[c]
        BY <3>0, <4>2 DEF Inv, CatalogIsNewest
      <4>4. c \in Ops /\ c # o
        BY <2>0, <3>0, <4>3 DEF Inv, TypeOK
      <4> QED  BY <2>1, <3>0, <4>1, <4>3, <4>4
    <3> QED  BY <3>1, <3>2
  <2>5. \A d \in Clients, w \in Workstations : Live(d, w)' \subseteq Live(d, w)
    BY <2>0, <2>1 DEF Live, On, Present, Due, Terminal
  <2> QED  BY <2>2, <2>3, <2>4, <2>5, QuotaShrinks DEF Inv
<1> QED  BY <1>1, <1>2

-----------------------------------------------------------------------------
\* Inv is inductive: it holds of the empty table and every transaction keeps it.
LEMMA InvStep ==
  ASSUME Inv, [Next]_vars
  PROVE  Inv'
<1>0. TypeOK'
  BY TypeStep DEF Inv
<1>1. CASE Tick
  BY <1>0, <1>1, TickKeeps
<1>2. ASSUME NEW o \in Ops, NEW r \in Request, CreateOperation(o, r) PROVE Inv'
  BY <1>0, <1>2, CreateKeeps
<1>3. ASSUME NEW o \in Ops, GetOperation(o) PROVE Inv'
  BY <1>3, RefreshKeeps DEF GetOperation
<1>4. ASSUME NEW w \in Workstations, LeaseNothing(w) PROVE Inv'
  BY <1>4, RefreshKeeps DEF LeaseNothing
<1>5. ASSUME NEW w \in Workstations, NEW o \in Ops, LeaseOperation(w, o) PROVE Inv'
  BY <1>0, <1>5, LeaseKeeps
<1>6. ASSUME NEW o \in Ops, StartOperation(o) PROVE Inv'
  BY <1>0, <1>6, StartKeeps
<1>7. ASSUME NEW o \in Ops, NEW c \in Codes, FailOperation(o, c) PROVE Inv'
  BY <1>0, <1>7, FailKeeps
<1>8. ASSUME NEW o \in Ops, NEW r \in Results, ApplyWorkerSuccess(o, r) PROVE Inv'
  BY <1>0, <1>8, SuccessKeeps
<1>9. CASE UNCHANGED vars
  <2>1. Quiet /\ now' \in Time
    BY <1>9 DEF vars, opsVars, Quiet, Inv, TypeOK, Time
  <2>2. \A c \in Clients, w \in Workstations : Live(c, w)' \subseteq Live(c, w)
    BY <1>9 DEF vars, opsVars, Live, On, Present, Due
  <2> QED  BY <1>0, <2>1, <2>2, QuietKeeps, QuotaShrinks DEF Inv
<1> QED  BY <1>1, <1>2, <1>3, <1>4, <1>5, <1>6, <1>7, <1>8, <1>9 DEF Next

\* The empty table satisfies Inv.
LEMMA InvInit == Init => Inv
<1> SUFFICES ASSUME Init PROVE Inv
  OBVIOUS
<1>1. TypeOK
  BY TimesType DEF Init, TypeOK, Time, Present, ShapeOK, Terminal
<1>2. OneActivePerWorkstation /\ StartOrder /\ CatalogIsNewest
  BY DEF Init, OneActivePerWorkstation, Active, StartOrder, CatalogIsNewest
<1>3. LiveWithinQuota
  <2>1. \A c \in Clients, w \in Workstations : Live(c, w) = {}
    BY DEF Init, Live, On, Present
  <2> QED  BY <2>1, FS_EmptySet, TimesType DEF LiveWithinQuota
<1> QED  BY <1>1, <1>2, <1>3 DEF Inv

\* In every reachable state the table is typed and shaped, a workstation has one
\* active operation at most, each client is within its quota and no catalog holds
\* rows older than the last success.
THEOREM QueueSafe == Spec => []Inv
<1>1. Inv /\ [Next]_vars => Inv'
  BY InvStep
<1> QED  BY InvInit, <1>1, PTL DEF Spec

\* Every row has typed columns and satisfies the CHECK constraint.
THEOREM OperationsTypeCorrect == Spec => []TypeOK
<1>1. Inv => TypeOK
  BY DEF Inv
<1> QED  BY QueueSafe, <1>1, PTL

\* A workstation never has two operations leased or running.
THEOREM OneActiveAlways == Spec => []OneActivePerWorkstation
<1>1. Inv => OneActivePerWorkstation
  BY DEF Inv
<1> QED  BY QueueSafe, <1>1, PTL

\* A client never has more live operations on a workstation than its quota.
THEOREM QuotaHolds == Spec => []LiveWithinQuota
<1>1. Inv => LiveWithinQuota
  BY DEF Inv
<1> QED  BY QueueSafe, <1>1, PTL

\* Whatever order results arrive in, the catalog has the newest rows.
THEOREM CatalogStaysNewest == Spec => []CatalogIsNewest
<1>1. Inv => CatalogIsNewest
  BY DEF Inv
<1> QED  BY QueueSafe, <1>1, PTL

-----------------------------------------------------------------------------
\* A row that keeps its columns passes the trigger.
LEMMA TriggerIdle ==
  ASSUME TypeOK, NEW o \in Ops, Present(o), state'[o] = state[o], result'[o] = result[o],
         started'[o] = started[o], request'[o] = request[o], expires'[o] = expires[o]
  PROVE  TriggerAccepts(o)
<1>1. state[o] \in OperationState
  BY DEF TypeOK, Present
<1>2. /\ ~ (state[o] = "LEASED" /\ state'[o] = "RUNNING")
      /\ ~ (state[o] = "LEASED" /\ state'[o] = "ATTENTION_REQUIRED")
      /\ ~ (state[o] = "RUNNING" /\ state'[o] \in {"SUCCEEDED", "FAILED"})
  OBVIOUS
<1>3. <<state[o], state'[o]>> \in {<<s, s>> : s \in OperationState}
  BY <1>1
<1> QED  BY <1>2, <1>3 DEF TriggerAccepts

\* The trigger lets an overdue row pass.
LEMMA TriggerRefresh ==
  ASSUME TypeOK, NEW S, Refresh(S), NEW o \in Ops, Present(o)
  PROVE  TriggerAccepts(o)
<1>1. CASE o \in S /\ Due(o)
  <2>1. state'[o] = DueState(o) /\ state[o] \in {"CREATED", "LEASED", "RUNNING"}
    BY <1>1 DEF Refresh, RefreshedState, Due
  <2>2. <<state[o], state'[o]>> \in ({"CREATED"} \X {"LEASED", "EXPIRED"})
                                    \cup ({"LEASED"} \X {"RUNNING", "ATTENTION_REQUIRED"})
                                    \cup ({"RUNNING"} \X Terminal)
    BY <2>1 DEF DueState, UnknownWrite, Terminal
  <2>3. state'[o] # state[o] /\ state'[o] \notin {"RUNNING", "SUCCEEDED", "FAILED"}
    BY <2>1 DEF DueState
  <2>4. state[o] = "LEASED" => now >= leaseEnd[o]
    BY <1>1 DEF Due
  <2> QED  BY <2>2, <2>3, <2>4 DEF TriggerAccepts, Refresh
<1>2. CASE ~ (o \in S /\ Due(o))
  BY <1>2, TriggerIdle DEF Refresh, RefreshedState, RefreshedResult
<1> QED  BY <1>1, <1>2

\* The trigger lets every update of a transaction pass.
LEMMA TriggerStep ==
  ASSUME TypeOK, [Next]_vars, NEW o \in Ops, Present(o)
  PROVE  TriggerAccepts(o)
<1>1. CASE Tick
  BY <1>1, TriggerIdle DEF Tick, opsVars
<1>2. ASSUME NEW p \in Ops, NEW r \in Request, CreateOperation(p, r) PROVE TriggerAccepts(o)
  <2>1. p # o
    BY <1>2 DEF CreateOperation, Present
  <2> QED  BY <1>2, <2>1, TriggerIdle DEF CreateOperation, TypeOK
<1>3. ASSUME NEW p \in Ops, GetOperation(p) PROVE TriggerAccepts(o)
  BY <1>3, TriggerRefresh DEF GetOperation
<1>4. ASSUME NEW w \in Workstations, LeaseNothing(w) PROVE TriggerAccepts(o)
  BY <1>4, TriggerRefresh DEF LeaseNothing
<1>5. ASSUME NEW w \in Workstations, NEW p \in Ops, LeaseOperation(w, p)
      PROVE  TriggerAccepts(o)
  <2> DEFINE mine == {q \in Ops : On(q, w)}
  <2>0. /\ state' = [RefreshedState(mine) EXCEPT ![p] = "LEASED"]
        /\ result' = RefreshedResult(mine)
        /\ p \in mine /\ RefreshedState(mine)[p] = "CREATED"
        /\ UNCHANGED <<now, request, expires, started>>
    BY <1>5 DEF LeaseOperation
  <2> HIDE DEF mine
  <2>1. CASE o = p
    <3>1. state[o] = "CREATED" /\ state'[o] = "LEASED"
      BY <2>0, <2>1 DEF RefreshedState, DueState, TypeOK
    <3> QED  BY <2>0, <3>1 DEF TriggerAccepts
  <2>2. CASE o # p /\ o \in mine /\ Due(o)
    <3>1. state'[o] = DueState(o) /\ state[o] \in {"CREATED", "LEASED", "RUNNING"}
      BY <2>0, <2>2 DEF RefreshedState, Due
    <3>2. <<state[o], state'[o]>> \in ({"CREATED"} \X {"LEASED", "EXPIRED"})
                                      \cup ({"LEASED"} \X {"RUNNING", "ATTENTION_REQUIRED"})
                                      \cup ({"RUNNING"} \X Terminal)
      BY <3>1 DEF DueState, UnknownWrite, Terminal
    <3>3. state'[o] # state[o] /\ state'[o] \notin {"RUNNING", "SUCCEEDED", "FAILED"}
      BY <3>1 DEF DueState
    <3>4. state[o] = "LEASED" => now >= leaseEnd[o]
      BY <2>2 DEF Due
    <3> QED  BY <2>0, <3>2, <3>3, <3>4 DEF TriggerAccepts
  <2>3. CASE o # p /\ ~ (o \in mine /\ Due(o))
    BY <2>0, <2>3, TriggerIdle DEF RefreshedState, RefreshedResult
  <2> QED  BY <2>1, <2>2, <2>3
<1>6. ASSUME NEW p \in Ops, StartOperation(p) PROVE TriggerAccepts(o)
  <2>1. CASE now >= leaseEnd[p]
    BY <1>6, <2>1, TriggerRefresh DEF StartOperation
  <2>2. CASE ~ (now >= leaseEnd[p]) /\ p = o
    <3>1. /\ state[o] = "LEASED" /\ state'[o] = "RUNNING"
          /\ UNCHANGED <<now, request, expires, result>>
      BY <1>6, <2>2 DEF StartOperation, TypeOK
    <3>2. now < leaseEnd[o]
      BY <2>2 DEF TypeOK, Time
    <3> QED  BY <3>1, <3>2 DEF TriggerAccepts
  <2>3. CASE ~ (now >= leaseEnd[p]) /\ p # o
    BY <1>6, <2>3, TriggerIdle DEF StartOperation, TypeOK
  <2> QED  BY <2>1, <2>2, <2>3
<1>7. ASSUME NEW p \in Ops, NEW c \in Codes, FailOperation(p, c) PROVE TriggerAccepts(o)
  <2>1. CASE Due(p)
    BY <1>7, <2>1, TriggerRefresh DEF FailOperation
  <2>2. CASE ~ Due(p) /\ p = o
    <3>1. state[o] = "RUNNING" /\ state'[o] = "FAILED" /\ UNCHANGED <<now, request, expires>>
      BY <1>7, <2>2 DEF FailOperation, TypeOK
    <3>2. now < expires[o]
      BY <2>2, <3>1 DEF Due, TypeOK, Time
    <3> QED  BY <3>1, <3>2 DEF TriggerAccepts, Terminal
  <2>3. CASE ~ Due(p) /\ p # o
    BY <1>7, <2>3, TriggerIdle DEF FailOperation, TypeOK
  <2> QED  BY <2>1, <2>2, <2>3
<1>8. ASSUME NEW p \in Ops, NEW r \in Results, ApplyWorkerSuccess(p, r)
      PROVE  TriggerAccepts(o)
  <2>1. CASE Due(p)
    BY <1>8, <2>1, TriggerRefresh DEF ApplyWorkerSuccess
  <2>2. CASE ~ Due(p) /\ p = o
    <3>1. state[o] = "RUNNING" /\ state'[o] = "SUCCEEDED" /\ UNCHANGED <<now, request, expires>>
      BY <1>8, <2>2 DEF ApplyWorkerSuccess, Succeed, TypeOK
    <3>2. now < expires[o]
      BY <2>2, <3>1 DEF Due, TypeOK, Time
    <3> QED  BY <3>1, <3>2 DEF TriggerAccepts, Terminal
  <2>3. CASE ~ Due(p) /\ p # o
    BY <1>8, <2>3, TriggerIdle DEF ApplyWorkerSuccess, Succeed, TypeOK
  <2> QED  BY <2>1, <2>2, <2>3
<1>9. CASE UNCHANGED vars
  BY <1>9, TriggerIdle DEF vars, opsVars
<1> QED  BY <1>1, <1>2, <1>3, <1>4, <1>5, <1>6, <1>7, <1>8, <1>9 DEF Next

\* The trigger enforce_operation_transition never refuses an update of the
\* repository, so no handler fails half-way on it.
THEOREM TriggerAcceptsAll == Spec => TriggerNeverRefuses
<1>1. TypeOK /\ [Next]_vars => [\A o \in Ops : Present(o) => TriggerAccepts(o)]_vars
  BY TriggerStep
<1> QED  BY OperationsTypeCorrect, <1>1, PTL DEF Spec, TriggerNeverRefuses

-----------------------------------------------------------------------------
\* No two rows have the same idempotency key, so what a key names is one row.
KeysUnique ==
  \A o, p \in Ops : Present(o) /\ Present(p) /\ request[o].key = request[p].key => o = p

\* Rows are only ever added, and their identity stays.
Grows ==
  \A o \in Ops : Present(o) => Present(o)' /\ request'[o] = request[o]

\* A key names the row that has it.
LEMMA NamedIs ==
  ASSUME KeysUnique, NEW k \in Keys
  PROVE  /\ Owners(k) = {} => LifeNamed[k] = NoOp
         /\ \A o \in Owners(k) : LifeNamed[k] = o
<1>1. LifeNamed[k] = IF Owners(k) = {} THEN NoOp ELSE CHOOSE o \in Owners(k) : TRUE
  BY DEF LifeNamed
<1>2. ASSUME NEW o \in Owners(k) PROVE LifeNamed[k] = o
  <2>1. (CHOOSE p \in Owners(k) : TRUE) \in Owners(k)
    BY <1>2
  <2>2. \A p \in Owners(k) : p = o
    BY <1>2 DEF KeysUnique, Owners
  <2> QED  BY <1>1, <1>2, <2>1, <2>2
<1> QED  BY <1>1, <1>2

\* While no row is added, no key changes its name.
LEMMA NamedStays ==
  ASSUME KeysUnique, KeysUnique', Grows, \A o \in Ops : Present(o)' => Present(o)
  PROVE  LifeNamed' = LifeNamed
<1>1. ASSUME NEW k \in Keys PROVE LifeNamed'[k] = LifeNamed[k]
  <2>1. Owners(k)' = Owners(k)
    BY DEF Owners, Grows
  <2>2. CASE Owners(k) = {}
    <3>1. LifeNamed[k] = NoOp
      BY <2>2, NamedIs
    <3>2. LifeNamed'[k] = NoOp
      BY <2>1, <2>2 DEF LifeNamed
    <3> QED  BY <3>1, <3>2
  <2>3. CASE Owners(k) # {}
    <3>1. PICK o \in Owners(k) : TRUE
      BY <2>3
    <3>2. LifeNamed[k] = o
      BY <3>1, NamedIs
    <3>3. o \in Ops /\ Present(o) /\ request[o].key = k
      BY <3>1 DEF Owners
    <3>4. LifeNamed'[k] = o
      <4>1. LifeNamed'[k] = CHOOSE p \in Owners(k)' : TRUE
        BY <2>1, <2>3 DEF LifeNamed
      <4>2. (CHOOSE p \in Owners(k)' : TRUE) \in Owners(k)'
        BY <2>1, <2>3
      <4>3. \A p \in Owners(k)' : p = o
        BY <2>1, <3>3 DEF KeysUnique, Owners
      <4> QED  BY <4>1, <4>2, <4>3
    <3> QED  BY <3>2, <3>4
  <2> QED  BY <2>2, <2>3
<1> QED  BY <1>1 DEF LifeNamed

\* The phase of a row in terms of its state, now and after a step.
PhaseFits(o) ==
  /\ LifePhase[o] = "absent" <=> state[o] = "ABSENT"
  /\ LifePhase[o] = "waiting" <=> state[o] = "CREATED"
  /\ LifePhase[o] = "held" <=> state[o] = "LEASED"
  /\ LifePhase[o] = "running" <=> state[o] = "RUNNING"
  /\ LifePhase[o] = "ended" <=> state[o] \in Terminal
  /\ LifePhase[o] \in {"absent", "waiting", "held", "running", "ended"}

\* Every row has exactly one phase.
LEMMA PhaseCases == TypeOK => \A o \in Ops : PhaseFits(o)
<1> SUFFICES ASSUME TypeOK, NEW o \in Ops PROVE PhaseFits(o)
  OBVIOUS
<1>1. LifePhase[o] = CASE state[o] = "ABSENT" -> "absent"
                       [] state[o] = "CREATED" -> "waiting"
                       [] state[o] = "LEASED" -> "held"
                       [] state[o] = "RUNNING" -> "running"
                       [] OTHER -> "ended"
  BY DEF LifePhase
<1>2. state[o] \in {"ABSENT", "CREATED", "LEASED", "RUNNING"} \cup Terminal
  BY DEF TypeOK, OperationState
<1> QED  BY <1>1, <1>2 DEF PhaseFits, Terminal

\* The same after a step.
LEMMA PhaseCasesNext == TypeOK' => \A o \in Ops : PhaseFits(o)'
<1> SUFFICES ASSUME TypeOK', NEW o \in Ops PROVE PhaseFits(o)'
  OBVIOUS
<1>1. LifePhase'[o] = CASE state'[o] = "ABSENT" -> "absent"
                        [] state'[o] = "CREATED" -> "waiting"
                        [] state'[o] = "LEASED" -> "held"
                        [] state'[o] = "RUNNING" -> "running"
                        [] OTHER -> "ended"
  BY DEF LifePhase
<1>2. state'[o] \in {"ABSENT", "CREATED", "LEASED", "RUNNING"} \cup Terminal
  BY DEF TypeOK, OperationState
<1> QED  BY <1>1, <1>2 DEF PhaseFits, Terminal

\* What a transaction may do to a row that it neither inserts, leases nor starts:
\* leave it alone, or end it with an outcome.
Settles(o) ==
  \/ state'[o] = state[o] /\ result'[o] = result[o]
  \/ state[o] \in {"CREATED", "LEASED", "RUNNING"} /\ state'[o] \in Terminal

\* A row that ends has an outcome, because the CHECK constraint asks for one.
LEMMA OutcomeKnown ==
  ASSUME TypeOK', NEW o \in Ops, state'[o] \in Terminal
  PROVE  LifeEnding'[o] # NoOp
<1>1. LifeEnding'[o] = result'[o]
  BY DEF LifeEnding
<1>2. result'[o] \in Results \cup Codes \cup OwnCodes
  BY DEF TypeOK, ShapeOK, Terminal, OwnCodes
<1> QED  BY <1>1, <1>2, OutcomesApart

\* Rows that settle settle in the abstract life too.
LEMMA SettleStep ==
  ASSUME TypeOK, TypeOK', KeysUnique, KeysUnique', UNCHANGED request,
         \A o \in Ops : Settles(o)
  PROVE  Lifecycle!Settle
<1>1. \A o \in Ops : PhaseFits(o) /\ PhaseFits(o)'
  BY PhaseCases, PhaseCasesNext
<1> DEFINE ended == {o \in Ops : LifePhase[o] # "ended" /\ LifePhase'[o] = "ended"}
           given == {o \in Ops : LifePhase[o] # "held" /\ LifePhase'[o] = "held"}
<1>2. ASSUME NEW o \in ended
      PROVE  LifePhase[o] \in {"waiting", "held", "running"} /\ LifeEnding'[o] # NoOp
  <2>1. state[o] \notin Terminal /\ state'[o] \in Terminal
    BY <1>1 DEF PhaseFits
  <2>2. state[o] \in {"CREATED", "LEASED", "RUNNING"}
    BY <2>1 DEF Settles
  <2> QED  BY <1>1, <2>1, <2>2, OutcomeKnown DEF PhaseFits
<1>3. given = {}
  BY <1>1 DEF PhaseFits, Settles, Terminal
<1>4. \A o \in Ops \ ended : state'[o] = state[o] /\ result'[o] = result[o]
  BY <1>1 DEF PhaseFits, Settles, Terminal
<1>5. \A o \in Ops \ ended : LifePhase'[o] = LifePhase[o] /\ LifeEnding'[o] = LifeEnding[o]
  BY <1>4 DEF LifePhase, LifeEnding
<1>6. \A w \in Workstations : LifeHolders'[w] = LifeHolders[w] \ ended
  <2> SUFFICES ASSUME NEW w \in Workstations, NEW o
               PROVE  o \in LifeHolders'[w] <=> o \in LifeHolders[w] \ ended
    OBVIOUS
  <2>1. /\ o \in LifeHolders'[w] <=> o \in Ops /\ Active(o)' /\ request[o].workstation = w
        /\ o \in LifeHolders[w] <=> o \in Ops /\ Active(o) /\ request[o].workstation = w
    BY DEF LifeHolders
  <2>2. o \in ended => ~ Active(o)'
    BY <1>1 DEF PhaseFits, Active, Terminal
  <2>3. o \in Ops \ ended => (Active(o)' <=> Active(o))
    BY <1>4 DEF Active
  <2> QED  BY <2>1, <2>2, <2>3
<1>7. LifeNamed' = LifeNamed
  <2>1. \A o \in Ops : Present(o)' <=> Present(o)
    BY DEF Settles, Present, Terminal
  <2> QED  BY <2>1, NamedStays DEF Grows
<1> HIDE DEF ended, given
<1>8. Lifecycle!Settle =
        /\ DOMAIN LifePhase' = Ops /\ DOMAIN LifeHolders' = Workstations /\ DOMAIN LifeEnding' = Ops
        /\ \A o \in ended : LifePhase[o] \in {"waiting", "held", "running"} /\ LifeEnding'[o] # NoOp
        /\ \A o \in given : /\ LifePhase[o] = "waiting"
                           /\ \E w \in Workstations :
                                \A v \in Workstations : o \in LifeHolders'[v] <=> v = w
        /\ \A o \in Ops \ (ended \cup given) : LifePhase'[o] = LifePhase[o]
        /\ \A o \in Ops \ ended : LifeEnding'[o] = LifeEnding[o]
        /\ \A w \in Workstations :
             \/ LifeHolders'[w] = LifeHolders[w] \ ended
             \/ LifeHolders[w] \subseteq ended /\ \E o \in given : LifeHolders'[w] = {o}
        /\ LifeNamed' = LifeNamed
  BY Zenon DEF Lifecycle!Settle, ended, given
<1>9. DOMAIN LifePhase' = Ops /\ DOMAIN LifeHolders' = Workstations /\ DOMAIN LifeEnding' = Ops
  BY DEF LifePhase, LifeHolders, LifeEnding
<1> QED  BY <1>2, <1>3, <1>5, <1>6, <1>7, <1>8, <1>9

\* A refresh settles the overdue rows and no others.
LEMMA RefreshSettles ==
  ASSUME TypeOK, NEW S, Refresh(S)
  PROVE  \A o \in Ops : Settles(o)
BY DEF Refresh, RefreshedState, RefreshedResult, DueState, Due, Settles, Terminal

\* lease_next_operation gives a waiting row to a workstation whose rows have all
\* ended or wait.
LEMMA LeaseStep ==
  ASSUME TypeOK, TypeOK', KeysUnique, KeysUnique',
         NEW w \in Workstations, NEW o \in Ops, LeaseOperation(w, o)
  PROVE  Lifecycle!Settle
<1> DEFINE mine == {p \in Ops : On(p, w)}
           ended == {p \in Ops : LifePhase[p] # "ended" /\ LifePhase'[p] = "ended"}
           given == {p \in Ops : LifePhase[p] # "held" /\ LifePhase'[p] = "held"}
<1>0. /\ state' = [RefreshedState(mine) EXCEPT ![o] = "LEASED"]
      /\ result' = RefreshedResult(mine)
      /\ \A p \in mine : RefreshedState(mine)[p] \notin {"LEASED", "RUNNING"}
      /\ o \in mine /\ RefreshedState(mine)[o] = "CREATED"
      /\ UNCHANGED request
  BY DEF LeaseOperation
<1>1. On(o, w) /\ \A p \in Ops : On(p, w) => p \in mine
  BY <1>0
<1> HIDE DEF mine
<1>2. state'[o] = "LEASED" /\ state[o] = "CREATED" /\ result'[o] = result[o]
  BY <1>0 DEF RefreshedState, RefreshedResult, DueState, TypeOK
<1>3. \A p \in Ops \ {o} : Settles(p)
  BY <1>0 DEF RefreshedState, RefreshedResult, DueState, Due, Settles, Terminal, TypeOK
<1>4. \A p \in Ops \ {o} : On(p, w) => state'[p] \notin {"LEASED", "RUNNING"}
  BY <1>0, <1>1 DEF RefreshedState, TypeOK
<1>5. \A p \in Ops : PhaseFits(p) /\ PhaseFits(p)'
  BY PhaseCases, PhaseCasesNext
<1>6. ASSUME NEW p \in ended
      PROVE  LifePhase[p] \in {"waiting", "held", "running"} /\ LifeEnding'[p] # NoOp
  <2>1. state[p] \notin Terminal /\ state'[p] \in Terminal /\ p # o
    BY <1>2, <1>5 DEF PhaseFits, Terminal
  <2>2. state[p] \in {"CREATED", "LEASED", "RUNNING"}
    BY <1>3, <2>1 DEF Settles
  <2> QED  BY <1>5, <2>1, <2>2, OutcomeKnown DEF PhaseFits
<1>7. given = {o} /\ LifePhase[o] = "waiting"
  <2>1. \A p \in Ops \ {o} : p \notin given
    BY <1>3, <1>5 DEF PhaseFits, Settles, Terminal
  <2>2. o \in given /\ LifePhase[o] = "waiting"
    BY <1>2, <1>5 DEF PhaseFits
  <2> QED  BY <2>1, <2>2
<1>8. \A p \in Ops \ (ended \cup {o}) : state'[p] = state[p] /\ result'[p] = result[p]
  BY <1>3, <1>5 DEF PhaseFits, Settles, Terminal
<1>9. \A p \in Ops \ (ended \cup {o}) : LifePhase'[p] = LifePhase[p] /\ LifeEnding'[p] = LifeEnding[p]
  BY <1>8 DEF LifePhase, LifeEnding
<1>10. LifeEnding'[o] = LifeEnding[o] /\ o \notin ended
  BY <1>2, <1>5 DEF LifeEnding, Terminal, PhaseFits
<1>11. \A v \in Workstations : \A p :
         /\ p \in LifeHolders'[v] <=> p \in Ops /\ Active(p)' /\ request[p].workstation = v
         /\ p \in LifeHolders[v] <=> p \in Ops /\ Active(p) /\ request[p].workstation = v
  BY <1>0 DEF LifeHolders
<1>12. request[o].workstation = w /\ Active(o)'
  BY <1>1, <1>2 DEF On, Active
<1>13. LifeHolders'[w] = {o} /\ LifeHolders[w] \subseteq ended
  <2>1. \A p \in LifeHolders'[w] : p = o
    BY <1>3, <1>4, <1>11 DEF On, Present, Active, Settles, Terminal
  <2>2. o \in LifeHolders'[w]
    BY <1>11, <1>12
  <2>3. ASSUME NEW p \in LifeHolders[w] PROVE p \in ended
    <3>1. p \in Ops /\ Active(p) /\ On(p, w) /\ p # o
      BY <1>2, <1>11 DEF On, Present, Active
    <3>2. state'[p] \in Terminal /\ state[p] \notin Terminal
      BY <1>3, <1>4, <3>1 DEF Settles, Active, Terminal
    <3> QED  BY <1>5, <3>1, <3>2 DEF PhaseFits
  <2> QED  BY <2>1, <2>2, <2>3
<1>14. ASSUME NEW v \in Workstations, v # w PROVE LifeHolders'[v] = LifeHolders[v] \ ended
  <2> SUFFICES ASSUME NEW p PROVE p \in LifeHolders'[v] <=> p \in LifeHolders[v] \ ended
    OBVIOUS
  <2>1. p = o => p \notin LifeHolders'[v] /\ p \notin LifeHolders[v]
    BY <1>11, <1>12, <1>14
  <2>2. p \in ended => ~ Active(p)'
    BY <1>5 DEF PhaseFits, Active, Terminal
  <2>3. p \in Ops \ (ended \cup {o}) => (Active(p)' <=> Active(p))
    BY <1>8 DEF Active
  <2> QED  BY <1>11, <2>1, <2>2, <2>3
<1>15. LifeNamed' = LifeNamed
  <2>1. \A p \in Ops : Present(p)' <=> Present(p)
    BY <1>2, <1>3 DEF Settles, Present, Terminal
  <2> QED  BY <1>0, <2>1, NamedStays DEF Grows
<1> HIDE DEF ended, given
<1>16. Lifecycle!Settle =
        /\ DOMAIN LifePhase' = Ops /\ DOMAIN LifeHolders' = Workstations /\ DOMAIN LifeEnding' = Ops
        /\ \A p \in ended : LifePhase[p] \in {"waiting", "held", "running"} /\ LifeEnding'[p] # NoOp
        /\ \A p \in given : /\ LifePhase[p] = "waiting"
                           /\ \E u \in Workstations :
                                \A v \in Workstations : p \in LifeHolders'[v] <=> v = u
        /\ \A p \in Ops \ (ended \cup given) : LifePhase'[p] = LifePhase[p]
        /\ \A p \in Ops \ ended : LifeEnding'[p] = LifeEnding[p]
        /\ \A v \in Workstations :
             \/ LifeHolders'[v] = LifeHolders[v] \ ended
             \/ LifeHolders[v] \subseteq ended /\ \E p \in given : LifeHolders'[v] = {p}
        /\ LifeNamed' = LifeNamed
  BY Zenon DEF Lifecycle!Settle, ended, given
<1>17. \A v \in Workstations :
         \/ LifeHolders'[v] = LifeHolders[v] \ ended
         \/ LifeHolders[v] \subseteq ended /\ \E p \in given : LifeHolders'[v] = {p}
  BY <1>7, <1>13, <1>14
<1>18. \A v \in Workstations : o \in LifeHolders'[v] <=> v = w
  BY <1>11, <1>12
<1>19. \A p \in given : /\ LifePhase[p] = "waiting"
                       /\ \E u \in Workstations :
                            \A v \in Workstations : p \in LifeHolders'[v] <=> v = u
  BY <1>7, <1>18
<1>20. DOMAIN LifePhase' = Ops /\ DOMAIN LifeHolders' = Workstations /\ DOMAIN LifeEnding' = Ops
  BY DEF LifePhase, LifeHolders, LifeEnding
<1> QED  BY <1>6, <1>7, <1>9, <1>10, <1>15, <1>16, <1>17, <1>19, <1>20

\* mark_running: a lease that has not ended becomes a run.
LEMMA BeginStep ==
  ASSUME TypeOK, TypeOK', KeysUnique, KeysUnique', NEW o \in Ops,
         StartOperation(o), ~ (now >= leaseEnd[o])
  PROVE  Lifecycle!Begun(o)
<1>1. /\ state[o] = "LEASED" /\ state' = [state EXCEPT ![o] = "RUNNING"]
      /\ UNCHANGED <<request, result>>
  BY DEF StartOperation
<1>2. state'[o] = "RUNNING" /\ \A p \in Ops \ {o} : state'[p] = state[p]
  BY <1>1 DEF TypeOK
<1>3. \A p \in Ops : PhaseFits(p) /\ PhaseFits(p)'
  BY PhaseCases, PhaseCasesNext
<1>4. LifePhase[o] = "held" /\ LifePhase'[o] = "running"
  BY <1>1, <1>2, <1>3 DEF PhaseFits
<1>5. LifePhase' = [LifePhase EXCEPT ![o] = "running"]
  BY <1>2, <1>4 DEF LifePhase
<1>6. LifeEnding' = LifeEnding
  BY <1>1, <1>2 DEF LifeEnding, Terminal
<1>7. LifeHolders' = LifeHolders
  BY <1>1, <1>2 DEF LifeHolders, Active
<1>8. LifeNamed' = LifeNamed
  <2>1. \A p \in Ops : Present(p)' <=> Present(p)
    BY <1>1, <1>2 DEF Present
  <2> QED  BY <1>1, <2>1, NamedStays DEF Grows
<1> QED  BY <1>4, <1>5, <1>6, <1>7, <1>8 DEF Lifecycle!Begun

\* create_or_get_operation: a key that names nothing names the new row.
LEMMA AdmitStep ==
  ASSUME TypeOK, TypeOK', KeysUnique, KeysUnique', NEW o \in Ops, NEW r \in Request,
         CreateOperation(o, r)
  PROVE  r.key \in Keys /\ Lifecycle!Admit(r.key, o)
<1>0. r.key \in Keys
  BY DEF Request
<1>1. /\ state[o] = "ABSENT" /\ \A p \in Ops : Present(p) => request[p].key # r.key
      /\ state' = [state EXCEPT ![o] = "CREATED"] /\ request' = [request EXCEPT ![o] = r]
      /\ UNCHANGED result
  BY DEF CreateOperation
<1>2. /\ state'[o] = "CREATED" /\ request'[o] = r
      /\ \A p \in Ops \ {o} : state'[p] = state[p] /\ request'[p] = request[p]
  BY <1>1 DEF TypeOK
<1>3. PhaseFits(o) /\ PhaseFits(o)'
  BY PhaseCases, PhaseCasesNext
<1>4. LifePhase[o] = "absent" /\ LifePhase'[o] = "waiting"
  BY <1>1, <1>2, <1>3 DEF PhaseFits
<1>5. LifePhase' = [LifePhase EXCEPT ![o] = "waiting"]
  BY <1>2, <1>4 DEF LifePhase
<1>6. LifeEnding' = LifeEnding
  BY <1>1, <1>2 DEF LifeEnding, Terminal
<1>7. LifeHolders' = LifeHolders
  BY <1>1, <1>2 DEF LifeHolders, Active
<1>8. LifeNamed[r.key] = NoOp
  <2>1. Owners(r.key) = {}
    BY <1>1 DEF Owners
  <2> QED  BY <1>0, <2>1, NamedIs
<1>9. ASSUME NEW k \in Keys
      PROVE  LifeNamed'[k] = IF k = r.key THEN o ELSE LifeNamed[k]
  <2>1. CASE k = r.key
    <3>1. Owners(k)' = {o}
      BY <1>1, <1>2, <2>1 DEF Owners, Present
    <3>2. LifeNamed'[k] = CHOOSE p \in Owners(k)' : TRUE
      BY <3>1 DEF LifeNamed
    <3> QED  BY <2>1, <3>1, <3>2
  <2>2. CASE k # r.key
    <3>1. Owners(k)' = Owners(k)
      BY <1>1, <1>2, <2>2 DEF Owners, Present
    <3>2. CASE Owners(k) = {}
      BY <2>2, <3>1, <3>2 DEF LifeNamed
    <3>3. CASE Owners(k) # {}
      <4>1. PICK p \in Owners(k) : TRUE
        BY <3>3
      <4>2. LifeNamed[k] = p
        BY <4>1, NamedIs
      <4>3. LifeNamed'[k] = CHOOSE q \in Owners(k)' : TRUE
        BY <3>1, <3>3 DEF LifeNamed
      <4>4. (CHOOSE q \in Owners(k)' : TRUE) \in Owners(k)'
        BY <3>1, <3>3
      <4>5. \A q \in Owners(k)' : q = p
        BY <3>1, <4>1 DEF KeysUnique, Owners
      <4> QED  BY <2>2, <4>2, <4>3, <4>4, <4>5
    <3> QED  BY <3>2, <3>3
  <2> QED  BY <2>1, <2>2
<1>10. LifeNamed' = [LifeNamed EXCEPT ![r.key] = o]
  BY <1>9 DEF LifeNamed
<1> QED  BY <1>0, <1>4, <1>5, <1>6, <1>7, <1>8, <1>10 DEF Lifecycle!Admit

\* Only an insertion adds a key, and it looks for it first.
LEMMA KeysStep ==
  ASSUME TypeOK, KeysUnique, [Next]_vars
  PROVE  KeysUnique'
<1>1. ASSUME UNCHANGED request, \A o \in Ops : Present(o)' => Present(o)
      PROVE  KeysUnique'
  BY <1>1 DEF KeysUnique
<1>2. ASSUME UNCHANGED request, \A o \in Ops : Settles(o) PROVE KeysUnique'
  BY <1>1, <1>2 DEF Settles, Present, Terminal
<1>3. CASE Tick \/ UNCHANGED vars
  BY <1>1, <1>3 DEF Tick, vars, opsVars, Present
<1>4. ASSUME NEW o \in Ops, NEW r \in Request, CreateOperation(o, r) PROVE KeysUnique'
  BY <1>4 DEF CreateOperation, KeysUnique, Present, TypeOK
<1>5. ASSUME NEW S, Refresh(S) PROVE KeysUnique'
  BY <1>2, <1>5, RefreshSettles DEF Refresh
<1>6. ASSUME NEW w \in Workstations, NEW o \in Ops, LeaseOperation(w, o) PROVE KeysUnique'
  <2>1. UNCHANGED request /\ state[o] # "ABSENT"
    BY <1>6 DEF LeaseOperation, On, Present
  <2>2. \A p \in Ops \ {o} : state'[p] # "ABSENT" => state[p] # "ABSENT"
    BY <1>6 DEF LeaseOperation, RefreshedState, Due, TypeOK
  <2> QED  BY <1>1, <2>1, <2>2 DEF Present
<1>7. ASSUME NEW o \in Ops, StartOperation(o) PROVE KeysUnique'
  <2>1. CASE now >= leaseEnd[o]
    BY <1>5, <1>7, <2>1 DEF StartOperation
  <2>2. CASE ~ (now >= leaseEnd[o])
    BY <1>1, <1>7, <2>2 DEF StartOperation, Present, TypeOK
  <2> QED  BY <2>1, <2>2
<1>8. ASSUME NEW o \in Ops, NEW c \in Codes, FailOperation(o, c) PROVE KeysUnique'
  <2>1. CASE Due(o)
    BY <1>5, <1>8, <2>1 DEF FailOperation
  <2>2. CASE ~ Due(o)
    BY <1>1, <1>8, <2>2 DEF FailOperation, Present, TypeOK
  <2> QED  BY <2>1, <2>2
<1>9. ASSUME NEW o \in Ops, NEW r \in Results, ApplyWorkerSuccess(o, r) PROVE KeysUnique'
  <2>1. CASE Due(o)
    BY <1>5, <1>9, <2>1 DEF ApplyWorkerSuccess
  <2>2. CASE ~ Due(o)
    BY <1>1, <1>9, <2>2 DEF ApplyWorkerSuccess, Succeed, Present, TypeOK
  <2> QED  BY <2>1, <2>2
<1> QED
  BY <1>3, <1>4, <1>5, <1>6, <1>7, <1>8, <1>9 DEF Next, GetOperation, LeaseNothing

\* Every transaction is a step of the abstract life, or none at all.
LEMMA LifeStep ==
  ASSUME TypeOK, TypeOK', KeysUnique, KeysUnique', [Next]_vars
  PROVE  [Lifecycle!LifecycleNext]_(Lifecycle!lifecycleVars)
<1>1. ASSUME UNCHANGED request, \A o \in Ops : Settles(o) PROVE Lifecycle!Settle
  BY <1>1, SettleStep
<1>2. ASSUME NEW S, Refresh(S) PROVE Lifecycle!Settle
  BY <1>1, <1>2, RefreshSettles DEF Refresh
<1>3. CASE Tick \/ UNCHANGED vars
  <2>1. UNCHANGED <<state, request, result>>
    BY <1>3 DEF Tick, vars, opsVars
  <2> QED  BY <1>1, <2>1 DEF Settles, Lifecycle!LifecycleNext
<1>4. ASSUME NEW o \in Ops, NEW r \in Request, CreateOperation(o, r)
      PROVE  Lifecycle!LifecycleNext
  BY <1>4, AdmitStep DEF Lifecycle!LifecycleNext
<1>5. ASSUME NEW w \in Workstations, NEW o \in Ops, LeaseOperation(w, o) PROVE Lifecycle!Settle
  BY <1>5, LeaseStep
<1>6. ASSUME NEW o \in Ops, StartOperation(o) PROVE Lifecycle!Settle \/ Lifecycle!Begun(o)
  <2>1. CASE now >= leaseEnd[o]
    BY <1>2, <1>6, <2>1 DEF StartOperation
  <2>2. CASE ~ (now >= leaseEnd[o])
    BY <1>6, <2>2, BeginStep
  <2> QED  BY <2>1, <2>2
<1>7. ASSUME NEW o \in Ops, NEW c \in Codes, FailOperation(o, c) PROVE Lifecycle!Settle
  <2>1. CASE Due(o)
    BY <1>2, <1>7, <2>1 DEF FailOperation
  <2>2. CASE ~ Due(o)
    BY <1>1, <1>7, <2>2 DEF FailOperation, Settles, Terminal, TypeOK
  <2> QED  BY <2>1, <2>2
<1>8. ASSUME NEW o \in Ops, NEW r \in Results, ApplyWorkerSuccess(o, r) PROVE Lifecycle!Settle
  <2>1. CASE Due(o)
    BY <1>2, <1>8, <2>1 DEF ApplyWorkerSuccess
  <2>2. CASE ~ Due(o)
    BY <1>1, <1>8, <2>2 DEF ApplyWorkerSuccess, Succeed, Settles, Terminal, TypeOK
  <2> QED  BY <2>1, <2>2
<1> QED
  BY <1>2, <1>3, <1>4, <1>5, <1>6, <1>7, <1>8
  DEF Next, GetOperation, LeaseNothing, Lifecycle!LifecycleNext

\* The table implements the abstract life of operations, for any number of them
\* and of workstations: a key names one operation for good, a workstation is given
\* to one at a time, and nothing moves an operation back or rewrites its outcome
\* (PostgresGatewayRepository).
THEOREM OperationsImplementLifecycle == Spec => ImplementsOperationLifecycle
<1>1. Init => KeysUnique /\ Lifecycle!LifecycleInit
  <2> SUFFICES ASSUME Init PROVE KeysUnique /\ Lifecycle!LifecycleInit
    OBVIOUS
  <2>1. \A o \in Ops : state[o] = "ABSENT"
    BY DEF Init
  <2>2. \A k \in Keys : LifeNamed[k] = NoOp
    <3>1. \A k \in Keys : Owners(k) = {}
      BY <2>1 DEF Owners, Present
    <3> QED  BY <3>1 DEF LifeNamed
  <2>3. LifeNamed = [k \in Keys |-> NoOp]
    BY <2>2 DEF LifeNamed
  <2>4. LifePhase = [o \in Ops |-> "absent"]
    BY <2>1 DEF LifePhase
  <2>5. LifeHolders = [w \in Workstations |-> {}]
    BY <2>1 DEF LifeHolders, Active
  <2>6. LifeEnding = [o \in Ops |-> NoOp]
    BY <2>1 DEF LifeEnding, Terminal
  <2> QED  BY <2>1, <2>3, <2>4, <2>5, <2>6 DEF KeysUnique, Present, Lifecycle!LifecycleInit
<1>2. TypeOK /\ KeysUnique /\ [Next]_vars => KeysUnique'
  BY KeysStep
<1>3. TypeOK /\ TypeOK' /\ KeysUnique /\ KeysUnique' /\ [Next]_vars
        => [Lifecycle!LifecycleNext]_(Lifecycle!lifecycleVars)
  BY LifeStep
<1> QED
  BY <1>1, <1>2, <1>3, OperationsTypeCorrect, PTL
  DEF Spec, ImplementsOperationLifecycle, Lifecycle!LifecycleSpec

\* So the table keeps the promises of that life: a key stays the key of one operation, a
\* workstation has one occupant, which it keeps until that operation ends, and no step moves
\* an operation back or rewrites what it ended with (PostgresGatewayRepository).
THEOREM OperationsKeepPromises ==
  Spec => /\ [](Lifecycle!NamesApart /\ Lifecycle!OneOccupant)
          /\ [][Lifecycle!NothingTakenBack]_(Lifecycle!lifecycleVars)
BY OperationsImplementLifecycle, Lifecycle!PromisesKept DEF ImplementsOperationLifecycle
=============================================================================
