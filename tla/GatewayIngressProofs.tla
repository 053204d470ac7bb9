------------------------- MODULE GatewayIngressProofs -------------------------
(* The completion of results and the worker that delivers them, for any number *)
(* of operations, handlers and worker processes, whatever dies or is lost.     *)
(*                                                                             *)
(* The two refine each other downwards: every step of the worker's system is a *)
(* step of the ingress or leaves it alone, and every step of the ingress is a  *)
(* transaction of the operation queue or leaves it alone.  So what is proved   *)
(* of the queue and of the ingress holds of the whole.                         *)
EXTENDS RemoteWorker, GatewayOperationsProofs

(***************************************************************************)
(* What the transactions of the queue do to a row.                         *)
(***************************************************************************)

\* Short of a start and of an end that a worker reports.
RowCalm(o) ==
  /\ Present(o) => request'[o] = request[o]
  /\ state[o] \in Terminal => state'[o] = state[o] /\ result'[o] = result[o]
  /\ state'[o] \in {"RUNNING", "SUCCEEDED", "FAILED"} => state[o] = state'[o]
  /\ state'[o] = "LEASED" =>
       \/ state[o] = "CREATED"
       \/ state[o] = "LEASED" /\ leaseEnd'[o] = leaseEnd[o]
  /\ state'[o] \in {"ABSENT", "CREATED"} => state[o] \in {"ABSENT", "CREATED"}
  /\ state'[o] = "EXPIRED" /\ state[o] # "EXPIRED" =>
       state[o] = "CREATED" \/ (state[o] = "RUNNING" /\ request[o].task # "apply")
  /\ started'[o] = started[o]

QueueCalm == now <= now' /\ \A o \in Ops : RowCalm(o)

\* What has ended stays as it ended, and a row its request.
EndsStay ==
  \A o \in Ops :
    /\ Present(o) => request'[o] = request[o]
    /\ state[o] \in Terminal => state'[o] = state[o] /\ result'[o] = result[o]

\* Only the rows that are overdue change, to what is due (_refresh_locked).
LEMMA RefreshIsCalm ==
  ASSUME TypeOK, NEW S, Refresh(S), UNCHANGED now
  PROVE  QueueCalm
<1>1. ASSUME NEW o \in Ops
      PROVE  RowCalm(o)
  <2>1. CASE o \in S /\ Due(o)
    BY <2>1 DEF TypeOK, Refresh, RefreshedState, RefreshedResult, RefreshedLease, Due, DueState,
                UnknownWrite, RowCalm, Present, Terminal
  <2>2. CASE ~ (o \in S /\ Due(o))
    BY <2>2 DEF TypeOK, Refresh, RefreshedState, RefreshedResult, RefreshedLease, RowCalm,
                Present
  <2> QED
    BY <2>1, <2>2
<1> QED
  BY <1>1 DEF QueueCalm, TypeOK, Time

\* Nothing changes but the time.
LEMMA StandingIsCalm ==
  ASSUME TypeOK, now <= now', UNCHANGED opsVars
  PROVE  QueueCalm
BY DEF QueueCalm, RowCalm, opsVars, TypeOK, Present

\* A row appears (create_operation).
LEMMA CreateIsCalm ==
  ASSUME TypeOK, NEW o \in Ops, NEW r \in Request, CreateOperation(o, r)
  PROVE  QueueCalm
<1>1. ASSUME NEW p \in Ops
      PROVE  RowCalm(p)
  BY DEF CreateOperation, RowCalm, TypeOK, Present, Terminal
<1> QED
  BY <1>1 DEF QueueCalm, CreateOperation, TypeOK, Time

\* A row that waits is leased (lease_next_operation), others are refreshed.
LEMMA LeaseIsCalm ==
  ASSUME TypeOK, NEW w \in Workstations, NEW o \in Ops, LeaseOperation(w, o)
  PROVE  QueueCalm /\ state[o] = "CREATED"
<1> DEFINE mine == {p \in Ops : On(p, w)}
<1>1. /\ RefreshedState(mine)[o] = "CREATED"
      /\ state' = [RefreshedState(mine) EXCEPT ![o] = "LEASED"]
      /\ leaseEnd' = [RefreshedLease(mine) EXCEPT ![o] = Earlier(now + LeaseTime, expires[o])]
      /\ result' = RefreshedResult(mine)
      /\ UNCHANGED <<now, request, expires, started, catalog>>
  BY DEF LeaseOperation
<1> HIDE DEF mine
<1>2. state[o] = "CREATED" /\ state'[o] = "LEASED"
  BY <1>1 DEF RefreshedState, DueState
<1>3. ASSUME NEW p \in Ops
      PROVE  RowCalm(p)
  <2>1. CASE p = o
    BY <1>1, <1>2, <2>1 DEF RowCalm, Terminal
  <2>2. CASE p # o /\ p \in mine /\ Due(p)
    BY <1>1, <2>2 DEF TypeOK, RefreshedState, RefreshedResult, RefreshedLease, Due, DueState,
                      UnknownWrite, RowCalm, Present, Terminal
  <2>3. CASE p # o /\ ~ (p \in mine /\ Due(p))
    BY <1>1, <2>3 DEF TypeOK, RefreshedState, RefreshedResult, RefreshedLease, RowCalm, Present
  <2> QED
    BY <2>1, <2>2, <2>3
<1> QED
  BY <1>1, <1>2, <1>3 DEF QueueCalm, TypeOK, Time

(***************************************************************************)
(* The ingress.                                                            *)
(***************************************************************************)

\* The steps of a handler whose result has claimed the nonce.
Claimed == {"acquire", "check", "apply", "mark", "acked"}

\* A claim is for its own operation, and a handler past the claim carries it; once
\* the row has been looked at or written, and once it is marked applied, it says
\* what the claim says.
ClaimsHold ==
  /\ \A o \in Ops : claim[o] # NoClaim => claim[o].op = o
  /\ \A h \in Handlers : pc[h] \in Claimed => claim[env[h].op] = env[h]
  /\ \A h \in Handlers : pc[h] \in {"mark", "acked"} => Recorded(env[h])
  /\ \A o \in Ops : applied[o] => claim[o] # NoClaim /\ Recorded(claim[o])
  /\ FirstClaimWins

\* A dispatch is stored once its operation is leased, and ends with that lease.
DispatchesHold ==
  /\ \A o \in Ops : dispatch[o] # NoDispatch =>
       /\ dispatch[o].issued <= now
       /\ state[o] \notin {"ABSENT", "CREATED"}
       /\ state[o] = "LEASED" => dispatch[o].expires = leaseEnd[o]
  /\ EndedWasDispatched

IngressInv == IngressTypeOK /\ ClaimsHold /\ DispatchesHold

\* Each step of the ingress is one transaction of the queue, or none.
LEMMA IngressStepsQueue ==
  ASSUME IngressTypeOK, [IngressNext]_allVars
  PROVE  [Next]_vars
<1>1. CASE UNCHANGED allVars
  BY <1>1 DEF allVars
<1>2. CASE IngressTick
  BY <1>2 DEF IngressTick, LateTick, Next
<1>3. CASE QueueStep
  BY <1>3 DEF QueueStep, Next
<1>4. CASE PollStep
  <2>1. ASSUME NEW w \in Workstations, PollNothing(w) \/ \E o \in Ops : PollLease(w, o)
        PROVE  Next
    BY <2>1 DEF PollNothing, PollLease, Next
  <2>2. ASSUME NEW o \in Ops, PollDispatch(o) \/ PollDies(o)
        PROVE  UNCHANGED vars
    BY <2>2 DEF PollDispatch, PollDies
  <2> QED
    BY <1>4, <2>1, <2>2 DEF PollStep
<1>5. ASSUME NEW o \in Ops, Start(o)
      PROVE  Next
  BY <1>5 DEF Start, Next
<1>6. ASSUME NEW h \in Handlers, NEW e \in Envelope, Submit(h, e)
      PROVE  UNCHANGED vars
  BY <1>6 DEF Submit
<1>7. ASSUME NEW h \in Handlers, HandlerStep(h) \/ HandlerDies(h)
      PROVE  [Next]_vars
  <2>1. CASE Classify(h) \/ HandlerDies(h)
    BY <2>1 DEF Classify, HandlerDies
  <2>2. CASE Claim(h)
    BY <2>2 DEF Claim
  <2>3. CASE Acquire(h)
    BY <2>3 DEF Acquire
  <2>4. CASE Check(h) \/ Mark(h)
    BY <2>4 DEF Check, Mark
  <2>5. CASE Apply(h)
    <3>1. PICK o : o = env[h].op
      OBVIOUS
    <3>2. o \in Ops
      BY <2>5, <3>1 DEF Apply, IngressTypeOK, Envelope, Working
    <3>3. CASE ApplySuccess(h)
      <4>1. env[h].outcome \in Results /\ ApplyWorkerSuccess(o, env[h].outcome)
        BY <3>1, <3>3 DEF ApplySuccess
      <4> QED
        BY <3>2, <4>1 DEF Next
    <3>4. CASE ApplyFailure(h)
      <4>1. env[h].outcome \in Codes /\ FailOperation(o, env[h].outcome)
        BY <3>1, <3>4 DEF ApplyFailure
      <4> QED
        BY <3>2, <4>1 DEF Next
    <3>5. CASE ApplyAttention(h)
      BY <3>5 DEF ApplyAttention
    <3>6. CASE ApplySettled(h)
      <4>1. CASE Due(o)
        <5>1. Refresh({o}) /\ UNCHANGED now /\ Present(o)
          BY <3>1, <3>6, <4>1 DEF ApplySettled, Due, Present
        <5> QED
          BY <3>2, <5>1 DEF GetOperation, Next
      <4>2. CASE ~ Due(o)
        BY <3>1, <3>6, <4>2 DEF ApplySettled
      <4> QED
        BY <4>1, <4>2
    <3> QED
      BY <2>5, <3>3, <3>4, <3>5, <3>6 DEF Apply
  <2> QED
    BY <1>7, <2>1, <2>2, <2>3, <2>4, <2>5 DEF HandlerStep
<1> QED
  BY <1>1, <1>2, <1>3, <1>4, <1>5, <1>6, <1>7 DEF IngressNext

\* A result that is recorded stays recorded: it says how the operation ended, and
\* neither that nor the request is ever rewritten.
LEMMA RecordedStays ==
  ASSUME TypeOK, EndsStay, NEW e \in Envelope, Recorded(e)
  PROVE  Recorded(e)'
<1>1. e.op \in Ops
  BY DEF Envelope
<1>2. state[e.op] \in Terminal /\ Present(e.op)
  BY DEF Recorded, Target, Terminal, Present
<1>3. /\ state'[e.op] = state[e.op] /\ result'[e.op] = result[e.op]
      /\ request'[e.op] = request[e.op]
  BY <1>1, <1>2 DEF EndsStay
<1> QED
  BY <1>3 DEF Recorded, Target, Recording

\* A nonce is claimed once, ...
ClaimsGrow ==
  \A o \in Ops :
    \/ claim'[o] = claim[o]
    \/ claim[o] = NoClaim /\ claim'[o] \in Envelope /\ claim'[o].op = o

\* ... a handler goes on only with the result that has claimed it, ...
HandlersGoOn ==
  \A h \in Handlers :
    \/ pc'[h] \notin Claimed
    \/ pc'[h] = pc[h] /\ env'[h] = env[h]
    \/ /\ claim'[env'[h].op] = env'[h]
       /\ pc'[h] \in {"mark", "acked"} => Recorded(env[h])'

\* ... what is marked applied is recorded, ...
MarksAreEarned ==
  \A o \in Ops : applied'[o] => applied[o] \/ (claim'[o] # NoClaim /\ Recorded(claim[o])')

\* ... and so is how an operation ends.
EndsAreClaimed ==
  \A o \in Ops : state'[o] \in {"SUCCEEDED", "FAILED"} =>
    state[o] = state'[o] \/ (claim'[o] # NoClaim /\ Recorded(claim[o])')

\* These four keep what the claims say.
LEMMA ClaimsKept ==
  ASSUME TypeOK, IngressTypeOK, ClaimsHold, EndsStay, ClaimsGrow, HandlersGoOn,
         MarksAreEarned, EndsAreClaimed
  PROVE  ClaimsHold'
<1>1. ASSUME NEW o \in Ops, claim[o] # NoClaim, Recorded(claim[o])
      PROVE  claim'[o] # NoClaim /\ Recorded(claim[o])'
  <2> PICK e \in Envelope : e = claim[o]
    BY <1>1 DEF IngressTypeOK
  <2>1. claim'[o] = e
    BY <1>1 DEF ClaimsGrow
  <2>2. Recorded(e)'
    BY <1>1, RecordedStays
  <2> QED
    BY <1>1, <2>1, <2>2
<1>2. \A o \in Ops : claim'[o] # NoClaim => claim'[o].op = o
  BY DEF ClaimsHold, ClaimsGrow
<1>3. ASSUME NEW h \in Handlers, pc'[h] \in Claimed
      PROVE  claim'[env'[h].op] = env'[h] /\ (pc'[h] \in {"mark", "acked"} => Recorded(env[h])')
  <2>1. CASE pc'[h] = pc[h] /\ env'[h] = env[h]
    <3> PICK e \in Envelope : e = env[h]
      BY <1>3, <2>1 DEF IngressTypeOK, Claimed, Working, Answered
    <3>1. claim[e.op] = e /\ e.op \in Ops /\ e # NoClaim
      BY <1>3, <2>1, NoClaimFresh DEF ClaimsHold, Envelope
    <3>2. claim'[e.op] = e
      BY <3>1 DEF ClaimsGrow
    <3>3. pc[h] \in {"mark", "acked"} => Recorded(e)'
      BY RecordedStays DEF ClaimsHold
    <3> QED
      BY <2>1, <3>2, <3>3
  <2>2. CASE ~ (pc'[h] = pc[h] /\ env'[h] = env[h])
    BY <1>3, <2>2 DEF HandlersGoOn
  <2> QED
    BY <2>1, <2>2
<1>4. \A o \in Ops : applied'[o] => claim'[o] # NoClaim /\ Recorded(claim[o])'
  BY <1>1 DEF ClaimsHold, MarksAreEarned
<1>5. FirstClaimWins'
  BY <1>1 DEF ClaimsHold, FirstClaimWins, EndsAreClaimed
<1> QED
  BY <1>2, <1>3, <1>4, <1>5 DEF ClaimsHold, Claimed

\* A lease that stays keeps its end, and nothing is started that the dispatches do not
\* know of.
LEMMA DispatchesKept ==
  ASSUME TypeOK, IngressTypeOK, DispatchesHold, now' \in Time, now <= now', UNCHANGED dispatch,
         \A o \in Ops :
            /\ state'[o] = "LEASED" =>
                 \/ state[o] = "CREATED"
                 \/ state[o] = "LEASED" /\ leaseEnd'[o] = leaseEnd[o]
            /\ state'[o] \in {"ABSENT", "CREATED"} => state[o] \in {"ABSENT", "CREATED"}
            /\ state'[o] \in {"RUNNING", "SUCCEEDED", "FAILED"} =>
                 state[o] \in {"RUNNING", "SUCCEEDED", "FAILED"} /\ started'[o] = started[o]
  PROVE  DispatchesHold'
<1>1. \A o \in Ops : dispatch[o] # NoDispatch => dispatch[o].issued \in Time
  BY DEF IngressTypeOK, Dispatch
<1>2. \A o \in Ops : dispatch[o] # NoDispatch =>
        /\ dispatch[o].issued <= now'
        /\ state'[o] \notin {"ABSENT", "CREATED"}
        /\ state'[o] = "LEASED" => dispatch[o].expires = leaseEnd'[o]
  BY <1>1, TimesType DEF DispatchesHold, TypeOK, Time
<1>3. EndedWasDispatched'
  BY DEF DispatchesHold, EndedWasDispatched
<1> QED
  BY <1>2, <1>3 DEF DispatchesHold

\* A calm step of the queue, whatever the poll handlers do meanwhile.
LEMMA CalmKeeps ==
  ASSUME IngressInv, TypeOK', QueueCalm,
         UNCHANGED <<dispatch, claim, applied, applyOwner, pc, env>>,
         building' \subseteq Ops, applyEnd' \in [Ops -> Nat]
  PROVE  IngressInv'
<1>1. TypeOK /\ IngressTypeOK /\ ClaimsHold /\ DispatchesHold
  BY DEF IngressInv, IngressTypeOK
<1>2. IngressTypeOK'
  BY <1>1 DEF IngressTypeOK
<1>3. EndsStay
  BY DEF QueueCalm, RowCalm, EndsStay
<1>4. ClaimsHold'
  <2>1. EndsAreClaimed
    BY DEF QueueCalm, RowCalm, EndsAreClaimed
  <2>2. ClaimsGrow
    BY DEF ClaimsGrow
  <2>3. HandlersGoOn
    BY DEF HandlersGoOn
  <2>4. MarksAreEarned
    BY DEF MarksAreEarned
  <2> QED
    BY <1>1, <1>3, <2>1, <2>2, <2>3, <2>4, ClaimsKept
<1>5. DispatchesHold'
  <2>1. /\ now' \in Time /\ now <= now'
        /\ \A o \in Ops :
             /\ state'[o] = "LEASED" =>
                  \/ state[o] = "CREATED"
                  \/ state[o] = "LEASED" /\ leaseEnd'[o] = leaseEnd[o]
             /\ state'[o] \in {"ABSENT", "CREATED"} => state[o] \in {"ABSENT", "CREATED"}
             /\ state'[o] \in {"RUNNING", "SUCCEEDED", "FAILED"} =>
                  state[o] \in {"RUNNING", "SUCCEEDED", "FAILED"} /\ started'[o] = started[o]
    BY DEF QueueCalm, RowCalm, TypeOK
  <2> QED
    BY <1>1, <2>1, DispatchesKept
<1> QED
  BY <1>2, <1>4, <1>5 DEF IngressInv

\* A step of one handler that is no transaction on the row of its operation.
LEMMA HandlerKeeps ==
  ASSUME IngressInv, UNCHANGED <<vars, building, dispatch>>, NEW h \in Handlers,
         NEW step \in {"idle"} \cup Working \cup Answered, NEW e \in Envelope \cup {NoClaim},
         step \in Working \cup Answered => e \in Envelope,
         pc' = [pc EXCEPT ![h] = step], env' = [env EXCEPT ![h] = e],
         applyOwner' \in [Ops -> Handlers \cup {NoHandler}], applyEnd' \in [Ops -> Nat],
         claim' \in [Ops -> Envelope \cup {NoClaim}], applied' \in [Ops -> BOOLEAN],
         \A o \in Ops : \/ claim'[o] = claim[o]
                        \/ claim[o] = NoClaim /\ claim'[o] \in Envelope /\ claim'[o].op = o,
         step \in Claimed => claim'[e.op] = e,
         step \in {"mark", "acked"} => Recorded(e),
         \A o \in Ops : applied'[o] =>
            applied[o] \/ (claim'[o] = e /\ e # NoClaim /\ Recorded(e))
  PROVE  IngressInv'
<1>1. TypeOK /\ IngressTypeOK /\ ClaimsHold /\ DispatchesHold
  BY DEF IngressInv, IngressTypeOK
<1>2. /\ pc'[h] = step /\ env'[h] = e
      /\ \A g \in Handlers : g # h => pc'[g] = pc[g] /\ env'[g] = env[g]
  BY <1>1 DEF IngressTypeOK
<1>3. TypeOK' /\ UNCHANGED <<now, state, request, result>>
  BY <1>1 DEF vars, opsVars, TypeOK, Present, ShapeOK
<1>4. IngressTypeOK'
  <2>1. pc' \in [Handlers -> {"idle"} \cup Working \cup Answered]
    BY <1>1 DEF IngressTypeOK
  <2>2. env' \in [Handlers -> Envelope \cup {NoClaim}]
    BY <1>1 DEF IngressTypeOK
  <2>3. \A g \in Handlers : pc'[g] \in Working \cup Answered => env'[g] \in Envelope
    BY <1>1, <1>2 DEF IngressTypeOK
  <2>4. building' \subseteq Ops /\ dispatch' \in [Ops -> Dispatch \cup {NoDispatch}]
    BY <1>1 DEF IngressTypeOK
  <2> QED
    BY <1>3, <2>1, <2>2, <2>3, <2>4 DEF IngressTypeOK
<1>5. Recorded(e)' <=> Recorded(e)
  BY <1>3 DEF Recorded, Target, Recording
<1>6. ClaimsHold'
  <2>1. EndsStay
    BY <1>3 DEF EndsStay
  <2>2. HandlersGoOn
    <3> SUFFICES ASSUME NEW g \in Handlers, pc'[g] \in Claimed,
                        ~ (pc'[g] = pc[g] /\ env'[g] = env[g])
                 PROVE  /\ claim'[env'[g].op] = env'[g]
                        /\ pc'[g] \in {"mark", "acked"} => Recorded(env[g])'
      BY DEF HandlersGoOn
    <3>1. g = h
      BY <1>2
    <3>2. pc'[g] = step /\ env'[g] = e
      BY <1>2, <3>1
    <3>3. claim'[e.op] = e
      BY <3>2
    <3>4. step \in {"mark", "acked"} => Recorded(e)'
      BY <1>5
    <3> QED
      BY <3>2, <3>3, <3>4
  <2>3. MarksAreEarned
    <3> SUFFICES ASSUME NEW o \in Ops, applied'[o], ~ applied[o]
                 PROVE  claim'[o] # NoClaim /\ Recorded(claim[o])'
      BY DEF MarksAreEarned
    <3>1. claim'[o] = e /\ e # NoClaim /\ Recorded(e)'
      BY <1>5
    <3> QED
      BY <3>1
  <2>4. EndsAreClaimed /\ ClaimsGrow
    BY <1>3 DEF EndsAreClaimed, ClaimsGrow
  <2> QED
    BY <1>1, <2>1, <2>2, <2>3, <2>4, ClaimsKept
<1>7. DispatchesHold'
  BY <1>1, <1>3 DEF vars, opsVars, DispatchesHold, EndedWasDispatched
<1> QED
  BY <1>4, <1>6, <1>7 DEF IngressInv

\* The dispatch of a lease that still runs is stored, with the end of the lease.
LEMMA DispatchKeeps ==
  ASSUME IngressInv, NEW o \in Ops, PollDispatch(o)
  PROVE  IngressInv'
<1>1. TypeOK /\ IngressTypeOK /\ ClaimsHold /\ DispatchesHold
  BY DEF IngressInv, IngressTypeOK
<1>2. /\ UNCHANGED <<vars, claim, applyOwner, applyEnd, applied, pc, env>>
      /\ building' \subseteq Ops
  BY <1>1 DEF PollDispatch, replayVars, IngressTypeOK
<1>3. TypeOK' /\ UNCHANGED <<now, state, request, result, leaseEnd, started>>
  BY <1>1, <1>2 DEF vars, opsVars, TypeOK, Present, ShapeOK
<1>4. ClaimsHold'
  BY <1>1, <1>2, <1>3 DEF ClaimsHold, FirstClaimWins, Recorded, Target, Recording
<1>5. CASE ~ (state[o] = "LEASED" /\ now < leaseEnd[o])
  <2>1. dispatch' = dispatch
    BY <1>5 DEF PollDispatch
  <2>2. IngressTypeOK'
    BY <1>1, <1>2, <1>3, <2>1 DEF IngressTypeOK
  <2>3. DispatchesHold'
    BY <1>1, <1>3, <2>1 DEF DispatchesHold, EndedWasDispatched
  <2> QED
    BY <1>4, <2>2, <2>3 DEF IngressInv
<1>6. CASE state[o] = "LEASED" /\ now < leaseEnd[o]
  <2> PICK d : d = [issued |-> now, expires |-> leaseEnd[o]]
    OBVIOUS
  <2>1. d \in Dispatch /\ d.issued = now /\ d.expires = leaseEnd[o]
    BY <1>1 DEF Dispatch, TypeOK
  <2>2. dispatch' = [dispatch EXCEPT ![o] = d]
    BY <1>6 DEF PollDispatch
  <2>3. dispatch'[o] = d /\ \A p \in Ops : p # o => dispatch'[p] = dispatch[p]
    BY <1>1, <2>2 DEF IngressTypeOK
  <2>4. IngressTypeOK'
    <3>1. dispatch' \in [Ops -> Dispatch \cup {NoDispatch}]
      BY <1>1, <2>1, <2>2 DEF IngressTypeOK
    <3> QED
      BY <1>1, <1>2, <1>3, <3>1 DEF IngressTypeOK
  <2>5. DispatchesHold'
    <3>1. now <= now
      BY <1>1 DEF TypeOK, Time
    <3>2. \A p \in Ops : dispatch'[p] # NoDispatch =>
            /\ dispatch'[p].issued <= now'
            /\ state'[p] \notin {"ABSENT", "CREATED"}
            /\ state'[p] = "LEASED" => dispatch'[p].expires = leaseEnd'[p]
      BY <1>1, <1>3, <1>6, <2>1, <2>3, <3>1 DEF DispatchesHold
    <3>3. EndedWasDispatched'
      BY <1>1, <1>3, <1>6, <2>3 DEF DispatchesHold, EndedWasDispatched
    <3> QED
      BY <3>2, <3>3 DEF DispatchesHold
  <2> QED
    BY <1>4, <2>4, <2>5 DEF IngressInv
<1> QED
  BY <1>5, <1>6

\* A lease is turned into a run only while its dispatch is valid; it then still runs,
\* for the two end together.
LEMMA StartKeepsIngress ==
  ASSUME IngressInv, TypeOK', NEW o \in Ops, Start(o)
  PROVE  /\ IngressInv'
         /\ state[o] = "LEASED" /\ state' = [state EXCEPT ![o] = "RUNNING"]
         /\ UNCHANGED <<now, request, result>>
<1>1. TypeOK /\ IngressTypeOK /\ ClaimsHold /\ DispatchesHold
  BY DEF IngressInv, IngressTypeOK
<1>2. /\ dispatch[o] # NoDispatch /\ now < dispatch[o].expires
      /\ state[o] = "LEASED" /\ StartOperation(o)
      /\ UNCHANGED <<building, dispatch, claim, applyOwner, applyEnd, applied, pc, env>>
  BY DEF Start, StartOperation, ingressVars
<1>3. dispatch[o].expires = leaseEnd[o]
  BY <1>1, <1>2 DEF DispatchesHold
<1>4. ~ (now >= leaseEnd[o])
  BY <1>1, <1>2, <1>3 DEF TypeOK, Time
<1>5. /\ state' = [state EXCEPT ![o] = "RUNNING"]
      /\ started' = [started EXCEPT ![o] = now]
      /\ leaseEnd' = [leaseEnd EXCEPT ![o] = 0]
      /\ UNCHANGED <<now, request, expires, result, catalog>>
  BY <1>2, <1>4 DEF StartOperation
<1>6. /\ state'[o] = "RUNNING" /\ started'[o] = now
      /\ \A p \in Ops : p # o => /\ state'[p] = state[p] /\ started'[p] = started[p]
                                 /\ leaseEnd'[p] = leaseEnd[p]
  BY <1>1, <1>5 DEF TypeOK
<1>7. IngressTypeOK'
  BY <1>1, <1>2 DEF IngressTypeOK
<1>8. ClaimsHold'
  <2>1. EndsStay
    BY <1>2, <1>5, <1>6 DEF EndsStay, Terminal
  <2>2. EndsAreClaimed
    BY <1>6 DEF EndsAreClaimed
  <2>3. ClaimsGrow /\ HandlersGoOn /\ MarksAreEarned
    BY <1>2 DEF ClaimsGrow, HandlersGoOn, MarksAreEarned
  <2> QED
    BY <1>1, <2>1, <2>2, <2>3, ClaimsKept
<1>9. DispatchesHold'
  <2>1. \A p \in Ops : dispatch'[p] # NoDispatch =>
          /\ dispatch'[p].issued <= now'
          /\ state'[p] \notin {"ABSENT", "CREATED"}
          /\ state'[p] = "LEASED" => dispatch'[p].expires = leaseEnd'[p]
    BY <1>1, <1>2, <1>5, <1>6 DEF DispatchesHold
  <2>2. EndedWasDispatched'
    <3>1. dispatch[o].issued <= now
      BY <1>1, <1>2 DEF DispatchesHold
    <3> QED
      BY <1>1, <1>2, <1>6, <3>1 DEF DispatchesHold, EndedWasDispatched
  <2> QED
    BY <2>1, <2>2 DEF DispatchesHold
<1> QED
  BY <1>2, <1>5, <1>7, <1>8, <1>9 DEF IngressInv

\* A handler writes the row of its operation, or has found it written, and goes on; or
\* it gives up.
LEMMA ApplyFrame ==
  ASSUME IngressInv, TypeOK', NEW h \in Handlers, pc[h] = "apply",
         UNCHANGED <<building, dispatch, claim, applyOwner, applyEnd, applied>>,
         (Goto(h, "mark") /\ Recorded(env[h])') \/ Leave(h),
         now' \in Time, now <= now', EndsStay, EndsAreClaimed,
         \A o \in Ops :
            /\ state'[o] = "LEASED" =>
                 \/ state[o] = "CREATED"
                 \/ state[o] = "LEASED" /\ leaseEnd'[o] = leaseEnd[o]
            /\ state'[o] \in {"ABSENT", "CREATED"} => state[o] \in {"ABSENT", "CREATED"}
            /\ state'[o] \in {"RUNNING", "SUCCEEDED", "FAILED"} =>
                 state[o] \in {"RUNNING", "SUCCEEDED", "FAILED"} /\ started'[o] = started[o]
  PROVE  IngressInv'
<1>1. TypeOK /\ IngressTypeOK /\ ClaimsHold /\ DispatchesHold
  BY DEF IngressInv, IngressTypeOK
<1> PICK e \in Envelope : e = env[h]
  BY <1>1 DEF IngressTypeOK, Working
<1>2. claim[e.op] = e
  BY <1>1 DEF ClaimsHold, Claimed
<1>3. \/ pc' = [pc EXCEPT ![h] = "mark"] /\ env' = env /\ Recorded(env[h])'
      \/ pc' = [pc EXCEPT ![h] = "idle"] /\ env' = [env EXCEPT ![h] = NoClaim]
  BY DEF Goto, Leave
<1>4. IngressTypeOK'
  <2>1. pc' \in [Handlers -> {"idle"} \cup Working \cup Answered]
    BY <1>1, <1>3 DEF IngressTypeOK, Working
  <2>2. env' \in [Handlers -> Envelope \cup {NoClaim}]
    BY <1>1, <1>3 DEF IngressTypeOK
  <2>3. \A g \in Handlers : pc'[g] \in Working \cup Answered => env'[g] \in Envelope
    <3>1. "idle" \notin Working \cup Answered
      BY DEF Working, Answered
    <3> QED
      BY <1>1, <1>3, <3>1 DEF IngressTypeOK
  <2> QED
    BY <1>1, <2>1, <2>2, <2>3 DEF IngressTypeOK
<1>5. ClaimsHold'
  <2>1. HandlersGoOn
    <3>1. "idle" \notin Claimed
      BY DEF Claimed
    <3>2. \A g \in Handlers : g # h => pc'[g] = pc[g] /\ env'[g] = env[g]
      BY <1>1, <1>3 DEF IngressTypeOK
    <3>3. \/ pc'[h] = "idle"
          \/ env'[h] = e /\ Recorded(env[h])'
      BY <1>1, <1>3 DEF IngressTypeOK
    <3> QED
      BY <1>2, <3>1, <3>2, <3>3 DEF HandlersGoOn
  <2>2. ClaimsGrow
    BY DEF ClaimsGrow
  <2>3. MarksAreEarned
    BY DEF MarksAreEarned
  <2> QED
    BY <1>1, <2>1, <2>2, <2>3, ClaimsKept
<1>6. DispatchesHold'
  BY <1>1, DispatchesKept
<1> QED
  BY <1>4, <1>5, <1>6 DEF IngressInv

\* The row is given the end that the result asks for.
LEMMA EndKeeps ==
  ASSUME IngressInv, TypeOK', NEW h \in Handlers, pc[h] = "apply",
         UNCHANGED <<building, dispatch, claim, applyOwner, applyEnd, applied>>,
         Goto(h, "mark"), NEW o \in Ops, o = env[h].op, state[o] = "RUNNING",
         NEW end \in {"SUCCEEDED", "FAILED"}, end = Target(env[h]),
         state' = [state EXCEPT ![o] = end],
         result' = [result EXCEPT ![o] = Recording(env[h])],
         UNCHANGED <<now, request, leaseEnd, started>>
  PROVE  IngressInv'
<1>1. TypeOK /\ IngressTypeOK /\ ClaimsHold
  BY DEF IngressInv, IngressTypeOK
<1> PICK e \in Envelope : e = env[h]
  BY <1>1 DEF IngressTypeOK, Working
<1> PICK recording : recording = Recording(e)
  OBVIOUS
<1>2. /\ claim[o] = e
      /\ env' = env
  BY <1>1 DEF ClaimsHold, Claimed, Goto
<1>3. /\ state'[o] = end /\ result'[o] = recording
      /\ \A p \in Ops : p # o => state'[p] = state[p] /\ result'[p] = result[p]
  BY <1>1 DEF TypeOK
<1>4. Recorded(e)'
  <2>1. Recording(e)' = recording /\ Target(e)' = end
    BY DEF Recording, Target
  <2> QED
    BY <1>3, <2>1 DEF Recorded
<1>5. Recorded(env[h])'
  BY <1>2, <1>4
<1>6. EndsStay
  BY <1>3 DEF EndsStay, Terminal
<1>7. EndsAreClaimed
  <2>1. claim'[o] # NoClaim /\ Recorded(claim[o])'
    BY <1>2, <1>4, NoClaimFresh
  <2> QED
    BY <1>3, <2>1 DEF EndsAreClaimed
<1>8. now' \in Time /\ now <= now'
  BY <1>1 DEF TypeOK, Time
<1>9. \A p \in Ops :
        /\ state'[p] = "LEASED" =>
             \/ state[p] = "CREATED"
             \/ state[p] = "LEASED" /\ leaseEnd'[p] = leaseEnd[p]
        /\ state'[p] \in {"ABSENT", "CREATED"} => state[p] \in {"ABSENT", "CREATED"}
        /\ state'[p] \in {"RUNNING", "SUCCEEDED", "FAILED"} =>
             state[p] \in {"RUNNING", "SUCCEEDED", "FAILED"} /\ started'[p] = started[p]
  BY <1>3
<1> QED
  BY <1>5, <1>6, <1>7, <1>8, <1>9, ApplyFrame

\* Apply: a running operation gets its end, one that is overdue what is due, and one
\* that has ended is compared.
LEMMA ApplyKeeps ==
  ASSUME IngressInv, TypeOK', NEW h \in Handlers, Apply(h)
  PROVE  IngressInv'
<1>1. TypeOK /\ IngressTypeOK /\ ClaimsHold
  BY DEF IngressInv, IngressTypeOK
<1>2. pc[h] = "apply" /\ UNCHANGED <<building, dispatch, claim, applyOwner, applyEnd, applied>>
  BY DEF Apply, replayVars
<1> PICK e \in Envelope : e = env[h]
  BY <1>1, <1>2 DEF IngressTypeOK, Working
<1> PICK o \in Ops : o = e.op
  BY DEF Envelope
<1>3. CASE state[o] = "RUNNING" /\ ~ Due(o) /\ ApplySuccess(h)
  <2>1. e.outcome \in Results /\ Succeed(o, e.outcome) /\ now' = now /\ Goto(h, "mark")
    BY <1>3 DEF ApplySuccess, ApplyWorkerSuccess
  <2>2. Target(e) = "SUCCEEDED" /\ Recording(e) = e.outcome
    BY <2>1, IngressConstants DEF Target, Recording
  <2>3. /\ state' = [state EXCEPT ![o] = "SUCCEEDED"]
        /\ result' = [result EXCEPT ![o] = Recording(e)]
        /\ UNCHANGED <<now, request, leaseEnd, started>>
    BY <2>1, <2>2 DEF Succeed
  <2> QED
    BY <1>2, <1>3, <2>1, <2>2, <2>3, EndKeeps
<1>4. CASE state[o] = "RUNNING" /\ ~ Due(o) /\ ApplyFailure(h)
  <2>1. e.outcome \in Codes /\ FailOperation(o, e.outcome) /\ Goto(h, "mark")
    BY <1>4 DEF ApplyFailure
  <2>2. Target(e) = "FAILED" /\ Recording(e) = e.outcome
    BY <2>1, IngressConstants, OutcomesApart DEF Target, Recording
  <2>3. /\ state' = [state EXCEPT ![o] = "FAILED"]
        /\ result' = [result EXCEPT ![o] = Recording(e)]
        /\ UNCHANGED <<now, request, leaseEnd, started>>
    BY <1>4, <2>1, <2>2 DEF FailOperation
  <2> QED
    BY <1>2, <1>4, <2>1, <2>2, <2>3, EndKeeps
<1>5. CASE ApplyAttention(h)
  <2>1. pc' = [pc EXCEPT ![h] = "unavailable"] /\ env' = [env EXCEPT ![h] = e]
    BY <1>1, <1>5 DEF ApplyAttention, Goto, IngressTypeOK
  <2>2. "unavailable" \in Answered /\ "unavailable" \notin Claimed
    BY DEF Answered, Claimed
  <2>3. UNCHANGED <<vars, building, dispatch, claim, applyOwner, applyEnd, applied>>
    BY <1>2, <1>5 DEF ApplyAttention
  <2>4. /\ claim' \in [Ops -> Envelope \cup {NoClaim}] /\ applied' \in [Ops -> BOOLEAN]
        /\ applyOwner' \in [Ops -> Handlers \cup {NoHandler}] /\ applyEnd' \in [Ops -> Nat]
    BY <1>1, <2>3 DEF IngressTypeOK
  <2>5. "unavailable" \notin {"mark", "acked"}
    OBVIOUS
  <2> QED
    BY <2>1, <2>2, <2>3, <2>4, <2>5, HandlerKeeps
<1>6. CASE ApplySettled(h) /\ Due(o)
  <2>1. /\ Refresh({o}) /\ UNCHANGED now
        /\ GotoIf(h, /\ e.outcome = "attention" /\ DueState(o) = Target(e)
                     /\ DueCode(o) = Recording(e), "mark")
    BY <1>6 DEF ApplySettled
  <2>2. QueueCalm
    BY <1>1, <2>1, RefreshIsCalm
  <2>3. (Goto(h, "mark") /\ Recorded(env[h])') \/ Leave(h)
    <3>1. CASE Leave(h)
      BY <3>1
    <3>2. CASE ~ Leave(h)
      <4>1. /\ Goto(h, "mark") /\ env' = env
            /\ DueState(o) = Target(e) /\ DueCode(o) = Recording(e)
        BY <2>1, <3>2 DEF GotoIf, Goto
      <4>2. state'[o] = DueState(o) /\ result'[o] = DueCode(o) /\ request' = request
        BY <1>6, <2>1 DEF Refresh, RefreshedState, RefreshedResult
      <4>3. Target(e)' = Target(e) /\ Recording(e)' = Recording(e)
        BY <4>2 DEF Target, Recording
      <4>4. Recorded(e)'
        BY <4>1, <4>2, <4>3 DEF Recorded
      <4> QED
        BY <4>1, <4>4
    <3> QED
      BY <3>1, <3>2
  <2>4. EndsStay
    BY <2>2 DEF QueueCalm, RowCalm, EndsStay
  <2>5. EndsAreClaimed
    BY <2>2 DEF QueueCalm, RowCalm, EndsAreClaimed
  <2>6. /\ now' \in Time /\ now <= now'
        /\ \A p \in Ops :
             /\ state'[p] = "LEASED" =>
                  \/ state[p] = "CREATED"
                  \/ state[p] = "LEASED" /\ leaseEnd'[p] = leaseEnd[p]
             /\ state'[p] \in {"ABSENT", "CREATED"} => state[p] \in {"ABSENT", "CREATED"}
             /\ state'[p] \in {"RUNNING", "SUCCEEDED", "FAILED"} =>
                  state[p] \in {"RUNNING", "SUCCEEDED", "FAILED"} /\ started'[p] = started[p]
    BY <2>2 DEF QueueCalm, RowCalm, TypeOK
  <2> QED
    BY <1>2, <2>3, <2>4, <2>5, <2>6, ApplyFrame
<1>7. CASE ApplySettled(h) /\ ~ Due(o)
  <2>1. UNCHANGED vars /\ GotoIf(h, Recorded(e), "mark")
    BY <1>7 DEF ApplySettled
  <2>2. UNCHANGED <<building, dispatch, claim, applyOwner, applyEnd, applied>>
    BY <1>2
  <2>3. /\ claim' \in [Ops -> Envelope \cup {NoClaim}] /\ applied' \in [Ops -> BOOLEAN]
        /\ applyOwner' \in [Ops -> Handlers \cup {NoHandler}] /\ applyEnd' \in [Ops -> Nat]
    BY <1>1, <2>2 DEF IngressTypeOK
  <2>4. CASE Recorded(e)
    <3>1. pc' = [pc EXCEPT ![h] = "mark"] /\ env' = [env EXCEPT ![h] = e]
      BY <1>1, <2>1, <2>4 DEF GotoIf, Goto, IngressTypeOK
    <3>2. "mark" \in Working /\ claim'[e.op] = e
      BY <1>1, <1>2 DEF Working, ClaimsHold, Claimed
    <3> QED
      BY <2>1, <2>2, <2>3, <2>4, <3>1, <3>2, HandlerKeeps
  <2>5. CASE ~ Recorded(e)
    <3>1. pc' = [pc EXCEPT ![h] = "idle"] /\ env' = [env EXCEPT ![h] = NoClaim]
      BY <2>1, <2>5 DEF GotoIf, Leave
    <3>2. "idle" \notin Working \cup Answered /\ "idle" \notin Claimed
      BY DEF Working, Answered, Claimed
    <3>3. "idle" \notin {"mark", "acked"}
      OBVIOUS
    <3> QED
      BY <2>1, <2>2, <2>3, <3>1, <3>2, <3>3, HandlerKeeps
  <2> QED
    BY <2>4, <2>5
<1> QED
  BY <1>3, <1>4, <1>5, <1>6, <1>7 DEF Apply

\* The two ways on for a handler that carries the same result, or gives up.
LEMMA HandlerGoes ==
  ASSUME IngressInv, UNCHANGED <<vars, building, dispatch>>, NEW h \in Handlers,
         env[h] \in Envelope, NEW step \in Working \cup Answered,
         \/ /\ Goto(h, step)
            /\ step \in Claimed => claim'[env[h].op] = env[h]
            /\ step \in {"mark", "acked"} => Recorded(env[h])
         \/ Leave(h),
         applyOwner' \in [Ops -> Handlers \cup {NoHandler}], applyEnd' \in [Ops -> Nat],
         claim' \in [Ops -> Envelope \cup {NoClaim}], applied' \in [Ops -> BOOLEAN],
         ClaimsGrow,
         \A o \in Ops : applied'[o] =>
            applied[o] \/ (claim'[o] = env[h] /\ Recorded(env[h]) /\ Goto(h, step))
  PROVE  IngressInv'
<1> PICK e \in Envelope : e = env[h]
  OBVIOUS
<1>0. IngressTypeOK /\ e # NoClaim
  BY NoClaimFresh DEF IngressInv
<1>1. CASE Goto(h, step) /\ (step \in Claimed => claim'[e.op] = e)
                         /\ (step \in {"mark", "acked"} => Recorded(e))
  <2>1. pc' = [pc EXCEPT ![h] = step] /\ env' = [env EXCEPT ![h] = e]
    BY <1>0, <1>1 DEF Goto, IngressTypeOK
  <2>2. \A o \in Ops : applied'[o] =>
          applied[o] \/ (claim'[o] = e /\ e # NoClaim /\ Recorded(e))
    BY <1>0
  <2>3. \A o \in Ops : \/ claim'[o] = claim[o]
                       \/ claim[o] = NoClaim /\ claim'[o] \in Envelope /\ claim'[o].op = o
    BY DEF ClaimsGrow
  <2> QED
    BY <1>1, <2>1, <2>2, <2>3, HandlerKeeps
<1>2. CASE Leave(h)
  <2>1. pc' = [pc EXCEPT ![h] = "idle"] /\ env' = [env EXCEPT ![h] = NoClaim]
    BY <1>2 DEF Leave
  <2>2. "idle" \notin Working \cup Answered /\ "idle" \notin Claimed
    BY DEF Working, Answered, Claimed
  <2>3. \A o \in Ops : applied'[o] => applied[o]
    <3>1. pc'[h] = "idle"
      BY <1>0, <2>1 DEF IngressTypeOK
    <3>2. ~ Goto(h, step)
      BY <1>0, <2>2, <3>1 DEF Goto, IngressTypeOK
    <3> QED
      BY <3>2
  <2>4. \A o \in Ops : \/ claim'[o] = claim[o]
                       \/ claim[o] = NoClaim /\ claim'[o] \in Envelope /\ claim'[o].op = o
    BY DEF ClaimsGrow
  <2>5. "idle" \notin {"mark", "acked"}
    OBVIOUS
  <2> QED
    BY <2>1, <2>2, <2>3, <2>4, <2>5, HandlerKeeps
<1> QED
  BY <1>1, <1>2

\* Every step of a handler that is not the write itself.
LEMMA HandlerSteps ==
  ASSUME IngressInv, NEW h \in Handlers,
         Classify(h) \/ Claim(h) \/ Acquire(h) \/ Check(h) \/ Mark(h) \/ HandlerDies(h)
  PROVE  IngressInv'
<1>1. TypeOK /\ IngressTypeOK /\ ClaimsHold
  BY DEF IngressInv, IngressTypeOK
<1>2. pc[h] \in Working /\ UNCHANGED <<vars, building, dispatch>>
  BY DEF Classify, Claim, Acquire, Check, Mark, HandlerDies, Working
<1> PICK e \in Envelope : e = env[h]
  BY <1>1, <1>2 DEF IngressTypeOK
<1> PICK o \in Ops : o = e.op
  BY DEF Envelope
<1>3. /\ claim \in [Ops -> Envelope \cup {NoClaim}] /\ applied \in [Ops -> BOOLEAN]
      /\ applyOwner \in [Ops -> Handlers \cup {NoHandler}] /\ applyEnd \in [Ops -> Nat]
  BY <1>1 DEF IngressTypeOK
<1>4. CASE Classify(h)
  <2>1. /\ UNCHANGED <<claim, applyOwner, applyEnd, applied>>
        /\ Goto(h, "claim") \/ (claim[o] = e /\ Goto(h, "acquire")) \/ Leave(h)
    BY <1>4 DEF Classify, replayVars
  <2>2. ClaimsGrow
    BY <2>1 DEF ClaimsGrow
  <2>3. "claim" \in Working /\ "claim" \notin Claimed /\ "claim" \notin {"mark", "acked"}
    BY DEF Working, Claimed
  <2>4. "acquire" \in Working /\ "acquire" \notin {"mark", "acked"}
    BY DEF Working
  <2>5. CASE Goto(h, "claim") \/ Leave(h)
    BY <1>2, <1>3, <2>1, <2>2, <2>3, <2>5, HandlerGoes
  <2>6. CASE claim[o] = e /\ Goto(h, "acquire")
    BY <1>2, <1>3, <2>1, <2>2, <2>4, <2>6, HandlerGoes
  <2> QED
    BY <2>1, <2>5, <2>6
<1>5. CASE Claim(h)
  <2>1. /\ UNCHANGED <<applyOwner, applyEnd, applied>>
        /\ \/ claim[o] = NoClaim /\ claim' = [claim EXCEPT ![o] = e] /\ Goto(h, "acquire")
           \/ claim[o] = e /\ Goto(h, "acquire") /\ claim' = claim
           \/ Leave(h) /\ claim' = claim
    BY <1>5 DEF Claim
  <2>2. ClaimsGrow /\ claim' \in [Ops -> Envelope \cup {NoClaim}]
    BY <1>3, <2>1 DEF ClaimsGrow
  <2>3. (Goto(h, "acquire") /\ claim'[o] = e) \/ Leave(h)
    BY <1>3, <2>1
  <2>4. "acquire" \in Working /\ "acquire" \notin {"mark", "acked"}
    BY DEF Working
  <2> QED
    BY <1>2, <1>3, <2>1, <2>2, <2>3, <2>4, HandlerGoes
<1>6. CASE Acquire(h)
  <2>1. /\ UNCHANGED <<claim, applied>>
        /\ \/ claim[o] = e /\ applied[o] /\ Goto(h, "acked")
           \/ Leave(h)
           \/ claim[o] = e /\ Goto(h, "check")
    BY <1>6 DEF Acquire
  <2>2. /\ applyOwner' \in [Ops -> Handlers \cup {NoHandler}]
        /\ applyEnd' \in [Ops -> Nat]
    <3>1. now + ApplyTime \in Nat
      BY <1>1, IngressConstants, TimesType DEF TypeOK, Time
    <3> QED
      BY <1>3, <1>6, <3>1 DEF Acquire
  <2>3. ClaimsGrow
    BY <2>1 DEF ClaimsGrow
  <2>4. applied[o] => Recorded(claim[o])
    BY <1>1 DEF ClaimsHold
  <2>5. /\ "acked" \in Answered
        /\ "check" \in Working /\ "check" \notin {"mark", "acked"}
    BY DEF Working, Answered
  <2>6. CASE claim[o] = e /\ applied[o] /\ Goto(h, "acked")
    BY <1>2, <1>3, <2>1, <2>2, <2>3, <2>4, <2>5, <2>6, HandlerGoes
  <2>7. CASE Leave(h) \/ (claim[o] = e /\ Goto(h, "check"))
    BY <1>2, <1>3, <2>1, <2>2, <2>3, <2>5, <2>7, HandlerGoes
  <2> QED
    BY <2>1, <2>6, <2>7
<1>7. CASE Check(h)
  <2>1. /\ UNCHANGED <<claim, applyOwner, applyEnd, applied>>
        /\ (Recorded(e) /\ Goto(h, "mark")) \/ Goto(h, "apply") \/ Leave(h)
        /\ pc[h] = "check"
    BY <1>7 DEF Check, replayVars
  <2>2. ClaimsGrow /\ claim'[o] = e
    BY <1>1, <2>1 DEF ClaimsGrow, ClaimsHold, Claimed
  <2>3. "mark" \in Working /\ "apply" \in Working /\ "apply" \notin {"mark", "acked"}
    BY DEF Working
  <2>4. CASE Recorded(e) /\ Goto(h, "mark")
    BY <1>2, <1>3, <2>1, <2>2, <2>3, <2>4, HandlerGoes
  <2>5. CASE Goto(h, "apply") \/ Leave(h)
    BY <1>2, <1>3, <2>1, <2>2, <2>3, <2>5, HandlerGoes
  <2> QED
    BY <2>1, <2>4, <2>5
<1>8. CASE Mark(h)
  <2> DEFINE holds == /\ claim[o] = e
                      /\ applied[o] \/ (applyOwner[o] = h /\ applyEnd[o] > now)
  <2>1. /\ UNCHANGED <<claim, applyOwner, applyEnd>>
        /\ applied' = [applied EXCEPT ![o] = @ \/ holds]
        /\ GotoIf(h, holds, "acked")
        /\ pc[h] = "mark"
    BY <1>8 DEF Mark
  <2>2. Recorded(e) /\ claim[o] = e
    BY <1>1, <2>1 DEF ClaimsHold, Claimed
  <2>3. ClaimsGrow /\ "acked" \in Answered
    BY <2>1 DEF ClaimsGrow, Answered
  <2>4. applied' \in [Ops -> BOOLEAN]
    BY <1>3, <2>1
  <2>5. CASE holds
    <3>1. Goto(h, "acked")
      BY <2>1, <2>5 DEF GotoIf
    <3>2. \A p \in Ops : applied'[p] => applied[p] \/ claim'[p] = e
      BY <1>3, <2>1, <2>2
    <3> QED
      BY <1>2, <1>3, <2>1, <2>2, <2>3, <2>4, <3>1, <3>2, HandlerGoes
  <2>6. CASE ~ holds
    <3>1. Leave(h)
      BY <2>1, <2>6 DEF GotoIf
    <3>2. \A p \in Ops : applied'[p] => applied[p]
      BY <1>3, <2>1, <2>6
    <3> QED
      BY <1>2, <1>3, <2>1, <2>2, <2>3, <2>4, <3>1, <3>2, HandlerGoes
  <2> QED
    BY <2>5, <2>6
<1>9. CASE HandlerDies(h)
  <2>1. Leave(h) /\ UNCHANGED <<claim, applyOwner, applyEnd, applied>>
    BY <1>9 DEF HandlerDies, replayVars
  <2>2. ClaimsGrow /\ "claim" \in Working
    BY <2>1 DEF ClaimsGrow, Working
  <2> QED
    BY <1>2, <1>3, <2>1, <2>2, HandlerGoes
<1> QED
  BY <1>4, <1>5, <1>6, <1>7, <1>8, <1>9

\* A request reaches a handler that is free.
LEMMA SubmitKeeps ==
  ASSUME IngressInv, NEW h \in Handlers, NEW e \in Envelope, Submit(h, e)
  PROVE  IngressInv'
<1>1. IngressTypeOK /\ "classify" \in Working /\ "classify" \notin Claimed
      /\ "classify" \notin {"mark", "acked"}
  BY DEF IngressInv, Working, Claimed
<1>2. /\ pc' = [pc EXCEPT ![h] = "classify"] /\ env' = [env EXCEPT ![h] = e]
      /\ applyOwner' = [o \in Ops |-> IF applyOwner[o] = h THEN NoHandler ELSE applyOwner[o]]
      /\ UNCHANGED <<vars, building, dispatch, claim, applyEnd, applied>>
  BY DEF Submit
<1>3. /\ claim' \in [Ops -> Envelope \cup {NoClaim}] /\ applied' \in [Ops -> BOOLEAN]
      /\ applyEnd' \in [Ops -> Nat]
  BY <1>1, <1>2 DEF IngressTypeOK
<1>4. applyOwner' \in [Ops -> Handlers \cup {NoHandler}]
  BY <1>1, <1>2 DEF IngressTypeOK
<1> QED
  BY <1>1, <1>2, <1>3, <1>4, HandlerKeeps

\* Every step of the ingress.
LEMMA IngressInductive ==
  ASSUME IngressInv, [IngressNext]_allVars
  PROVE  IngressInv'
<1>1. TypeOK /\ IngressTypeOK /\ ClaimsHold
  BY DEF IngressInv, IngressTypeOK
<1>2. TypeOK'
  BY <1>1, IngressStepsQueue, TypeStep
<1>3. building \subseteq Ops /\ applyEnd \in [Ops -> Nat] /\ now \in Nat
  BY <1>1 DEF IngressTypeOK, TypeOK, Time
<1>4. CASE UNCHANGED allVars
  <2>1. QueueCalm
    BY <1>1, <1>3, <1>4, StandingIsCalm DEF allVars, vars
  <2> QED
    BY <1>2, <1>3, <1>4, <2>1, CalmKeeps DEF allVars, ingressVars
<1>5. CASE IngressTick
  <2>1. QueueCalm
    <3>1. CASE LateTick
      BY <1>1, <1>3, <3>1, StandingIsCalm DEF LateTick, vars
    <3>2. CASE Tick
      BY <1>1, <1>3, <3>2, StandingIsCalm DEF Tick
    <3> QED
      BY <1>5, <3>1, <3>2 DEF IngressTick
  <2>2. applyEnd' \in [Ops -> Nat] /\ building' \subseteq Ops
    BY <1>3, <1>5 DEF IngressTick, LateTick, ingressVars
  <2>3. UNCHANGED <<dispatch, claim, applied, applyOwner, pc, env>>
    BY <1>5 DEF IngressTick, LateTick, ingressVars
  <2> QED
    BY <1>2, <2>1, <2>2, <2>3, CalmKeeps
<1>6. CASE QueueStep
  <2>1. QueueCalm
    <3>1. ASSUME NEW o \in Ops, NEW r \in Request, CreateOperation(o, r)
          PROVE  QueueCalm
      BY <1>1, <3>1, CreateIsCalm
    <3>2. ASSUME NEW o \in Ops, GetOperation(o)
          PROVE  QueueCalm
      BY <1>1, <3>2, RefreshIsCalm DEF GetOperation
    <3> QED
      BY <1>6, <3>1, <3>2 DEF QueueStep
  <2> QED
    BY <1>2, <1>3, <1>6, <2>1, CalmKeeps DEF QueueStep, ingressVars
<1>7. CASE PollStep
  <2>1. ASSUME NEW w \in Workstations, PollNothing(w)
        PROVE  IngressInv'
    <3>1. QueueCalm
      BY <1>1, <2>1, RefreshIsCalm DEF PollNothing, LeaseNothing
    <3> QED
      BY <1>2, <1>3, <2>1, <3>1, CalmKeeps DEF PollNothing, ingressVars
  <2>2. ASSUME NEW w \in Workstations, NEW o \in Ops, PollLease(w, o)
        PROVE  IngressInv'
    <3>1. QueueCalm
      BY <1>1, <2>2, LeaseIsCalm DEF PollLease
    <3>2. building' \subseteq Ops /\ UNCHANGED <<dispatch, replayVars, pc, env>>
      BY <1>3, <2>2 DEF PollLease
    <3> QED
      BY <1>2, <1>3, <3>1, <3>2, CalmKeeps DEF replayVars
  <2>3. ASSUME NEW o \in Ops, PollDispatch(o)
        PROVE  IngressInv'
    BY <2>3, DispatchKeeps
  <2>4. ASSUME NEW o \in Ops, PollDies(o)
        PROVE  IngressInv'
    <3>1. building' \subseteq Ops /\ UNCHANGED <<vars, dispatch, replayVars, pc, env>>
      BY <1>3, <2>4 DEF PollDies
    <3>2. QueueCalm
      BY <1>1, <1>3, <3>1, StandingIsCalm DEF vars
    <3> QED
      BY <1>2, <1>3, <3>1, <3>2, CalmKeeps DEF replayVars
  <2> QED
    BY <1>7, <2>1, <2>2, <2>3, <2>4 DEF PollStep
<1>8. ASSUME NEW o \in Ops, Start(o)
      PROVE  IngressInv'
  BY <1>2, <1>8, StartKeepsIngress
<1>9. ASSUME NEW h \in Handlers, NEW e \in Envelope, Submit(h, e)
      PROVE  IngressInv'
  BY <1>9, SubmitKeeps
<1>10. ASSUME NEW h \in Handlers, HandlerStep(h) \/ HandlerDies(h)
       PROVE  IngressInv'
  BY <1>2, <1>10, HandlerSteps, ApplyKeeps DEF HandlerStep
<1> QED
  BY <1>4, <1>5, <1>6, <1>7, <1>8, <1>9, <1>10 DEF IngressNext

\* Nothing has been dispatched, claimed or started.
LEMMA IngressStarts == IngressInit => IngressInv
<1> SUFFICES ASSUME IngressInit
             PROVE  IngressInv
  OBVIOUS
<1>1. TypeOK
  BY InvInit DEF IngressInit, Inv
<1>2. \A o \in Ops : state[o] = "ABSENT"
  BY DEF IngressInit, Init
<1>3. IngressTypeOK
  BY <1>1 DEF IngressInit, IngressTypeOK, Working, Answered
<1>4. ClaimsHold
  BY <1>2 DEF IngressInit, ClaimsHold, Claimed, FirstClaimWins
<1>5. DispatchesHold
  BY <1>2 DEF IngressInit, DispatchesHold, EndedWasDispatched
<1> QED
  BY <1>3, <1>4, <1>5 DEF IngressInv

\* Every step of the ingress keeps what the claims and the dispatches say, whatever the
\* handlers interleave and whichever of them die (GatewayWorkerIngress).
THEOREM IngressKeepsItsBooks == IngressSpec => []IngressInv
<1>1. IngressInv /\ [IngressNext]_allVars => IngressInv'
  BY IngressInductive
<1> QED
  BY <1>1, IngressStarts, PTL DEF IngressSpec

\* An operation ends with what the first result to claim its nonce said
\* (claim_worker_result_replay), however many results are signed and sent.
THEOREM FirstClaimAlwaysWins == IngressSpec => []FirstClaimWins
<1>1. IngressInv => FirstClaimWins
  BY DEF IngressInv, ClaimsHold
<1> QED
  BY <1>1, IngressKeepsItsBooks, PTL

\* What is acknowledged to a worker is recorded: by its handler, or by an earlier one
\* that marked the claim applied (mark_worker_result_applied).
THEOREM AckAlwaysMeansRecorded == IngressSpec => []AckMeansRecorded
<1>1. IngressInv => AckMeansRecorded
  BY DEF IngressInv, ClaimsHold, AckMeansRecorded
<1> QED
  BY <1>1, IngressKeepsItsBooks, PTL

\* Nothing runs, succeeds or fails but what was started under a stored dispatch that
\* was valid (GatewayWorkerIngress.start).
THEOREM EndedAlwaysDispatched == IngressSpec => []EndedWasDispatched
<1>1. IngressInv => EndedWasDispatched
  BY DEF IngressInv, DispatchesHold
<1> QED
  BY <1>1, IngressKeepsItsBooks, PTL

\* The endpoints use the queue only through its transactions: what is proved of the
\* queue (one active operation, quotas, the catalog, the trigger, the life of an
\* operation) holds under the ingress.
THEOREM IngressImplementsQueue == IngressSpec => Spec
<1>1. IngressInit => Init
  BY DEF IngressInit
<1>2. IngressInv /\ [IngressNext]_allVars => [Next]_vars
  BY IngressStepsQueue DEF IngressInv
<1> QED
  BY <1>1, <1>2, IngressKeepsItsBooks, PTL DEF IngressSpec, Spec

(***************************************************************************)
(* The worker.                                                             *)
(***************************************************************************)

\* What a process has in hand at each step.
InHand(p) ==
  /\ wpc[p] \in {"awaiting", "authorizing", "starting", "executing"} => task[p] \in Ops
  /\ wpc[p] \in {"authorizing", "starting"} => dispatch[task[p]] # NoDispatch
  /\ wpc[p] \in {"delivering", "waiting", "acknowledging"} => sending[p] \in Envelope
  /\ wpc[p] = "waiting" =>
       /\ via[p] \in Handlers
       /\ pc[via[p]] = "idle" \/ env[via[p]] = sending[p]
  /\ wpc[p] = "acknowledging" => Recorded(sending[p])

\* No two processes are served by one handler.
ViaIsOwn == \A p, q \in Processes : via[p] # NoHandler /\ via[p] = via[q] => p = q

ProcessesHold == (\A p \in Processes : InHand(p)) /\ ViaIsOwn

\* An operation whose command was begun was started, and only once.
ExecutionsHold ==
  \A o \in Ops :
    /\ executions[o] <= 1
    /\ state[o] \in {"ABSENT", "CREATED", "LEASED"} => executions[o] = 0
    /\ state[o] = "EXPIRED" /\ request[o].task = "apply" => executions[o] = 0

WorkerInv == IngressInv /\ WorkerTypeOK /\ ProcessesHold /\ ExecutionsHold /\ NothingIsLost

(* A step of a process is one of the ingress with it, or none. *)

\* What every transaction of the queue leaves as it is.
LEMMA QueueEndsStay ==
  ASSUME TypeOK, [Next]_vars
  PROVE  EndsStay
<1>1. ASSUME NEW o \in Ops, Present(o)
      PROVE  /\ request'[o] = request[o]
             /\ state[o] \in Terminal => state'[o] = state[o] /\ result'[o] = result[o]
  <2>1. TriggerAccepts(o)
    BY <1>1, TriggerStep
  <2>2. ASSUME state[o] \in Terminal
        PROVE  state'[o] = state[o]
    <3>1. <<state[o], state'[o]>> \in
            {<<s, s>> : s \in OperationState}
            \cup ({"CREATED"} \X {"LEASED", "EXPIRED"})
            \cup ({"LEASED"} \X {"RUNNING", "ATTENTION_REQUIRED"})
            \cup ({"RUNNING"} \X Terminal)
      BY <2>1 DEF TriggerAccepts
    <3>2. state[o] \notin {"CREATED", "LEASED", "RUNNING"}
      BY <2>2 DEF Terminal
    <3> QED
      BY <3>1, <3>2
  <2> QED
    BY <2>1, <2>2 DEF TriggerAccepts
<1>2. \A o \in Ops : state[o] \in Terminal => Present(o)
  BY DEF Terminal, Present
<1> QED
  BY <1>1, <1>2 DEF EndsStay

\* No transaction takes a row back before its start, and a write that runs never just
\* expires.
ExecutedRows ==
  \A o \in Ops :
    /\ state'[o] \in {"ABSENT", "CREATED", "LEASED"}
         => state[o] \in {"ABSENT", "CREATED", "LEASED"}
    /\ state'[o] = "EXPIRED" /\ request'[o].task = "apply"
         => \/ state[o] = "CREATED"
            \/ state[o] = "EXPIRED" /\ request[o].task = "apply"

\* A calm transaction is one of these.
LEMMA CalmRows ==
  ASSUME TypeOK, QueueCalm
  PROVE  ExecutedRows
<1>1. \A o \in Ops : state[o] \in {"CREATED", "RUNNING", "EXPIRED"} => request'[o] = request[o]
  BY DEF QueueCalm, RowCalm, Present
<1> QED
  BY <1>1 DEF QueueCalm, RowCalm, ExecutedRows

\* So is every other transaction, a start and a reported end included.
LEMMA QueueRows ==
  ASSUME TypeOK, [Next]_vars
  PROVE  ExecutedRows
<1>1. ASSUME NEW S, Refresh(S), UNCHANGED now
      PROVE  ExecutedRows
  BY <1>1, RefreshIsCalm, CalmRows
<1>2. CASE Tick \/ UNCHANGED vars
  <2>1. UNCHANGED opsVars
    BY <1>2 DEF Tick, vars
  <2> QED
    BY <2>1 DEF opsVars, ExecutedRows
<1>3. ASSUME NEW o \in Ops, NEW r \in Request, CreateOperation(o, r)
      PROVE  ExecutedRows
  BY <1>3, CreateIsCalm, CalmRows
<1>4. ASSUME NEW w \in Workstations, NEW o \in Ops, LeaseOperation(w, o)
      PROVE  ExecutedRows
  BY <1>4, LeaseIsCalm, CalmRows
<1>5. ASSUME NEW o \in Ops, NEW end \in {"RUNNING", "SUCCEEDED", "FAILED"},
             state' = [state EXCEPT ![o] = end], UNCHANGED request
      PROVE  ExecutedRows
  BY <1>5 DEF ExecutedRows, TypeOK
<1>6. ASSUME NEW o \in Ops, StartOperation(o)
      PROVE  ExecutedRows
  BY <1>1, <1>5, <1>6 DEF StartOperation
<1>7. ASSUME NEW o \in Ops, NEW c \in Codes, FailOperation(o, c)
      PROVE  ExecutedRows
  BY <1>1, <1>5, <1>7 DEF FailOperation
<1>8. ASSUME NEW o \in Ops, NEW r \in Results, ApplyWorkerSuccess(o, r)
      PROVE  ExecutedRows
  BY <1>1, <1>5, <1>8 DEF ApplyWorkerSuccess, Succeed
<1> QED
  BY <1>1, <1>2, <1>3, <1>4, <1>6, <1>7, <1>8 DEF Next, GetOperation, LeaseNothing

\* A step of a worker process reaches the gateway, if at all, through the endpoints.
LEMMA WorkerStepsIngress ==
  ASSUME WorkerInv, [WorkerNext]_systemVars
  PROVE  [IngressNext]_allVars
<1>1. CASE UNCHANGED systemVars
  BY <1>1 DEF systemVars
<1>2. CASE GatewayStep
  BY <1>2 DEF GatewayStep, IngressNext, PollStep
<1>3. ASSUME NEW p \in Processes, ProcessStep(p) \/ Interrupted(p)
      PROVE  [IngressNext]_allVars
  <2>1. CASE TakePending(p) \/ FindNonePending(p) \/ ReceiveTask(p) \/ Interrupted(p)
    BY <2>1 DEF TakePending, FindNonePending, ReceiveTask, Interrupted
  <2>2. CASE Authorize(p) \/ StartRefused(p) \/ Acknowledged(p) \/ DeletePending(p) \/ Refused(p)
    BY <2>2 DEF Authorize, StartRefused, Acknowledged, DeletePending, Refused
  <2>3. ASSUME NEW c \in Outcomes, Execute(p, c)
        PROVE  UNCHANGED allVars
    BY <2>3 DEF Execute
  <2>4. CASE PollIdle(p)
    BY <2>4, StationType DEF PollIdle, IngressNext, PollStep
  <2>5. ASSUME NEW o \in Ops, Poll(p, o)
        PROVE  IngressNext
    BY <2>5, StationType DEF Poll, IngressNext, PollStep
  <2>6. CASE StartAccepted(p)
    <3>1. task[p] \in Ops /\ Start(task[p])
      BY <2>6 DEF StartAccepted, WorkerInv, ProcessesHold, InHand
    <3> QED
      BY <3>1 DEF IngressNext
  <2>7. ASSUME NEW h \in Handlers, Deliver(p, h)
        PROVE  IngressNext
    <3>1. sending[p] \in Envelope /\ Submit(h, sending[p])
      BY <2>7 DEF Deliver, WorkerInv, ProcessesHold, InHand
    <3> QED
      BY <3>1 DEF IngressNext
  <2> QED
    BY <1>3, <2>1, <2>2, <2>3, <2>4, <2>5, <2>6, <2>7 DEF ProcessStep
<1> QED
  BY <1>1, <1>2, <1>3 DEF WorkerNext

\* A handler carries its result until it is idle.
HandlersCarry ==
  \A h \in Handlers : pc'[h] = "idle" \/ (pc[h] # "idle" /\ env'[h] = env[h])

\* A dispatch that was stored stays stored.
DispatchesStay == \A o \in Ops : dispatch[o] # NoDispatch => dispatch'[o] # NoDispatch

\* What the gateway does by itself takes neither from a worker.
LEMMA GatewayCarries ==
  ASSUME IngressInv, GatewayStep
  PROVE  HandlersCarry /\ DispatchesStay
<1>1. TypeOK /\ IngressTypeOK
  BY DEF IngressInv, IngressTypeOK
<1>2. ASSUME UNCHANGED <<dispatch, pc, env>>
      PROVE  HandlersCarry /\ DispatchesStay
  BY <1>2 DEF HandlersCarry, DispatchesStay
<1>3. CASE IngressTick \/ QueueStep
  BY <1>2, <1>3 DEF IngressTick, LateTick, QueueStep, ingressVars
<1>4. ASSUME NEW o \in Ops, PollDispatch(o) \/ PollDies(o)
      PROVE  HandlersCarry /\ DispatchesStay
  <2>1. UNCHANGED <<pc, env>>
    BY <1>4 DEF PollDispatch, PollDies
  <2>2. DispatchesStay
    <3>1. CASE dispatch' = dispatch
      BY <3>1 DEF DispatchesStay
    <3>2. CASE dispatch' # dispatch
      <4> PICK d : d = [issued |-> now, expires |-> leaseEnd[o]]
        OBVIOUS
      <4>1. d \in Dispatch
        BY <1>1 DEF Dispatch, TypeOK
      <4>2. dispatch' = [dispatch EXCEPT ![o] = d]
        BY <1>4, <3>2 DEF PollDispatch, PollDies
      <4> QED
        BY <1>1, <4>1, <4>2, NoDispatchFresh DEF DispatchesStay, IngressTypeOK
    <3> QED
      BY <3>1, <3>2
  <2> QED
    BY <2>1, <2>2 DEF HandlersCarry
<1>5. ASSUME NEW h \in Handlers, HandlerStep(h) \/ HandlerDies(h)
      PROVE  HandlersCarry /\ DispatchesStay
  <2>1. UNCHANGED dispatch /\ pc[h] # "idle"
    BY <1>5 DEF HandlerStep, HandlerDies, Classify, Claim, Acquire, Check, Apply, Mark, Working
  <2>2. (\E step : Goto(h, step)) \/ Leave(h)
    BY <1>5 DEF HandlerStep, HandlerDies, Classify, Claim, Acquire, Check, Apply, ApplySuccess,
                ApplyFailure, ApplyAttention, ApplySettled, Mark, GotoIf
  <2>3. HandlersCarry
    BY <1>1, <2>1, <2>2 DEF Goto, Leave, HandlersCarry, IngressTypeOK
  <2> QED
    BY <2>1, <2>3 DEF DispatchesStay
<1> QED
  BY <1>3, <1>4, <1>5 DEF GatewayStep

(* What the worker's own variables are.  *)
WorkerTypes ==
  /\ nonces \subseteq Ops \X Dispatch /\ outbox \subseteq Envelope /\ saved \subseteq Envelope
  /\ wpc \in [Processes -> {"idle", "polling", "awaiting", "authorizing", "starting",
                            "executing", "delivering", "waiting", "acknowledging"}]
  /\ task \in [Processes -> Ops \cup {NoOp}]
  /\ sending \in [Processes -> Envelope \cup {NoClaim}]
  /\ via \in [Processes -> Handlers \cup {NoHandler}]
  /\ executions \in [Ops -> Nat]

\* What a step of one process leaves to the others: their steps and what they have in
\* hand, and to one that waits, the handler that serves it.
LeavesAlone(q) ==
  /\ wpc'[q] = wpc[q] /\ task'[q] = task[q] /\ sending'[q] = sending[q] /\ via'[q] = via[q]
  /\ wpc[q] = "waiting" =>
       \/ pc'[via[q]] = "idle"
       \/ pc[via[q]] # "idle" /\ env'[via[q]] = env[via[q]]

\* A process that is left alone still has in hand what it had.
LEMMA InHandStays ==
  ASSUME WorkerInv, [WorkerNext]_systemVars, DispatchesStay, NEW q \in Processes, LeavesAlone(q)
  PROVE  InHand(q)'
<1>1. TypeOK /\ InHand(q)
  BY DEF WorkerInv, IngressInv, IngressTypeOK, ProcessesHold
<1>2. EndsStay
  BY <1>1, WorkerStepsIngress, IngressStepsQueue, QueueEndsStay DEF WorkerInv, IngressInv
<1>3. wpc[q] = "acknowledging" => Recorded(sending[q]) /\ sending[q] \in Envelope
  BY <1>1 DEF InHand
<1>4. wpc[q] = "acknowledging" => (Recorded(sending[q]))'
  <2> SUFFICES ASSUME wpc[q] = "acknowledging"
               PROVE  (Recorded(sending[q]))'
    OBVIOUS
  <2> PICK e \in Envelope : e = sending[q]
    BY <1>3
  <2>1. Recorded(e)'
    BY <1>1, <1>2, <1>3, RecordedStays
  <2>2. sending'[q] = e
    BY DEF LeavesAlone
  <2> QED
    BY <2>1, <2>2 DEF Recorded
<1>5. /\ wpc'[q] = wpc[q] /\ task'[q] = task[q] /\ sending'[q] = sending[q] /\ via'[q] = via[q]
      /\ wpc[q] = "waiting" => \/ pc'[via[q]] = "idle"
                               \/ pc[via[q]] # "idle" /\ env'[via[q]] = env[via[q]]
  BY DEF LeavesAlone
<1>6. wpc'[q] \in {"authorizing", "starting"} => dispatch'[task'[q]] # NoDispatch
  BY <1>1, <1>5 DEF InHand, DispatchesStay
<1>7. wpc'[q] = "waiting" => /\ via'[q] \in Handlers
                             /\ pc'[via'[q]] = "idle" \/ env'[via'[q]] = sending'[q]
  BY <1>1, <1>5 DEF InHand
<1> QED
  BY <1>1, <1>4, <1>5, <1>6, <1>7 DEF InHand

\* What was begun was begun once, when no step begins anything.
LEMMA ExecutionsStay ==
  ASSUME WorkerInv, [WorkerNext]_systemVars, UNCHANGED executions
  PROVE  ExecutionsHold'
<1>1. ExecutedRows
  BY WorkerStepsIngress, IngressStepsQueue, QueueRows DEF WorkerInv, IngressInv, IngressTypeOK
<1> QED
  BY <1>1 DEF WorkerInv, ExecutionsHold, ExecutedRows

\* What was saved is in the outbox or recorded, when only what is recorded leaves it.
LEMMA SavedStays ==
  ASSUME WorkerInv, [WorkerNext]_systemVars,
         \A e \in saved' : e \in saved \/ e \in outbox',
         \A e \in outbox : e \in outbox' \/ Recorded(e),
         saved' \subseteq Envelope
  PROVE  NothingIsLost'
<1>1. TypeOK
  BY DEF WorkerInv, IngressInv, IngressTypeOK
<1>2. EndsStay
  BY <1>1, WorkerStepsIngress, IngressStepsQueue, QueueEndsStay DEF WorkerInv, IngressInv
<1>3. ASSUME NEW e \in saved'
      PROVE  e \in outbox' \/ Recorded(e)'
  <2>1. e \in Envelope
    BY <1>3
  <2>2. e \in outbox' \/ Recorded(e)
    BY <1>3 DEF WorkerInv, NothingIsLost
  <2> QED
    BY <1>1, <1>2, <2>1, <2>2, RecordedStays
<1> QED
  BY <1>3 DEF NothingIsLost

\* The gateway by itself, and steps that change nothing.
LEMMA GatewayKeepsWorker ==
  ASSUME WorkerInv, GatewayStep \/ UNCHANGED systemVars
  PROVE  WorkerInv'
<1>1. [WorkerNext]_systemVars
  BY DEF WorkerNext
<1>2. IngressInv'
  BY <1>1, WorkerStepsIngress, IngressInductive DEF WorkerInv
<1>3. UNCHANGED <<nonces, outbox, wpc, task, sending, via, executions, saved>>
  BY DEF GatewayStep, systemVars, workerVars, fileVars, procVars, history
<1>4. HandlersCarry /\ DispatchesStay
  <2>1. CASE GatewayStep
    BY <2>1, GatewayCarries DEF WorkerInv
  <2>2. CASE UNCHANGED systemVars
    BY <2>2 DEF systemVars, allVars, ingressVars, HandlersCarry, DispatchesStay
  <2> QED
    BY <2>1, <2>2
<1>5. WorkerTypeOK'
  BY <1>2, <1>3 DEF WorkerInv, IngressInv, WorkerTypeOK
<1>6. \A q \in Processes : LeavesAlone(q)
  <2> SUFFICES ASSUME NEW q \in Processes
               PROVE  LeavesAlone(q)
    OBVIOUS
  <2>1. wpc[q] = "waiting" => via[q] \in Handlers
    BY DEF WorkerInv, ProcessesHold, InHand
  <2> QED
    BY <1>3, <1>4, <2>1 DEF LeavesAlone, HandlersCarry
<1>7. ProcessesHold'
  <2>1. \A q \in Processes : InHand(q)'
    BY <1>1, <1>4, <1>6, InHandStays
  <2>2. ViaIsOwn'
    BY <1>3 DEF WorkerInv, ProcessesHold, ViaIsOwn
  <2> QED
    BY <2>1, <2>2 DEF ProcessesHold
<1>8. ExecutionsHold'
  BY <1>1, <1>3, ExecutionsStay
<1>9. NothingIsLost'
  <2>1. saved' \subseteq Envelope
    BY <1>3 DEF WorkerInv, WorkerTypeOK
  <2> QED
    BY <1>1, <1>3, <2>1, SavedStays
<1> QED
  BY <1>2, <1>5, <1>7, <1>8, <1>9 DEF WorkerInv

\* A step of one process that begins nothing, when what it then has in hand is right.
LEMMA ProcessKeepsWorker ==
  ASSUME WorkerInv, [WorkerNext]_systemVars, DispatchesStay, NEW p \in Processes,
         WorkerTypes', ExecutionsHold', NothingIsLost', InHand(p)', ViaIsOwn',
         \A q \in Processes \ {p} : LeavesAlone(q)
  PROVE  WorkerInv'
<1>1. IngressInv'
  BY WorkerStepsIngress, IngressInductive DEF WorkerInv
<1>2. WorkerTypeOK'
  BY <1>1 DEF IngressInv, WorkerTypeOK, WorkerTypes
<1>3. \A q \in Processes \ {p} : InHand(q)'
  BY InHandStays
<1>4. ProcessesHold'
  BY <1>3 DEF ProcessesHold
<1> QED
  BY <1>1, <1>2, <1>4 DEF WorkerInv

\* A step that stays on the workstation, or leaves the handlers alone.
LEMMA LocalStep ==
  ASSUME WorkerInv, [WorkerNext]_systemVars, NEW p \in Processes,
         NEW step, NEW t, NEW s, NEW v,
         wpc' = [wpc EXCEPT ![p] = step], task' = [task EXCEPT ![p] = t],
         sending' = [sending EXCEPT ![p] = s], via' = [via EXCEPT ![p] = v],
         step \in {"idle", "polling", "awaiting", "authorizing", "starting",
                   "executing", "delivering", "waiting", "acknowledging"},
         t \in Ops \cup {NoOp}, s \in Envelope \cup {NoClaim},
         v = via[p] \/ v = NoHandler,
         UNCHANGED <<dispatch, pc, env>>,
         nonces' \subseteq Ops \X Dispatch, outbox' \subseteq Envelope, saved' \subseteq Envelope,
         executions' \in [Ops -> Nat], ExecutionsHold', NothingIsLost', InHand(p)'
  PROVE  WorkerInv'
<1>1. WorkerTypeOK /\ ViaIsOwn
  BY DEF WorkerInv, ProcessesHold
<1>2. WorkerTypes'
  BY <1>1 DEF WorkerTypeOK, WorkerTypes
<1>3. ViaIsOwn'
  BY <1>1 DEF WorkerTypeOK, ViaIsOwn
<1>4. ASSUME NEW q \in Processes \ {p}
      PROVE  LeavesAlone(q)
  <2>1. wpc'[q] = wpc[q] /\ task'[q] = task[q] /\ sending'[q] = sending[q] /\ via'[q] = via[q]
    BY <1>1 DEF WorkerTypeOK
  <2> QED
    BY <2>1 DEF LeavesAlone
<1>5. DispatchesStay
  BY DEF DispatchesStay
<1> QED
  BY <1>2, <1>3, <1>4, <1>5, ProcessKeepsWorker

\* The end of an iteration, when what left the outbox is recorded.
LEMMA IterationEnds ==
  ASSUME WorkerInv, [WorkerNext]_systemVars, NEW p \in Processes, EndIteration(p),
         UNCHANGED <<dispatch, pc, env, saved, executions>>,
         nonces' \subseteq Ops \X Dispatch, outbox' \subseteq outbox,
         \A e \in outbox : e \in outbox' \/ Recorded(e)
  PROVE  WorkerInv'
<1>1. WorkerTypeOK /\ outbox \subseteq Envelope /\ saved' \subseteq Envelope
      /\ executions' \in [Ops -> Nat]
  BY DEF WorkerInv, WorkerTypeOK
<1>2. ExecutionsHold' /\ NothingIsLost'
  <2>1. \A e \in saved' : e \in saved \/ e \in outbox'
    OBVIOUS
  <2> QED
    BY <1>1, <2>1, ExecutionsStay, SavedStays
<1>3. wpc'[p] = "idle"
  BY <1>1 DEF WorkerTypeOK, EndIteration
<1>4. InHand(p)'
  BY <1>3 DEF InHand
<1> QED
  BY <1>1, <1>2, <1>4, LocalStep DEF EndIteration

\* A step that leaves the outbox, what is saved and what is begun.
LEMMA CalmProcess ==
  ASSUME WorkerInv, [WorkerNext]_systemVars, NEW p \in Processes,
         NEW step, NEW t, NEW s,
         wpc' = [wpc EXCEPT ![p] = step], task' = [task EXCEPT ![p] = t],
         sending' = [sending EXCEPT ![p] = s], UNCHANGED via,
         step \in {"idle", "polling", "awaiting", "authorizing", "starting",
                   "executing", "delivering", "waiting", "acknowledging"},
         t \in Ops \cup {NoOp}, s \in Envelope \cup {NoClaim},
         UNCHANGED <<dispatch, pc, env, outbox, history>>,
         nonces' \subseteq Ops \X Dispatch, InHand(p)'
  PROVE  WorkerInv'
<1>1. outbox \subseteq Envelope /\ saved \subseteq Envelope /\ executions \in [Ops -> Nat]
      /\ via \in [Processes -> Handlers \cup {NoHandler}]
  BY DEF WorkerInv, WorkerTypeOK
<1>2. saved' = saved /\ executions' = executions /\ outbox' = outbox
  BY DEF history
<1>3. ExecutionsHold' /\ NothingIsLost'
  BY <1>1, <1>2, ExecutionsStay, SavedStays
<1>4. via' = [via EXCEPT ![p] = via[p]]
  BY <1>1
<1> QED
  BY <1>1, <1>2, <1>3, <1>4, LocalStep

\* The oldest result of the outbox is taken in hand; or there is none.
LEMMA TakingKeeps ==
  ASSUME WorkerInv, NEW p \in Processes, TakePending(p) \/ FindNonePending(p)
  PROVE  WorkerInv'
<1>1. [WorkerNext]_systemVars
  BY DEF WorkerNext, ProcessStep
<1>2. /\ nonces \subseteq Ops \X Dispatch /\ outbox \subseteq Envelope
      /\ wpc \in [Processes -> {"idle", "polling", "awaiting", "authorizing", "starting",
                                "executing", "delivering", "waiting", "acknowledging"}]
      /\ task \in [Processes -> Ops \cup {NoOp}]
      /\ sending \in [Processes -> Envelope \cup {NoClaim}]
  BY DEF WorkerInv, WorkerTypeOK
<1>3. /\ task' = [task EXCEPT ![p] = task[p]] /\ UNCHANGED via
      /\ UNCHANGED <<dispatch, pc, env, nonces, outbox, history>>
  BY <1>2 DEF TakePending, FindNonePending, StepTo, allVars, ingressVars, fileVars
<1>4. CASE TakePending(p)
  <2> PICK e \in outbox : sending' = [sending EXCEPT ![p] = e]
    BY <1>4 DEF TakePending
  <2>1. wpc' = [wpc EXCEPT ![p] = "delivering"]
    BY <1>4 DEF TakePending
  <2>2. wpc'[p] = "delivering" /\ sending'[p] \in Envelope
    BY <1>2, <2>1
  <2>3. InHand(p)'
    BY <2>2 DEF InHand
  <2> QED
    BY <1>1, <1>2, <1>3, <2>1, <2>3, CalmProcess
<1>5. CASE FindNonePending(p)
  <2>1. wpc' = [wpc EXCEPT ![p] = "polling"] /\ sending' = [sending EXCEPT ![p] = sending[p]]
    BY <1>2, <1>5 DEF FindNonePending, StepTo
  <2>2. wpc'[p] = "polling"
    BY <1>2, <2>1
  <2>3. InHand(p)'
    BY <2>2 DEF InHand
  <2> QED
    BY <1>1, <1>2, <1>3, <2>1, <2>3, CalmProcess
<1> QED
  BY <1>4, <1>5

\* The iteration ends without having delivered anything.
LEMMA GivingUpKeeps ==
  ASSUME WorkerInv, NEW p \in Processes,
         PollIdle(p) \/ StartRefused(p) \/ Refused(p) \/ Interrupted(p)
  PROVE  WorkerInv'
<1>1. [WorkerNext]_systemVars
  BY DEF WorkerNext, ProcessStep
<1>2. EndIteration(p) /\ UNCHANGED <<dispatch, pc, env, nonces, outbox, saved, executions>>
  BY DEF PollIdle, PollNothing, StartRefused, Refused, Interrupted, allVars, ingressVars,
         fileVars, history
<1>3. nonces' \subseteq Ops \X Dispatch
  BY <1>2 DEF WorkerInv, WorkerTypeOK
<1> QED
  BY <1>1, <1>2, <1>3, IterationEnds

\* The operation polled for, and the dispatch that arrives for it.
LEMMA PollingKeeps ==
  ASSUME WorkerInv, NEW p \in Processes, (\E o \in Ops : Poll(p, o)) \/ ReceiveTask(p)
  PROVE  WorkerInv'
<1>1. [WorkerNext]_systemVars
  BY DEF WorkerNext, ProcessStep
<1>2. /\ nonces \subseteq Ops \X Dispatch
      /\ wpc \in [Processes -> {"idle", "polling", "awaiting", "authorizing", "starting",
                                "executing", "delivering", "waiting", "acknowledging"}]
      /\ task \in [Processes -> Ops \cup {NoOp}]
      /\ sending \in [Processes -> Envelope \cup {NoClaim}]
  BY DEF WorkerInv, WorkerTypeOK
<1>3. ASSUME NEW o \in Ops, Poll(p, o)
      PROVE  WorkerInv'
  <2>1. /\ wpc' = [wpc EXCEPT ![p] = "awaiting"] /\ task' = [task EXCEPT ![p] = o]
        /\ UNCHANGED <<dispatch, pc, env, nonces, outbox, sending, via, history>>
    BY <1>3 DEF Poll, PollLease, fileVars
  <2>2. sending' = [sending EXCEPT ![p] = sending[p]] /\ sending[p] \in Envelope \cup {NoClaim}
    BY <1>2, <2>1
  <2>3. wpc'[p] = "awaiting" /\ task'[p] = o
    BY <1>2, <2>1
  <2>4. InHand(p)'
    BY <2>3 DEF InHand
  <2> QED
    BY <1>1, <1>2, <2>1, <2>2, <2>4, CalmProcess
<1>4. CASE ReceiveTask(p)
  <2>1. UNCHANGED <<dispatch, pc, env, nonces, outbox, history>> /\ wpc[p] = "awaiting"
    BY <1>4 DEF ReceiveTask, allVars, ingressVars, fileVars
  <2>2. task[p] \in Ops
    BY <2>1 DEF WorkerInv, ProcessesHold, InHand
  <2>3. CASE dispatch[task[p]] = NoDispatch
    <3>1. EndIteration(p)
      BY <1>4, <2>3 DEF ReceiveTask
    <3> QED
      BY <1>1, <1>2, <2>1, <3>1, IterationEnds DEF history
  <2>4. CASE dispatch[task[p]] # NoDispatch
    <3>1. wpc' = [wpc EXCEPT ![p] = "authorizing"] /\ UNCHANGED <<task, sending, via>>
      BY <1>4, <2>4 DEF ReceiveTask, StepTo
    <3>2. /\ task' = [task EXCEPT ![p] = task[p]] /\ task[p] \in Ops \cup {NoOp}
          /\ sending' = [sending EXCEPT ![p] = sending[p]]
          /\ sending[p] \in Envelope \cup {NoClaim}
      BY <1>2, <3>1
    <3>3. wpc'[p] = "authorizing" /\ task'[p] \in Ops /\ dispatch'[task'[p]] # NoDispatch
      BY <1>2, <2>1, <2>2, <2>4, <3>1
    <3>4. InHand(p)'
      BY <3>3 DEF InHand
    <3> QED
      BY <1>1, <1>2, <2>1, <3>1, <3>2, <3>4, CalmProcess
  <2> QED
    BY <2>3, <2>4
<1> QED
  BY <1>3, <1>4

\* A dispatch is authorized by consuming its nonce, or the iteration is over.
LEMMA AuthorizingKeeps ==
  ASSUME WorkerInv, NEW p \in Processes, Authorize(p)
  PROVE  WorkerInv'
<1>1. [WorkerNext]_systemVars
  BY DEF WorkerNext, ProcessStep
<1>2. /\ nonces \subseteq Ops \X Dispatch
      /\ wpc \in [Processes -> {"idle", "polling", "awaiting", "authorizing", "starting",
                                "executing", "delivering", "waiting", "acknowledging"}]
      /\ task \in [Processes -> Ops \cup {NoOp}]
      /\ sending \in [Processes -> Envelope \cup {NoClaim}]
      /\ dispatch \in [Ops -> Dispatch \cup {NoDispatch}]
  BY DEF WorkerInv, WorkerTypeOK, IngressTypeOK
<1>3. /\ wpc[p] = "authorizing"
      /\ UNCHANGED <<dispatch, pc, env, outbox, history>>
  BY DEF Authorize, allVars, ingressVars
<1>4. task[p] \in Ops /\ dispatch[task[p]] # NoDispatch
  BY <1>3 DEF WorkerInv, ProcessesHold, InHand
<1>5. dispatch[task[p]] \in Dispatch
  BY <1>2, <1>4
<1>6. nonces' \subseteq Ops \X Dispatch
  <2> PICK nonce : nonce = <<task[p], dispatch[task[p]]>>
    OBVIOUS
  <2>1. nonce \in Ops \X Dispatch
    BY <1>4, <1>5
  <2>2. nonces' \subseteq nonces \cup {nonce}
    BY DEF Authorize
  <2> QED
    BY <1>2, <2>1, <2>2
<1>7. CASE EndIteration(p)
  BY <1>1, <1>3, <1>6, <1>7, IterationEnds DEF history
<1>8. CASE StepTo(p, "starting")
  <2>1. /\ wpc' = [wpc EXCEPT ![p] = "starting"] /\ UNCHANGED via
        /\ task' = [task EXCEPT ![p] = task[p]] /\ task[p] \in Ops \cup {NoOp}
        /\ sending' = [sending EXCEPT ![p] = sending[p]]
        /\ sending[p] \in Envelope \cup {NoClaim}
    BY <1>2, <1>8 DEF StepTo
  <2>2. wpc'[p] = "starting" /\ task'[p] \in Ops /\ dispatch'[task'[p]] # NoDispatch
    BY <1>2, <1>3, <1>4, <2>1
  <2>3. InHand(p)'
    BY <2>2 DEF InHand
  <2> QED
    BY <1>1, <1>3, <1>6, <2>1, <2>3, CalmProcess
<1>9. EndIteration(p) \/ StepTo(p, "starting")
  BY DEF Authorize
<1> QED
  BY <1>7, <1>8, <1>9

\* The command is begun for an operation that was leased until now: it was never begun
\* before.
LEMMA StartingKeeps ==
  ASSUME WorkerInv, NEW p \in Processes, StartAccepted(p)
  PROVE  WorkerInv'
<1>1. [WorkerNext]_systemVars
  BY DEF WorkerNext, ProcessStep
<1>2. /\ nonces \subseteq Ops \X Dispatch /\ outbox \subseteq Envelope /\ saved \subseteq Envelope
      /\ wpc \in [Processes -> {"idle", "polling", "awaiting", "authorizing", "starting",
                                "executing", "delivering", "waiting", "acknowledging"}]
      /\ task \in [Processes -> Ops \cup {NoOp}]
      /\ sending \in [Processes -> Envelope \cup {NoClaim}]
      /\ via \in [Processes -> Handlers \cup {NoHandler}]
      /\ executions \in [Ops -> Nat]
  BY DEF WorkerInv, WorkerTypeOK
<1>3. /\ wpc[p] = "starting" /\ Start(task[p])
      /\ UNCHANGED <<dispatch, pc, env, nonces, outbox, saved>>
  BY DEF StartAccepted, Start, ingressVars, fileVars
<1>4. task[p] \in Ops
  BY <1>3 DEF WorkerInv, ProcessesHold, InHand
<1>5. CASE EndIteration(p) /\ UNCHANGED executions
  BY <1>1, <1>2, <1>3, <1>5, IterationEnds
<1>6. CASE /\ StepTo(p, "executing")
           /\ executions' = [executions EXCEPT ![task[p]] = @ + 1]
  <2> PICK o \in Ops : o = task[p]
    BY <1>4
  <2>1. /\ wpc' = [wpc EXCEPT ![p] = "executing"] /\ via' = [via EXCEPT ![p] = via[p]]
        /\ task' = [task EXCEPT ![p] = o]
        /\ sending' = [sending EXCEPT ![p] = sending[p]]
        /\ sending[p] \in Envelope \cup {NoClaim}
        /\ executions' = [executions EXCEPT ![o] = executions[o] + 1]
    BY <1>2, <1>6 DEF StepTo
  <2>2. wpc'[p] = "executing" /\ task'[p] \in Ops
    BY <1>2, <2>1
  <2>3. InHand(p)'
    BY <2>2 DEF InHand
  <2>4. /\ state[o] = "LEASED" /\ state' = [state EXCEPT ![o] = "RUNNING"]
        /\ UNCHANGED request
    <3>1. TypeOK'
      BY <1>1, WorkerStepsIngress, IngressInductive DEF WorkerInv, IngressInv, IngressTypeOK
    <3> QED
      BY <1>3, <3>1, StartKeepsIngress DEF WorkerInv
  <2>5. state \in [Ops -> OperationState \cup {"ABSENT"}] /\ ExecutionsHold
    BY DEF WorkerInv, IngressInv, IngressTypeOK, TypeOK
  <2>6. ExecutionsHold'
    <3>1. executions[o] = 0
      BY <2>4, <2>5 DEF ExecutionsHold
    <3>2. executions'[o] = 1 /\ state'[o] = "RUNNING"
      BY <1>2, <2>1, <2>4, <2>5, <3>1
    <3>3. \A q \in Ops \ {o} : executions'[q] = executions[q] /\ state'[q] = state[q]
      BY <1>2, <2>1, <2>4, <2>5
    <3> QED
      BY <2>4, <2>5, <3>2, <3>3 DEF ExecutionsHold
  <2>7. NothingIsLost'
    BY <1>1, <1>2, <1>3, SavedStays
  <2>8. executions' \in [Ops -> Nat]
    BY <1>2, <2>1
  <2> QED
    BY <1>1, <1>2, <1>3, <2>1, <2>3, <2>6, <2>7, <2>8, LocalStep
<1>7. \/ EndIteration(p) /\ UNCHANGED executions
      \/ StepTo(p, "executing") /\ executions' = [executions EXCEPT ![task[p]] = @ + 1]
  BY DEF StartAccepted
<1> QED
  BY <1>5, <1>6, <1>7

\* The signed result is in the outbox before anybody hears of it.
LEMMA ExecutingKeeps ==
  ASSUME WorkerInv, NEW p \in Processes, NEW c \in Outcomes, Execute(p, c)
  PROVE  WorkerInv'
<1>1. [WorkerNext]_systemVars
  BY DEF WorkerNext, ProcessStep
<1>2. /\ nonces \subseteq Ops \X Dispatch /\ outbox \subseteq Envelope /\ saved \subseteq Envelope
      /\ wpc \in [Processes -> {"idle", "polling", "awaiting", "authorizing", "starting",
                                "executing", "delivering", "waiting", "acknowledging"}]
      /\ task \in [Processes -> Ops \cup {NoOp}]
      /\ sending \in [Processes -> Envelope \cup {NoClaim}]
      /\ via \in [Processes -> Handlers \cup {NoHandler}]
      /\ executions \in [Ops -> Nat] /\ now \in Time
  BY DEF WorkerInv, WorkerTypeOK, IngressTypeOK, TypeOK
<1>3. wpc[p] = "executing"
  BY DEF Execute
<1>4. task[p] \in Ops
  BY <1>3 DEF WorkerInv, ProcessesHold, InHand
<1> PICK e : e = [op |-> task[p], outcome |-> c, completed |-> now]
  OBVIOUS
<1>5. e \in Envelope
  BY <1>2, <1>4 DEF Envelope
<1>6. /\ outbox' = outbox \cup {e} /\ saved' = saved \cup {e}
      /\ sending' = [sending EXCEPT ![p] = e] /\ wpc' = [wpc EXCEPT ![p] = "delivering"]
      /\ UNCHANGED <<dispatch, pc, env, nonces, task, via, executions>>
  BY DEF Execute, SavePending, allVars, ingressVars
<1>7. task' = [task EXCEPT ![p] = task[p]] /\ via' = [via EXCEPT ![p] = via[p]]
  BY <1>2, <1>6
<1>8. wpc'[p] = "delivering" /\ sending'[p] \in Envelope
  BY <1>2, <1>5, <1>6
<1>9. InHand(p)'
  BY <1>8 DEF InHand
<1>10. ExecutionsHold'
  BY <1>1, <1>6, ExecutionsStay
<1>11. NothingIsLost'
  BY <1>1, <1>2, <1>5, <1>6, SavedStays
<1>12. /\ nonces' \subseteq Ops \X Dispatch /\ outbox' \subseteq Envelope
       /\ saved' \subseteq Envelope /\ executions' \in [Ops -> Nat]
       /\ task[p] \in Ops \cup {NoOp} /\ e \in Envelope \cup {NoClaim}
       /\ UNCHANGED <<dispatch, pc, env>>
  BY <1>2, <1>4, <1>5, <1>6
<1>13. sending' = [sending EXCEPT ![p] = e] /\ wpc' = [wpc EXCEPT ![p] = "delivering"]
  BY <1>6
<1> QED
  BY <1>1, <1>7, <1>9, <1>10, <1>11, <1>12, <1>13, LocalStep

\* The request reaches a handler that serves no other process.
LEMMA DeliveringKeeps ==
  ASSUME WorkerInv, NEW p \in Processes, NEW h \in Handlers, Deliver(p, h)
  PROVE  WorkerInv'
<1>1. [WorkerNext]_systemVars
  BY DEF WorkerNext, ProcessStep
<1>2. /\ nonces \subseteq Ops \X Dispatch /\ outbox \subseteq Envelope /\ saved \subseteq Envelope
      /\ wpc \in [Processes -> {"idle", "polling", "awaiting", "authorizing", "starting",
                                "executing", "delivering", "waiting", "acknowledging"}]
      /\ task \in [Processes -> Ops \cup {NoOp}]
      /\ sending \in [Processes -> Envelope \cup {NoClaim}]
      /\ via \in [Processes -> Handlers \cup {NoHandler}]
      /\ executions \in [Ops -> Nat]
  BY DEF WorkerInv, WorkerTypeOK
<1>3. pc \in [Handlers -> {"idle"} \cup Working \cup Answered]
      /\ env \in [Handlers -> Envelope \cup {NoClaim}]
  BY DEF WorkerInv, IngressInv, IngressTypeOK
<1>4. /\ wpc[p] = "delivering" /\ \A q \in Processes : via[q] # h
      /\ wpc' = [wpc EXCEPT ![p] = "waiting"] /\ via' = [via EXCEPT ![p] = h]
      /\ UNCHANGED <<nonces, outbox, task, sending, executions, saved>>
  BY DEF Deliver, fileVars, history
<1>5. /\ pc' = [pc EXCEPT ![h] = "classify"] /\ env' = [env EXCEPT ![h] = sending[p]]
      /\ dispatch' = dispatch
  BY DEF Deliver, Submit
<1>6. sending[p] \in Envelope
  BY <1>4 DEF WorkerInv, ProcessesHold, InHand
<1>7. wpc'[p] = "waiting" /\ via'[p] = h /\ sending'[p] \in Envelope /\ env'[h] = sending'[p]
  BY <1>2, <1>3, <1>4, <1>5, <1>6
<1>8. InHand(p)'
  BY <1>7 DEF InHand
<1>9. ViaIsOwn'
  BY <1>2, <1>4 DEF WorkerInv, ProcessesHold, ViaIsOwn
<1>10. WorkerTypes'
  BY <1>2, <1>4 DEF WorkerTypes
<1>11. ExecutionsHold' /\ NothingIsLost'
  BY <1>1, <1>2, <1>4, ExecutionsStay, SavedStays
<1>12. DispatchesStay
  BY <1>5 DEF DispatchesStay
<1>13. ASSUME NEW q \in Processes \ {p}
       PROVE  LeavesAlone(q)
  <2>1. wpc'[q] = wpc[q] /\ task'[q] = task[q] /\ sending'[q] = sending[q] /\ via'[q] = via[q]
    BY <1>2, <1>4
  <2>2. wpc[q] = "waiting" => via[q] \in Handlers /\ via[q] # h
    BY <1>4 DEF WorkerInv, ProcessesHold, InHand
  <2>3. wpc[q] = "waiting" => pc'[via[q]] = pc[via[q]] /\ env'[via[q]] = env[via[q]]
    BY <1>3, <1>5, <2>2
  <2> QED
    BY <2>1, <2>3 DEF LeavesAlone
<1> QED
  BY <1>1, <1>8, <1>9, <1>10, <1>11, <1>12, <1>13, ProcessKeepsWorker

\* An acknowledgement says that this process's result is recorded, and only then is the
\* row deleted.
LEMMA AcknowledgingKeeps ==
  ASSUME WorkerInv, NEW p \in Processes, Acknowledged(p) \/ DeletePending(p)
  PROVE  WorkerInv'
<1>1. [WorkerNext]_systemVars
  BY DEF WorkerNext, ProcessStep
<1>2. /\ nonces \subseteq Ops \X Dispatch
      /\ wpc \in [Processes -> {"idle", "polling", "awaiting", "authorizing", "starting",
                                "executing", "delivering", "waiting", "acknowledging"}]
      /\ task \in [Processes -> Ops \cup {NoOp}]
      /\ sending \in [Processes -> Envelope \cup {NoClaim}]
  BY DEF WorkerInv, WorkerTypeOK
<1>3. CASE Acknowledged(p)
  <2>1. /\ wpc[p] = "waiting" /\ pc[via[p]] = "acked"
        /\ wpc' = [wpc EXCEPT ![p] = "acknowledging"] /\ UNCHANGED <<task, sending, via>>
        /\ UNCHANGED <<dispatch, pc, env, nonces, outbox, history, state, request, result>>
    BY <1>3 DEF Acknowledged, StepTo, allVars, vars, opsVars, ingressVars, fileVars
  <2>2. via[p] \in Handlers /\ env[via[p]] = sending[p] /\ sending[p] \in Envelope
    BY <2>1 DEF WorkerInv, ProcessesHold, InHand
  <2>3. Recorded(sending[p])
    <3>1. Recorded(env[via[p]])
      BY <2>1, <2>2 DEF WorkerInv, IngressInv, ClaimsHold
    <3> QED
      BY <2>2, <3>1
  <2>4. (Recorded(sending[p]))'
    BY <2>1, <2>3 DEF Recorded, Target, Recording
  <2>5. wpc'[p] = "acknowledging" /\ sending'[p] \in Envelope
    BY <1>2, <2>1, <2>2
  <2>6. InHand(p)'
    BY <2>4, <2>5 DEF InHand
  <2>7. /\ task' = [task EXCEPT ![p] = task[p]] /\ task[p] \in Ops \cup {NoOp}
        /\ sending' = [sending EXCEPT ![p] = sending[p]]
        /\ sending[p] \in Envelope \cup {NoClaim} /\ nonces' \subseteq Ops \X Dispatch
    BY <1>2, <2>1
  <2> QED
    BY <1>1, <2>1, <2>6, <2>7, CalmProcess
<1>4. CASE DeletePending(p)
  <2>1. /\ wpc[p] = "acknowledging" /\ outbox' = outbox \ {sending[p]} /\ EndIteration(p)
        /\ UNCHANGED <<dispatch, pc, env, nonces, executions, saved>>
    BY <1>4 DEF DeletePending, allVars, ingressVars, history
  <2>2. Recorded(sending[p])
    BY <2>1 DEF WorkerInv, ProcessesHold, InHand
  <2>3. \A e \in outbox : e \in outbox' \/ Recorded(e)
    BY <2>1, <2>2
  <2> QED
    BY <1>1, <1>2, <2>1, <2>3, IterationEnds
<1> QED
  BY <1>3, <1>4

\* Every step of the worker's system.
LEMMA WorkerInductive ==
  ASSUME WorkerInv, [WorkerNext]_systemVars
  PROVE  WorkerInv'
<1>1. ASSUME NEW p \in Processes, ProcessStep(p)
      PROVE  WorkerInv'
  BY <1>1, TakingKeeps, GivingUpKeeps, PollingKeeps, AuthorizingKeeps, StartingKeeps,
     ExecutingKeeps, DeliveringKeeps, AcknowledgingKeeps DEF ProcessStep
<1>2. ASSUME NEW p \in Processes, Interrupted(p)
      PROVE  WorkerInv'
  BY <1>2, GivingUpKeeps
<1> QED
  BY <1>1, <1>2, GatewayKeepsWorker DEF WorkerNext

\* No process has begun anything, and nothing has been saved.
LEMMA WorkerStarts == WorkerInit => WorkerInv
<1> SUFFICES ASSUME WorkerInit
             PROVE  WorkerInv
  OBVIOUS
<1>1. IngressInv
  BY IngressStarts DEF WorkerInit
<1>2. WorkerTypeOK
  BY <1>1 DEF WorkerInit, WorkerTypeOK, IngressInv
<1>3. ProcessesHold
  BY DEF WorkerInit, ProcessesHold, InHand, ViaIsOwn
<1>4. ExecutionsHold /\ NothingIsLost
  BY DEF WorkerInit, ExecutionsHold, NothingIsLost
<1> QED
  BY <1>1, <1>2, <1>3, <1>4 DEF WorkerInv

\* Whatever is lost, dies or is repeated between the worker's file and the gateway's
\* tables, the two agree (WorkerRunner.run_once, WorkerStateStore, GatewayWorkerIngress).
THEOREM WorkerKeepsItsBooks == WorkerSpec => []WorkerInv
<1> QED
  BY WorkerInductive, WorkerStarts, PTL DEF WorkerSpec

\* The command of an operation is begun at most once, however many processes poll and
\* whatever they forget (WorkerRunner.run_once, start_operation).
THEOREM CommandsRunAtMostOnce == WorkerSpec => []ExecutesAtMostOnce
<1>1. WorkerInv => ExecutesAtMostOnce
  BY DEF WorkerInv, ExecutionsHold, ExecutesAtMostOnce
<1> QED
  BY <1>1, WorkerKeepsItsBooks, PTL

\* A saved result waits in the outbox until the gateway has recorded it
\* (save_pending_result, acknowledge_pending_result).
THEOREM NoResultIsEverLost == WorkerSpec => []NothingIsLost
<1>1. WorkerInv => NothingIsLost
  BY DEF WorkerInv
<1> QED
  BY <1>1, WorkerKeepsItsBooks, PTL

\* A write whose command was begun never just expires (_refresh_locked): it ends as it
\* was reported or is left to a person.
THEOREM InterruptedWritesAreFlagged == WorkerSpec => []InterruptedWriteIsFlagged
<1>1. WorkerInv => InterruptedWriteIsFlagged
  BY DEF WorkerInv, ExecutionsHold, InterruptedWriteIsFlagged
<1> QED
  BY <1>1, WorkerKeepsItsBooks, PTL

\* The worker reaches the gateway through its endpoints only: what is proved of them,
\* and of the queue behind them, holds of the whole system.
THEOREM WorkerImplementsIngress == WorkerSpec => IngressSpec
<1>1. WorkerInit => IngressInit
  BY DEF WorkerInit
<1>2. WorkerInv /\ [WorkerNext]_systemVars => [IngressNext]_allVars
  BY WorkerStepsIngress
<1> QED
  BY <1>1, <1>2, WorkerKeepsItsBooks, PTL DEF WorkerSpec, IngressSpec
===============================================================================
