--------------------------- MODULE WorkerCredentials ---------------------------
(***************************************************************************)
(* How the gateway lets in a request of a workstation: the signed proof in  *)
(* its headers (worker_http_protocol.py), WorkerRequestAuthenticator, the  *)
(* verification keys, the one-use nonces and the presence row of the        *)
(* workstation.  Each call of the repository is a transaction of its own,  *)
(* so an operator may revoke a key or disable the workstation between any  *)
(* two of them.  A request may arrive late, again, at another gateway       *)
(* process, at another path or with its body cut.  What a request does once *)
(* it is let in is in ResultIngress and RemoteWorker.                       *)
(***************************************************************************)
EXTENDS Integers, Sequences

CONSTANTS
  VerificationKeys,   \* the keys registered for the workstation
  Nonces,             \* one per request that the worker sends
  Servers,            \* threads of the gateway that serve worker requests
  ProofAge,           \* how old a proof may be (one minute)
  FutureSkew,         \* how far ahead its clock may be (thirty seconds)
  PresenceSeconds,
  Skews,              \* what the clocks of gateway and worker differ by
  KeyLife,            \* when the keys expire
  LastInstant         \* bound: the last instant of the run

ASSUME ClockType == /\ LastInstant \in Nat /\ KeyLife \in Nat
                    /\ ProofAge \in Nat /\ FutureSkew \in Nat /\ PresenceSeconds \in Nat
                    /\ Skews \subseteq Int

WorkerRoutes == {"start", "complete"}
Instants == 0..LastInstant
Never == LastInstant + 1

VARIABLES
  dbTime,         \* the clock of the database
  skew,           \* what the gateway's clock shows beyond it
  verification,   \* worker_verification_keys: enabled, expires_at and revoked_at
  enabledStation, \* workstations.enabled
  sent,           \* the requests that the worker has sent
  spent,          \* worker_request_nonces: the nonces consumed
  presence,       \* last_seen_at and presence_expires_at of the workstation
  server,         \* per thread, the request it serves and how far it has come
  servings        \* what was let in: the request, when it was consumed and seen

credentialVars ==
  <<dbTime, skew, verification, enabledStation, sent, spent, presence, server, servings>>
deviceVars == <<dbTime, skew, verification, enabledStation, sent>>

Idle == [at |-> "idle"]

CredentialsInit ==
  /\ dbTime = 0
  /\ skew \in Skews
  /\ verification = [k \in VerificationKeys |->
       [enabled |-> TRUE, expires |-> KeyLife, revoked |-> Never]]
  /\ enabledStation = TRUE
  /\ sent = {}
  /\ spent = {}
  /\ presence = [seen |-> Never, until |-> 0]
  /\ server = [s \in Servers |-> Idle]
  /\ servings = <<>>

-----------------------------------------------------------------------------
\* What operators and the clock may do at any time.
PassTime ==
  /\ dbTime < LastInstant /\ dbTime' = dbTime + 1
  /\ UNCHANGED <<skew, verification, enabledStation, sent, spent, presence, server, servings>>

\* revoked_at is set once: the trigger refuses to change or clear it.
Revoke(k) ==
  /\ verification[k].revoked = Never
  /\ verification' = [verification EXCEPT ![k].revoked = dbTime]
  /\ UNCHANGED <<dbTime, skew, enabledStation, sent, spent, presence, server, servings>>

SwitchKey(k) ==
  /\ verification' = [verification EXCEPT ![k].enabled = ~ @]
  /\ UNCHANGED <<dbTime, skew, enabledStation, sent, spent, presence, server, servings>>

SwitchStation ==
  /\ enabledStation' = ~ enabledStation
  /\ UNCHANGED <<dbTime, skew, verification, sent, spent, presence, server, servings>>

\* _send: build_request_proof signs the route, the body's hash, the worker's
\* clock and a new nonce with the configured key.  A completion carries a result
\* that was signed when the task ended, with the key of that time.
Send(k, n, route, behind, sealed) ==
  /\ \A p \in sent : p.nonce # n
  /\ dbTime + behind \in Instants
  /\ route = "start" => sealed = k
  /\ sent' = sent \cup {[key |-> k, nonce |-> n, route |-> route, body |-> "whole",
                         issued |-> dbTime + behind, sealed |-> sealed]}
  /\ UNCHANGED <<dbTime, skew, verification, enabledStation, spent, presence, server, servings>>

-----------------------------------------------------------------------------
KeyActive(k) ==
  /\ enabledStation /\ verification[k].enabled
  /\ verification[k].revoked = Never
  /\ dbTime < verification[k].expires

GoOn(s, at) == server' = [server EXCEPT ![s].at = at] /\ UNCHANGED servings
Refuse(s) == server' = [server EXCEPT ![s] = Idle] /\ UNCHANGED servings
Reached(s, at) == server[s].at = at

\* _handle: the headers and the boundary are checked and the body is read; what
\* arrives is a request that was sent, at some path and perhaps cut short.
Arrive(s, p, route, body) ==
  /\ Reached(s, "idle")
  /\ server' = [server EXCEPT ![s] =
       [at |-> "proof", proof |-> p, route |-> route, body |-> body,
        consumed |-> Never, seen |-> Never]]
  /\ UNCHANGED <<deviceVars, spent, presence, servings>>

\* authenticate: the window of the gateway's own clock and the body's hash.
CheckProof(s) ==
  LET p == server[s].proof
      clock == dbTime + skew
  IN  /\ Reached(s, "proof")
      /\ IF /\ p.issued <= clock + FutureSkew /\ clock - p.issued <= ProofAge
            /\ p.body = server[s].body
           THEN GoOn(s, "key") ELSE Refuse(s)
      /\ UNCHANGED <<deviceVars, spent, presence>>

\* resolve_public_key: the key of an enabled workstation that is active now.
ResolveKey(s) ==
  /\ Reached(s, "key")
  /\ IF KeyActive(server[s].proof.key) THEN GoOn(s, "signature") ELSE Refuse(s)
  /\ UNCHANGED <<deviceVars, spent, presence>>

\* The signature covers the route that the request was made for.
VerifySignature(s) ==
  /\ Reached(s, "signature")
  /\ IF server[s].proof.route = server[s].route THEN GoOn(s, "nonce") ELSE Refuse(s)
  /\ UNCHANGED <<deviceVars, spent, presence>>

\* consume_worker_request_nonce, at the database's time and under the locks of
\* the key and the workstation.
Consumable(p) ==
  /\ KeyActive(p.key)
  /\ p.issued < verification[p.key].expires
  /\ p.issued >= dbTime - ProofAge /\ p.issued <= dbTime + FutureSkew

\* A seeded fault: a conflict on the primary key passes for an insertion.
ConsumeNonceAgain(s) ==
  LET p == server[s].proof
  IN  /\ Reached(s, "nonce")
      /\ IF Consumable(p)
           THEN /\ spent' = spent \cup {p.nonce}
                /\ server' = [server EXCEPT ![s].at = "presence", ![s].consumed = dbTime]
                /\ UNCHANGED servings
           ELSE Refuse(s) /\ UNCHANGED spent
      /\ UNCHANGED <<deviceVars, presence>>

ConsumeNonce(s) ==
  LET p == server[s].proof
  IN  /\ Reached(s, "nonce")
      /\ IF Consumable(p) /\ p.nonce \notin spent
           THEN /\ spent' = spent \cup {p.nonce}
                /\ server' = [server EXCEPT ![s].at = "presence", ![s].consumed = dbTime]
                /\ UNCHANGED servings
           ELSE Refuse(s) /\ UNCHANGED spent
      /\ UNCHANGED <<deviceVars, presence>>

\* record_worker_presence, after the body was parsed and names the same worker.
RecordPresence(s) ==
  /\ Reached(s, "presence")
  /\ IF KeyActive(server[s].proof.key)
       THEN /\ presence' = [seen |-> dbTime, until |-> dbTime + PresenceSeconds]
            /\ server' = [server EXCEPT ![s].at = "serve", ![s].seen = dbTime]
            /\ UNCHANGED servings
       ELSE Refuse(s) /\ UNCHANGED presence
  /\ UNCHANGED <<deviceVars, spent>>

\* resolve_verification_keys: a result is accepted under any key active now.
SealHolds(p) == p.route # "complete" \/ KeyActive(p.sealed)

\* The request is carried out, or a completion is refused for its signature.
Serve(s) ==
  /\ Reached(s, "serve")
  /\ server' = [server EXCEPT ![s] = Idle]
  /\ servings' = IF SealHolds(server[s].proof)
                   THEN Append(servings, server[s]) ELSE servings
  /\ UNCHANGED <<deviceVars, spent, presence>>

\* The database or the process fails between two transactions: 503.
Break(s) == ~ Reached(s, "idle") /\ Refuse(s) /\ UNCHANGED <<deviceVars, spent, presence>>

CredentialsNext ==
  \/ PassTime \/ SwitchStation
  \/ \E k \in VerificationKeys : Revoke(k) \/ SwitchKey(k)
  \/ \E k, sealed \in VerificationKeys, n \in Nonces, route \in WorkerRoutes, behind \in Skews :
       Send(k, n, route, behind, sealed)
  \/ \E s \in Servers, p \in sent, route \in WorkerRoutes, body \in {"whole", "cut"} :
       Arrive(s, p, route, body)
  \/ \E s \in Servers :
       \/ CheckProof(s) \/ ResolveKey(s) \/ VerifySignature(s) \/ ConsumeNonce(s)
       \/ RecordPresence(s) \/ Serve(s) \/ Break(s)

CredentialsSpec == CredentialsInit /\ [][CredentialsNext]_credentialVars

-----------------------------------------------------------------------------
Proof == [key : VerificationKeys, nonce : Nonces, route : WorkerRoutes, body : {"whole"},
          issued : Instants, sealed : VerificationKeys]

\* The types of the gateway's and the database's state.
CredentialsTypeOK ==
  /\ dbTime \in Instants /\ skew \in Skews /\ enabledStation \in BOOLEAN
  /\ verification \in [VerificationKeys ->
       [enabled : BOOLEAN, expires : {KeyLife}, revoked : Instants \cup {Never}]]
  /\ sent \subseteq Proof /\ spent \subseteq {p.nonce : p \in sent}
  /\ presence.seen \in Instants \cup {Never}
  /\ \A s \in Servers : server[s] = Idle \/ server[s].proof \in sent

\* The instant of a deed lies in the life of the key and not after its revocation.
InLifeOf(k, instant) == instant <= verification[k].revoked /\ instant < verification[k].expires

\* A request is let in at most once, however often and wherever it arrives, and
\* only as it was signed; when its nonce was consumed and when its worker was
\* seen, its key had been neither revoked nor expired and, by the database's
\* clock, its proof was fresh, whatever the clocks of gateway and worker show;
\* and the workstation is only shown online for a request that came that far.
ServedIsProven ==
  /\ \A i, j \in DOMAIN servings : servings[i].proof.nonce = servings[j].proof.nonce => i = j
  /\ \A i \in DOMAIN servings :
       LET v == servings[i]
           p == v.proof
       IN  /\ v.route = p.route /\ v.body = p.body
           /\ p.issued \in (v.consumed - ProofAge)..(v.consumed + FutureSkew)
           /\ InLifeOf(p.key, v.consumed) /\ InLifeOf(p.key, v.seen)
  /\ presence.seen # Never => \E p \in sent : p.nonce \in spent /\ InLifeOf(p.key, presence.seen)
=============================================================================
