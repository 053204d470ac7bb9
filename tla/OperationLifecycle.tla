-------------------------- MODULE OperationLifecycle --------------------------
(* What a gateway repository promises about operations, whatever stores them: *)
(* an idempotency key names one operation for good, a workstation is occupied *)
(* by one operation at a time, an operation only moves forward and what it    *)
(* ended with is never changed.                                               *)
EXTENDS TLAPS

CONSTANTS Operations, Stations, IdempotencyKeys, Nobody

VARIABLES
  named,     \* the operation that each idempotency key names
  phase,     \* "absent", "waiting", "held", "running" or "ended"
  holders,   \* the operations that occupy each workstation: at most one
  ending     \* what each operation ended with

lifecycleVars == <<named, phase, holders, ending>>

LifecycleInit ==
  /\ named = [k \in IdempotencyKeys |-> Nobody]
  /\ phase = [o \in Operations |-> "absent"]
  /\ holders = [w \in Stations |-> {}]
  /\ ending = [o \in Operations |-> Nobody]

Admit(k, o) ==
  /\ named[k] = Nobody /\ phase[o] = "absent"
  /\ named' = [named EXCEPT ![k] = o]
  /\ phase' = [phase EXCEPT ![o] = "waiting"]
  /\ UNCHANGED <<holders, ending>>

\* Some operations end, and some that wait are given to a workstation that no
\* other occupies any more.
Settle ==
  LET ended == {o \in Operations : phase[o] # "ended" /\ phase'[o] = "ended"}
      given == {o \in Operations : phase[o] # "held" /\ phase'[o] = "held"}
  IN  /\ DOMAIN phase' = Operations /\ DOMAIN holders' = Stations /\ DOMAIN ending' = Operations
      /\ \A o \in ended : phase[o] \in {"waiting", "held", "running"} /\ ending'[o] # Nobody
      /\ \A o \in given : /\ phase[o] = "waiting"
                         /\ \E w \in Stations : \A v \in Stations : o \in holders'[v] <=> v = w
      /\ \A o \in Operations \ (ended \cup given) : phase'[o] = phase[o]
      /\ \A o \in Operations \ ended : ending'[o] = ending[o]
      /\ \A w \in Stations :
           \/ holders'[w] = holders[w] \ ended
           \/ holders[w] \subseteq ended /\ \E o \in given : holders'[w] = {o}
      /\ UNCHANGED named

Begun(o) ==
  /\ phase[o] = "held"
  /\ phase' = [phase EXCEPT ![o] = "running"]
  /\ UNCHANGED <<named, holders, ending>>

LifecycleNext ==
  \/ Settle
  \/ \E o \in Operations : Begun(o)
  \/ \E k \in IdempotencyKeys, o \in Operations : Admit(k, o)

LifecycleSpec == LifecycleInit /\ [][LifecycleNext]_lifecycleVars

-----------------------------------------------------------------------------
\* A key names one operation, and an operation has one key.
NamesApart ==
  /\ \A k \in IdempotencyKeys : named[k] # Nobody => /\ named[k] \in Operations
                                                     /\ phase[named[k]] # "absent"
  /\ \A k, l \in IdempotencyKeys : named[k] = named[l] /\ named[k] # Nobody => k = l

\* An operation occupies one workstation from when it is given to it until it ends, and
\* no other occupies the same one; it has an outcome exactly when it has ended.
OneOccupant ==
  /\ \A w \in Stations : holders[w] \subseteq Operations /\ \A o, p \in holders[w] : o = p
  /\ \A o \in Operations :
       /\ phase[o] \in {"held", "running"} <=> \E w \in Stations : o \in holders[w]
       /\ \A v, w \in Stations : o \in holders[v] /\ o \in holders[w] => v = w
       /\ ending[o] # Nobody <=> phase[o] = "ended"

\* What a step may never do: give a key away, take an operation back, move it to another
\* workstation, start what no workstation holds, or rewrite an outcome.
NothingTakenBack ==
  /\ \A k \in IdempotencyKeys : named[k] # Nobody => named'[k] = named[k]
  /\ \A o \in Operations :
       /\ phase[o] # "absent" => phase'[o] # "absent"
       /\ phase[o] \in {"held", "running"} => phase'[o] # "waiting"
       /\ phase[o] = "running" => phase'[o] # "held"
       /\ phase[o] = "ended" => phase'[o] = "ended" /\ ending'[o] = ending[o]
       /\ phase'[o] = "running" => phase[o] \in {"held", "running"}
       /\ \A w \in Stations : o \in holders[w] /\ phase'[o] # "ended" => o \in holders'[w]

LifecycleInv ==
  /\ DOMAIN phase = Operations /\ DOMAIN holders = Stations /\ DOMAIN ending = Operations
  /\ named \in [IdempotencyKeys -> Operations \cup {Nobody}]
  /\ \A o \in Operations : phase[o] \in {"absent", "waiting", "held", "running", "ended"}
  /\ NamesApart /\ OneOccupant


-----------------------------------------------------------------------------
\* The invariant of the abstract life holds initially.
LEMMA LifecycleStarts == LifecycleInit => LifecycleInv
BY DEF LifecycleInit, LifecycleInv, NamesApart, OneOccupant

\* An admission keeps the promises: the key was free, and the operation had no key.
LEMMA AdmitKeeps ==
  ASSUME LifecycleInv, NEW k \in IdempotencyKeys, NEW o \in Operations, Admit(k, o)
  PROVE  LifecycleInv' /\ NothingTakenBack
<1>1. /\ named[k] = Nobody /\ phase[o] = "absent" /\ holders' = holders /\ ending' = ending
      /\ named' = [named EXCEPT ![k] = o] /\ phase' = [phase EXCEPT ![o] = "waiting"]
  BY DEF Admit
<1>2. /\ DOMAIN phase' = Operations /\ phase'[o] = "waiting"
      /\ \A p \in Operations \ {o} : phase'[p] = phase[p]
  BY <1>1 DEF LifecycleInv
<1>3. /\ named' \in [IdempotencyKeys -> Operations \cup {Nobody}] /\ named'[k] = o
      /\ \A l \in IdempotencyKeys \ {k} : named'[l] = named[l]
  BY <1>1 DEF LifecycleInv
<1>4. NamesApart'
  BY <1>1, <1>2, <1>3 DEF LifecycleInv, NamesApart
<1>5. OneOccupant'
  BY <1>1, <1>2 DEF LifecycleInv, OneOccupant
<1>6. NothingTakenBack
  BY <1>1, <1>2, <1>3 DEF LifecycleInv, NothingTakenBack
<1> QED
  BY <1>1, <1>2, <1>3, <1>4, <1>5, <1>6 DEF LifecycleInv

\* A start keeps the promises: the operation stays where it was held.
LEMMA BegunKeepsPromises ==
  ASSUME LifecycleInv, NEW o \in Operations, Begun(o)
  PROVE  LifecycleInv' /\ NothingTakenBack
<1>1. /\ phase[o] = "held" /\ phase' = [phase EXCEPT ![o] = "running"]
      /\ named' = named /\ holders' = holders /\ ending' = ending
  BY DEF Begun
<1>2. /\ DOMAIN phase' = Operations /\ phase'[o] = "running"
      /\ \A p \in Operations \ {o} : phase'[p] = phase[p]
  BY <1>1 DEF LifecycleInv
<1>3. NamesApart'
  BY <1>1, <1>2 DEF LifecycleInv, NamesApart
<1>4. OneOccupant'
  BY <1>1, <1>2 DEF LifecycleInv, OneOccupant
<1>5. NothingTakenBack
  BY <1>1, <1>2 DEF LifecycleInv, NothingTakenBack
<1> QED
  BY <1>1, <1>2, <1>3, <1>4, <1>5 DEF LifecycleInv

\* Endings and leases keep the promises: a workstation is given away only when all that
\* occupied it have ended.
LEMMA SettleKeeps ==
  ASSUME LifecycleInv, Settle
  PROVE  LifecycleInv' /\ NothingTakenBack
<1> DEFINE ended == {o \in Operations : phase[o] # "ended" /\ phase'[o] = "ended"}
           given == {o \in Operations : phase[o] # "held" /\ phase'[o] = "held"}
<1>1. /\ DOMAIN phase' = Operations /\ DOMAIN holders' = Stations /\ DOMAIN ending' = Operations
      /\ named' = named
      /\ \A o \in ended : phase[o] \in {"waiting", "held", "running"} /\ ending'[o] # Nobody
      /\ \A o \in given : /\ phase[o] = "waiting"
                          /\ \E w \in Stations : \A v \in Stations : o \in holders'[v] <=> v = w
      /\ \A o \in Operations \ (ended \cup given) : phase'[o] = phase[o]
      /\ \A o \in Operations \ ended : ending'[o] = ending[o]
      /\ \A w \in Stations :
           \/ holders'[w] = holders[w] \ ended
           \/ holders[w] \subseteq ended /\ \E o \in given : holders'[w] = {o}
  BY DEF Settle
<1>2. \A o \in ended : o \in Operations /\ phase[o] # "ended" /\ phase'[o] = "ended"
  OBVIOUS
<1>3. \A o \in given : o \in Operations /\ o \notin ended /\ phase'[o] = "held"
  OBVIOUS
<1> HIDE DEF ended, given
<1>4. \A o \in Operations : \/ o \in ended
                            \/ o \in given
                            \/ o \notin ended /\ phase'[o] = phase[o]
  BY <1>1
<1>5. \A o \in Operations : phase[o] \in {"absent", "waiting", "held", "running", "ended"}
  BY DEF LifecycleInv
<1>6. \A o \in Operations : phase'[o] \in {"absent", "waiting", "held", "running", "ended"}
  BY <1>2, <1>3, <1>4, <1>5
<1>7. NamesApart'
  BY <1>1, <1>2, <1>3, <1>4 DEF LifecycleInv, NamesApart
<1>8. ASSUME NEW w \in Stations
      PROVE  /\ holders'[w] \subseteq Operations /\ \A o, p \in holders'[w] : o = p
             /\ \A o \in Operations \ given : o \in holders'[w] <=> o \in holders[w] /\ o \notin ended
  <2>1. holders[w] \subseteq Operations /\ \A o, p \in holders[w] : o = p
    BY DEF LifecycleInv, OneOccupant
  <2>2. CASE holders'[w] = holders[w] \ ended
    BY <2>1, <2>2
  <2>3. ASSUME holders[w] \subseteq ended, NEW o \in given, holders'[w] = {o}
        PROVE  /\ holders'[w] \subseteq Operations /\ \A u, p \in holders'[w] : u = p
               /\ \A u \in Operations \ given :
                    u \in holders'[w] <=> u \in holders[w] /\ u \notin ended
    BY <1>3, <2>3
  <2> QED
    BY <1>1, <2>2, <2>3
<1>9. ASSUME NEW o \in Operations
      PROVE  /\ phase'[o] \in {"held", "running"} <=> \E w \in Stations : o \in holders'[w]
             /\ \A v, w \in Stations : o \in holders'[v] /\ o \in holders'[w] => v = w
             /\ ending'[o] # Nobody <=> phase'[o] = "ended"
  <2>1. /\ phase[o] \in {"held", "running"} <=> \E w \in Stations : o \in holders[w]
        /\ \A v, w \in Stations : o \in holders[v] /\ o \in holders[w] => v = w
        /\ ending[o] # Nobody <=> phase[o] = "ended"
    BY DEF LifecycleInv, OneOccupant
  <2>2. CASE o \in given
    BY <1>1, <1>3, <2>1, <2>2
  <2>3. CASE o \in ended
    <3>1. o \notin given /\ phase'[o] = "ended" /\ ending'[o] # Nobody
      BY <1>1, <1>2, <1>3, <2>3
    <3> QED
      BY <1>8, <2>3, <3>1
  <2>4. CASE o \notin given /\ o \notin ended
    <3>1. phase'[o] = phase[o] /\ ending'[o] = ending[o]
      BY <1>1, <2>4
    <3> QED
      BY <1>8, <2>1, <2>4, <3>1
  <2> QED
    BY <2>2, <2>3, <2>4
<1>10. OneOccupant'
  BY <1>8, <1>9 DEF OneOccupant
<1>11. ASSUME NEW o \in Operations
       PROVE  /\ phase[o] # "absent" => phase'[o] # "absent"
              /\ phase[o] \in {"held", "running"} => phase'[o] # "waiting"
              /\ phase[o] = "running" => phase'[o] # "held"
              /\ phase[o] = "ended" => phase'[o] = "ended" /\ ending'[o] = ending[o]
              /\ phase'[o] = "running" => phase[o] \in {"held", "running"}
              /\ \A w \in Stations : o \in holders[w] /\ phase'[o] # "ended" => o \in holders'[w]
  <2>1. CASE o \in given
    <3>1. phase[o] = "waiting" /\ phase'[o] = "held" /\ \A w \in Stations : o \notin holders[w]
      BY <1>1, <1>3, <2>1 DEF LifecycleInv, OneOccupant
    <3> QED
      BY <3>1
  <2>2. CASE o \in ended
    BY <1>2, <2>2
  <2>3. CASE o \notin given /\ o \notin ended
    <3>1. phase'[o] = phase[o] /\ ending'[o] = ending[o]
      BY <1>1, <2>3
    <3> QED
      BY <1>8, <2>3, <3>1
  <2> QED
    BY <2>1, <2>2, <2>3
<1>12. NothingTakenBack
  BY <1>1, <1>11 DEF NothingTakenBack
<1> QED
  BY <1>1, <1>6, <1>7, <1>10, <1>12 DEF LifecycleInv

\* Every repository with this life names operations apart, gives a workstation to one at a
\* time, and takes nothing back: what GatewayService relies on, whichever repository stores
\* the operations.
THEOREM PromisesKept ==
  LifecycleSpec => [](NamesApart /\ OneOccupant) /\ [][NothingTakenBack]_lifecycleVars
<1>1. LifecycleInv /\ [LifecycleNext]_lifecycleVars => LifecycleInv'
  <2>1. CASE UNCHANGED lifecycleVars
    BY <2>1 DEF lifecycleVars, LifecycleInv, NamesApart, OneOccupant
  <2> QED
    BY <2>1, SettleKeeps, AdmitKeeps, BegunKeepsPromises DEF LifecycleNext
<1>2. LifecycleInv /\ LifecycleNext => NothingTakenBack
  BY SettleKeeps, AdmitKeeps, BegunKeepsPromises DEF LifecycleNext
<1>3. LifecycleInv => NamesApart /\ OneOccupant
  BY DEF LifecycleInv
<1> QED
  BY <1>1, <1>2, <1>3, LifecycleStarts, PTL DEF LifecycleSpec
=============================================================================
