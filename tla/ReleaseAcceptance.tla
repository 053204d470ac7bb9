--------------------------- MODULE ReleaseAcceptance ---------------------------
(* acceptance.py and the bundle check of pilot.py: a release is accepted by     *)
(* reading its artifacts one after the other while someone may be building a   *)
(* new kit into the same directory.  Each artifact carries the digests of the  *)
(* ones it describes, so the content of an artifact is the build it belongs    *)
(* to, and two artifacts fit when they come from one build.  A fingerprint is  *)
(* content and modification time: a rewrite always changes it.                 *)
(*                                                                             *)
(* The collector reads everything once, then fingerprints everything again.    *)
EXTENDS Naturals, FiniteSets

CONSTANTS
  Builds,       \* builds of the release kit (exact commits)
  MaxWrites,    \* the bound on rewrites of an artifact
  NoBuild

ASSUME AcceptanceAssumption == NoBuild \notin Builds /\ MaxWrites \in Nat

\* The outer manifest, the kit's manifest, the kit's archive, the bundle and its
\* build manifest (two of the kit's files), and the pilot evidence.
Artifacts == {"outer", "manifest", "archive", "bundle", "bundle_build", "pilot"}
KitFiles == {"bundle", "bundle_build"}

VARIABLES
  kit,          \* each artifact: its build and its modification time
  writes,       \* how many artifacts were rewritten
  acceptance,   \* the acceptance report on disk
  collector,    \* the finalize or validate command under way
  whole,        \* the builds the disk held completely at some instant of that command
  accepted      \* what the last command that succeeded said

acceptanceVars == <<kit, writes, acceptance, collector, whole, accepted>>

Fingerprint == [build : Builds, time : 0 .. MaxWrites]
Idle == [command |-> "none", pass |-> 0, claim |-> NoBuild, left |-> {},
         seen |-> [a \in {} |-> 0]]
Complete(disk) == {b \in Builds : \A a \in Artifacts : disk[a].build = b}

AcceptanceInit ==
  /\ kit \in [Artifacts -> {[build |-> b, time |-> 0] : b \in Builds}]
  /\ Complete(kit) # {}
  /\ writes = 0
  /\ acceptance = "absent"
  /\ collector = Idle
  /\ whole = {}
  /\ accepted = NoBuild

-----------------------------------------------------------------------------
\* Someone builds another kit, or the same kit again, over the old one.
Rewrite(a, b) ==
  /\ writes < MaxWrites
  /\ writes' = writes + 1
  /\ kit' = [kit EXCEPT ![a] = [build |-> b, time |-> writes + 1]]
  /\ whole' = whole \cup Complete(kit')
  /\ UNCHANGED <<acceptance, collector, accepted>>

rest == <<kit, writes>>
Stop == collector' = Idle /\ UNCHANGED <<acceptance, accepted, whole, rest>>

\* finalize refuses an existing output; validate reads the report it is given.
Begin(command) ==
  /\ collector = Idle
  /\ IF command = "finalize" THEN acceptance = "absent" ELSE acceptance \in Builds
  /\ collector' = [Idle EXCEPT !.command = command, !.pass = 1, !.left = Artifacts,
                     !.claim = IF command = "finalize" THEN NoBuild ELSE acceptance]
  /\ whole' = Complete(kit)
  /\ accepted' = NoBuild
  /\ UNCHANGED <<acceptance, rest>>

\* The order in which _collect_acceptance_inputs reads: the manifests, the
\* archive, the files of the kit, and the pilot evidence last.
Before(a) == CASE a = "outer" -> {}
               [] a = "manifest" -> {"outer"}
               [] a = "archive" -> {"outer", "manifest"}
               [] a \in KitFiles -> {"outer", "manifest", "archive"}
               [] a = "pilot" -> Artifacts \ {"pilot"}

\* The digests an artifact must match are those of what was read before it.
Fits(a, file) == \A o \in Before(a) : collector.seen[o].build = file.build

\* First pass: read, and compare with what describes it.
Read(a) ==
  /\ collector.pass = 1 /\ a \in collector.left
  /\ Before(a) \cap collector.left = {}
  /\ IF ~Fits(a, kit[a]) THEN Stop
     ELSE LET seen == [o \in DOMAIN collector.seen \cup {a} |->
                         IF o = a THEN kit[a] ELSE collector.seen[o]]
              left == collector.left \ {a}
          IN  /\ collector' = [collector EXCEPT
                   !.seen = seen,
                   !.left = IF left = {} THEN Artifacts ELSE left,
                   !.pass = IF left = {} THEN 2 ELSE 1]
              /\ UNCHANGED <<acceptance, accepted, whole, rest>>

\* The second pass re-reads the manifests, the pilot evidence, the archive, and
\* at last the files of the kit.
After(a) == CASE a = "outer" -> {}
              [] a = "manifest" -> {"outer"}
              [] a = "pilot" -> {"outer", "manifest"}
              [] a = "archive" -> {"outer", "manifest", "pilot"}
              [] a \in KitFiles -> Artifacts \ KitFiles

\* A seeded fault: the archive is not fingerprinted again.
UnchangedButArchive(a) == a = "archive" \/ kit[a] = collector.seen[a]
Unchanged(a) == kit[a] = collector.seen[a]

\* What the collected inputs are about.
Collected == collector.seen["manifest"].build

\* build_release_acceptance validates its own report, so it collects twice.
CollectAgain ==
  /\ collector' = [Idle EXCEPT !.command = "finalize", !.pass = 1, !.left = Artifacts,
                               !.claim = Collected]
  /\ UNCHANGED <<acceptance, accepted, whole, rest>>

\* Second pass: everything must still have the fingerprint it had.
Recheck(a) ==
  /\ collector.pass = 2 /\ a \in collector.left
  /\ After(a) \cap collector.left = {}
  /\ LET left == collector.left \ {a}
     IN  IF ~Unchanged(a) THEN Stop
         ELSE IF left # {} THEN /\ collector' = [collector EXCEPT !.left = left]
                                /\ UNCHANGED <<acceptance, accepted, whole, rest>>
         ELSE IF collector.claim = NoBuild
         THEN CollectAgain
         ELSE IF collector.claim # Collected THEN Stop
         ELSE /\ collector' = [collector EXCEPT !.left = {}, !.pass = 3]
              /\ UNCHANGED <<acceptance, accepted, whole, rest>>

\* The report is created exclusively, then written; validate reads it again.
Create ==
  /\ collector.pass = 3 /\ collector.command = "finalize"
  /\ IF acceptance # "absent" THEN Stop
     ELSE /\ acceptance' = "empty"
          /\ collector' = [collector EXCEPT !.pass = 4]
          /\ UNCHANGED <<accepted, whole, rest>>

Finish ==
  /\ \/ collector.pass = 4
     \/ collector.pass = 3 /\ collector.command = "validate"
  /\ IF collector.command = "validate" /\ acceptance # collector.claim THEN Stop
     ELSE /\ acceptance' = collector.claim
          /\ accepted' = collector.claim
          /\ collector' = Idle
          /\ UNCHANGED <<whole, rest>>

\* The process dies; a report that was created stays as it is.
Die == collector # Idle /\ Stop

\* Someone removes a report, for instance an empty one.
Discard ==
  /\ collector = Idle /\ acceptance # "absent"
  /\ acceptance' = "absent"
  /\ UNCHANGED <<collector, whole, accepted, rest>>

AcceptanceNext ==
  \/ \E a \in Artifacts, b \in Builds : Rewrite(a, b)
  \/ \E command \in {"finalize", "validate"} : Begin(command)
  \/ \E a \in Artifacts : Read(a) \/ Recheck(a)
  \/ Create \/ Finish \/ Die \/ Discard

AcceptanceSpec == AcceptanceInit /\ [][AcceptanceNext]_acceptanceVars

-----------------------------------------------------------------------------
AcceptanceTypeOK ==
  /\ kit \in [Artifacts -> Fingerprint]
  /\ writes \in 0 .. MaxWrites
  /\ acceptance \in {"absent", "empty"} \cup Builds
  /\ collector.left \subseteq Artifacts /\ collector.pass \in 0 .. 4
  /\ collector.claim \in Builds \cup {NoBuild}
  /\ whole \subseteq Builds /\ accepted \in Builds \cup {NoBuild}

\* A release is accepted only as one kit: during the command that accepted it
\* there was one instant at which every artifact, the pilot evidence included,
\* belonged to the accepted build.  Reading artifacts one by one while a new kit
\* is copied over the old never accepts a mixture.
AcceptedIsOneKit == accepted # NoBuild => accepted \in whole
=============================================================================
