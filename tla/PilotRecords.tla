----------------------------- MODULE PilotRecords ------------------------------
(* pilot.py: the evidence that a build was tried out on licensed workstations. *)
(* A workstation runs one AutoCAD release.  Its records are files that people  *)
(* keep: a read-only preflight and a publish session (written by a script      *)
(* outside this model's scope), a one-sheet pilot run, a batch recovery after  *)
(* a restart.  At the end somebody picks one run and one recovery of each      *)
(* release, perhaps old ones, and assembles them for one build of the kit.     *)
(* A digest of a record is the record.  An installation is known by the        *)
(* moment its receipt names, a configuration only by its text.                 *)
EXTENDS Naturals, FiniteSets

CONSTANTS
  Releases,    \* the AutoCAD releases, "2016" and "2025" in the code
  Commits,     \* builds of the plug-in
  Plans,       \* plans of the jobs published for evidence
  MaxMoments,  \* the bound on time
  NoPilot

ASSUME PilotAssumption ==
  IsFiniteSet(Releases) /\ IsFiniteSet(Commits) /\ IsFiniteSet(Plans) /\ MaxMoments \in Nat

VARIABLES
  moment,      \* a clock that every event advances
  installs,    \* history: the installations of the plug-in on each workstation
  configs,     \* history: the texts the pilot configuration had, and since when
  gates,       \* workstation gate records
  runs,        \* pilot run records
  recoveries,  \* batch recovery records
  pilot        \* the assembled pilot evidence

pilotVars == <<moment, installs, configs, gates, runs, recoveries, pilot>>
records == <<gates, runs, recoveries, pilot>>

Texts == {"first", "second"}
Latest(events) == CHOOSE e \in events : \A f \in events : f.at <= e.at
Running(r) == Latest(installs[r])
Configured(r) == Latest(configs[r]).text

PilotInit ==
  /\ moment = 0
  /\ installs \in [Releases -> {{[commit |-> c, at |-> 0]} : c \in Commits}]
  /\ configs = [r \in Releases |-> {[text |-> "first", at |-> 0]}]
  /\ gates = {} /\ runs = {} /\ recoveries = {} /\ pilot = NoPilot

Event == moment < MaxMoments /\ moment' = moment + 1

-----------------------------------------------------------------------------
Reinstall(r, c) ==
  /\ Event
  /\ installs' = [installs EXCEPT ![r] = @ \cup {[commit |-> c, at |-> moment + 1]}]
  /\ UNCHANGED <<configs, records>>

EditConfig(r, text) ==
  /\ text # Configured(r)
  /\ Event
  /\ configs' = [configs EXCEPT ![r] = @ \cup {[text |-> text, at |-> moment + 1]}]
  /\ UNCHANGED <<installs, records>>

\* The workstation script writes down what it finds; a publish session names the
\* preflight it follows (0 for none).
Gate(r, mode, follows) ==
  /\ Event
  /\ gates' = gates \cup {[release |-> r, mode |-> mode, follows |-> follows,
                           commit |-> Running(r).commit, install |-> Running(r).at,
                           config |-> Configured(r), at |-> moment + 1]}
  /\ UNCHANGED <<installs, configs, runs, recoveries, pilot>>

\* A seeded fault: the two sessions may be of different installations.
GatesOfTwoInstalls(r, commit, preflight, session) ==
  /\ preflight.mode = "readonly" /\ session.mode = "publish"
  /\ preflight.release = r /\ session.release = r
  /\ session.follows = preflight.at
  /\ preflight.commit = commit /\ session.commit = commit
  /\ session.at > preflight.at

\* validate_workstation_gate_evidence: a preflight and the publish session bound
\* to it, of one installation and one configuration, for the given plug-in.
GatesValid(r, commit, preflight, session) ==
  /\ preflight.mode = "readonly" /\ session.mode = "publish"
  /\ preflight.release = r /\ session.release = r
  /\ session.follows = preflight.at
  /\ preflight.commit = commit /\ session.commit = commit
  /\ preflight.install = session.install
  /\ preflight.config = session.config
  /\ session.at > preflight.at

\* build_pilot_run_evidence: a verified one-sheet job of the running plug-in, with
\* gates for it and for the configuration of this moment.
PilotRun(r, plan, preflight, session) ==
  /\ GatesValid(r, Running(r).commit, preflight, session)
  /\ preflight.config = Configured(r)
  /\ Event
  /\ runs' = runs \cup {[release |-> r, commit |-> Running(r).commit, plan |-> plan,
                         preflight |-> preflight, session |-> session, at |-> moment + 1]}
  /\ UNCHANGED <<installs, configs, gates, recoveries, pilot>>

\* build_batch_recovery_evidence: at least two jobs, all complete.
Recovery(r, plans) ==
  /\ Cardinality(plans) >= 2
  /\ Event
  /\ recoveries' = recoveries \cup {[release |-> r, commit |-> Running(r).commit,
                                     plans |-> plans, at |-> moment + 1]}
  /\ UNCHANGED <<installs, configs, gates, runs, pilot>>

\* _validate_run, once more, when the record is used.
RunValid(r, run) ==
  /\ run.release = r
  /\ GatesValid(r, run.commit, run.preflight, run.session)
  /\ run.session.at < run.at

\* validate_batch_recovery_evidence.
RecoveryValid(r, recovery) == recovery.release = r /\ Cardinality(recovery.plans) >= 2

\* validate_pilot_evidence: one run and one recovery of every release, of the
\* build in the bundle, the recovery about other jobs and after the run.
PilotValid(commit, run, recovery) ==
  \A r \in Releases :
    /\ RunValid(r, run[r]) /\ RecoveryValid(r, recovery[r])
    /\ run[r].commit = commit /\ recovery[r].commit = commit
    /\ run[r].plan \notin recovery[r].plans
    /\ recovery[r].at > run[r].at

\* assemble_pilot_evidence for the bundle of one build.
Assemble(commit, run, recovery) ==
  /\ PilotValid(commit, run, recovery)
  /\ pilot' = [commit |-> commit, runs |-> run, recoveries |-> recovery]
  /\ UNCHANGED <<moment, installs, configs, gates, runs, recoveries>>

PilotNext ==
  \/ \E r \in Releases :
       \/ \E c \in Commits : Reinstall(r, c)
       \/ \E text \in Texts : EditConfig(r, text)
       \/ Gate(r, "readonly", 0)
       \/ \E g \in gates : g.mode = "readonly" /\ Gate(r, "publish", g.at)
       \/ \E p \in Plans, g, h \in gates : PilotRun(r, p, g, h)
       \/ \E P \in SUBSET Plans : Recovery(r, P)
  \/ /\ pilot = NoPilot
     /\ \E c \in Commits, run \in [Releases -> runs], recovery \in [Releases -> recoveries] :
          Assemble(c, run, recovery)

PilotSpec == PilotInit /\ [][PilotNext]_pilotVars

-----------------------------------------------------------------------------
PilotTypeOK ==
  /\ moment \in 0 .. MaxMoments
  /\ \A r \in Releases :
       /\ installs[r] \subseteq [commit : Commits, at : 0 .. moment]
       /\ configs[r] \subseteq [text : Texts, at : 0 .. moment]
  /\ \A g \in gates : g.release \in Releases /\ g.at \in 1 .. moment
  /\ \A x \in runs : x.release \in Releases /\ x.at \in 1 .. moment
  /\ \A x \in recoveries : x.release \in Releases /\ x.at \in 1 .. moment

\* The event of a history that was the latest at a moment.
AsOf(events, t) == Latest({e \in events : e.at <= t})

\* Assembled evidence tells one true story of every release: the workstation ran
\* the bundle's build at the preflight, at the publish session, at the pilot run
\* and at the recovery, in this order; between the preflight and the session
\* nothing was installed; and the configuration had one text at all three.
PilotIsOneStory ==
  pilot # NoPilot => \A r \in Releases :
    LET run == pilot.runs[r]
        t == <<run.preflight.at, run.session.at, run.at, pilot.recoveries[r].at>>
    IN  /\ \A i \in 1 .. 3 : t[i] < t[i + 1]
        /\ \A i \in 1 .. 4 : AsOf(installs[r], t[i]).commit = pilot.commit
        /\ \A i \in installs[r] : i.at <= t[1] \/ i.at > t[2]
        /\ \A i \in 2 .. 3 : AsOf(configs[r], t[i]).text = AsOf(configs[r], t[1]).text
=============================================================================
