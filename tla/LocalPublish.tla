----------------------------- MODULE LocalPublish -----------------------------
(* The local MCP server from a drawing to the plug-in's queue: planning        *)
(* (server.py, planner.py), staging (workspace.py) and queueing (batch.py,     *)
(* pipe_client.py), one call at a time and one file access at a time, while    *)
(* people edit drawings, the office template and staged jobs, the server dies  *)
(* and answers of the plug-in get lost.                                        *)
(*                                                                             *)
(* A file is its bytes and its modification time, together its fingerprint;    *)
(* every write gives a new time.  A digest is the bytes, a plan id the plan.   *)
EXTENDS Naturals, FiniteSets, Sequences, SequencesExt

CONSTANTS
  Drawings,     \* paths of drawings
  Frames,       \* drawing contents, each with its frames: the tests a frame fails
  MaxTouches,   \* the bound on edits by people
  MaxStaged,    \* the bound on job directories
  Capacity,     \* pending jobs the plug-in's queue holds
  Missing       \* no such file, no such plan

ASSUME LocalPublishAssumption ==
  MaxTouches \in Nat /\ MaxStaged \in Nat /\ Capacity \in Nat \ {0}

VARIABLES
  project,      \* the drawings
  template,     \* the office template: "configured" has the digest in the config
  touches,      \* how many edits people have made
  shown,        \* plans a client has been shown, and may approve
  staging,      \* the job directories, in the order of their creation
  call,         \* the tool call under way
  pending,      \* the plug-in's queue of pending jobs
  taken,        \* history: what the plug-in accepted, in order
  deferred      \* the jobs the call under way has deferred

localVars == <<project, template, touches, shown, staging, call, pending, taken, deferred>>
people == <<project, template, touches>>
plugin == <<pending, taken, deferred>>
quiet == <<people, shown, staging, plugin>>

Contents == DOMAIN Frames
NoCallYet == [tool |-> "none", pc |-> "idle", todo |-> <<>>, cache |-> Missing,
              before |-> Missing, sheets |-> <<>>, plan |-> Missing, job |-> 0, full |-> FALSE]

LocalInit ==
  /\ project \in [Drawings -> {[bytes |-> b, time |-> 0] : b \in Contents}]
  /\ template = [bytes |-> "configured", time |-> 0]
  /\ touches = 0
  /\ shown = {}
  /\ staging = <<>>
  /\ call = NoCallYet
  /\ pending = {} /\ taken = <<>> /\ deferred = {}

-----------------------------------------------------------------------------
(* People, and the plug-in's own progress. *)

Touch ==
  /\ touches < MaxTouches
  /\ touches' = touches + 1
  /\ \/ /\ \E d \in Drawings, b \in Contents :
             project' = [project EXCEPT ![d] = [bytes |-> b, time |-> touches + 1]]
        /\ UNCHANGED <<template, staging>>
     \/ /\ \E b \in {"configured", "redesigned"} :
             template' = [bytes |-> b, time |-> touches + 1]
        /\ UNCHANGED <<project, staging>>
     \/ /\ \E j \in DOMAIN staging :
             \/ staging[j].manifest # Missing
                /\ \E m \in {"original", "edited"} : staging' = [staging EXCEPT ![j].manifest = m]
             \/ staging[j].copy # Missing
                /\ \E b \in Contents : staging' = [staging EXCEPT ![j].copy = b]
        /\ UNCHANGED <<project, template>>
  /\ UNCHANGED <<shown, call, plugin>>

\* The idle worker takes a job from the queue.
Drain ==
  /\ \E j \in pending : pending' = pending \ {j}
  /\ UNCHANGED <<people, shown, staging, call, taken, deferred>>

-----------------------------------------------------------------------------
(* The planner. *)

\* The tests of create_publish_plan, in order; a sheet has the first status that
\* applies to its frame.
Tests == <<"unmatched", "template_asset_mismatch", "disallowed_frame_layer", "low_confidence",
           "page_setup_mismatch", "template_layout_mismatch", "unsupported_scale",
           "layout_conflict">>
SheetStatus(fails) ==
  LET i == SelectInSeq(Tests, LAMBDA t : t \in fails)
  IN  IF i = 0 THEN "matched" ELSE Tests[i]
SheetsOf(bytes) == [i \in DOMAIN Frames[bytes] |-> SheetStatus(Frames[bytes][i])]
Ready(plan) == plan.sheets # <<>> /\ \A i \in DOMAIN plan.sheets : plan.sheets[i] = "matched"

-----------------------------------------------------------------------------
(* A call works through its list of items, each [drawing, plan, job]. *)

Open(tool, items) ==
  /\ call.pc = "idle"
  /\ call' = [NoCallYet EXCEPT !.tool = tool, !.todo = items,
                               !.pc = IF tool = "queue" THEN "load" ELSE "before"]
  /\ deferred' = {}
  /\ UNCHANGED <<people, shown, staging, pending, taken>>

item == Head(call.todo)
Goto(pc) == call' = [call EXCEPT !.pc = pc]

\* The item ends (planned, blocked, refused, failed or done); the next one begins.
\* The template evidence is kept for the whole call.
NextItem(full) ==
  call' = IF Len(call.todo) = 1 THEN NoCallYet
          ELSE [NoCallYet EXCEPT !.tool = call.tool, !.todo = Tail(call.todo),
                                 !.cache = call.cache, !.full = full,
                                 !.pc = IF call.tool = "queue" THEN "load" ELSE "before"]

\* An exception ends the item; the death of the server ends the call.
ItemFails == call.pc # "idle" /\ NextItem(call.full) /\ UNCHANGED quiet
ServerDies == call.pc # "idle" /\ call' = NoCallYet /\ UNCHANGED quiet

Step(pc, ok, next) ==
  /\ call.pc = pc
  /\ IF ok THEN Goto(next) ELSE NextItem(call.full)
  /\ UNCHANGED quiet

(* _build_current_plan *)
FingerprintBefore ==
  /\ call.pc = "before"
  /\ call' = [call EXCEPT !.pc = "inspect", !.before = project[item.drawing]]
  /\ UNCHANGED quiet

Inspect ==
  /\ call.pc = "inspect"
  /\ call' = [call EXCEPT !.pc = "after", !.sheets = SheetsOf(project[item.drawing].bytes)]
  /\ UNCHANGED quiet

Unmoved == project[item.drawing] = call.before
FingerprintAfter == Step("after", Unmoved, IF call.cache = Missing THEN "template" ELSE "planned")

\* The template has the digest in the configuration; it is inspected, and it must
\* have the same fingerprint afterwards.
InspectTemplate ==
  /\ call.pc = "template"
  /\ IF template.bytes = "configured"
     THEN call' = [call EXCEPT !.pc = "template_after", !.cache = template]
     ELSE NextItem(call.full)
  /\ UNCHANGED quiet

\* The evidence is not cached before this.
TemplateAfter ==
  /\ call.pc = "template_after"
  /\ IF template = call.cache THEN Goto("planned")
     ELSE IF Len(call.todo) = 1 THEN call' = NoCallYet
     ELSE call' = [NoCallYet EXCEPT !.tool = call.tool, !.todo = Tail(call.todo), !.pc = "before"]
  /\ UNCHANGED quiet

Plan == [drawing |-> item.drawing, fingerprint |-> call.before,
         sheets |-> call.sheets, asset |-> call.cache]

\* A seeded fault: the current plan is staged, approved or not.
PlannedUnapproved ==
  /\ call.pc = "planned"
  /\ IF call.tool = "plan"
     THEN shown' = shown \cup {Plan} /\ NextItem(FALSE)
     ELSE /\ UNCHANGED shown
          /\ IF Ready(Plan)
             THEN call' = [call EXCEPT !.pc = "stage", !.plan = Plan]
             ELSE NextItem(FALSE)
  /\ UNCHANGED <<people, staging, plugin>>

\* create_publish_plan shows the plan; staging compares it with the approved one.
Planned ==
  /\ call.pc = "planned"
  /\ IF call.tool = "plan"
     THEN shown' = shown \cup {Plan} /\ NextItem(FALSE)
     ELSE /\ UNCHANGED shown
          /\ IF Ready(Plan) /\ Plan = item.plan
             THEN call' = [call EXCEPT !.pc = "stage", !.plan = Plan]
             ELSE NextItem(FALSE)
  /\ UNCHANGED <<people, staging, plugin>>

(* stage_publish_job *)
StageFingerprint == Step("stage", project[item.drawing] = call.plan.fingerprint, "mkdir")

MakeJob ==
  /\ call.pc = "mkdir" /\ Len(staging) < MaxStaged
  /\ staging' = Append(staging, [plan |-> call.plan, copy |-> Missing, template |-> Missing,
                                 manifest |-> Missing])
  /\ call' = [call EXCEPT !.pc = "copy", !.job = Len(staging) + 1]
  /\ UNCHANGED <<people, shown, plugin>>

CopyDrawing ==
  /\ call.pc = "copy"
  /\ staging' = [staging EXCEPT ![call.job].copy = project[item.drawing].bytes]
  /\ Goto("verify")
  /\ UNCHANGED <<people, shown, plugin>>

VerifyCopy ==
  Step("verify", staging[call.job].copy = call.plan.fingerprint.bytes, "asset")

\* The template is fingerprinted again: the evidence may be that of an earlier item.
CheckAsset == Step("asset", template = call.plan.asset, "asset_copy")

CopyAsset ==
  /\ call.pc = "asset_copy"
  /\ staging' = [staging EXCEPT ![call.job].template = template.bytes]
  /\ Goto("asset_verify")
  /\ UNCHANGED <<people, shown, plugin>>

VerifyAsset ==
  Step("asset_verify", staging[call.job].template = call.plan.asset.bytes, "manifest")

\* The manifest is written last: a job without one was abandoned.
WriteManifest ==
  /\ call.pc = "manifest"
  /\ staging' = [staging EXCEPT ![call.job].manifest = "original"]
  /\ NextItem(FALSE)
  /\ UNCHANGED <<people, shown, plugin>>

-----------------------------------------------------------------------------
(* queue_publish_job, for one item of queue_approved_batch. *)

Intact(j) == staging[j].copy = staging[j].plan.fingerprint.bytes
             /\ staging[j].template = staging[j].plan.asset.bytes

\* After a full queue the rest of the batch is deferred without asking.
Defer ==
  /\ call.pc = "load" /\ call.full
  /\ NextItem(TRUE)
  /\ deferred' = deferred \cup {item.job}
  /\ UNCHANGED <<people, shown, staging, pending, taken>>

LoadStaged ==
  ~call.full /\ Step("load", staging[item.job].manifest # Missing /\ Intact(item.job), "source")
AuditSource ==
  Step("source", project[staging[item.job].plan.drawing] = staging[item.job].plan.fingerprint,
       "rehash")
\* The digest is taken from a second read of the manifest.
Rehash == Step("rehash", staging[item.job].manifest = "original", "send")

\* The plug-in: it validates the job once more, then looks whether its queue is
\* full, then whether it knows the plan.  The answer may get lost.
Acceptable(j) == staging[j].manifest = "original" /\ Intact(j)

Full == Cardinality(pending) >= Capacity
Known(j) == \E i \in 1 .. Len(taken) : taken[i].plan = staging[j].plan

SendRefused ==
  /\ call.pc = "send"
  /\ ~Acceptable(item.job) \/ (~Full /\ Known(item.job))
  /\ NextItem(FALSE)
  /\ UNCHANGED quiet

SendFull ==
  /\ call.pc = "send" /\ Acceptable(item.job) /\ Full
  /\ NextItem(TRUE)
  /\ deferred' = deferred \cup {item.job}
  /\ UNCHANGED <<people, shown, staging, pending, taken>>

SendAccepted ==
  LET job == staging[item.job]
  IN  /\ call.pc = "send" /\ Acceptable(item.job) /\ ~Full /\ ~Known(item.job)
      /\ pending' = pending \cup {item.job}
      /\ taken' = Append(taken, job)
      /\ NextItem(FALSE)
      /\ UNCHANGED <<people, shown, staging, deferred>>

-----------------------------------------------------------------------------
\* What clients ask for: a plan of drawings, the staging of plans they were shown
\* (each drawing once), the queueing of jobs that were staged (each plan once).
PlanItems == {<<[drawing |-> d]>> : d \in Drawings}
StageItems ==
  {s \in BoundedSeq({[drawing |-> p.drawing, plan |-> p] : p \in shown}, 2) :
     s # <<>> /\ (Len(s) = 2 => s[1].drawing # s[2].drawing)}
QueueItems ==
  {s \in BoundedSeq({[job |-> j] : j \in {k \in DOMAIN staging : staging[k].manifest # Missing}}, 2) :
     s # <<>> /\ (Len(s) = 2 => staging[s[1].job].plan # staging[s[2].job].plan)}

Ask ==
  \/ \E s \in PlanItems : Open("plan", s)
  \/ \E s \in StageItems : Open("stage", s)
  \/ \E s \in QueueItems : Open("queue", s)

PlanStep == FingerprintBefore \/ Inspect \/ FingerprintAfter \/ InspectTemplate \/ TemplateAfter
            \/ Planned
StageStep == StageFingerprint \/ MakeJob \/ CopyDrawing \/ VerifyCopy \/ CheckAsset \/ CopyAsset
             \/ VerifyAsset \/ WriteManifest
QueueStep == Defer \/ LoadStaged \/ AuditSource \/ Rehash \/ SendRefused \/ SendFull \/ SendAccepted

LocalNext ==
  \/ Touch \/ Drain \/ Ask \/ PlanStep \/ StageStep \/ QueueStep
  \/ ItemFails \/ ServerDies

LocalSpec == LocalInit /\ [][LocalNext]_localVars

-----------------------------------------------------------------------------
PublishTypeOK ==
  /\ \A d \in Drawings : project[d] \in [bytes : Contents, time : 0 .. MaxTouches]
  /\ template \in [bytes : {"configured", "redesigned"}, time : 0 .. MaxTouches]
  /\ Len(staging) <= MaxStaged
  /\ \A j \in DOMAIN staging :
       /\ staging[j].copy \in Contents \cup {Missing}
       /\ staging[j].template \in {"configured", "redesigned", Missing}
       /\ staging[j].manifest \in {"original", "edited", Missing}
  /\ pending \subseteq DOMAIN staging /\ Cardinality(pending) <= Capacity

\* Whatever is edited between the reads of planning, staging and queueing, a job
\* the plug-in accepted holds exactly what a client was shown and approved: the
\* drawing whose inspection gave the sheets of the plan, every sheet matched, and
\* the template the configuration names.
QueuedIsApproved ==
  \A i \in 1 .. Len(taken) :
    LET job == taken[i]
    IN  /\ job.plan \in shown /\ Ready(job.plan)
        /\ job.plan.sheets = SheetsOf(job.copy)
        /\ job.copy = job.plan.fingerprint.bytes /\ job.template = "configured"
=============================================================================
