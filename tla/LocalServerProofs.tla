--------------------------- MODULE LocalServerProofs ---------------------------
(* From a drawing to the queue of the plug-in, and from the records of a pilot *)
(* to its evidence, while people edit, install and configure, for any number   *)
(* of drawings, frames, jobs, releases and builds; and the two walks a client  *)
(* makes page by page.                                                         *)
EXTENDS MCLocal, LocalEvidenceProofs, FiniteSetTheorems, SequenceTheorems, TLAPS

(***************************************************************************)
(* Planning, staging and queueing.                                         *)
(***************************************************************************)

\* A plan that may be staged: one a client was shown, with every sheet matched, which
\* says of one content of the drawing what an inspection of that content says, and
\* names the configured template.
Approved ==
  {p \in shown : /\ Ready(p) /\ p.sheets = SheetsOf(p.fingerprint.bytes)
                 /\ p.asset.bytes = "configured"}
StagedJob == [plan : Approved, copy : Contents \cup {Missing},
              template : {"configured", "redesigned", Missing},
              manifest : {"original", "edited", Missing}]
TakenJob ==
  {job \in StagedJob : job.copy = job.plan.fingerprint.bytes /\ job.template = "configured"}

\* The drawings, with modification times that grow.
ProjectOK ==
  /\ touches \in Nat /\ DOMAIN project = Drawings
  /\ \A d \in Drawings : project[d].bytes \in Contents /\ project[d].time \in 0 .. touches
  /\ template.bytes \in {"configured", "redesigned"}

JobsOK ==
  /\ \A p \in shown : p.drawing \in Drawings
  /\ staging \in Seq(StagedJob) /\ taken \in Seq(TakenJob)

\* What the items of a call name.
Items(tool) ==
  CASE tool = "plan" -> [drawing : Drawings]
    [] tool = "stage" -> [drawing : Drawings, plan : shown]
    [] tool = "queue" -> [job : DOMAIN staging]

Planning == {"before", "inspect", "after", "template", "template_after", "planned"}
Copying == {"copy", "verify", "asset", "asset_copy", "asset_verify", "manifest"}
Staging == {"stage", "mkdir"} \cup Copying
Queueing == {"load", "source", "rehash", "send"}

\* The drawing is the one that was fingerprinted, or it was written since.
Since(file, before) == file = before \/ file.time > before.time

\* The sheets of a call are those of the fingerprint it took, unless the drawing was
\* written after that, which the second fingerprint shows.
CallOK(c) ==
  /\ DOMAIN c = {"tool", "pc", "todo", "cache", "before", "sheets", "plan", "job", "full"}
  /\ c.cache = Missing \/ c.cache.bytes = "configured"
  /\ c.pc # "idle" =>
       /\ c.tool \in {"plan", "stage", "queue"}
       /\ c.todo \in Seq(Items(c.tool)) /\ c.todo # <<>>
       /\ c.pc \in Planning \cup Staging <=> c.tool # "queue"
  /\ c.pc \in Staging => c.tool = "stage" /\ c.plan \in Approved
  /\ c.pc \in {"inspect", "after"} => c.before.time \in 0 .. touches
  /\ c.pc = "inspect" => Since(project[Head(c.todo).drawing], c.before)
  /\ c.pc = "after" => \/ c.sheets = SheetsOf(c.before.bytes)
                       \/ project[Head(c.todo).drawing].time > c.before.time
  /\ c.pc \in {"template", "template_after", "planned"} => c.sheets = SheetsOf(c.before.bytes)
  /\ c.pc \in {"template_after", "planned"} => c.cache.bytes = "configured"
  /\ c.pc \in Copying => c.job \in DOMAIN staging

PublishInv == ProjectOK /\ JobsOK /\ CallOK(call)

\* A drawing that is written gets a later modification time than any before.
ProjectGoes ==
  \A d \in Drawings : \/ project'[d] = project[d]
                      \/ project'[d].time \in Nat /\ project'[d].time > touches
Grows == /\ touches' \in Nat /\ touches <= touches' /\ shown \subseteq shown'
         /\ DOMAIN staging \subseteq DOMAIN staging'

\* What was approved stays so, and names what it named.
LEMMA ApprovedStays ==
  ASSUME Grows
  PROVE  /\ Approved \subseteq Approved'
         /\ StagedJob \subseteq StagedJob' /\ TakenJob \subseteq TakenJob'
         /\ \A tool \in {"plan", "stage", "queue"} : Items(tool) \subseteq Items(tool)'
<1>1. Approved \subseteq Approved'
  BY DEF Approved, Grows
<1>2. StagedJob \subseteq StagedJob'
  BY <1>1 DEF StagedJob
<1>3. TakenJob \subseteq TakenJob'
  BY <1>2 DEF TakenJob
<1>4. Items("plan") \subseteq Items("plan")'
  BY DEF Items
<1>5. Items("stage") \subseteq Items("stage")'
  BY DEF Items, Grows
<1>6. Items("queue") \subseteq Items("queue")'
  BY DEF Items, Grows
<1> QED
  BY <1>1, <1>2, <1>3, <1>4, <1>5, <1>6

\* The first item of a call that is under way.
LEMMA FirstItem ==
  ASSUME JobsOK, NEW c, CallOK(c), c.pc # "idle"
  PROVE  /\ Head(c.todo) \in Items(c.tool) /\ Tail(c.todo) \in Seq(Items(c.tool))
         /\ c.tool # "queue" => Head(c.todo).drawing \in Drawings
         /\ c.tool = "stage" => Head(c.todo).plan \in shown
         /\ c.tool = "queue" => Head(c.todo).job \in DOMAIN staging
<1>1. c.tool \in {"plan", "stage", "queue"} /\ c.todo \in Seq(Items(c.tool)) /\ c.todo # <<>>
  BY DEF CallOK
<1>2. Head(c.todo) \in Items(c.tool) /\ Tail(c.todo) \in Seq(Items(c.tool))
  BY <1>1, HeadTailProperties
<1> QED
  BY <1>1, <1>2 DEF Items

\* What a call knows stays right whatever is written meanwhile.
LEMMA CallStays ==
  ASSUME ProjectOK, JobsOK, ProjectGoes, Grows, NEW c, CallOK(c)
  PROVE  CallOK(c)'
<1>1. /\ DOMAIN c = {"tool", "pc", "todo", "cache", "before", "sheets", "plan", "job", "full"}
      /\ c.cache = Missing \/ c.cache.bytes = "configured"
  BY DEF CallOK
<1>2. c.pc # "idle" =>
        /\ c.tool \in {"plan", "stage", "queue"}
        /\ c.todo \in Seq(Items(c.tool)') /\ c.todo # <<>>
        /\ c.pc \in Planning \cup Staging <=> c.tool # "queue"
  BY ApprovedStays, SeqMonotonic DEF CallOK
<1>3. /\ c.pc \in Staging => c.tool = "stage" /\ c.plan \in Approved'
      /\ c.pc \in Copying => c.job \in DOMAIN staging'
  BY ApprovedStays DEF CallOK, Grows
<1>4. c.pc \in {"inspect", "after"} => c.before.time \in 0 .. touches /\ c.before.time \in 0 .. touches'
  BY DEF CallOK, Grows, ProjectOK
<1>5. c.pc \in {"inspect", "after"} => Head(c.todo).drawing \in Drawings
  BY FirstItem DEF CallOK, Planning
<1> PICK d : d = Head(c.todo).drawing
  OBVIOUS
<1>6. ASSUME c.pc \in {"inspect", "after"}
      PROVE  /\ project'[d] = project[d] \/ project'[d].time > c.before.time
             /\ project[d].time > c.before.time => project'[d].time > c.before.time
  <2>1. d \in Drawings /\ c.before.time \in 0 .. touches /\ touches \in Nat
    BY <1>4, <1>5, <1>6 DEF ProjectOK
  <2>2. \/ project'[d] = project[d]
        \/ project'[d].time \in Nat /\ project'[d].time > touches
    BY <2>1 DEF ProjectGoes
  <2>3. ASSUME NEW t \in Nat, t > touches
        PROVE  t > c.before.time
    BY <2>1, <2>3
  <2> QED
    BY <2>2, <2>3
<1>7. /\ c.pc = "inspect" => Since(project'[d], c.before)
      /\ c.pc = "after" => \/ c.sheets = SheetsOf(c.before.bytes)
                           \/ project'[d].time > c.before.time
  BY <1>6 DEF CallOK, Since
<1>8. /\ c.pc \in {"template", "template_after", "planned"} => c.sheets = SheetsOf(c.before.bytes)
      /\ c.pc \in {"template_after", "planned"} => c.cache.bytes = "configured"
  BY DEF CallOK
<1> QED
  BY <1>1, <1>2, <1>3, <1>4, <1>7, <1>8 DEF CallOK, Since

\* A step that moves the call on, and lets plans and jobs only be added.
LEMMA PublishFrame ==
  ASSUME PublishInv, ProjectOK', ProjectGoes, Grows, JobsOK', NEW c, call' = c, CallOK(c)
  PROVE  PublishInv'
<1>1. CallOK(c)'
  BY CallStays DEF PublishInv
<1>2. CallOK(call)'
  BY <1>1 DEF CallOK
<1> QED
  BY <1>2 DEF PublishInv

\* A step of the call that writes neither plans nor jobs.
LEMMA CallGoesOn ==
  ASSUME PublishInv, UNCHANGED <<people, shown, staging, taken>>, NEW c, call' = c, CallOK(c)
  PROVE  PublishInv'
<1>1. /\ project' = project /\ template' = template /\ touches' = touches /\ shown' = shown
      /\ staging' = staging /\ taken' = taken
  BY DEF people
<1>2. ProjectOK' /\ ProjectGoes /\ Grows
  BY <1>1 DEF PublishInv, ProjectOK, ProjectGoes, Grows
<1>3. JobsOK'
  BY <1>1 DEF PublishInv, JobsOK, TakenJob, StagedJob, Approved
<1> QED
  BY <1>2, <1>3, PublishFrame

\* No call is under way.
LEMMA NothingAsked ==
  /\ CallOK(NoCallYet)
  /\ DOMAIN NoCallYet = {"tool", "pc", "todo", "cache", "before", "sheets", "plan", "job", "full"}
<1>1. DOMAIN NoCallYet = {"tool", "pc", "todo", "cache", "before", "sheets", "plan", "job", "full"}
      /\ NoCallYet.pc = "idle" /\ NoCallYet.cache = Missing
  BY DEF NoCallYet
<1> QED
  BY <1>1 DEF CallOK, Planning, Staging, Copying

\* A call is at the beginning of an item.
AtItem(c) ==
  /\ c.tool \in {"plan", "stage", "queue"} /\ c.todo \in Seq(Items(c.tool)) /\ c.todo # <<>>
  /\ c.cache = Missing \/ c.cache.bytes = "configured"
  /\ c.pc = IF c.tool = "queue" THEN "load" ELSE "before"
  /\ DOMAIN c = DOMAIN NoCallYet

\* The next item of a call begins with nothing read.
LEMMA ItemBegins ==
  ASSUME NEW c, AtItem(c)
  PROVE  CallOK(c)
<1> USE NothingAsked DEF AtItem
<1>1. c.pc \in Planning \cup Staging <=> c.tool # "queue"
  BY DEF Planning, Staging, Copying
<1>2. /\ c.pc \notin Staging /\ c.pc \notin Copying
      /\ c.pc \notin {"inspect", "after", "template", "template_after", "planned"}
  BY DEF Staging, Copying
<1> QED
  BY <1>1, <1>2 DEF CallOK

\* The item ends, whatever came of it.
LEMMA ItemEnds ==
  ASSUME PublishInv, call.pc # "idle", NEW full, NextItem(full)
  PROVE  CallOK(call')
<1>1. CallOK(call) /\ JobsOK
  BY DEF PublishInv
<1>2. call.tool \in {"plan", "stage", "queue"} /\ call.todo \in Seq(Items(call.tool))
      /\ call.todo # <<>>
  BY <1>1 DEF CallOK
<1>3. Tail(call.todo) \in Seq(Items(call.tool)) /\ Len(Tail(call.todo)) = Len(call.todo) - 1
      /\ Len(call.todo) \in Nat \ {0}
  BY <1>2, HeadTailProperties, EmptySeq, LenProperties
<1> PICK tail : tail = Tail(call.todo)
  OBVIOUS
<1> PICK pc : pc = IF call.tool = "queue" THEN "load" ELSE "before"
  OBVIOUS
<1> PICK c : c = [NoCallYet EXCEPT !.tool = call.tool, !.todo = tail, !.cache = call.cache,
                                   !.full = full, !.pc = pc]
  OBVIOUS
<1>4. DOMAIN c = DOMAIN NoCallYet /\ c.tool = call.tool /\ c.todo = tail
      /\ c.cache = call.cache /\ c.pc = pc
  BY NothingAsked
<1>5. call' = NoCallYet \/ (Len(call.todo) # 1 /\ call' = c)
  BY DEF NextItem
<1>6. Len(call.todo) # 1 => tail # <<>>
  <2>1. tail = <<>> => Len(tail) = 0
    OBVIOUS
  <2> QED
    BY <1>3, <2>1
<1>7. call.cache = Missing \/ call.cache.bytes = "configured"
  BY <1>1 DEF CallOK
<1>8. Len(call.todo) # 1 => CallOK(c)
  <2> SUFFICES ASSUME Len(call.todo) # 1
               PROVE  CallOK(c)
    OBVIOUS
  <2>1. c.tool \in {"plan", "stage", "queue"} /\ c.todo \in Seq(Items(c.tool))
    BY <1>2, <1>3, <1>4
  <2>2. c.todo # <<>> /\ (c.cache = Missing \/ c.cache.bytes = "configured")
    BY <1>4, <1>6, <1>7
  <2>3. c.pc = IF c.tool = "queue" THEN "load" ELSE "before"
    BY <1>4
  <2> QED
    BY <1>4, <2>1, <2>2, <2>3, ItemBegins DEF AtItem
<1> QED
  BY <1>5, <1>8, NothingAsked

\* The item ends and nothing is added.
LEMMA ItemEndsQuietly ==
  ASSUME PublishInv, call.pc # "idle", NEW full, NextItem(full),
         UNCHANGED <<people, shown, staging, taken>>
  PROVE  PublishInv'
<1> PICK c : c = call'
  OBVIOUS
<1>1. CallOK(c)
  BY ItemEnds
<1> QED
  BY <1>1, CallGoesOn

\* The staging or queueing of an item goes on.
LEMMA GoesOn ==
  ASSUME PublishInv, NEW pc, Goto(pc),
         \/ call.pc \in Staging /\ pc \in Staging /\ (pc \in Copying => call.pc \in Copying)
         \/ call.pc \in Queueing /\ pc \in Queueing
  PROVE  CallOK(call')
<1>1. CallOK(call)
  BY DEF PublishInv
<1> PICK c : c = [call EXCEPT !.pc = pc]
  OBVIOUS
<1>2. /\ DOMAIN c = DOMAIN call /\ c.pc = pc /\ c.tool = call.tool /\ c.todo = call.todo
      /\ c.cache = call.cache /\ c.plan = call.plan /\ c.job = call.job
  BY <1>1 DEF CallOK
<1>3. call' = c
  BY DEF Goto
<1>4. /\ pc \notin {"inspect", "after", "template", "template_after", "planned"}
      /\ pc # "idle" /\ call.pc # "idle"
      /\ pc \in Planning \cup Staging <=> call.pc \in Planning \cup Staging
      /\ pc \in Staging => call.pc \in Staging
      /\ pc \in Copying => call.pc \in Copying
  BY DEF Staging, Copying, Planning, Queueing
<1>5. CallOK(c)
  BY <1>1, <1>2, <1>4 DEF CallOK
<1> QED
  BY <1>3, <1>5

\* People edit a drawing, the template or a staged job.
LEMMA TouchKeeps ==
  ASSUME PublishInv, Touch
  PROVE  PublishInv'
<1>1. ProjectOK /\ JobsOK /\ CallOK(call)
  BY DEF PublishInv
<1>2. /\ touches' = touches + 1 /\ touches \in Nat /\ touches' \in Nat /\ shown' = shown
      /\ call' = call /\ taken' = taken
  BY <1>1 DEF Touch, ProjectOK, plugin
<1> PICK c : c = call
  OBVIOUS
<1>3. ASSUME ProjectOK', ProjectGoes, staging' \in Seq(StagedJob),
             DOMAIN staging \subseteq DOMAIN staging'
      PROVE  PublishInv'
  <2>1. Grows
    BY <1>2, <1>3 DEF Grows
  <2>2. StagedJob' = StagedJob /\ TakenJob' = TakenJob
    BY <1>2 DEF StagedJob, TakenJob, Approved
  <2>3. JobsOK'
    BY <1>1, <1>2, <1>3, <2>2 DEF JobsOK
  <2> QED
    BY <1>1, <1>2, <1>3, <2>1, <2>3, PublishFrame
<1>4. CASE \E d \in Drawings, b \in Contents :
             project' = [project EXCEPT ![d] = [bytes |-> b, time |-> touches + 1]]
           /\ UNCHANGED <<template, staging>>
  <2> PICK d \in Drawings, b \in Contents :
        project' = [project EXCEPT ![d] = [bytes |-> b, time |-> touches + 1]]
    BY <1>4
  <2> PICK file : file = [bytes |-> b, time |-> touches + 1]
    OBVIOUS
  <2>1. file.bytes = b /\ file.time = touches + 1
    OBVIOUS
  <2>2. DOMAIN project' = Drawings /\ project'[d] = file
        /\ \A e \in Drawings : e # d => project'[e] = project[e]
    BY <1>1 DEF ProjectOK
  <2>3. ProjectOK' /\ ProjectGoes
    BY <1>1, <1>2, <1>4, <2>1, <2>2 DEF ProjectOK, ProjectGoes
  <2> QED
    BY <1>1, <1>3, <1>4, <2>3 DEF JobsOK
<1>5. CASE \E b \in {"configured", "redesigned"} :
             template' = [bytes |-> b, time |-> touches + 1]
           /\ UNCHANGED <<project, staging>>
  <2>1. ProjectOK' /\ ProjectGoes
    BY <1>1, <1>2, <1>5 DEF ProjectOK, ProjectGoes
  <2> QED
    BY <1>1, <1>3, <1>5, <2>1 DEF JobsOK
<1>6. ASSUME NEW j \in DOMAIN staging, NEW job, staging' = [staging EXCEPT ![j] = job],
             job \in StagedJob, UNCHANGED <<project, template>>
      PROVE  PublishInv'
  <2>1. ProjectOK' /\ ProjectGoes
    BY <1>1, <1>2, <1>6 DEF ProjectOK, ProjectGoes
  <2>2. staging \in Seq(StagedJob) /\ j \in 1 .. Len(staging)
    BY <1>1, LenProperties DEF JobsOK
  <2>3. staging' \in Seq(StagedJob) /\ DOMAIN staging' = DOMAIN staging
    BY <1>6, <2>2, ExceptSeq
  <2> QED
    BY <1>3, <2>1, <2>3
<1>7. ASSUME NEW j \in DOMAIN staging, NEW m \in {"original", "edited"},
             staging' = [staging EXCEPT ![j].manifest = m], UNCHANGED <<project, template>>
      PROVE  PublishInv'
  <2>1. staging[j] \in StagedJob
    BY <1>1, ElementOfSeq, LenProperties DEF JobsOK
  <2> PICK job : job = [staging[j] EXCEPT !.manifest = m]
    OBVIOUS
  <2>2. job \in StagedJob
    BY <2>1 DEF StagedJob
  <2> QED
    BY <1>6, <1>7, <2>2
<1>8. ASSUME NEW j \in DOMAIN staging, NEW b \in Contents,
             staging' = [staging EXCEPT ![j].copy = b], UNCHANGED <<project, template>>
      PROVE  PublishInv'
  <2>1. staging[j] \in StagedJob
    BY <1>1, ElementOfSeq, LenProperties DEF JobsOK
  <2> PICK job : job = [staging[j] EXCEPT !.copy = b]
    OBVIOUS
  <2>2. job \in StagedJob
    BY <2>1 DEF StagedJob
  <2> QED
    BY <1>6, <1>8, <2>2
<1> QED
  BY <1>4, <1>5, <1>7, <1>8 DEF Touch

\* A call is opened on items that exist.
LEMMA OpenKeeps ==
  ASSUME PublishInv, NEW tool \in {"plan", "stage", "queue"}, NEW asked \in Seq(Items(tool)),
         asked # <<>>, Open(tool, asked)
  PROVE  PublishInv'
<1> PICK pc : pc = IF tool = "queue" THEN "load" ELSE "before"
  OBVIOUS
<1> PICK c : c = [NoCallYet EXCEPT !.tool = tool, !.todo = asked, !.pc = pc]
  OBVIOUS
<1>1. DOMAIN c = DOMAIN NoCallYet /\ c.tool = tool /\ c.todo = asked /\ c.pc = pc
      /\ c.cache = Missing
  BY DEF NoCallYet
<1>2. CallOK(c)
  BY <1>1, ItemBegins DEF AtItem
<1>3. call' = c /\ UNCHANGED <<people, shown, staging, taken>>
  BY DEF Open
<1> QED
  BY <1>2, <1>3, CallGoesOn

\* Short sequences of things are sequences of them.
LEMMA ShortSequence ==
  ASSUME NEW S, NEW T, S \subseteq T, NEW s \in BoundedSeq(S, 2)
  PROVE  s \in Seq(T)
<1>1. PICK m \in 0 .. 2 : s \in [1 .. m -> S]
  BY DEF BoundedSeq, SeqOf
<1>2. m \in Nat
  OBVIOUS
<1>3. s \in Seq(S)
  BY <1>1, <1>2, SeqDef
<1> QED
  BY <1>3, SeqMonotonic

\* What clients ask for.
LEMMA AskKeeps ==
  ASSUME PublishInv, Ask
  PROVE  PublishInv'
<1>1. JobsOK
  BY DEF PublishInv
<1>2. ASSUME NEW s \in PlanItems, Open("plan", s)
      PROVE  PublishInv'
  <2>1. PICK d \in Drawings : s = <<[drawing |-> d]>>
    BY <1>2 DEF PlanItems
  <2>2. [drawing |-> d] \in Items("plan")
    BY DEF Items
  <2> PICK i : i = [drawing |-> d]
    OBVIOUS
  <2>3. s \in Seq(Items("plan")) /\ s # <<>>
    BY <2>1, <2>2
  <2> QED
    BY <1>2, <2>3, OpenKeeps
<1>3. ASSUME NEW s \in StageItems, Open("stage", s)
      PROVE  PublishInv'
  <2> PICK S : S = {[drawing |-> p.drawing, plan |-> p] : p \in shown}
    OBVIOUS
  <2>1. S \subseteq Items("stage")
    BY <1>1 DEF Items, JobsOK
  <2>2. s \in BoundedSeq(S, 2) /\ s # <<>>
    BY DEF StageItems
  <2>3. s \in Seq(Items("stage"))
    BY <2>1, <2>2, ShortSequence
  <2> QED
    BY <1>3, <2>2, <2>3, OpenKeeps
<1>4. ASSUME NEW s \in QueueItems, Open("queue", s)
      PROVE  PublishInv'
  <2> PICK S : S = {[job |-> j] : j \in {k \in DOMAIN staging : staging[k].manifest # Missing}}
    OBVIOUS
  <2>1. S \subseteq Items("queue")
    BY DEF Items
  <2>2. s \in BoundedSeq(S, 2) /\ s # <<>>
    BY DEF QueueItems
  <2>3. s \in Seq(Items("queue"))
    BY <2>1, <2>2, ShortSequence
  <2> QED
    BY <1>4, <2>2, <2>3, OpenKeeps
<1> QED
  BY <1>2, <1>3, <1>4 DEF Ask

\* The item goes on, or it ends and nothing is added.
LEMMA StepKeeps ==
  ASSUME PublishInv, NEW pc, NEW ok, NEW next, Step(pc, ok, next), pc # "idle",
         Goto(next) /\ ok => CallOK(call')
  PROVE  PublishInv'
<1>1. call.pc # "idle" /\ UNCHANGED <<people, shown, staging, taken>>
  BY DEF Step, quiet, plugin
<1>2. CASE NextItem(call.full)
  BY <1>1, <1>2, ItemEndsQuietly
<1>3. CASE Goto(next) /\ ok
  <2> PICK c : c = call'
    OBVIOUS
  <2> QED
    BY <1>1, <1>3, CallGoesOn
<1> QED
  BY <1>2, <1>3 DEF Step

\* Planning of one item: the drawing is fingerprinted, inspected and fingerprinted again,
\* so that the sheets are those of the fingerprint in the plan.
LEMMA PlanningKeeps ==
  ASSUME PublishInv, FingerprintBefore \/ Inspect \/ FingerprintAfter
  PROVE  PublishInv'
<1>1. ProjectOK /\ JobsOK /\ CallOK(call)
  BY DEF PublishInv
<1> PICK d : d = Head(call.todo).drawing
  OBVIOUS
<1>2. project[item.drawing] = project[d]
  BY DEF item
<1>3. call.pc \in {"before", "inspect", "after"} => d \in Drawings
  BY <1>1, FirstItem DEF CallOK, Planning
<1>4. /\ \A p \in {"inspect", "after", "template", "planned"} :
              p \in Planning /\ p \notin Staging /\ p \notin Copying /\ p # "idle"
      /\ call.pc \in {"before", "inspect", "after"}
           => call.pc \in Planning \cup Staging /\ call.pc # "idle"
  BY DEF Planning, Staging, Copying
<1>5. CASE FingerprintBefore
  <2> PICK before : before = project[d]
    OBVIOUS
  <2> PICK c : c = [call EXCEPT !.pc = "inspect", !.before = before]
    OBVIOUS
  <2>1. call.pc = "before" /\ call' = c /\ UNCHANGED <<people, shown, staging, taken>>
    BY <1>2, <1>5 DEF FingerprintBefore, quiet, plugin
  <2>2. DOMAIN c = DOMAIN call /\ c.pc = "inspect" /\ c.before = before /\ c.tool = call.tool
        /\ c.todo = call.todo /\ c.cache = call.cache
    BY <1>1 DEF CallOK
  <2>3. Since(project[d], before) /\ before.time \in 0 .. touches
    BY <1>1, <1>3, <2>1 DEF Since, ProjectOK
  <2>4. CallOK(c)
    BY <1>1, <1>4, <2>1, <2>2, <2>3 DEF CallOK
  <2> QED
    BY <2>1, <2>4, CallGoesOn
<1>6. CASE Inspect
  <2> PICK sheets : sheets = SheetsOf(project[d].bytes)
    OBVIOUS
  <2> PICK c : c = [call EXCEPT !.pc = "after", !.sheets = sheets]
    OBVIOUS
  <2>1. call.pc = "inspect" /\ call' = c /\ UNCHANGED <<people, shown, staging, taken>>
    BY <1>2, <1>6 DEF Inspect, quiet, plugin
  <2>2. DOMAIN c = DOMAIN call /\ c.pc = "after" /\ c.before = call.before /\ c.tool = call.tool
        /\ c.todo = call.todo /\ c.cache = call.cache /\ c.sheets = sheets
    BY <1>1 DEF CallOK
  <2>3. /\ sheets = SheetsOf(call.before.bytes) \/ project[d].time > call.before.time
        /\ call.before.time \in 0 .. touches
    BY <1>1, <2>1 DEF CallOK, Since
  <2>4. CallOK(c)
    BY <1>1, <1>4, <2>1, <2>2, <2>3 DEF CallOK
  <2> QED
    BY <2>1, <2>4, CallGoesOn
<1>7. CASE FingerprintAfter
  <2> PICK pc \in {"template", "planned"} :
        pc = IF call.cache = Missing THEN "template" ELSE "planned"
    OBVIOUS
  <2>1. Step("after", Unmoved, pc)
    BY <1>7 DEF FingerprintAfter
  <2>2. ASSUME Goto(pc), Unmoved, call.pc = "after"
        PROVE  CallOK(call')
    <3> PICK c : c = [call EXCEPT !.pc = pc]
      OBVIOUS
    <3>1. call' = c
      BY <2>2 DEF Goto
    <3>2. DOMAIN c = DOMAIN call /\ c.pc = pc /\ c.before = call.before /\ c.tool = call.tool
          /\ c.todo = call.todo /\ c.cache = call.cache /\ c.sheets = call.sheets
      BY <1>1 DEF CallOK
    <3>3. project[d] = call.before
      BY <1>2, <2>2 DEF Unmoved
    <3>4. call.before.time \in 0 .. touches /\ touches \in Nat
      BY <1>1, <2>2 DEF CallOK, ProjectOK
    <3>5. call.sheets = SheetsOf(call.before.bytes)
      BY <1>1, <2>2, <3>3, <3>4 DEF CallOK
    <3>6. pc = "planned" => call.cache.bytes = "configured"
      BY <1>1 DEF CallOK
    <3>7. CallOK(c)
      BY <1>1, <1>4, <2>2, <3>2, <3>5, <3>6 DEF CallOK
    <3> QED
      BY <3>1, <3>7
  <2>3. call.pc = "after"
    BY <2>1 DEF Step
  <2> PICK at \in {"after"} : Step(at, Unmoved, pc)
    BY <2>1
  <2> QED
    BY <2>2, <2>3, StepKeeps
<1> QED
  BY <1>5, <1>6, <1>7

\* The template that is put in a plan has the digest in the configuration.
LEMMA TemplateKeeps ==
  ASSUME PublishInv, InspectTemplate \/ TemplateAfter
  PROVE  PublishInv'
<1>1. ProjectOK /\ JobsOK /\ CallOK(call)
  BY DEF PublishInv
<1>2. UNCHANGED <<people, shown, staging, taken>> /\ call.pc \in {"template", "template_after"}
  BY DEF InspectTemplate, TemplateAfter, quiet, plugin
<1>3. /\ \A p \in {"template_after", "planned"} :
              p \in Planning /\ p \notin Staging /\ p \notin Copying /\ p # "idle"
      /\ call.pc # "idle" /\ call.tool # "queue"
      /\ call.sheets = SheetsOf(call.before.bytes)
  BY <1>1, <1>2 DEF Planning, Staging, Copying, CallOK
<1>4. CASE InspectTemplate
  <2> PICK asset : asset = template
    OBVIOUS
  <2> PICK c : c = [call EXCEPT !.pc = "template_after", !.cache = asset]
    OBVIOUS
  <2>1. NextItem(call.full) \/ (asset.bytes = "configured" /\ call' = c)
    BY <1>4 DEF InspectTemplate
  <2>2. DOMAIN c = DOMAIN call /\ c.pc = "template_after" /\ c.before = call.before
        /\ c.tool = call.tool /\ c.todo = call.todo /\ c.cache = asset /\ c.sheets = call.sheets
    BY <1>1 DEF CallOK
  <2>3. asset.bytes = "configured" => CallOK(c)
    BY <1>1, <1>3, <2>2 DEF CallOK
  <2> QED
    BY <1>2, <1>3, <2>1, <2>3, CallGoesOn, ItemEndsQuietly
<1>5. CASE TemplateAfter
  <2> PICK c : c = [call EXCEPT !.pc = "planned"]
    OBVIOUS
  <2> PICK tail : tail = Tail(call.todo)
    OBVIOUS
  <2> PICK next : next = [NoCallYet EXCEPT !.tool = call.tool, !.todo = tail, !.pc = "before"]
    OBVIOUS
  <2>1. \/ call' = c
        \/ call' = NoCallYet
        \/ Len(call.todo) # 1 /\ call' = next
    BY <1>5 DEF TemplateAfter, Goto
  <2>2. DOMAIN c = DOMAIN call /\ c.pc = "planned" /\ c.before = call.before
        /\ c.tool = call.tool /\ c.todo = call.todo /\ c.cache = call.cache
        /\ c.sheets = call.sheets
    BY <1>1 DEF CallOK
  <2>3. call.pc = "template_after"
    BY <1>5 DEF TemplateAfter
  <2>4. CallOK(c)
    BY <1>1, <1>3, <2>2, <2>3 DEF CallOK
  <2>5. DOMAIN next = DOMAIN NoCallYet /\ next.tool = call.tool /\ next.todo = tail
        /\ next.pc = "before" /\ next.cache = Missing
    BY DEF NoCallYet
  <2>6. Len(call.todo) # 1 => tail # <<>>
    <3>1. call.todo \in Seq(Items(call.tool)) /\ call.todo # <<>>
      BY <1>1, <1>3 DEF CallOK
    <3>2. Len(tail) = Len(call.todo) - 1 /\ Len(call.todo) \in Nat
      BY <3>1, HeadTailProperties, LenProperties
    <3>3. tail = <<>> => Len(tail) = 0
      OBVIOUS
    <3> QED
      BY <3>2, <3>3
  <2>7. Len(call.todo) # 1 => CallOK(next)
    <3>1. call.tool \in {"plan", "stage", "queue"} /\ tail \in Seq(Items(call.tool))
      BY <1>1, <1>3, FirstItem DEF CallOK
    <3> QED
      BY <1>3, <2>5, <2>6, <3>1, ItemBegins DEF AtItem
  <2> PICK none : none = NoCallYet
    OBVIOUS
  <2> QED
    BY <1>2, <2>1, <2>4, <2>7, CallGoesOn, NothingAsked
<1> QED
  BY <1>4, <1>5

\* A plan is shown to the client, or compared with the one the client approved.
LEMMA PlannedKeeps ==
  ASSUME PublishInv, Planned
  PROVE  PublishInv'
<1>1. ProjectOK /\ JobsOK /\ CallOK(call) /\ call.pc = "planned"
  BY DEF PublishInv, Planned
<1>2. call.pc # "idle" /\ call.tool \in {"plan", "stage"}
      /\ call.sheets = SheetsOf(call.before.bytes) /\ call.cache.bytes = "configured"
  BY <1>1 DEF CallOK, Planning
<1>3. Head(call.todo).drawing \in Drawings /\ (call.tool = "stage" => Head(call.todo).plan \in shown)
  BY <1>1, <1>2, FirstItem
<1> PICK plan : plan = [drawing |-> Head(call.todo).drawing, fingerprint |-> call.before,
                        sheets |-> call.sheets, asset |-> call.cache]
  OBVIOUS
<1>4. Plan = plan /\ plan.drawing = Head(call.todo).drawing /\ plan.fingerprint = call.before
      /\ plan.sheets = call.sheets /\ plan.asset = call.cache
  BY DEF Plan, item
<1>5. CASE call.tool = "plan"
  <2>1. shown' = shown \cup {plan} /\ NextItem(FALSE) /\ UNCHANGED <<people, staging, plugin>>
    BY <1>4, <1>5 DEF Planned
  <2>2. /\ project' = project /\ template' = template /\ touches' = touches
        /\ staging' = staging /\ taken' = taken
    BY <2>1 DEF people, plugin
  <2>3. ProjectOK' /\ ProjectGoes /\ Grows
    BY <1>1, <2>1, <2>2 DEF ProjectOK, ProjectGoes, Grows
  <2>4. StagedJob \subseteq StagedJob' /\ TakenJob \subseteq TakenJob'
    BY <2>3, ApprovedStays
  <2>5. staging \in Seq(StagedJob') /\ taken \in Seq(TakenJob')
    BY <1>1, <2>4, SeqMonotonic DEF JobsOK
  <2>6. JobsOK'
    BY <1>1, <1>3, <1>4, <2>1, <2>2, <2>5 DEF JobsOK
  <2> PICK c : c = call'
    OBVIOUS
  <2>7. CallOK(c)
    BY <1>2, <2>1, ItemEnds
  <2> QED
    BY <2>3, <2>6, <2>7, PublishFrame
<1>6. CASE call.tool = "stage"
  <2> PICK c : c = [call EXCEPT !.pc = "stage", !.plan = plan]
    OBVIOUS
  <2>1. UNCHANGED <<people, shown, staging, taken>>
        /\ (NextItem(FALSE) \/ (Ready(plan) /\ plan = Head(call.todo).plan /\ call' = c))
    BY <1>4, <1>6 DEF Planned, item, plugin
  <2>2. DOMAIN c = DOMAIN call /\ c.pc = "stage" /\ c.plan = plan
        /\ c.tool = call.tool /\ c.todo = call.todo /\ c.cache = call.cache
    BY <1>1 DEF CallOK
  <2>3. Ready(plan) /\ plan = Head(call.todo).plan => plan \in Approved
    BY <1>2, <1>3, <1>4, <1>6 DEF Approved
  <2>4. /\ c.pc \notin {"inspect", "after", "template", "template_after", "planned"}
        /\ c.pc \notin Copying /\ c.pc \in Staging /\ call.pc \in Planning
    BY <1>1, <2>2 DEF Copying, Staging, Planning
  <2>5. Ready(plan) /\ plan = Head(call.todo).plan => CallOK(c)
    BY <1>1, <1>2, <1>6, <2>2, <2>3, <2>4 DEF CallOK
  <2> QED
    BY <1>2, <2>1, <2>5, CallGoesOn, ItemEndsQuietly
<1> QED
  BY <1>2, <1>5, <1>6

\* A step of staging that writes one field of the job it made.
LEMMA JobWritten ==
  ASSUME PublishInv, NEW job, call.pc \in Copying, staging' = [staging EXCEPT ![call.job] = job],
         job \in StagedJob, UNCHANGED <<people, shown, plugin>>, CallOK(call')
  PROVE  PublishInv'
<1>1. ProjectOK /\ JobsOK /\ CallOK(call)
  BY DEF PublishInv
<1>2. /\ project' = project /\ template' = template /\ touches' = touches
      /\ shown' = shown /\ taken' = taken
  BY DEF people, plugin
<1>3. staging \in Seq(StagedJob) /\ call.job \in 1 .. Len(staging)
  BY <1>1, LenProperties DEF JobsOK, CallOK
<1>4. staging' \in Seq(StagedJob) /\ DOMAIN staging' = DOMAIN staging
  BY <1>3, ExceptSeq
<1>5. ProjectOK' /\ ProjectGoes /\ Grows
  BY <1>1, <1>2, <1>4 DEF ProjectOK, ProjectGoes, Grows
<1>6. StagedJob' = StagedJob /\ TakenJob' = TakenJob
  BY <1>2 DEF StagedJob, TakenJob, Approved
<1>7. JobsOK'
  BY <1>1, <1>2, <1>4, <1>6 DEF JobsOK
<1> PICK c : c = call'
  OBVIOUS
<1> QED
  BY <1>5, <1>7, PublishFrame

\* Staging copies the drawing and the template, and writes the manifest last.
LEMMA StagingKeeps ==
  ASSUME PublishInv, StageStep
  PROVE  PublishInv'
<1>1. ProjectOK /\ JobsOK /\ CallOK(call)
  BY DEF PublishInv
<1>2. \A p \in Copying : p \in Staging /\ p # "idle"
  BY DEF Staging, Copying
<1>3. call.pc \in Copying => staging[call.job] \in StagedJob
  BY <1>1, ElementOfSeq, LenProperties DEF JobsOK, CallOK
<1>4. ASSUME NEW pc \in Staging, NEW ok, NEW next \in Staging, Step(pc, ok, next),
             next \in Copying => pc \in Copying
      PROVE  PublishInv'
  <2>1. call.pc = pc /\ pc # "idle"
    BY <1>4 DEF Step, Staging, Copying
  <2>2. Goto(next) /\ ok => CallOK(call')
    BY <1>4, <2>1, GoesOn
  <2> QED
    BY <1>4, <2>1, <2>2, StepKeeps
<1>5. CASE StageFingerprint
  <2> PICK pc \in {"stage"} : TRUE
    OBVIOUS
  <2> PICK next \in {"mkdir"} : TRUE
    OBVIOUS
  <2>1. Step(pc, project[item.drawing] = call.plan.fingerprint, next)
    BY <1>5 DEF StageFingerprint
  <2>2. pc \in Staging /\ next \in Staging /\ next \notin Copying
    BY DEF Staging, Copying
  <2> PICK ok \in BOOLEAN : ok = (project[item.drawing] = call.plan.fingerprint)
    OBVIOUS
  <2> QED
    BY <1>4, <2>1, <2>2
<1>6. CASE VerifyCopy
  <2> PICK pc \in {"verify"} : TRUE
    OBVIOUS
  <2> PICK next \in {"asset"} : TRUE
    OBVIOUS
  <2> PICK ok \in BOOLEAN : ok = (staging[call.job].copy = call.plan.fingerprint.bytes)
    OBVIOUS
  <2>1. Step(pc, ok, next)
    BY <1>6 DEF VerifyCopy
  <2>2. pc \in Staging /\ next \in Staging /\ pc \in Copying
    BY DEF Staging, Copying
  <2> QED
    BY <1>4, <2>1, <2>2
<1>7. CASE CheckAsset
  <2> PICK pc \in {"asset"} : TRUE
    OBVIOUS
  <2> PICK next \in {"asset_copy"} : TRUE
    OBVIOUS
  <2> PICK ok \in BOOLEAN : ok = (template = call.plan.asset)
    OBVIOUS
  <2>1. Step(pc, ok, next)
    BY <1>7 DEF CheckAsset
  <2>2. pc \in Staging /\ next \in Staging /\ pc \in Copying
    BY DEF Staging, Copying
  <2> QED
    BY <1>4, <2>1, <2>2
<1>8. CASE VerifyAsset
  <2> PICK pc \in {"asset_verify"} : TRUE
    OBVIOUS
  <2> PICK next \in {"manifest"} : TRUE
    OBVIOUS
  <2> PICK ok \in BOOLEAN : ok = (staging[call.job].template = call.plan.asset.bytes)
    OBVIOUS
  <2>1. Step(pc, ok, next)
    BY <1>8 DEF VerifyAsset
  <2>2. pc \in Staging /\ next \in Staging /\ pc \in Copying
    BY DEF Staging, Copying
  <2> QED
    BY <1>4, <2>1, <2>2
<1>9. CASE CopyDrawing
  <2> PICK bytes : bytes = project[Head(call.todo).drawing].bytes
    OBVIOUS
  <2>1. call.pc = "copy" /\ UNCHANGED <<people, shown, plugin>> /\ Goto("verify")
        /\ staging' = [staging EXCEPT ![call.job].copy = bytes]
    BY <1>9 DEF CopyDrawing, item
  <2>2. call.pc \in Copying /\ call.pc \in Staging /\ "verify" \in Staging /\ "verify" \in Copying
    BY <2>1 DEF Staging, Copying
  <2> PICK next \in Copying : Goto(next)
    BY <2>1, <2>2
  <2>3. CallOK(call')
    BY <1>2, <2>2, GoesOn
  <2>4. bytes \in Contents
    BY <1>1, <1>2, <2>2, FirstItem DEF CallOK, ProjectOK
  <2> PICK job : job = [staging[call.job] EXCEPT !.copy = bytes]
    OBVIOUS
  <2>5. job \in StagedJob
    BY <1>3, <2>2, <2>4 DEF StagedJob
  <2>6. staging' = [staging EXCEPT ![call.job] = job]
    BY <2>1
  <2> QED
    BY <2>1, <2>2, <2>3, <2>5, <2>6, JobWritten
<1>10. CASE CopyAsset
  <2>1. call.pc = "asset_copy" /\ UNCHANGED <<people, shown, plugin>> /\ Goto("asset_verify")
        /\ staging' = [staging EXCEPT ![call.job].template = template.bytes]
    BY <1>10 DEF CopyAsset
  <2>2. call.pc \in Copying /\ call.pc \in Staging
        /\ "asset_verify" \in Staging /\ "asset_verify" \in Copying
    BY <2>1 DEF Staging, Copying
  <2> PICK next \in Copying : Goto(next)
    BY <2>1, <2>2
  <2>3. CallOK(call')
    BY <1>2, <2>2, GoesOn
  <2> PICK bytes : bytes = template.bytes
    OBVIOUS
  <2>4. bytes \in {"configured", "redesigned", Missing}
    BY <1>1 DEF ProjectOK
  <2> PICK job : job = [staging[call.job] EXCEPT !.template = bytes]
    OBVIOUS
  <2>5. job \in StagedJob
    BY <1>3, <2>2, <2>4 DEF StagedJob
  <2>6. staging' = [staging EXCEPT ![call.job] = job]
    BY <2>1
  <2> QED
    BY <2>1, <2>2, <2>3, <2>5, <2>6, JobWritten
<1>11. CASE WriteManifest
  <2>1. call.pc = "manifest" /\ UNCHANGED <<people, shown, plugin>> /\ NextItem(FALSE)
        /\ staging' = [staging EXCEPT ![call.job].manifest = "original"]
    BY <1>11 DEF WriteManifest
  <2>2. call.pc \in Copying /\ call.pc # "idle"
    BY <2>1 DEF Copying
  <2>3. CallOK(call')
    BY <2>1, <2>2, ItemEnds
  <2> PICK job : job = [staging[call.job] EXCEPT !.manifest = "original"]
    OBVIOUS
  <2>4. job \in StagedJob
    BY <1>3, <2>2 DEF StagedJob
  <2>5. staging' = [staging EXCEPT ![call.job] = job]
    BY <2>1
  <2> QED
    BY <2>1, <2>2, <2>3, <2>4, <2>5, JobWritten
<1>12. CASE MakeJob
  <2> PICK job : job = [plan |-> call.plan, copy |-> Missing, template |-> Missing,
                        manifest |-> Missing]
    OBVIOUS
  <2> PICK c : c = [call EXCEPT !.pc = "copy", !.job = Len(staging) + 1]
    OBVIOUS
  <2>1. call.pc = "mkdir" /\ staging' = Append(staging, job) /\ call' = c
        /\ UNCHANGED <<people, shown, plugin>>
    BY <1>12 DEF MakeJob
  <2>2. /\ project' = project /\ template' = template /\ touches' = touches
        /\ shown' = shown /\ taken' = taken
    BY <2>1 DEF people, plugin
  <2>3. /\ call.pc \in Staging /\ "copy" \in Staging /\ "copy" # "idle" /\ call.pc # "idle"
        /\ "copy" \notin {"inspect", "after", "template", "template_after", "planned"}
    BY <2>1 DEF Staging, Copying
  <2>4. job \in StagedJob
    BY <1>1, <2>3 DEF StagedJob, CallOK
  <2>5. staging \in Seq(StagedJob)
    BY <1>1 DEF JobsOK
  <2>6. /\ staging' \in Seq(StagedJob) /\ Len(staging') = Len(staging) + 1
        /\ DOMAIN staging = 1 .. Len(staging) /\ DOMAIN staging' = 1 .. Len(staging')
        /\ Len(staging) \in Nat
    BY <2>1, <2>4, <2>5, AppendProperties, LenProperties
  <2>7. ProjectOK' /\ ProjectGoes /\ Grows
    BY <1>1, <2>2, <2>6 DEF ProjectOK, ProjectGoes, Grows
  <2>8. StagedJob' = StagedJob /\ TakenJob' = TakenJob
    BY <2>2 DEF StagedJob, TakenJob, Approved
  <2>9. JobsOK'
    BY <1>1, <2>2, <2>6, <2>8 DEF JobsOK
  <2> PICK before : before = call
    OBVIOUS
  <2>10. CallOK(before)'
    BY <1>1, <2>7, CallStays
  <2>11. DOMAIN c = DOMAIN before /\ c.pc = "copy" /\ c.job = Len(staging) + 1
         /\ c.tool = before.tool /\ c.todo = before.todo /\ c.cache = before.cache
         /\ c.plan = before.plan
    BY <1>1 DEF CallOK
  <2>12. c.job \in DOMAIN staging'
    BY <2>6, <2>11
  <2>13. CallOK(c)'
    BY <2>3, <2>10, <2>11, <2>12 DEF CallOK
  <2>14. CallOK(call)'
    BY <2>1, <2>13 DEF CallOK
  <2> QED
    BY <2>7, <2>9, <2>14 DEF PublishInv
<1> QED
  BY <1>5, <1>6, <1>7, <1>8, <1>9, <1>10, <1>11, <1>12 DEF StageStep

\* Queueing an item; what the plug-in accepts is intact and a staged job.
LEMMA QueueingKeeps ==
  ASSUME PublishInv, QueueStep
  PROVE  PublishInv'
<1>1. ProjectOK /\ JobsOK /\ CallOK(call)
  BY DEF PublishInv
<1>2. call.pc \in Queueing => call.pc # "idle" /\ call.tool = "queue"
  BY <1>1 DEF CallOK, Queueing, Planning, Staging, Copying
<1>3. ASSUME NEW pc \in Queueing, NEW ok, NEW next \in Queueing, Step(pc, ok, next)
      PROVE  PublishInv'
  <2>1. call.pc = pc /\ pc # "idle"
    BY <1>3 DEF Step, Queueing
  <2>2. Goto(next) /\ ok => CallOK(call')
    BY <1>3, <2>1, GoesOn
  <2> QED
    BY <1>3, <2>1, <2>2, StepKeeps
<1>4. ASSUME NEW full, call.pc \in Queueing, NextItem(full),
             UNCHANGED <<people, shown, staging, taken>>
      PROVE  PublishInv'
  BY <1>2, <1>4, ItemEndsQuietly
<1>5. CASE Defer
  <2>1. call.pc \in Queueing /\ NextItem(TRUE) /\ UNCHANGED <<people, shown, staging, taken>>
    BY <1>5 DEF Defer, Queueing
  <2> QED
    BY <1>4, <2>1
<1>6. CASE LoadStaged
  <2> PICK ok \in BOOLEAN : ok = (staging[item.job].manifest # Missing /\ Intact(item.job))
    OBVIOUS
  <2> PICK pc \in {"load"} : TRUE
    OBVIOUS
  <2> PICK next \in {"source"} : TRUE
    OBVIOUS
  <2>1. Step(pc, ok, next)
    BY <1>6 DEF LoadStaged
  <2>2. pc \in Queueing /\ next \in Queueing
    BY DEF Queueing
  <2> QED
    BY <1>3, <2>1, <2>2
<1>7. CASE AuditSource
  <2> PICK ok \in BOOLEAN :
        ok = (project[staging[item.job].plan.drawing] = staging[item.job].plan.fingerprint)
    OBVIOUS
  <2> PICK pc \in {"source"} : TRUE
    OBVIOUS
  <2> PICK next \in {"rehash"} : TRUE
    OBVIOUS
  <2>1. Step(pc, ok, next)
    BY <1>7 DEF AuditSource
  <2>2. pc \in Queueing /\ next \in Queueing
    BY DEF Queueing
  <2> QED
    BY <1>3, <2>1, <2>2
<1>8. CASE Rehash
  <2> PICK ok \in BOOLEAN : ok = (staging[item.job].manifest = "original")
    OBVIOUS
  <2> PICK pc \in {"rehash"} : TRUE
    OBVIOUS
  <2> PICK next \in {"send"} : TRUE
    OBVIOUS
  <2>1. Step(pc, ok, next)
    BY <1>8 DEF Rehash
  <2>2. pc \in Queueing /\ next \in Queueing
    BY DEF Queueing
  <2> QED
    BY <1>3, <2>1, <2>2
<1>9. CASE SendRefused \/ SendFull
  <2>1. call.pc \in Queueing /\ (NextItem(TRUE) \/ NextItem(FALSE))
        /\ UNCHANGED <<people, shown, staging, taken>>
    BY <1>9 DEF SendRefused, SendFull, Queueing, quiet, plugin
  <2> QED
    BY <1>4, <2>1
<1>10. CASE SendAccepted
  <2> PICK j : j = Head(call.todo).job
    OBVIOUS
  <2> PICK job : job = staging[j]
    OBVIOUS
  <2>1. /\ call.pc = "send" /\ Acceptable(j) /\ taken' = Append(taken, job)
        /\ NextItem(FALSE) /\ UNCHANGED <<people, shown, staging>>
    BY <1>10 DEF SendAccepted, item
  <2>2. /\ project' = project /\ template' = template /\ touches' = touches
        /\ shown' = shown /\ staging' = staging
    BY <2>1 DEF people
  <2>3. call.pc \in Queueing
    BY <2>1 DEF Queueing
  <2>4. j \in DOMAIN staging
    BY <1>1, <1>2, <2>3, FirstItem
  <2>5. job \in StagedJob
    BY <1>1, <2>4, ElementOfSeq, LenProperties DEF JobsOK
  <2>6. job.copy = job.plan.fingerprint.bytes /\ job.template = job.plan.asset.bytes
    BY <2>1 DEF Acceptable, Intact
  <2>7. job.plan.asset.bytes = "configured"
    BY <2>5 DEF StagedJob, Approved
  <2>8. job \in TakenJob
    BY <2>5, <2>6, <2>7 DEF TakenJob
  <2>9. taken' \in Seq(TakenJob)
    BY <1>1, <2>1, <2>8, AppendProperties DEF JobsOK
  <2>10. ProjectOK' /\ ProjectGoes /\ Grows
    BY <1>1, <2>2 DEF ProjectOK, ProjectGoes, Grows
  <2>11. StagedJob' = StagedJob /\ TakenJob' = TakenJob
    BY <2>2 DEF StagedJob, TakenJob, Approved
  <2>12. JobsOK'
    BY <1>1, <2>2, <2>9, <2>11 DEF JobsOK
  <2> PICK c : c = call'
    OBVIOUS
  <2>13. CallOK(c)
    BY <1>2, <2>1, <2>3, ItemEnds
  <2> QED
    BY <2>10, <2>12, <2>13, PublishFrame
<1> QED
  BY <1>5, <1>6, <1>7, <1>8, <1>9, <1>10 DEF QueueStep

\* The invariant of a project, its staged jobs, the call under way and the queue.
THEOREM PublishIsSound == LocalSpec => []PublishInv
<1>1. LocalInit => PublishInv
  <2> SUFFICES ASSUME LocalInit
               PROVE  PublishInv
    OBVIOUS
  <2>1. ProjectOK
    BY DEF LocalInit, ProjectOK
  <2>2. JobsOK
    BY EmptySeq DEF LocalInit, JobsOK
  <2>3. CallOK(call)
    BY NothingAsked DEF LocalInit
  <2> QED
    BY <2>1, <2>2, <2>3 DEF PublishInv
<1>2. PublishInv /\ [LocalNext]_localVars => PublishInv'
  <2> SUFFICES ASSUME PublishInv, [LocalNext]_localVars
               PROVE  PublishInv'
    OBVIOUS
  <2> PICK c : c = call
    OBVIOUS
  <2>1. CallOK(c)
    BY DEF PublishInv
  <2>2. CASE UNCHANGED localVars
    BY <2>1, <2>2, CallGoesOn DEF localVars, people
  <2>3. CASE Drain
    BY <2>1, <2>3, CallGoesOn DEF Drain
  <2>4. CASE PlanStep
    BY <2>4, PlanningKeeps, TemplateKeeps, PlannedKeeps DEF PlanStep
  <2>5. CASE ItemFails
    BY <2>5, ItemEndsQuietly DEF ItemFails, quiet, plugin
  <2>6. CASE ServerDies
    <3>1. call' = NoCallYet /\ UNCHANGED <<people, shown, staging, taken>>
      BY <2>6 DEF ServerDies, quiet, plugin
    <3> QED
      BY <3>1, NothingAsked, CallGoesOn
  <2> QED
    BY <2>2, <2>3, <2>4, <2>5, <2>6, TouchKeeps, AskKeeps, StagingKeeps, QueueingKeeps
       DEF LocalNext
<1> QED
  BY <1>1, <1>2, PTL DEF LocalSpec

\* Whatever is edited between the reads of planning, staging and queueing, a job that the
\* plug-in accepted holds what a client was shown: the drawing whose inspection gave the
\* sheets of the plan, each of them matched, and the configured template.
THEOREM QueuedIsAlwaysApproved == LocalSpec => []QueuedIsApproved
<1>1. PublishInv => QueuedIsApproved
  <2> SUFFICES ASSUME PublishInv, NEW i \in 1 .. Len(taken)
               PROVE  LET job == taken[i]
                      IN  /\ job.plan \in shown /\ Ready(job.plan)
                          /\ job.plan.sheets = SheetsOf(job.copy)
                          /\ job.copy = job.plan.fingerprint.bytes /\ job.template = "configured"
    BY DEF QueuedIsApproved
  <2>1. taken \in Seq(TakenJob)
    BY DEF PublishInv, JobsOK
  <2> PICK job : job = taken[i]
    OBVIOUS
  <2>2. job \in TakenJob
    BY <2>1, ElementOfSeq
  <2>3. job.plan \in Approved /\ job.copy = job.plan.fingerprint.bytes
        /\ job.template = "configured"
    BY <2>2 DEF TakenJob, StagedJob
  <2> QED
    BY <2>3 DEF Approved
<1> QED
  BY <1>1, PublishIsSound, PTL

(***************************************************************************)
(* The records of a pilot.                                                 *)
(***************************************************************************)

\* The event of a history that was the latest at a moment.
IsAsOf(events, t, e) ==
  e \in events /\ e.at <= t /\ \A f \in events : f.at <= t => f.at <= e.at

\* A history: no two events at one moment, and a latest one.
HistoryOK(events) ==
  /\ \A e \in events : e.at \in 0 .. moment
  /\ \A e, f \in events : e.at = f.at => e = f
  /\ \E e \in events : \A f \in events : f.at <= e.at

\* What was installed, or configured, on a workstation at a moment.
Installed(r, commit, t) == \E e \in installs[r] : IsAsOf(installs[r], t, e) /\ e.commit = commit
InstalledAt(r, at, t) == \E e \in installs[r] : IsAsOf(installs[r], t, e) /\ e.at = at
ConfiguredAs(r, text, t) == \E e \in configs[r] : IsAsOf(configs[r], t, e) /\ e.text = text

\* Every record says what was the case when it was written.
GateOK(g) ==
  /\ g.release \in Releases /\ g.at \in 1 .. moment
  /\ Installed(g.release, g.commit, g.at) /\ InstalledAt(g.release, g.install, g.at)
  /\ ConfiguredAs(g.release, g.config, g.at)
RunRecordOK(x) ==
  /\ x.release \in Releases /\ x.at \in 1 .. moment
  /\ x.preflight \in gates /\ x.session \in gates
  /\ Installed(x.release, x.commit, x.at)
  /\ ConfiguredAs(x.release, x.preflight.config, x.at)
RecoveryOK(x) ==
  x.release \in Releases /\ x.at \in 1 .. moment /\ Installed(x.release, x.commit, x.at)

PilotInv ==
  /\ moment \in Nat /\ DOMAIN installs = Releases /\ DOMAIN configs = Releases
  /\ \A r \in Releases : HistoryOK(installs[r]) /\ HistoryOK(configs[r])
  /\ \A g \in gates : GateOK(g)
  /\ \A x \in runs : RunRecordOK(x)
  /\ \A x \in recoveries : RecoveryOK(x)
  /\ pilot # NoPilot =>
       /\ \A r \in Releases : pilot.runs[r] \in runs /\ pilot.recoveries[r] \in recoveries
       /\ PilotValid(pilot.commit, pilot.runs, pilot.recoveries)

\* What happens later adds to the histories, and takes no record back.
Later(h, g, r) == h[r] \subseteq g[r] /\ \A e \in g[r] : e \in h[r] \/ (e.at \in Nat /\ e.at > moment)
GoesBy ==
  /\ moment' \in Nat /\ moment <= moment'
  /\ \A r \in Releases : Later(installs, installs', r) /\ Later(configs, configs', r)
  /\ gates \subseteq gates'

\* What was the latest at a moment of the past remains what it was.
LEMMA PastStays ==
  ASSUME moment \in Nat, NEW h, NEW g, NEW r, Later(h, g, r), NEW t \in 0 .. moment, NEW e,
         IsAsOf(h[r], t, e)
  PROVE  IsAsOf(g[r], t, e)
<1>1. \A f \in g[r] : f.at <= t => f \in h[r]
  BY DEF Later
<1> QED
  BY <1>1 DEF IsAsOf, Later

\* A record that was true of its moments stays so: nothing rewrites the past.
LEMMA RecordsStay ==
  ASSUME moment \in Nat, GoesBy
  PROVE  /\ \A x : GateOK(x) => GateOK(x)'
         /\ \A x : RunRecordOK(x) => RunRecordOK(x)'
         /\ \A x : RecoveryOK(x) => RecoveryOK(x)'
<1>1. ASSUME NEW r \in Releases, NEW t \in 1 .. moment
      PROVE  /\ \A commit : Installed(r, commit, t) => Installed(r, commit, t)'
             /\ \A at : InstalledAt(r, at, t) => InstalledAt(r, at, t)'
             /\ \A text : ConfiguredAs(r, text, t) => ConfiguredAs(r, text, t)'
  <2>1. t \in 0 .. moment /\ Later(installs, installs', r) /\ Later(configs, configs', r)
    BY DEF GoesBy
  <2>2. \A e : IsAsOf(installs[r], t, e) => IsAsOf(installs'[r], t, e)
    BY <2>1, PastStays
  <2>3. \A e : IsAsOf(configs[r], t, e) => IsAsOf(configs'[r], t, e)
    BY <2>1, PastStays
  <2>4. \A commit : Installed(r, commit, t) => Installed(r, commit, t)'
    BY <2>2 DEF Installed, IsAsOf
  <2>5. \A at : InstalledAt(r, at, t) => InstalledAt(r, at, t)'
    BY <2>2 DEF InstalledAt, IsAsOf
  <2>6. \A text : ConfiguredAs(r, text, t) => ConfiguredAs(r, text, t)'
    BY <2>3 DEF ConfiguredAs, IsAsOf
  <2> QED
    BY <2>4, <2>5, <2>6
<1>2. \A t \in 1 .. moment : t \in 1 .. moment'
  BY DEF GoesBy
<1>3. ASSUME NEW x, GateOK(x)
      PROVE  GateOK(x)'
  BY <1>1, <1>2, <1>3 DEF GateOK
<1>4. ASSUME NEW x, RunRecordOK(x)
      PROVE  RunRecordOK(x)'
  BY <1>1, <1>2, <1>4 DEF RunRecordOK, GoesBy
<1>5. ASSUME NEW x, RecoveryOK(x)
      PROVE  RecoveryOK(x)'
  BY <1>1, <1>2, <1>5 DEF RecoveryOK
<1> QED
  BY <1>3, <1>4, <1>5

\* The latest event of a history, which is the latest at this moment and at the next.
LEMMA LatestIs ==
  ASSUME moment \in Nat, NEW h, HistoryOK(h)
  PROVE  IsAsOf(h, moment + 1, Latest(h))
<1>1. \E e \in h : \A f \in h : f.at <= e.at
  BY DEF HistoryOK
<1>2. Latest(h) \in h /\ \A f \in h : f.at <= Latest(h).at
  BY <1>1 DEF Latest
<1>3. Latest(h).at \in 0 .. moment
  BY <1>2 DEF HistoryOK
<1>4. Latest(h).at <= moment + 1
  BY <1>3
<1> QED
  BY <1>2, <1>4 DEF IsAsOf

\* What is in a history as the latest at a moment is what AsOf finds.
LEMMA AsOfIs ==
  ASSUME moment \in Nat, NEW h, HistoryOK(h), NEW t, NEW e, IsAsOf(h, t, e)
  PROVE  AsOf(h, t) = e
<1> PICK past : past = {f \in h : f.at <= t}
  OBVIOUS
<1>1. e \in past /\ \A f \in past : f.at <= e.at
  BY DEF IsAsOf
<1>2. Latest(past) \in past /\ \A f \in past : f.at <= Latest(past).at
  BY <1>1 DEF Latest
<1>3. Latest(past).at = e.at
  <2>1. Latest(past).at \in 0 .. moment /\ e.at \in 0 .. moment
    BY <1>1, <1>2 DEF HistoryOK
  <2>2. Latest(past).at <= e.at /\ e.at <= Latest(past).at
    BY <1>1, <1>2
  <2> QED
    BY <2>1, <2>2
<1>4. Latest(past) = e
  BY <1>1, <1>2, <1>3 DEF HistoryOK
<1> QED
  BY <1>4 DEF AsOf

\* A history goes on with an event of the next moment.
LEMMA HistoryGoesOn ==
  ASSUME moment \in Nat, moment' = moment + 1, NEW h, HistoryOK(h)
  PROVE  /\ HistoryOK(h)'
         /\ \A n : n.at = moment + 1 => HistoryOK(h \cup {n})'
<1>1. HistoryOK(h)'
  BY DEF HistoryOK
<1>2. ASSUME NEW n, n.at = moment + 1
      PROVE  HistoryOK(h \cup {n})'
  <2>1. \A e \in h : e.at \in 0 .. moment
    BY DEF HistoryOK
  <2>2. \A e \in h \cup {n} : e.at \in 0 .. moment'
    BY <1>2, <2>1
  <2>3. \A e, f \in h \cup {n} : e.at = f.at => e = f
    BY <1>2, <2>1 DEF HistoryOK
  <2>4. \A f \in h \cup {n} : f.at <= n.at
    BY <1>2, <2>1
  <2>5. \E e \in h \cup {n} : \A f \in h \cup {n} : f.at <= e.at
    BY <2>4
  <2> QED
    BY <2>2, <2>3, <2>5 DEF HistoryOK
<1> QED
  BY <1>1, <1>2

\* Something is installed or configured.
LEMMA WorkstationChanges ==
  ASSUME PilotInv, NEW r \in Releases,
         (\E c \in Commits : Reinstall(r, c)) \/ (\E text \in Texts : EditConfig(r, text))
  PROVE  PilotInv'
<1>1. /\ moment \in Nat /\ moment' = moment + 1 /\ UNCHANGED records
      /\ gates' = gates /\ runs' = runs /\ recoveries' = recoveries /\ pilot' = pilot
  BY DEF PilotInv, Reinstall, EditConfig, Event, records
<1>2. ASSUME NEW n, n.at = moment + 1,
             \/ installs' = [installs EXCEPT ![r] = @ \cup {n}] /\ configs' = configs
             \/ configs' = [configs EXCEPT ![r] = @ \cup {n}] /\ installs' = installs
      PROVE  PilotInv'
  <2>1. DOMAIN installs = Releases /\ DOMAIN configs = Releases
        /\ \A s \in Releases : HistoryOK(installs[s]) /\ HistoryOK(configs[s])
    BY DEF PilotInv
  <2>2. /\ DOMAIN installs' = Releases /\ DOMAIN configs' = Releases
        /\ \A s \in Releases : installs'[s] = installs[s] \/ installs'[s] = installs[s] \cup {n}
        /\ \A s \in Releases : configs'[s] = configs[s] \/ configs'[s] = configs[s] \cup {n}
    BY <1>2, <2>1
  <2>3. \A h : HistoryOK(h) => HistoryOK(h)' /\ HistoryOK(h \cup {n})'
    BY <1>1, <1>2, HistoryGoesOn
  <2>4. ASSUME NEW s \in Releases
        PROVE  HistoryOK(installs[s])' /\ HistoryOK(configs[s])'
    <3> PICK h : h = installs'[s]
      OBVIOUS
    <3> PICK g : g = configs'[s]
      OBVIOUS
    <3>1. HistoryOK(h)' /\ HistoryOK(g)'
      BY <2>1, <2>2, <2>3
    <3> QED
      BY <3>1 DEF HistoryOK
  <2>5. GoesBy
    <3>1. n.at \in Nat /\ n.at > moment
      BY <1>1, <1>2
    <3>2. \A s \in Releases : Later(installs, installs', s) /\ Later(configs, configs', s)
      BY <2>2, <3>1 DEF Later
    <3> QED
      BY <1>1, <3>2 DEF GoesBy
  <2>6. /\ \A g \in gates' : GateOK(g)'
        /\ \A x \in runs' : RunRecordOK(x)'
        /\ \A x \in recoveries' : RecoveryOK(x)'
    BY <1>1, <2>5, RecordsStay DEF PilotInv
  <2> QED
    BY <1>1, <2>2, <2>4, <2>6 DEF PilotInv, PilotValid, RunValid, GatesValid, RecoveryValid
<1>3. ASSUME NEW c \in Commits, Reinstall(r, c)
      PROVE  PilotInv'
  <2> PICK n : n = [commit |-> c, at |-> moment + 1]
    OBVIOUS
  <2>1. installs' = [installs EXCEPT ![r] = @ \cup {n}] /\ configs' = configs
    BY <1>3 DEF Reinstall
  <2>2. n.at = moment + 1
    OBVIOUS
  <2> QED
    BY <1>2, <2>1, <2>2
<1>4. ASSUME NEW text \in Texts, EditConfig(r, text)
      PROVE  PilotInv'
  <2> PICK n : n = [text |-> text, at |-> moment + 1]
    OBVIOUS
  <2>1. configs' = [configs EXCEPT ![r] = @ \cup {n}] /\ installs' = installs
    BY <1>4 DEF EditConfig
  <2>2. n.at = moment + 1
    OBVIOUS
  <2> QED
    BY <1>2, <2>1, <2>2
<1> QED
  BY <1>3, <1>4

\* A record is written at the next moment, and says what is the case then.
LEMMA RecordWritten ==
  ASSUME PilotInv, Event, UNCHANGED <<installs, configs>>, gates \subseteq gates',
         pilot' = pilot, runs \subseteq runs', recoveries \subseteq recoveries',
         \A g \in gates' : g \in gates \/ GateOK(g)',
         \A x \in runs' : x \in runs \/ RunRecordOK(x)',
         \A x \in recoveries' : x \in recoveries \/ RecoveryOK(x)'
  PROVE  PilotInv'
<1>1. moment \in Nat /\ moment' = moment + 1 /\ installs' = installs /\ configs' = configs
  BY DEF PilotInv, Event
<1>2. GoesBy
  BY <1>1 DEF GoesBy, Later
<1>3. /\ \A g \in gates' : GateOK(g)'
      /\ \A x \in runs' : RunRecordOK(x)'
      /\ \A x \in recoveries' : RecoveryOK(x)'
  BY <1>1, <1>2, RecordsStay DEF PilotInv
<1>4. ASSUME NEW s \in Releases
      PROVE  HistoryOK(installs[s])' /\ HistoryOK(configs[s])'
  <2> PICK h : h = installs[s]
    OBVIOUS
  <2> PICK g : g = configs[s]
    OBVIOUS
  <2>1. HistoryOK(h)' /\ HistoryOK(g)'
    BY <1>1, HistoryGoesOn DEF PilotInv
  <2> QED
    BY <1>1, <2>1 DEF HistoryOK
<1>5. /\ DOMAIN installs' = Releases /\ DOMAIN configs' = Releases /\ moment' \in Nat
      /\ pilot' # NoPilot =>
           /\ \A r \in Releases : pilot'.runs[r] \in runs' /\ pilot'.recoveries[r] \in recoveries'
           /\ PilotValid(pilot.commit, pilot.runs, pilot.recoveries)
  BY <1>1 DEF PilotInv
<1> QED
  BY <1>3, <1>4, <1>5 DEF PilotInv, PilotValid, RunValid, GatesValid, RecoveryValid

\* What runs, and is configured, when a record is written.
LEMMA Witnessed ==
  ASSUME PilotInv, Event, UNCHANGED <<installs, configs>>, NEW r \in Releases,
         NEW t, t = moment + 1, NEW e, e = Running(r), NEW text, text = Configured(r)
  PROVE  /\ Installed(r, e.commit, t)' /\ InstalledAt(r, e.at, t)' /\ ConfiguredAs(r, text, t)'
         /\ t \in 1 .. moment'
<1>1. moment \in Nat /\ moment' = moment + 1 /\ installs' = installs /\ configs' = configs
      /\ HistoryOK(installs[r]) /\ HistoryOK(configs[r])
  BY DEF PilotInv, Event
<1>2. IsAsOf(installs[r], t, e)
  BY <1>1, LatestIs DEF Running
<1>3. PICK f : f = Latest(configs[r])
  OBVIOUS
<1>4. IsAsOf(configs[r], t, f) /\ f.text = text
  BY <1>1, <1>3, LatestIs DEF Configured
<1>5. /\ \E d \in installs[r] : IsAsOf(installs[r], t, d) /\ d.commit = e.commit
      /\ \E d \in installs[r] : IsAsOf(installs[r], t, d) /\ d.at = e.at
      /\ \E d \in configs[r] : IsAsOf(configs[r], t, d) /\ d.text = text
  BY <1>2, <1>4 DEF IsAsOf
<1>6. t \in 1 .. moment'
  BY <1>1
<1> QED
  BY <1>1, <1>5, <1>6 DEF Installed, InstalledAt, ConfiguredAs, IsAsOf

\* A preflight or a publish session is recorded.
LEMMA GateKeeps ==
  ASSUME PilotInv, NEW r \in Releases, NEW mode, NEW follows, Gate(r, mode, follows)
  PROVE  PilotInv'
<1> PICK e : e = Running(r)
  OBVIOUS
<1> PICK text : text = Configured(r)
  OBVIOUS
<1> PICK t : t = moment + 1
  OBVIOUS
<1> PICK g : g = [release |-> r, mode |-> mode, follows |-> follows, commit |-> e.commit,
                  install |-> e.at, config |-> text, at |-> t]
  OBVIOUS
<1>1. /\ Event /\ UNCHANGED <<installs, configs>> /\ gates' = gates \cup {g}
      /\ runs' = runs /\ recoveries' = recoveries /\ pilot' = pilot
  BY DEF Gate
<1>2. /\ Installed(r, e.commit, t)' /\ InstalledAt(r, e.at, t)' /\ ConfiguredAs(r, text, t)'
      /\ t \in 1 .. moment'
  BY <1>1, Witnessed
<1>3. g.release = r /\ g.commit = e.commit /\ g.install = e.at /\ g.config = text /\ g.at = t
  OBVIOUS
<1>4. GateOK(g)'
  BY <1>2, <1>3 DEF GateOK
<1>5. \A x \in gates' : x \in gates \/ GateOK(x)'
  BY <1>1, <1>4
<1>6. gates \subseteq gates' /\ runs \subseteq runs' /\ recoveries \subseteq recoveries'
      /\ \A x \in runs' : x \in runs \/ RunRecordOK(x)'
  BY <1>1
<1>7. \A x \in recoveries' : x \in recoveries \/ RecoveryOK(x)'
  BY <1>1
<1> QED
  BY <1>1, <1>5, <1>6, <1>7, RecordWritten

\* A pilot run is recorded, on the gates it names.
LEMMA PilotRunKeeps ==
  ASSUME PilotInv, NEW r \in Releases, NEW plan, NEW g \in gates, NEW h \in gates,
         PilotRun(r, plan, g, h)
  PROVE  PilotInv'
<1> PICK e : e = Running(r)
  OBVIOUS
<1> PICK text : text = Configured(r)
  OBVIOUS
<1> PICK t : t = moment + 1
  OBVIOUS
<1> PICK x : x = [release |-> r, commit |-> e.commit, plan |-> plan, preflight |-> g,
                  session |-> h, at |-> t]
  OBVIOUS
<1>1. /\ Event /\ UNCHANGED <<installs, configs>> /\ runs' = runs \cup {x}
      /\ gates' = gates /\ recoveries' = recoveries /\ pilot' = pilot /\ g.config = text
  BY DEF PilotRun
<1>2. /\ Installed(r, e.commit, t)' /\ ConfiguredAs(r, text, t)' /\ t \in 1 .. moment'
  BY <1>1, Witnessed
<1>3. x.release = r /\ x.commit = e.commit /\ x.preflight = g /\ x.session = h /\ x.at = t
  OBVIOUS
<1>4. RunRecordOK(x)'
  BY <1>1, <1>2, <1>3 DEF RunRecordOK
<1>5. \A y \in runs' : y \in runs \/ RunRecordOK(y)'
  BY <1>1, <1>4
<1>6. gates \subseteq gates' /\ runs \subseteq runs' /\ recoveries \subseteq recoveries'
      /\ \A y \in gates' : y \in gates \/ GateOK(y)'
  BY <1>1
<1>7. \A y \in recoveries' : y \in recoveries \/ RecoveryOK(y)'
  BY <1>1
<1> QED
  BY <1>1, <1>5, <1>6, <1>7, RecordWritten

\* A recovery is recorded.
LEMMA RecoveryKeeps ==
  ASSUME PilotInv, NEW r \in Releases, NEW jobs, Recovery(r, jobs)
  PROVE  PilotInv'
<1> PICK e : e = Running(r)
  OBVIOUS
<1> PICK text : text = Configured(r)
  OBVIOUS
<1> PICK t : t = moment + 1
  OBVIOUS
<1> PICK x : x = [release |-> r, commit |-> e.commit, plans |-> jobs, at |-> t]
  OBVIOUS
<1>1. /\ Event /\ UNCHANGED <<installs, configs>> /\ recoveries' = recoveries \cup {x}
      /\ gates' = gates /\ runs' = runs /\ pilot' = pilot
  BY DEF Recovery
<1>2. /\ Installed(r, e.commit, t)' /\ t \in 1 .. moment'
  BY <1>1, Witnessed
<1>3. x.release = r /\ x.commit = e.commit /\ x.at = t
  OBVIOUS
<1>4. RecoveryOK(x)'
  BY <1>2, <1>3 DEF RecoveryOK
<1>5. \A y \in recoveries' : y \in recoveries \/ RecoveryOK(y)'
  BY <1>1, <1>4
<1>6. gates \subseteq gates' /\ runs \subseteq runs' /\ recoveries \subseteq recoveries'
      /\ \A y \in gates' : y \in gates \/ GateOK(y)'
  BY <1>1
<1>7. \A y \in runs' : y \in runs \/ RunRecordOK(y)'
  BY <1>1
<1> QED
  BY <1>1, <1>5, <1>6, <1>7, RecordWritten

\* Evidence is put together from records that exist.
LEMMA AssembleKeeps ==
  ASSUME PilotInv, NEW commit, NEW chosen \in [Releases -> runs],
         NEW recovery \in [Releases -> recoveries], Assemble(commit, chosen, recovery)
  PROVE  PilotInv'
<1> PICK p : p = [commit |-> commit, runs |-> chosen, recoveries |-> recovery]
  OBVIOUS
<1>1. /\ UNCHANGED <<moment, installs, configs, gates, runs, recoveries>> /\ pilot' = p
      /\ PilotValid(commit, chosen, recovery)
  BY DEF Assemble
<1>2. p.commit = commit /\ p.runs = chosen /\ p.recoveries = recovery
  OBVIOUS
<1>3. \A r \in Releases : pilot'.runs[r] \in runs /\ pilot'.recoveries[r] \in recoveries
  BY <1>1, <1>2
<1>4. PilotValid(pilot'.commit, pilot'.runs, pilot'.recoveries)
  BY <1>1, <1>2
<1>5. PilotValid(pilot.commit, pilot.runs, pilot.recoveries)'
  BY <1>1, <1>4 DEF PilotValid, RunValid, GatesValid, RecoveryValid
<1> QED
  BY <1>1, <1>3, <1>5 DEF PilotInv, HistoryOK, GateOK, RunRecordOK, RecoveryOK, Installed,
                          InstalledAt, ConfiguredAs, IsAsOf

\* The invariant of the workstations' histories and the records about them.
THEOREM PilotIsSound == PilotSpec => []PilotInv
<1>1. PilotInit => PilotInv
  <2> SUFFICES ASSUME PilotInit
               PROVE  PilotInv
    OBVIOUS
  <2>1. /\ moment = 0 /\ gates = {} /\ runs = {} /\ recoveries = {} /\ pilot = NoPilot
        /\ installs \in [Releases -> {{[commit |-> c, at |-> 0]} : c \in Commits}]
        /\ configs = [r \in Releases |-> {[text |-> "first", at |-> 0]}]
    BY DEF PilotInit
  <2>2. ASSUME NEW n, n.at = 0
        PROVE  HistoryOK({n})
    BY <2>1, <2>2 DEF HistoryOK
  <2>3. ASSUME NEW r \in Releases
        PROVE  HistoryOK(installs[r]) /\ HistoryOK(configs[r])
    <3>1. PICK c \in Commits : installs[r] = {[commit |-> c, at |-> 0]}
      BY <2>1
    <3> PICK n : n = [commit |-> c, at |-> 0]
      OBVIOUS
    <3> PICK m : m = [text |-> "first", at |-> 0]
      OBVIOUS
    <3>2. n.at = 0 /\ m.at = 0 /\ installs[r] = {n} /\ configs[r] = {m}
      BY <2>1, <3>1
    <3> QED
      BY <2>2, <3>2
  <2> QED
    BY <2>1, <2>3 DEF PilotInv
<1>2. PilotInv /\ [PilotNext]_pilotVars => PilotInv'
  <2> SUFFICES ASSUME PilotInv, [PilotNext]_pilotVars
               PROVE  PilotInv'
    OBVIOUS
  <2>1. CASE UNCHANGED pilotVars
    BY <2>1 DEF pilotVars, PilotInv, HistoryOK, GateOK, RunRecordOK, RecoveryOK, Installed,
                InstalledAt, ConfiguredAs, IsAsOf, PilotValid, RunValid, GatesValid, RecoveryValid
  <2>2. ASSUME NEW r \in Releases, Gate(r, "readonly", 0)
        PROVE  PilotInv'
    <3> PICK mode : mode = "readonly"
      OBVIOUS
    <3> PICK follows : follows = 0
      OBVIOUS
    <3> QED
      BY <2>2, GateKeeps
  <2>3. ASSUME NEW r \in Releases, NEW g \in gates, Gate(r, "publish", g.at)
        PROVE  PilotInv'
    <3> PICK mode : mode = "publish"
      OBVIOUS
    <3> PICK follows : follows = g.at
      OBVIOUS
    <3> QED
      BY <2>3, GateKeeps
  <2> QED
    BY <2>1, <2>2, <2>3, WorkstationChanges, PilotRunKeeps, RecoveryKeeps, AssembleKeeps
       DEF PilotNext
<1> QED
  BY <1>1, <1>2, PTL DEF PilotSpec

\* Evidence that was assembled, perhaps from old records, tells of each workstation what
\* was the case: the bundle's build at the preflight, the session, the run and the
\* recovery, no installation between the first two, one configuration at the first three.
THEOREM PilotIsAlwaysOneStory == PilotSpec => []PilotIsOneStory
<1>1. PilotInv => PilotIsOneStory
  <2> SUFFICES ASSUME PilotInv, pilot # NoPilot, NEW r \in Releases
               PROVE  LET u == pilot.runs[r]
                          t == <<u.preflight.at, u.session.at, u.at, pilot.recoveries[r].at>>
                      IN  /\ \A i \in 1 .. 3 : t[i] < t[i + 1]
                          /\ \A i \in 1 .. 4 : AsOf(installs[r], t[i]).commit = pilot.commit
                          /\ \A i \in installs[r] : i.at <= t[1] \/ i.at > t[2]
                          /\ \A i \in 2 .. 3 : AsOf(configs[r], t[i]).text = AsOf(configs[r], t[1]).text
    BY DEF PilotIsOneStory
  <2> PICK u : u = pilot.runs[r]
    OBVIOUS
  <2> PICK recovery : recovery = pilot.recoveries[r]
    OBVIOUS
  <2> PICK g : g = u.preflight
    OBVIOUS
  <2> PICK h : h = u.session
    OBVIOUS
  <2>1. /\ moment \in Nat /\ HistoryOK(installs[r]) /\ HistoryOK(configs[r])
        /\ RunRecordOK(u) /\ RecoveryOK(recovery) /\ u \in runs
    BY DEF PilotInv
  <2>2. GateOK(g) /\ GateOK(h)
    BY <2>1 DEF PilotInv, RunRecordOK
  <2>3. /\ RunValid(r, u) /\ RecoveryValid(r, recovery) /\ u.commit = pilot.commit
        /\ recovery.commit = pilot.commit /\ recovery.at > u.at
    BY DEF PilotInv, PilotValid
  <2>4. /\ u.release = r /\ recovery.release = r /\ g.release = r /\ h.release = r
        /\ g.commit = u.commit /\ h.commit = u.commit /\ g.install = h.install
        /\ g.config = h.config /\ h.at > g.at /\ h.at < u.at
    BY <2>3 DEF RunValid, GatesValid, RecoveryValid
  <2>5. /\ g.at \in 1 .. moment /\ h.at \in 1 .. moment /\ u.at \in 1 .. moment
        /\ recovery.at \in 1 .. moment
    BY <2>1, <2>2 DEF GateOK, RunRecordOK, RecoveryOK
  <2>6. ASSUME NEW t, NEW commit, Installed(r, commit, t)
        PROVE  AsOf(installs[r], t).commit = commit
    BY <2>1, <2>6, AsOfIs DEF Installed
  <2>7. ASSUME NEW t, NEW text, ConfiguredAs(r, text, t)
        PROVE  AsOf(configs[r], t).text = text
    BY <2>1, <2>7, AsOfIs DEF ConfiguredAs
  <2>8. /\ Installed(r, g.commit, g.at) /\ Installed(r, h.commit, h.at)
        /\ Installed(r, u.commit, u.at) /\ Installed(r, recovery.commit, recovery.at)
        /\ ConfiguredAs(r, g.config, g.at) /\ ConfiguredAs(r, h.config, h.at)
        /\ ConfiguredAs(r, g.config, u.at)
    BY <2>1, <2>2, <2>4 DEF GateOK, RunRecordOK, RecoveryOK
  <2>9. /\ AsOf(installs[r], g.at).commit = pilot.commit
        /\ AsOf(installs[r], h.at).commit = pilot.commit
        /\ AsOf(installs[r], u.at).commit = pilot.commit
        /\ AsOf(installs[r], recovery.at).commit = pilot.commit
    BY <2>3, <2>4, <2>6, <2>8
  <2>10. /\ AsOf(configs[r], h.at).text = AsOf(configs[r], g.at).text
         /\ AsOf(configs[r], u.at).text = AsOf(configs[r], g.at).text
    BY <2>4, <2>7, <2>8
  <2>11. \A i \in installs[r] : i.at <= g.at \/ i.at > h.at
    <3>1. InstalledAt(r, g.install, g.at) /\ InstalledAt(r, g.install, h.at)
      BY <2>2, <2>4 DEF GateOK
    <3>2. g.install <= g.at
      BY <3>1 DEF InstalledAt, IsAsOf
    <3>3. \A i \in installs[r] : i.at <= h.at => i.at <= g.install
      BY <3>1 DEF InstalledAt, IsAsOf
    <3>4. g.install \in 0 .. moment /\ \A i \in installs[r] : i.at \in 0 .. moment
      BY <2>1, <3>1 DEF InstalledAt, HistoryOK
    <3> QED
      BY <2>5, <3>2, <3>3, <3>4
  <2> PICK t : t = <<g.at, h.at, u.at, recovery.at>>
    OBVIOUS
  <2>12. t[1] = g.at /\ t[2] = h.at /\ t[3] = u.at /\ t[4] = recovery.at
    OBVIOUS
  <2>13. \A i \in 1 .. 3 : t[i] < t[i + 1]
    BY <2>3, <2>4, <2>5, <2>12
  <2>14. \A i \in 1 .. 4 : AsOf(installs[r], t[i]).commit = pilot.commit
    BY <2>9, <2>12
  <2>15. \A i \in 2 .. 3 : AsOf(configs[r], t[i]).text = AsOf(configs[r], t[1]).text
    BY <2>10, <2>12
  <2> QED
    BY <2>11, <2>12, <2>13, <2>14, <2>15
<1> QED
  BY <1>1, PilotIsSound, PTL

(***************************************************************************)
(* The two walks, page by page.                                            *)
(***************************************************************************)

\* The elements of a set that come before a number.
Below(S, x) == {y \in S : y < x}

\* A finite set has as many places as elements, each place holds the element with one
\* less of them below it than its number, and every element has its place.
LEMMA SortedPlaces ==
  ASSUME NEW S, S \subseteq Nat, IsFiniteSet(S)
  PROVE  /\ Cardinality(S) \in Nat
         /\ \A i \in 1 .. Cardinality(S) :
              Sorted(S)[i] \in S /\ Cardinality(Below(S, Sorted(S)[i])) = i - 1
         /\ \A x \in S : \E i \in 1 .. Cardinality(S) : Sorted(S)[i] = x
<1> DEFINE n == Cardinality(S)
           rank == [x \in S |-> Cardinality(Below(S, x)) + 1]
<1>1. n \in Nat
  BY FS_CardinalityType
<1>2. \A x \in S : Cardinality(Below(S, x)) \in Nat /\ Cardinality(Below(S, x)) < n
  <2> TAKE x \in S
  <2>1. Below(S, x) \subseteq S /\ x \notin Below(S, x)
    BY DEF Below
  <2>2. /\ IsFiniteSet(Below(S, x)) /\ Cardinality(Below(S, x)) <= n
        /\ Cardinality(Below(S, x)) = n => Below(S, x) = S
    BY <2>1, FS_Subset, Zenon
  <2>3. Cardinality(Below(S, x)) \in Nat
    BY <2>2, FS_CardinalityType
  <2> QED
    BY <1>1, <2>1, <2>2, <2>3
<1>3. \A x, y \in S : x < y => Cardinality(Below(S, x)) # Cardinality(Below(S, y))
  <2> SUFFICES ASSUME NEW x \in S, NEW y \in S, x < y
               PROVE  Cardinality(Below(S, x)) # Cardinality(Below(S, y))
    OBVIOUS
  <2>1. /\ Below(S, x) \subseteq Below(S, y) /\ Below(S, y) \subseteq S
        /\ x \in Below(S, y) /\ x \notin Below(S, x)
    <3>1. x \in Nat /\ y \in Nat /\ x < y /\ ~(x < x)
      OBVIOUS
    <3>2. \A z \in Nat : z < x => z < y
      BY <3>1
    <3> QED
      BY <3>1, <3>2 DEF Below
  <2>2. IsFiniteSet(Below(S, y))
    BY <2>1, FS_Subset
  <2>3. Cardinality(Below(S, x)) = Cardinality(Below(S, y)) => Below(S, x) = Below(S, y)
    BY <2>1, <2>2, FS_Subset
  <2> QED
    BY <2>1, <2>3
<1>4. rank \in Injection(S, 1 .. n)
  <2>1. rank \in [S -> 1 .. n]
    BY <1>1, <1>2
  <2>2. \A x, y \in S : rank[x] = rank[y] => x = y
    BY <1>2, <1>3
  <2> QED
    BY <2>1, <2>2 DEF Injection, IsInjective
<1>5. IsFiniteSet(1 .. n) /\ Cardinality(1 .. n) = n
  BY <1>1, FS_Interval
<1>6. rank \in Surjection(S, 1 .. n)
  BY <1>4, <1>5, FS_Injection
<1>7. \A i \in 1 .. n : \E x \in S : Cardinality(Below(S, x)) = i - 1
  <2> TAKE i \in 1 .. n
  <2>1. PICK x \in S : rank[x] = i
    BY <1>6 DEF Surjection
  <2> QED
    BY <1>1, <1>2, <2>1
<1>8. \A i \in 1 .. n : Sorted(S)[i] \in S /\ Cardinality(Below(S, Sorted(S)[i])) = i - 1
  BY <1>7 DEF Sorted, Below
<1>9. \A x \in S : \E i \in 1 .. n : Sorted(S)[i] = x
  <2> TAKE x \in S
  <2>1. rank[x] \in 1 .. n /\ Cardinality(Below(S, x)) = rank[x] - 1
    BY <1>1, <1>2
  <2>2. PICK y \in S : y = Sorted(S)[rank[x]]
    BY <1>8, <2>1
  <2>3. Cardinality(Below(S, y)) = Cardinality(Below(S, x))
    BY <1>8, <2>1, <2>2
  <2>4. y = x
    BY <1>3, <2>3
  <2> QED
    BY <2>1, <2>2, <2>4
<1> QED
  BY <1>1, <1>8, <1>9

\* The listing of a finite set of numbers lists its elements, all of them, in order.
LEMMA SortedListing ==
  ASSUME NEW S, S \subseteq Nat, IsFiniteSet(S)
  PROVE  /\ Sorted(S) \in Seq(S) /\ Len(Sorted(S)) = Cardinality(S)
         /\ \A x \in S : \E i \in 1 .. Len(Sorted(S)) : Sorted(S)[i] = x
         /\ Increasing(Sorted(S))
<1>1. PICK n \in Nat : n = Cardinality(S)
  BY SortedPlaces
<1>2. PICK s : s = Sorted(S)
  OBVIOUS
<1>3. /\ \A i \in 1 .. n : s[i] \in S /\ Cardinality(Below(S, s[i])) = i - 1
      /\ \A x \in S : \E i \in 1 .. n : s[i] = x
  BY <1>1, <1>2, SortedPlaces
<1>4. s = [i \in 1 .. n |-> s[i]]
  <2> DEFINE at(i) == CHOOSE x \in S : Cardinality({y \in S : y < x}) = i - 1
  <2>1. s = [i \in 1 .. n |-> at(i)]
    BY <1>1, <1>2, Zenon DEF Sorted
  <2> HIDE DEF at
  <2> QED
    BY <2>1
<1>5. s \in Seq(S) /\ Len(s) = n
  BY <1>3, <1>4
<1>6. ASSUME NEW i \in 1 .. n, NEW j \in 1 .. n, i < j
      PROVE  s[i] < s[j]
  <2>1. s[i] \in Nat /\ s[j] \in Nat
    BY <1>3
  <2>2. SUFFICES ASSUME s[j] <= s[i] PROVE FALSE
    BY <2>1
  <2>3. Below(S, s[j]) \subseteq Below(S, s[i]) /\ Below(S, s[i]) \subseteq S
    <3>1. \A z \in Nat : z < s[j] => z < s[i]
      BY <2>1, <2>2
    <3> QED
      BY <3>1 DEF Below
  <2>4. IsFiniteSet(Below(S, s[i]))
    BY <2>3, FS_Subset
  <2>5. Cardinality(Below(S, s[j])) <= Cardinality(Below(S, s[i]))
    BY <2>3, <2>4, FS_Subset
  <2> QED
    BY <1>3, <1>6, <2>5
<1> QED
  BY <1>2, <1>1, <1>3, <1>5, <1>6 DEF Increasing

-----------------------------------------------------------------------------
\* The first places of a sequence.
LEMMA FirstPlaces ==
  ASSUME NEW s \in Seq(Nat), NEW k \in 0 .. Len(s)
  PROVE  /\ SubSeq(s, 1, k) \in Seq(Nat) /\ Len(SubSeq(s, 1, k)) = k
         /\ \A i \in 1 .. k : SubSeq(s, 1, k)[i] = s[i]
OBVIOUS

\* The places of a sequence from one to another.
LEMMA PlacesBetween ==
  ASSUME NEW s \in Seq(Nat), NEW m \in 1 .. Len(s) + 1, NEW n \in 0 .. Len(s), m <= n + 1
  PROVE  /\ SubSeq(s, m, n) \in Seq(Nat) /\ Len(SubSeq(s, m, n)) = n - m + 1
         /\ \A i \in 1 .. n - m + 1 : SubSeq(s, m, n)[i] = s[m + i - 1]
OBVIOUS

\* A page that begins where the last one ended continues it.
LEMMA PageContinues ==
  ASSUME NEW s \in Seq(Nat), NEW a \in 0 .. Len(s), NEW k \in 0 .. Len(s), a <= k
  PROVE  /\ Len(SubSeq(s, a + 1, k)) = k - a
         /\ SubSeq(s, 1, a) \o SubSeq(s, a + 1, k) = SubSeq(s, 1, k)
<1>1. PICK m \in 1 .. Len(s) + 1 : m = a + 1
  OBVIOUS
<1>2. PICK u : u = SubSeq(s, m, k)
  OBVIOUS
<1>3. m <= k + 1 /\ k - m + 1 = k - a /\ Len(s) \in Nat
  BY <1>1
<1>4. u \in Seq(Nat) /\ Len(u) = k - a /\ \A i \in 1 .. k - a : u[i] = s[m + i - 1]
  BY <1>2, <1>3, PlacesBetween
<1>5. PICK t : t = SubSeq(s, 1, a)
  OBVIOUS
<1>6. t \in Seq(Nat) /\ Len(t) = a /\ \A i \in 1 .. a : t[i] = s[i]
  BY <1>5, FirstPlaces
<1>7. PICK v : v = SubSeq(s, 1, k)
  OBVIOUS
<1>8. v \in Seq(Nat) /\ Len(v) = k /\ \A i \in 1 .. k : v[i] = s[i]
  BY <1>7, FirstPlaces
<1>9. /\ t \o u \in Seq(Nat) /\ Len(t \o u) = Len(t) + Len(u)
      /\ \A i \in 1 .. Len(t) + Len(u) : (t \o u)[i] = IF i <= Len(t) THEN t[i] ELSE u[i - Len(t)]
  BY <1>4, <1>6, ConcatProperties
<1>10. a \in Nat /\ k \in Nat /\ Len(t) + Len(u) = k
  BY <1>3, <1>4, <1>6
<1>11. ASSUME NEW i \in 1 .. k PROVE (t \o u)[i] = v[i]
  <2>1. CASE i <= a
    <3>1. (t \o u)[i] = t[i]
      BY <1>6, <1>9, <1>10, <2>1
    <3>2. t[i] = s[i] /\ v[i] = s[i]
      BY <1>6, <1>8, <1>10, <2>1
    <3> QED
      BY <3>1, <3>2
  <2>2. CASE ~(i <= a)
    <3>1. (t \o u)[i] = u[i - a]
      BY <1>6, <1>9, <1>10, <2>2
    <3>2. i - a \in 1 .. k - a /\ m + (i - a) - 1 = i
      BY <1>1, <1>10, <2>2
    <3> QED
      BY <1>4, <1>8, <3>1, <3>2
  <2> QED
    BY <2>1, <2>2
<1>12. t \o u = v
  BY <1>8, <1>9, <1>10, <1>11, SeqEqual
<1> QED
  BY <1>1, <1>2, <1>4, <1>5, <1>7, <1>12

\* The whole of a sequence is its places up to the last.
LEMMA AllPlaces == ASSUME NEW s \in Seq(Nat) PROVE SubSeq(s, 1, Len(s)) = s
OBVIOUS

\* A walk over the drawings has seen the beginning of the sorted paths of the one
\* inventory it is bound to, as far as its offset.
WalkOK(walk) ==
  /\ DOMAIN walk.id \subseteq Paths
  /\ walk.offset \in 0 .. Cardinality(DOMAIN walk.id)
  /\ walk.offset = Len(walk.seen)
  /\ walk.seen = SubSeq(Sorted(DOMAIN walk.id), 1, walk.offset)
  /\ walk.done => walk.offset = Cardinality(DOMAIN walk.id)

\* The walk over the jobs has seen, in order, every job up to the last it listed that
\* was there from its first page on.
ReportOK ==
  /\ report \in [after : Nat, seen : Seq(Nat), lasting : SUBSET Nat, done : BOOLEAN]
  /\ Increasing(report.seen)
  /\ \A i \in 1 .. Len(report.seen) : report.seen[i] \in 1 .. report.after
  /\ \A j \in report.lasting :
       j <= report.after => \E i \in 1 .. Len(report.seen) : report.seen[i] = j
  /\ report.done => \A j \in report.lasting : j <= report.after

PagingInv == PagingTypeOK /\ WalkOK(plans) /\ ReportOK

-----------------------------------------------------------------------------
\* The drawings there are, at any moment: finitely many, named by numbers.
LEMMA FilesAreFinite ==
  ASSUME NEW S, S \subseteq Paths
  PROVE  S \subseteq Nat /\ IsFiniteSet(S) /\ Cardinality(S) \in Nat
BY PagingAssumption, FS_Subset, FS_CardinalityType

\* A walk that has not begun.
LEMMA NoWalkOK == WalkOK(NoWalk)
<1>1. DOMAIN NoWalk.id = {} /\ NoWalk.offset = 0 /\ NoWalk.seen = <<>> /\ ~NoWalk.done
  BY DEF NoWalk
<1>2. Cardinality({}) = 0
  BY FS_EmptySet
<1>3. SubSeq(Sorted({}), 1, 0) = <<>>
  BY SubSeqEmpty
<1> QED
  BY <1>1, <1>2, <1>3 DEF WalkOK

\* No page was asked for yet.
LEMMA PagingInitInv == PagingInit => PagingInv
<1> SUFFICES ASSUME PagingInit PROVE PagingInv
  OBVIOUS
<1>1. PagingTypeOK
  BY PagingAssumption DEF PagingTypeOK, PagingInit, NoWalk, NoReport
<1>2. ReportOK
  BY DEF ReportOK, Increasing, PagingInit, NoReport
<1> QED
  BY <1>1, <1>2, NoWalkOK DEF PagingInv, PagingInit

\* A page of drawings is the next part of the inventory that is there now.
LEMMA PlanPageOK ==
  ASSUME PagingInv, NEW limit \in 1 .. MaxLimit, PlanPage(limit)
  PROVE  WalkOK(plans')
<1> DEFINE n == Cardinality(DOMAIN files)
           to == Min({plans.offset + limit, Len(Listed)})
           page == SubSeq(Listed, plans.offset + 1, to)
<1>1. PICK s : s = Listed
  OBVIOUS
<1>2. DOMAIN files \subseteq Paths /\ n \in Nat
  BY FilesAreFinite DEF PagingInv, PagingTypeOK
<1>3. s \in Seq(Nat) /\ Len(s) = n
  BY <1>1, <1>2, FilesAreFinite, SortedListing, SeqMonotonic DEF Listed
<1>4. WalkOK(plans) /\ limit \in Nat \ {0} /\ Paths \subseteq Nat
  BY PagingAssumption DEF PagingInv
<1>5. CASE plans.offset > 0 /\ plans.id # InventoryId
  BY <1>5, NoWalkOK DEF PlanPage
<1>6. CASE ~(plans.offset > 0 /\ plans.id # InventoryId)
  <2>1. PICK a : a = plans.offset
    OBVIOUS
  <2>2. a \in 0 .. n /\ plans.seen = SubSeq(s, 1, a)
    <3>1. CASE a = 0
      <4>1. SubSeq(s, 1, 0) = <<>> /\ SubSeq(Sorted(DOMAIN plans.id), 1, 0) = <<>>
        BY SubSeqEmpty
      <4> QED
        BY <1>2, <1>4, <2>1, <3>1, <4>1 DEF WalkOK
    <3>2. CASE a # 0
      <4>1. a \in Nat
        BY <1>4, <2>1, FilesAreFinite DEF WalkOK
      <4>2. plans.id = files
        BY <1>6, <2>1, <3>2, <4>1 DEF InventoryId
      <4> QED
        BY <1>1, <1>4, <2>1, <4>2 DEF WalkOK, Listed
    <3> QED
      BY <3>1, <3>2
  <2>3. PICK k : k = to
    OBVIOUS
  <2>4. k \in a .. n /\ (k = n <=> k >= n) /\ k \in Nat
    BY <1>1, <1>2, <1>3, <1>4, <2>1, <2>2, <2>3 DEF Min
  <2>5. PICK p : p = page
    OBVIOUS
  <2>6. p = SubSeq(s, a + 1, k)
    BY <1>1, <2>1, <2>3, <2>5
  <2>7. a \in 0 .. Len(s) /\ k \in 0 .. Len(s) /\ a <= k
    BY <1>2, <1>3, <2>2, <2>4
  <2>8. Len(p) = k - a /\ plans.seen \o p = SubSeq(s, 1, k)
    BY <1>3, <2>2, <2>6, <2>7, PageContinues
  <2>9. a + Len(p) = k
    BY <2>7, <2>8, <1>3
  <2>10. plans' = [id |-> files, offset |-> k, seen |-> SubSeq(s, 1, k), done |-> k >= n]
    BY <1>1, <1>3, <1>6, <2>1, <2>5, <2>8, <2>9 DEF PlanPage, InventoryId
  <2>11. Len(SubSeq(s, 1, k)) = k
    BY <1>3, <2>7, FirstPlaces
  <2>12. PICK w : w = plans'
    OBVIOUS
  <2>13. w.id = files /\ w.offset = k /\ w.seen = SubSeq(s, 1, k) /\ w.done = (k >= n)
    BY <2>10, <2>12
  <2>14. w.seen = SubSeq(Sorted(DOMAIN w.id), 1, w.offset) /\ w.offset = Len(w.seen)
    BY <1>1, <2>11, <2>13 DEF Listed
  <2>15. k \in 0 .. n /\ (k >= n => k = n)
    BY <1>2, <2>2, <2>4
  <2>16. WalkOK(w)
    BY <1>2, <2>13, <2>14, <2>15 DEF WalkOK
  <2> QED
    BY <2>12, <2>16
<1> QED
  BY <1>5, <1>6

\* The jobs there are, at any moment: finitely many, named by their time stamps.
LEMMA JobsAreFinite ==
  ASSUME PagingTypeOK, NEW S, S \subseteq dirs
  PROVE  S \subseteq Nat /\ IsFiniteSet(S) /\ \A j \in S : j \in 1 .. issued
<1>1. issued \in Nat /\ dirs \subseteq 1 .. issued
  BY PagingAssumption DEF PagingTypeOK
<1>2. IsFiniteSet(1 .. issued)
  BY <1>1, FS_Interval
<1>3. S \subseteq 1 .. issued
  BY <1>1
<1>4. IsFiniteSet(S)
  BY <1>2, <1>3, FS_Subset
<1> QED
  BY <1>1, <1>3, <1>4

\* A page of jobs goes on after the last one listed, and leaves none before its last out.
LEMMA ReportPageOK ==
  ASSUME PagingInv, NEW limit \in 1 .. MaxLimit, ReportPage(limit)
  PROVE  ReportOK' /\ report'.lasting \subseteq dirs
<1> DEFINE left == {j \in dirs : j > report.after}
           later == Sorted(left)
           page == SubSeq(later, 1, Min({limit, Len(later)}))
<1>1. /\ limit \in Nat \ {0} /\ PagingTypeOK /\ ReportOK
  BY PagingAssumption DEF PagingInv
<1>2. PICK s : s = later
  OBVIOUS
<1>3. left \subseteq Nat /\ IsFiniteSet(left) /\ left \subseteq dirs /\ dirs \subseteq Nat
      /\ \A j \in dirs : j >= 1
  BY <1>1, JobsAreFinite
<1> HIDE DEF left
<1>4. /\ s \in Seq(left) /\ Increasing(s)
      /\ \A j \in left : \E i \in 1 .. Len(s) : s[i] = j
  BY <1>2, <1>3, SortedListing
<1>5. s \in Seq(Nat) /\ Len(s) \in Nat /\ \A i \in 1 .. Len(s) : s[i] \in left
  <2>1. \A i \in 1 .. Len(s) : s[i] \in left
    BY <1>4, ElementOfSeq
  <2>2. s \in Seq(Nat)
    BY <1>3, <1>4, SeqMonotonic
  <2> QED
    BY <2>1, <2>2
<1>6. PICK k : k = Min({limit, Len(later)})
  OBVIOUS
<1>7. k \in 0 .. Len(s) /\ (k = 0 => Len(s) = 0)
  BY <1>1, <1>2, <1>5, <1>6 DEF Min
<1>8. PICK p : p = page
  OBVIOUS
<1>9. p \in Seq(Nat) /\ Len(p) = k /\ \A i \in 1 .. k : p[i] = s[i]
  BY <1>2, <1>5, <1>6, <1>7, <1>8, FirstPlaces
<1>10. PICK last : last = IF p = <<>> THEN report.after ELSE Last(p)
  OBVIOUS
<1>11. PICK old \in Seq(Nat) : old = report.seen
  BY <1>1 DEF ReportOK
<1>12. PICK seen : seen = old \o p
  OBVIOUS
<1>13. PICK lasting : lasting = IF report.after = 0 /\ report.seen = <<>> THEN dirs ELSE report.lasting
  OBVIOUS
<1>14. report' = [after |-> last, seen |-> seen, lasting |-> lasting, done |-> k = Len(s)]
  BY <1>2, <1>8, <1>9, <1>10, <1>11, <1>12, <1>13 DEF ReportPage, left
<1>15. lasting \subseteq dirs /\ report.after \in Nat
  BY <1>1, <1>13 DEF ReportOK, PagingTypeOK
\* What the page holds, and where it ends.
<1>16. \A i \in 1 .. k : p[i] \in left /\ p[i] \in dirs /\ p[i] > report.after
  <2> TAKE i \in 1 .. k
  <2> PICK d : d = p[i]
    OBVIOUS
  <2>1. i \in 1 .. Len(s) /\ p[i] = s[i]
    BY <1>5, <1>7, <1>9
  <2>2. s[i] \in left
    BY <1>5, <2>1
  <2>3. d \in left
    BY <2>1, <2>2
  <2>4. d \in dirs /\ d > report.after
    BY <2>3 DEF left
  <2> QED
    BY <2>3, <2>4
<1>17. /\ last \in Nat /\ report.after <= last
       /\ \A i \in 1 .. k : p[i] <= last
       /\ k > 0 => last = s[k]
  <2>1. CASE k = 0
    BY <1>9, <1>10, <1>15, <2>1
  <2>2. CASE k > 0
    <3>1. last = s[k] /\ k \in 1 .. Len(s)
      BY <1>7, <1>9, <1>10, <2>2, <1>5 DEF Last
    <3>2. \A i \in 1 .. k : s[i] <= s[k]
      <4> TAKE i \in 1 .. k
      <4>1. i \in 1 .. Len(s) /\ s[i] \in Nat /\ s[k] \in Nat /\ (i = k \/ i < k)
        BY <1>3, <1>5, <1>7, <3>1
      <4>2. CASE i = k
        BY <4>1, <4>2
      <4>3. CASE i < k
        <5>1. s[i] < s[k]
          BY <1>4, <3>1, <4>1, <4>3 DEF Increasing
        <5> QED
          BY <4>1, <5>1
      <4> QED
        BY <4>1, <4>2, <4>3
    <3>3. s[k] \in Nat /\ s[k] > report.after
      BY <1>3, <1>5, <3>1 DEF left
    <3>4. \A i \in 1 .. k : p[i] <= last
      BY <1>9, <3>1, <3>2
    <3> QED
      BY <1>15, <3>1, <3>3, <3>4
  <2> QED
    BY <1>5, <1>7, <2>1, <2>2
\* What the walk has seen after it.
<1>18. /\ seen \in Seq(Nat) /\ Len(seen) = Len(old) + k /\ Len(old) \in Nat /\ k \in Nat
       /\ \A i \in 1 .. Len(old) : seen[i] = old[i] /\ old[i] \in 1 .. report.after
       /\ \A i \in 1 .. Len(seen) : i > Len(old) => i - Len(old) \in 1 .. k /\ seen[i] = p[i - Len(old)]
  <2>1. k \in Nat /\ Len(old) \in Nat
    BY <1>5, <1>7
  <2>2. \A i \in 1 .. Len(old) : old[i] \in 1 .. report.after
    BY <1>1, <1>11 DEF ReportOK
  <2>3. /\ seen \in Seq(Nat) /\ Len(seen) = Len(old) + k
        /\ \A i \in 1 .. Len(old) + k : seen[i] = IF i <= Len(old) THEN old[i] ELSE p[i - Len(old)]
    <3>1. old \in Seq(Nat) /\ p \in Seq(Nat) /\ Len(p) = k
      BY <1>9
    <3>2. /\ old \o p \in Seq(Nat) /\ Len(old \o p) = Len(old) + Len(p)
          /\ \A i \in 1 .. Len(old) + Len(p) :
               (old \o p)[i] = IF i <= Len(old) THEN old[i] ELSE p[i - Len(old)]
      BY <3>1, ConcatProperties
    <3> QED
      BY <1>12, <3>1, <3>2
  <2> QED
    BY <2>1, <2>2, <2>3
<1>19. \A i \in 1 .. Len(seen) : seen[i] \in 1 .. last
  <2> TAKE i \in 1 .. Len(seen)
  <2>1. CASE i <= Len(old)
    <3>1. i \in 1 .. Len(old)
      BY <1>18, <2>1
    <3>2. seen[i] \in 1 .. report.after
      BY <1>18, <3>1
    <3> QED
      BY <1>15, <1>17, <3>2
  <2>2. CASE i > Len(old)
    <3>1. PICK m \in 1 .. k : seen[i] = p[m]
      BY <1>18, <2>2
    <3>2. p[m] \in dirs /\ p[m] <= last /\ last \in Nat
      BY <1>16, <1>17
    <3>3. p[m] \in Nat /\ p[m] >= 1
      BY <1>3, <3>2
    <3> QED
      BY <3>1, <3>2, <3>3
  <2> QED
    BY <1>18, <2>1, <2>2
<1>20. Increasing(seen)
  <2> SUFFICES ASSUME NEW i \in 1 .. Len(seen), NEW j \in 1 .. Len(seen), i < j
               PROVE  seen[i] < seen[j]
    BY DEF Increasing
  <2>1. CASE j <= Len(old)
    <3>1. i \in 1 .. Len(old) /\ j \in 1 .. Len(old)
      BY <1>18, <2>1
    <3>2. old[i] < old[j]
      BY <1>1, <1>11, <3>1 DEF ReportOK, Increasing
    <3> QED
      BY <1>18, <3>1, <3>2
  <2>2. CASE i <= Len(old) /\ j > Len(old)
    <3>1. PICK m \in 1 .. k : seen[j] = p[m]
      BY <1>18, <2>2
    <3>2. seen[i] \in 1 .. report.after
      <4>1. i \in 1 .. Len(old)
        BY <1>18, <2>2
      <4> QED
        BY <1>18, <4>1
    <3>3. p[m] \in Nat /\ p[m] > report.after
      BY <1>3, <1>16
    <3> QED
      BY <1>15, <3>1, <3>2, <3>3
  <2>3. CASE i > Len(old)
    <3>1. PICK m \in 1 .. k : m = i - Len(old) /\ seen[i] = p[m]
      BY <1>18, <2>3
    <3>2. j > Len(old)
      BY <1>18, <2>3
    <3>3. PICK l \in 1 .. k : l = j - Len(old) /\ seen[j] = p[l]
      BY <1>18, <3>2
    <3>4. m < l /\ m \in 1 .. Len(s) /\ l \in 1 .. Len(s)
      <4>1. Len(old) \in Nat /\ k \in Nat /\ k <= Len(s) /\ i \in Nat /\ j \in Nat
        BY <1>5, <1>7, <1>18
      <4>2. m < l
        BY <3>1, <3>3, <4>1
      <4>3. m \in 1 .. Len(s) /\ l \in 1 .. Len(s)
        BY <1>5, <4>1
      <4> QED
        BY <4>2, <4>3
    <3>5. s[m] < s[l]
      BY <1>4, <3>4 DEF Increasing
    <3> QED
      BY <1>9, <3>1, <3>3, <3>5
  <2> QED
    BY <1>18, <2>1, <2>2, <2>3
<1>21. ASSUME NEW j \in lasting, j <= last
       PROVE  \E i \in 1 .. Len(seen) : seen[i] = j
  <2>1. j \in dirs /\ j \in Nat
    BY <1>3, <1>15
  <2>2. CASE j > report.after
    <3>1. j \in left
      BY <2>1, <2>2 DEF left
    <3>2. PICK i \in 1 .. Len(s) : s[i] = j
      BY <1>4, <3>1
    <3>3. i <= k
      <4>1. SUFFICES ASSUME i > k PROVE FALSE
        BY <1>18
      <4>2. k > 0 /\ k \in 1 .. Len(s)
        BY <1>7, <1>5, <3>2
      <4>3. s[k] < s[i]
        BY <1>4, <4>1, <4>2 DEF Increasing
      <4> QED
        BY <1>17, <1>21, <2>1, <3>2, <4>2, <4>3
    <3>4. Len(old) + i \in 1 .. Len(seen) /\ Len(old) + i > Len(old)
      BY <1>18, <3>3
    <3>5. seen[Len(old) + i] = p[(Len(old) + i) - Len(old)] /\ (Len(old) + i) - Len(old) = i
      BY <1>18, <3>4
    <3>6. p[i] = j
      BY <1>9, <3>2, <3>3
    <3> QED
      BY <3>4, <3>5, <3>6
  <2>3. CASE j <= report.after
    <3>1. j \in report.lasting
      <4>1. j >= 1
        BY <1>3, <2>1
      <4>2. report.after # 0
        BY <2>1, <2>3, <4>1
      <4> QED
        BY <1>13, <4>2
    <3>2. PICK i \in 1 .. Len(old) : old[i] = j
      BY <1>1, <1>11, <2>3, <3>1 DEF ReportOK
    <3> QED
      BY <1>18, <3>2
  <2> QED
    BY <1>15, <2>1, <2>2, <2>3
<1>22. k = Len(s) => \A j \in lasting : j <= last
  <2> SUFFICES ASSUME k = Len(s), NEW j \in lasting PROVE j <= last
    OBVIOUS
  <2>1. j \in dirs /\ j \in Nat
    BY <1>3, <1>15
  <2>2. CASE j > report.after
    <3>1. j \in left
      BY <2>1, <2>2 DEF left
    <3>2. PICK i \in 1 .. Len(s) : s[i] = j
      BY <1>4, <3>1
    <3> QED
      BY <1>9, <1>17, <3>2
  <2>3. CASE j <= report.after
    BY <1>15, <1>17, <2>1, <2>3
  <2> QED
    BY <1>15, <2>1, <2>2, <2>3
<1>23. PICK r : r = report'
  OBVIOUS
<1>24. r.after = last /\ r.seen = seen /\ r.lasting = lasting /\ r.done = (k = Len(s))
  BY <1>14, <1>23
<1>25. r \in [after : Nat, seen : Seq(Nat), lasting : SUBSET Nat, done : BOOLEAN]
  BY <1>3, <1>14, <1>15, <1>17, <1>18, <1>23
<1> QED
  BY <1>15, <1>19, <1>20, <1>21, <1>22, <1>23, <1>24, <1>25 DEF ReportOK

\* What the invariant says of the files and directories only.
LEMMA PagingKept ==
  ASSUME PagingInv, UNCHANGED <<files, changes, plans, issued, unborn, dirs, report>>
  PROVE  PagingInv'
BY DEF PagingInv, PagingTypeOK, ReportOK

\* A drawing that appears, is saved or goes touches no walk.
LEMMA ChangeDrawingInv ==
  ASSUME PagingInv, NEW d \in Paths, ChangeDrawing(d) PROVE PagingInv'
<1>1. changes \in Nat /\ MaxChanges \in Nat /\ PagingTypeOK
  BY PagingAssumption DEF PagingInv, PagingTypeOK
<1>2. DOMAIN files' \subseteq Paths /\ changes' \in 0 .. MaxChanges
      /\ \A p \in DOMAIN files' : files'[p] \in 0 .. changes'
  <2>1. DOMAIN files \subseteq Paths /\ changes' = changes + 1 /\ changes < MaxChanges
        /\ \A p \in DOMAIN files : files[p] \in 0 .. changes
    BY <1>1 DEF ChangeDrawing, PagingTypeOK
  <2>2. CASE files' = [p \in DOMAIN files \cup {d} |-> IF p = d THEN changes + 1 ELSE files[p]]
    BY <1>1, <2>1, <2>2
  <2>3. CASE files' = [p \in DOMAIN files \ {d} |-> files[p]]
    BY <1>1, <2>1, <2>3
  <2> QED
    BY <2>2, <2>3 DEF ChangeDrawing
<1>3. UNCHANGED <<plans, issued, unborn, dirs, report>>
  BY DEF ChangeDrawing
<1> QED
  BY <1>1, <1>2, <1>3 DEF PagingInv, PagingTypeOK, ReportOK

\* A page of drawings leaves the rest alone.
LEMMA PlanPageInv ==
  ASSUME PagingInv, NEW limit \in 1 .. MaxLimit, PlanPage(limit) PROVE PagingInv'
<1>1. WalkOK(plans')
  BY PlanPageOK
<1>2. plans'.offset = Len(plans'.seen)
  BY <1>1 DEF WalkOK
<1>3. UNCHANGED <<files, changes, issued, unborn, dirs, report>>
  BY DEF PlanPage
<1> QED
  BY <1>1, <1>2, <1>3 DEF PagingInv, PagingTypeOK, ReportOK

\* A page of jobs leaves the rest alone.
LEMMA ReportPageInv ==
  ASSUME PagingInv, NEW limit \in 1 .. MaxLimit, ReportPage(limit) PROVE PagingInv'
<1>1. ReportOK' /\ report'.lasting \subseteq dirs
  BY ReportPageOK
<1>2. UNCHANGED <<files, changes, plans, issued, unborn, dirs>>
  BY DEF ReportPage
<1> QED
  BY <1>1, <1>2 DEF PagingInv, PagingTypeOK

\* A time stamp is taken, and its directory made.
LEMMA JobComesInv ==
  ASSUME PagingInv, IssueJobId \/ \E j \in 1 .. MaxJobIds : MakeJobDirectory(j) PROVE PagingInv'
<1>1. issued \in Nat /\ MaxJobIds \in Nat /\ PagingTypeOK
  BY PagingAssumption DEF PagingInv, PagingTypeOK
<1>2. CASE IssueJobId
  <2>1. issued' \in 0 .. MaxJobIds /\ dirs' \cup unborn' \subseteq 1 .. issued'
    BY <1>1, <1>2 DEF IssueJobId, PagingTypeOK
  <2>2. UNCHANGED <<files, changes, plans, dirs, report>>
    BY <1>2 DEF IssueJobId
  <2> QED
    BY <1>1, <2>1, <2>2 DEF PagingInv, PagingTypeOK, ReportOK
<1>3. ASSUME NEW j \in 1 .. MaxJobIds, MakeJobDirectory(j) PROVE PagingInv'
  BY <1>1, <1>3 DEF MakeJobDirectory, PagingInv, PagingTypeOK, ReportOK
<1> QED
  BY <1>2, <1>3

\* A job that goes is no longer one that lasts.
LEMMA RemoveJobInv ==
  ASSUME PagingInv, NEW j \in 1 .. MaxJobIds, RemoveJob(j) PROVE PagingInv'
<1>1. PagingTypeOK /\ ReportOK
  BY DEF PagingInv
<1>2. report' = [report EXCEPT !.lasting = @ \ {j}] /\ dirs' = dirs \ {j}
      /\ UNCHANGED <<files, changes, plans, issued, unborn>>
  BY DEF RemoveJob
<1>3. /\ report'.after = report.after /\ report'.seen = report.seen /\ report'.done = report.done
      /\ report'.lasting = report.lasting \ {j}
      /\ report' \in [after : Nat, seen : Seq(Nat), lasting : SUBSET Nat, done : BOOLEAN]
  BY <1>1, <1>2 DEF ReportOK
<1>4. ReportOK'
  BY <1>1, <1>3 DEF ReportOK
<1> QED
  BY <1>1, <1>2, <1>3, <1>4 DEF PagingInv, PagingTypeOK

\* A walk that starts over has seen nothing.
LEMMA RestartInv == ASSUME PagingInv, Restart PROVE PagingInv'
<1>1. PagingTypeOK /\ ReportOK /\ WalkOK(plans)
  BY DEF PagingInv
<1>2. CASE plans' = NoWalk /\ UNCHANGED <<files, changes, issued, unborn, dirs, report>>
  <2>1. WalkOK(plans') /\ plans'.offset = Len(plans'.seen)
    BY <1>2, NoWalkOK DEF WalkOK
  <2> QED
    BY <1>1, <1>2, <2>1 DEF PagingInv, PagingTypeOK, ReportOK
<1>3. CASE report' = NoReport /\ UNCHANGED <<files, changes, plans, issued, unborn, dirs>>
  <2>1. ReportOK' /\ report'.lasting = {}
    BY <1>3 DEF ReportOK, NoReport, Increasing
  <2> QED
    BY <1>1, <1>3, <2>1 DEF PagingInv, PagingTypeOK
<1> QED
  BY <1>2, <1>3 DEF Restart

\* Every page, every change between the pages, and every new walk keep both walks in step
\* with what they list.
LEMMA PagingInvStep == PagingInv /\ [PagingNext]_pagingVars => PagingInv'
<1> SUFFICES ASSUME PagingInv, [PagingNext]_pagingVars PROVE PagingInv'
  OBVIOUS
<1>1. ASSUME NEW d \in Paths, ChangeDrawing(d) PROVE PagingInv'
  BY <1>1, ChangeDrawingInv
<1>2. ASSUME NEW n \in 1 .. MaxLimit, PlanPage(n) \/ ReportPage(n) PROVE PagingInv'
  BY <1>2, PlanPageInv, ReportPageInv
<1>3. CASE IssueJobId
  BY <1>3, JobComesInv
<1>4. ASSUME NEW j \in 1 .. MaxJobIds, MakeJobDirectory(j) \/ RemoveJob(j) PROVE PagingInv'
  BY <1>4, JobComesInv, RemoveJobInv
<1>5. CASE Restart
  BY <1>5, RestartInv
<1>6. CASE UNCHANGED pagingVars
  BY <1>6, PagingKept DEF pagingVars
<1> QED
  BY <1>1, <1>2, <1>3, <1>4, <1>5, <1>6 DEF PagingNext

\* Both walks stay in step with what they list, whatever page sizes are asked for and
\* whatever appears, is saved or goes between the pages (discovery.py, batch.py,
\* reporting.py).
THEOREM WalksStayInStep == PagingSpec => []PagingInv
<1>1. PagingInit => PagingInv
  BY PagingInitInv
<1>2. PagingInv /\ [PagingNext]_pagingVars => PagingInv'
  BY PagingInvStep
<1> QED
  BY <1>1, <1>2, PTL DEF PagingSpec

\* A walk in step that came to its end has seen all of its inventory, and all the jobs
\* that lasted.
LEMMA InStepMissesNothing == PagingInv => WalksMissNothing
<1> SUFFICES ASSUME PagingInv PROVE WalksMissNothing
  OBVIOUS
<1>1. ASSUME plans.done PROVE plans.seen = Sorted(DOMAIN plans.id)
  <2>1. WalkOK(plans)
    BY DEF PagingInv
  <2>2. PICK s : s = Sorted(DOMAIN plans.id)
    OBVIOUS
  <2>3. DOMAIN plans.id \subseteq Nat /\ IsFiniteSet(DOMAIN plans.id)
    BY <2>1, FilesAreFinite DEF WalkOK
  <2>4. s \in Seq(DOMAIN plans.id) /\ Len(s) = Cardinality(DOMAIN plans.id)
    BY <2>2, <2>3, SortedListing
  <2>5. s \in Seq(Nat)
    BY <2>3, <2>4, SeqMonotonic
  <2>6. plans.seen = SubSeq(s, 1, Len(s))
    BY <1>1, <2>1, <2>2, <2>4 DEF WalkOK
  <2> QED
    BY <2>2, <2>5, <2>6, AllPlaces
<1>2. Increasing(report.seen)
  BY DEF PagingInv, ReportOK
<1>3. ASSUME report.done PROVE report.lasting \subseteq ToSet(report.seen)
  <2>1. \A j \in report.lasting : \E i \in 1 .. Len(report.seen) : report.seen[i] = j
    BY <1>3 DEF PagingInv, ReportOK
  <2>2. DOMAIN report.seen = 1 .. Len(report.seen)
    BY DEF PagingInv, ReportOK
  <2> QED
    BY <2>1, <2>2 DEF ToSet
<1> QED
  BY <1>1, <1>2, <1>3 DEF WalksMissNothing

\* A batch plan that came to its end covered each drawing of one and the same inventory
\* once, and an operations report every job that was there throughout, none twice.
THEOREM WalksAlwaysMissNothing == PagingSpec => []WalksMissNothing
<1>1. PagingInv => WalksMissNothing
  BY InStepMissesNothing
<1> QED
  BY <1>1, WalksStayInStep, PTL

(***************************************************************************)
(* Types, and the composition of the local server.                         *)
(***************************************************************************)

\* The clock is bounded, and what happened names a build or a text.
PilotTypes ==
  /\ moment <= MaxMoments
  /\ \A r \in Releases : /\ installs[r] \subseteq [commit : Commits, at : 0 .. moment]
                         /\ configs[r] \subseteq [text : Texts, at : 0 .. moment]

\* Every event adds its own moment to a history, or leaves them alone.
LEMMA PilotTypesStep ==
  ASSUME PilotInv, PilotTypes, [PilotNext]_pilotVars
  PROVE  PilotTypes'
<1>1. moment \in Nat /\ MaxMoments \in Nat /\ DOMAIN installs = Releases /\ DOMAIN configs = Releases
  BY PilotAssumption DEF PilotInv
<1>2. ASSUME Event PROVE moment' = moment + 1 /\ moment' \in Nat /\ moment' <= MaxMoments
  BY <1>1, <1>2 DEF Event
<1>3. ASSUME NEW S, NEW e, e \in [commit : Commits, at : 0 .. moment], moment' \in Nat, moment <= moment'
      PROVE  e \in [commit : Commits, at : 0 .. moment']
  <2>1. e.at \in 0 .. moment'
    BY <1>1, <1>3
  <2> QED  BY <1>3, <2>1
<1>4. ASSUME NEW e, e \in [text : Texts, at : 0 .. moment], moment' \in Nat, moment <= moment'
      PROVE  e \in [text : Texts, at : 0 .. moment']
  <2>1. e.at \in 0 .. moment'
    BY <1>1, <1>4
  <2> QED  BY <1>4, <2>1
<1>5. ASSUME UNCHANGED <<installs, configs>>, moment' \in Nat, moment <= moment', moment' <= MaxMoments
      PROVE  PilotTypes'
  <2>1. ASSUME NEW r \in Releases
        PROVE  /\ installs[r] \subseteq [commit : Commits, at : 0 .. moment']
               /\ configs[r] \subseteq [text : Texts, at : 0 .. moment']
    BY <1>3, <1>4, <1>5 DEF PilotTypes
  <2> QED  BY <1>5, <2>1 DEF PilotTypes
<1>6. ASSUME NEW r \in Releases, NEW c \in Commits, Reinstall(r, c) PROVE PilotTypes'
  <2>1. PICK e : e = [commit |-> c, at |-> moment + 1]
    OBVIOUS
  <2>2. /\ installs' = [installs EXCEPT ![r] = @ \cup {e}] /\ configs' = configs /\ Event
    BY <1>6, <2>1 DEF Reinstall
  <2>3. moment' = moment + 1 /\ moment' \in Nat /\ moment' <= MaxMoments /\ moment <= moment'
    BY <1>1, <1>2, <2>2
  <2>4. e \in [commit : Commits, at : 0 .. moment']
    BY <1>1, <2>1, <2>3
  <2>5. ASSUME NEW s \in Releases
        PROVE  /\ installs'[s] \subseteq [commit : Commits, at : 0 .. moment']
               /\ configs'[s] \subseteq [text : Texts, at : 0 .. moment']
    <3>1. installs'[s] \subseteq installs[s] \cup {e}
      BY <1>1, <2>2
    <3> QED  BY <1>3, <1>4, <2>2, <2>3, <2>4, <3>1 DEF PilotTypes
  <2> QED  BY <2>3, <2>5 DEF PilotTypes
<1>7. ASSUME NEW r \in Releases, NEW text \in Texts, EditConfig(r, text) PROVE PilotTypes'
  <2>1. PICK e : e = [text |-> text, at |-> moment + 1]
    OBVIOUS
  <2>2. /\ configs' = [configs EXCEPT ![r] = @ \cup {e}] /\ installs' = installs /\ Event
    BY <1>7, <2>1 DEF EditConfig
  <2>3. moment' = moment + 1 /\ moment' \in Nat /\ moment' <= MaxMoments /\ moment <= moment'
    BY <1>1, <1>2, <2>2
  <2>4. e \in [text : Texts, at : 0 .. moment']
    BY <1>1, <2>1, <2>3
  <2>5. ASSUME NEW s \in Releases
        PROVE  /\ installs'[s] \subseteq [commit : Commits, at : 0 .. moment']
               /\ configs'[s] \subseteq [text : Texts, at : 0 .. moment']
    <3>1. configs'[s] \subseteq configs[s] \cup {e}
      BY <1>1, <2>2
    <3> QED  BY <1>3, <1>4, <2>2, <2>3, <2>4, <3>1 DEF PilotTypes
  <2> QED  BY <2>3, <2>5 DEF PilotTypes
<1>8. ASSUME Event, UNCHANGED <<installs, configs>> PROVE PilotTypes'
  <2>1. moment' \in Nat /\ moment <= moment' /\ moment' <= MaxMoments
    BY <1>1, <1>2, <1>8
  <2> QED  BY <1>5, <1>8, <2>1
<1>9. ASSUME UNCHANGED <<moment, installs, configs>> PROVE PilotTypes'
  <2>1. moment' \in Nat /\ moment <= moment' /\ moment' <= MaxMoments
    BY <1>1, <1>9 DEF PilotTypes
  <2> QED  BY <1>5, <1>9, <2>1
<1>10. CASE UNCHANGED pilotVars
  BY <1>9, <1>10 DEF pilotVars
<1>11. ASSUME NEW r \in Releases, NEW mode, NEW follows, Gate(r, mode, follows) PROVE PilotTypes'
  BY <1>8, <1>11 DEF Gate
<1>12. ASSUME NEW r \in Releases, NEW p, NEW g, NEW h, PilotRun(r, p, g, h) PROVE PilotTypes'
  BY <1>8, <1>12 DEF PilotRun
<1>13. ASSUME NEW r \in Releases, NEW P, Recovery(r, P) PROVE PilotTypes'
  BY <1>8, <1>13 DEF Recovery
<1>14. ASSUME NEW c, NEW chosen, NEW recovery, Assemble(c, chosen, recovery) PROVE PilotTypes'
  BY <1>9, <1>14 DEF Assemble
<1>15. ASSUME NEW r \in Releases, Gate(r, "readonly", 0) PROVE PilotTypes'
  BY <1>8, <1>15 DEF Gate
<1>16. ASSUME NEW r \in Releases, NEW g \in gates, Gate(r, "publish", g.at) PROVE PilotTypes'
  BY <1>8, <1>16 DEF Gate
<1> QED  BY <1>6, <1>7, <1>10, <1>12, <1>13, <1>14, <1>15, <1>16 DEF PilotNext

\* The histories of the workstations and the records stay within their types.
THEOREM PilotTypeCorrect == PilotSpec => []PilotTypeOK
<1>1. PilotInit => PilotTypes
  <2> SUFFICES ASSUME PilotInit PROVE PilotTypes
    OBVIOUS
  <2>1. /\ moment = 0 /\ installs \in [Releases -> {{[commit |-> c, at |-> 0]} : c \in Commits}]
        /\ configs = [r \in Releases |-> {[text |-> "first", at |-> 0]}]
    BY DEF PilotInit
  <2>2. ASSUME NEW r \in Releases
        PROVE  /\ installs[r] \subseteq [commit : Commits, at : 0 .. moment]
               /\ configs[r] \subseteq [text : Texts, at : 0 .. moment]
    <3>1. PICK c \in Commits : installs[r] = {[commit |-> c, at |-> 0]}
      BY <2>1
    <3>2. configs[r] = {[text |-> "first", at |-> 0]} /\ 0 \in 0 .. moment /\ "first" \in Texts
      BY <2>1 DEF Texts
    <3> QED  BY <3>1, <3>2
  <2> QED  BY <2>1, <2>2, PilotAssumption DEF PilotTypes
<1>2. PilotInv /\ PilotTypes /\ [PilotNext]_pilotVars => PilotTypes'
  BY PilotTypesStep
<1>3. PilotInv /\ PilotTypes => PilotTypeOK
  <2> SUFFICES ASSUME PilotInv, PilotTypes PROVE PilotTypeOK
    OBVIOUS
  <2>1. moment \in 0 .. MaxMoments
    BY PilotAssumption DEF PilotInv, PilotTypes
  <2> QED  BY <2>1 DEF PilotInv, PilotTypes, PilotTypeOK, GateOK, RunRecordOK, RecoveryOK
<1> QED  BY <1>1, <1>2, <1>3, PilotIsSound, PTL DEF PilotSpec

\* What is written of the drawings, the template, the job directories and the queue.
PublishTypes ==
  /\ touches <= MaxTouches
  /\ project \in [Drawings -> [bytes : Contents, time : 0 .. MaxTouches]]
  /\ template \in [bytes : {"configured", "redesigned"}, time : 0 .. MaxTouches]
  /\ Len(staging) <= MaxStaged
  /\ pending \subseteq DOMAIN staging /\ IsFiniteSet(pending) /\ Cardinality(pending) <= Capacity

\* Two sequences over the same positions are of the same length.
LEMMA SamePositions ==
  ASSUME NEW S, NEW T, NEW s \in Seq(S), NEW t \in Seq(T), DOMAIN s = DOMAIN t
  PROVE  Len(s) = Len(t)
<1>1. Len(s) \in Nat /\ Len(t) \in Nat /\ 1 .. Len(s) = 1 .. Len(t)
  BY LenProperties
<1> QED  BY <1>1

\* A step that makes no directory, edits no file of people and queues no job.
LEMMA PublishTypesFrame ==
  ASSUME PublishInv, PublishInv', PublishTypes, UNCHANGED people, UNCHANGED pending,
         DOMAIN staging' = DOMAIN staging
  PROVE  PublishTypes'
<1>1. staging \in Seq(StagedJob) /\ staging' \in Seq(StagedJob')
  BY DEF PublishInv, JobsOK
<1>2. Len(staging') = Len(staging)
  BY <1>1, SamePositions
<1>3. project' = project /\ template' = template /\ touches' = touches /\ pending' = pending
  BY DEF people
<1> QED  BY <1>2, <1>3 DEF PublishTypes

\* People write drawings, the template and staged jobs, each with a new time.
LEMMA TouchTypes ==
  ASSUME PublishInv, PublishInv', PublishTypes, Touch
  PROVE  PublishTypes'
<1> USE LocalPublishAssumption
<1>1. touches \in Nat /\ MaxTouches \in Nat /\ touches < MaxTouches /\ touches' = touches + 1
      /\ pending' = pending
  BY DEF Touch, PublishInv, ProjectOK, plugin
<1>2. touches' <= MaxTouches /\ touches + 1 \in 0 .. MaxTouches
  BY <1>1
<1>3. staging \in Seq(StagedJob) /\ staging' \in Seq(StagedJob')
  BY DEF PublishInv, JobsOK
<1>4. CASE /\ \E d \in Drawings, b \in Contents :
                project' = [project EXCEPT ![d] = [bytes |-> b, time |-> touches + 1]]
           /\ UNCHANGED <<template, staging>>
  BY <1>1, <1>2, <1>4 DEF PublishTypes
<1>5. CASE /\ \E b \in {"configured", "redesigned"} :
                template' = [bytes |-> b, time |-> touches + 1]
           /\ UNCHANGED <<project, staging>>
  BY <1>1, <1>2, <1>5 DEF PublishTypes
<1>6. CASE /\ DOMAIN staging' = DOMAIN staging
           /\ UNCHANGED <<project, template>>
  <2>1. Len(staging') = Len(staging)
    BY <1>3, <1>6, SamePositions
  <2> QED  BY <1>1, <1>2, <1>6, <2>1 DEF PublishTypes
<1>7. ASSUME \E j \in DOMAIN staging :
               \/ staging[j].manifest # Missing
                  /\ \E m \in {"original", "edited"} : staging' = [staging EXCEPT ![j].manifest = m]
               \/ staging[j].copy # Missing
                  /\ \E b \in Contents : staging' = [staging EXCEPT ![j].copy = b]
      PROVE  DOMAIN staging' = DOMAIN staging
  BY <1>7
<1> QED  BY <1>4, <1>5, <1>6, <1>7 DEF Touch

\* The worker of the plug-in takes one job out of its queue.
LEMMA DrainTypes ==
  ASSUME PublishTypes, Drain
  PROVE  PublishTypes'
<1> USE LocalPublishAssumption
<1>1. PICK j \in pending : pending' = pending \ {j}
  BY DEF Drain
<1>2. project' = project /\ template' = template /\ touches' = touches /\ staging' = staging
  BY DEF Drain, people
<1>3. /\ IsFiniteSet(pending') /\ Cardinality(pending') = Cardinality(pending) - 1
      /\ Cardinality(pending) \in Nat
  BY <1>1, FS_RemoveElement, FS_CardinalityType DEF PublishTypes
<1>4. Cardinality(pending') <= Capacity
  BY <1>3 DEF PublishTypes
<1> QED  BY <1>1, <1>2, <1>3, <1>4 DEF PublishTypes

\* A new directory is made while there is room for one.
LEMMA MakeJobTypes ==
  ASSUME PublishInv, PublishTypes, MakeJob
  PROVE  PublishTypes'
<1> USE LocalPublishAssumption
<1>1. PICK job : job = [plan |-> call.plan, copy |-> Missing, template |-> Missing,
                        manifest |-> Missing]
  OBVIOUS
<1>2. /\ Len(staging) < MaxStaged /\ staging' = Append(staging, job)
      /\ project' = project /\ template' = template /\ touches' = touches /\ pending' = pending
  BY <1>1 DEF MakeJob, people, plugin
<1>3. staging \in Seq(StagedJob)
  BY DEF PublishInv, JobsOK
<1>4. staging \in Seq(StagedJob \cup {job}) /\ job \in StagedJob \cup {job}
  BY <1>3, SeqMonotonic
<1>5. /\ Len(staging) \in Nat /\ Len(staging') = Len(staging) + 1
      /\ DOMAIN staging = 1 .. Len(staging) /\ DOMAIN staging' = 1 .. Len(staging')
  BY <1>2, <1>4, AppendProperties, LenProperties
<1>6. Len(staging') <= MaxStaged /\ DOMAIN staging \subseteq DOMAIN staging'
  BY <1>2, <1>5
<1> QED  BY <1>2, <1>6 DEF PublishTypes

\* The plug-in accepts a job only while its queue is not full.
LEMMA SendAcceptedTypes ==
  ASSUME PublishInv, PublishTypes, SendAccepted
  PROVE  PublishTypes'
<1> USE LocalPublishAssumption
<1>1. PICK j : j = Head(call.todo).job
  OBVIOUS
<1>2. /\ call.pc = "send" /\ ~Full /\ pending' = pending \cup {j}
      /\ project' = project /\ template' = template /\ touches' = touches /\ staging' = staging
  BY <1>1 DEF SendAccepted, item, people
<1>3. JobsOK /\ CallOK(call) /\ call.pc # "idle"
  BY <1>2 DEF PublishInv
<1>4. call.tool = "queue"
  BY <1>2, <1>3 DEF CallOK, Planning, Staging, Copying
<1>5. j \in DOMAIN staging
  BY <1>1, <1>3, <1>4, FirstItem
<1>6. /\ IsFiniteSet(pending') /\ Cardinality(pending) \in Nat
      /\ Cardinality(pending') = Cardinality(pending) \/ Cardinality(pending') = Cardinality(pending) + 1
  BY <1>2, FS_AddElement, FS_CardinalityType DEF PublishTypes
<1>7. Cardinality(pending') <= Capacity
  BY <1>2, <1>6 DEF Full
<1> QED  BY <1>2, <1>5, <1>6, <1>7 DEF PublishTypes

\* A step of staging other than MakeJob writes into a directory there is.
LEMMA StagingPositions ==
  ASSUME StageStep, ~MakeJob
  PROVE  UNCHANGED people /\ UNCHANGED pending /\ DOMAIN staging' = DOMAIN staging
<1>1. CASE CopyDrawing
  BY <1>1 DEF CopyDrawing, plugin
<1>2. CASE CopyAsset
  BY <1>2 DEF CopyAsset, plugin
<1>3. CASE WriteManifest
  BY <1>3 DEF WriteManifest, plugin
<1>4. ASSUME UNCHANGED quiet
      PROVE  UNCHANGED people /\ UNCHANGED pending /\ DOMAIN staging' = DOMAIN staging
  BY <1>4 DEF quiet, plugin
<1>5. StageFingerprint \/ VerifyCopy \/ CheckAsset \/ VerifyAsset => UNCHANGED quiet
  BY DEF StageFingerprint, VerifyCopy, CheckAsset, VerifyAsset, Step
<1> QED  BY <1>1, <1>2, <1>3, <1>4, <1>5 DEF StageStep

\* Every other step leaves the files of people, the directories and the queue alone.
LEMMA OtherSteps ==
  ASSUME Ask \/ PlanStep \/ (QueueStep /\ ~SendAccepted) \/ ItemFails \/ ServerDies
         \/ UNCHANGED localVars
  PROVE  UNCHANGED people /\ UNCHANGED pending /\ DOMAIN staging' = DOMAIN staging
<1>1. ASSUME UNCHANGED <<people, staging, pending>>
      PROVE  UNCHANGED people /\ UNCHANGED pending /\ DOMAIN staging' = DOMAIN staging
  BY <1>1
<1>2. ASSUME UNCHANGED quiet PROVE UNCHANGED <<people, staging, pending>>
  BY <1>2 DEF quiet, plugin
<1>3. Ask => UNCHANGED <<people, staging, pending>>
  BY DEF Ask, Open
<1>4. PlanStep => UNCHANGED <<people, staging, pending>>
  BY <1>2 DEF PlanStep, FingerprintBefore, Inspect, FingerprintAfter, InspectTemplate,
              TemplateAfter, Planned, Step, plugin
<1>5. QueueStep /\ ~SendAccepted => UNCHANGED <<people, staging, pending>>
  BY <1>2 DEF QueueStep, Defer, LoadStaged, AuditSource, Rehash, SendRefused, SendFull, Step
<1>6. ItemFails \/ ServerDies => UNCHANGED <<people, staging, pending>>
  BY <1>2 DEF ItemFails, ServerDies
<1>7. UNCHANGED localVars => UNCHANGED <<people, staging, pending>>
  BY DEF localVars, people
<1> QED  BY <1>1, <1>3, <1>4, <1>5, <1>6, <1>7

\* The files, the job directories and the queue of the plug-in stay within their types, and
\* the queue within its capacity (PublishJobQueue's Capacity).
THEOREM PublishTypeCorrect == LocalSpec => []PublishTypeOK
<1>1. LocalInit => PublishTypes
  <2> SUFFICES ASSUME LocalInit PROVE PublishTypes
    OBVIOUS
  <2>1. 0 \in 0 .. MaxTouches
    BY LocalPublishAssumption
  <2>2. PICK t : t = [bytes |-> "configured", time |-> 0]
    OBVIOUS
  <2>3. template = t /\ t \in [bytes : {"configured", "redesigned"}, time : 0 .. MaxTouches]
    BY <2>1, <2>2 DEF LocalInit
  <2>4. ASSUME NEW b \in Contents
        PROVE  [bytes |-> b, time |-> 0] \in [bytes : Contents, time : 0 .. MaxTouches]
    BY <2>1
  <2>5. project \in [Drawings -> [bytes : Contents, time : 0 .. MaxTouches]]
    BY <2>4 DEF LocalInit
  <2>6. Cardinality(pending) = 0 /\ IsFiniteSet(pending) /\ pending = {}
    BY FS_EmptySet DEF LocalInit
  <2> QED
    BY <2>3, <2>5, <2>6, LocalPublishAssumption DEF LocalInit, PublishTypes
<1>2. ASSUME PublishInv, PublishInv', PublishTypes, [LocalNext]_localVars
      PROVE  PublishTypes'
  BY <1>2, TouchTypes, DrainTypes, MakeJobTypes, SendAcceptedTypes, StagingPositions, OtherSteps,
     PublishTypesFrame DEF LocalNext
<1>3. PublishInv /\ PublishTypes => PublishTypeOK
  <2> SUFFICES ASSUME PublishInv, PublishTypes PROVE PublishTypeOK
    OBVIOUS
  <2>1. ASSUME NEW j \in DOMAIN staging
        PROVE  /\ staging[j].copy \in Contents \cup {Missing}
               /\ staging[j].template \in {"configured", "redesigned", Missing}
               /\ staging[j].manifest \in {"original", "edited", Missing}
    <3>1. staging[j] \in StagedJob
      BY ElementOfSeq, LenProperties DEF PublishInv, JobsOK
    <3> QED  BY <3>1 DEF StagedJob
  <2> QED  BY <2>1 DEF PublishTypes, PublishTypeOK
<1>4. PublishInv /\ PublishInv' /\ PublishTypes /\ [LocalNext]_localVars => PublishTypes'
  BY <1>2
<1> QED  BY <1>1, <1>3, <1>4, PublishIsSound, PTL DEF LocalSpec

\* The instance runs each component of the local server by its own specification.
THEOREM LocalIsItsParts ==
  Spec => /\ EvidenceSpec /\ AcceptanceSpec /\ PilotSpec
          /\ LocalSpec /\ PagingSpec /\ MarkingSpec
<1>1. Init => /\ EvidenceInit /\ AcceptanceInit /\ PilotInit
              /\ LocalInit /\ PagingInit /\ MarkingInit
  BY DEF Init
<1>2. [Next]_focusVars => /\ [EvidenceNext]_evidenceVars /\ [AcceptanceNext]_acceptanceVars
                          /\ [PilotNext]_pilotVars /\ [LocalNext]_localVars
                          /\ [PagingNext]_pagingVars /\ [MarkingNext]_markingVars
  BY DEF Next, focusVars
<1> QED
  BY <1>1, <1>2, PTL DEF Spec, EvidenceSpec, AcceptanceSpec, PilotSpec, LocalSpec, PagingSpec,
                         MarkingSpec

\* Each component of the local server keeps its files and records within their types.
THEOREM LocalTypeCorrect == Spec => []LocalTypeOK
<1> DEFINE Focused == focus \in {"evidence", "acceptance", "pilot", "publish", "paging", "marking"}
<1>1. Init => Focused
  BY DEF Init
<1>2. Focused /\ [Next]_focusVars => Focused'
  BY DEF Next, focusVars
<1>3. /\ Focused /\ EvidenceTypeOK /\ AcceptanceTypeOK /\ PilotTypeOK
      /\ PublishTypeOK /\ PagingInv /\ MarkingInv
      => LocalTypeOK
  BY DEF PagingInv, MarkingInv, LocalTypeOK
<1> HIDE DEF Focused
<1>4. Spec => []Focused
  BY <1>1, <1>2, PTL DEF Spec
<1>5. Spec => []EvidenceTypeOK /\ []AcceptanceTypeOK /\ []PilotTypeOK
  BY LocalIsItsParts, EvidenceTypeCorrect, AcceptanceTypeCorrect, PilotTypeCorrect
<1>6. Spec => []PublishTypeOK /\ []PagingInv /\ []MarkingInv
  BY LocalIsItsParts, PublishTypeCorrect, WalksStayInStep, LexerStaysInStep
<1> QED
  BY <1>3, <1>4, <1>5, <1>6, PTL

\* What the components of the local server keep they keep side by side: verified jobs, audits,
\* roll backs, kits, pilot evidence, queued jobs, page walks and the marks of a page.
THEOREM LocalKeepsAll ==
  Spec => /\ [](VerifiedWasPublished /\ NothingStaleIsVouchedFor /\ RolledBackLeavesNothing)
          /\ [](AcceptedIsOneKit /\ PilotIsOneStory)
          /\ [](QueuedIsApproved /\ WalksMissNothing /\ LexerIsRight)
<1>1. EvidenceSpec => [](VerifiedWasPublished /\ NothingStaleIsVouchedFor /\ RolledBackLeavesNothing)
  BY VerifiedAlwaysPublished, NothingStaleIsEverVouchedFor, RollBackLeavesNothing, PTL
<1>2. AcceptanceSpec /\ PilotSpec => [](AcceptedIsOneKit /\ PilotIsOneStory)
  BY AcceptedIsAlwaysOneKit, PilotIsAlwaysOneStory, PTL
<1>3. LocalSpec /\ PagingSpec /\ MarkingSpec
        => [](QueuedIsApproved /\ WalksMissNothing /\ LexerIsRight)
  BY QueuedIsAlwaysApproved, WalksAlwaysMissNothing, LexerIsAlwaysRight, PTL
<1> QED
  BY <1>1, <1>2, <1>3, LocalIsItsParts
===============================================================================
