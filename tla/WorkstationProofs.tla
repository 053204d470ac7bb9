--------------------------- MODULE WorkstationProofs ---------------------------
(* What a workstation keeps besides its publish queue, for every number of     *)
(* processes, drawings, plans and configurations: the references it gives to   *)
(* its projects and drawings, and the English copies of a drawing.             *)
EXTENDS MCWorkstation, PublishQueueProofs, FiniteSetTheorems, SequenceTheorems, TLAPS

(***************************************************************************)
(* References.                                                             *)
(***************************************************************************)

\* A command that has a project in hand has one of the table.
CommandsNameProjects ==
  /\ DOMAIN session = Workers
  /\ \A w \in Workers :
       /\ DOMAIN session[w] = {"at", "todo", "project", "file", "drawing"}
       /\ session[w].at \in {"list", "insert", "resolve"}
            => session[w].project \in DOMAIN projects

\* The two unique keys of the table of projects.
ProjectsApart ==
  \A p, q \in DOMAIN projects :
    projects[p].root = projects[q].root
      \/ Folded[projects[p].alias] = Folded[projects[q].alias] => p = q

\* Drawings are numbered as they come; each is in a project, and one of it for its key.
DrawingsApart ==
  /\ \E n \in Nat : DOMAIN drawings = 1 .. n
  /\ \A d \in DOMAIN drawings : drawings[d].project \in DOMAIN projects
  /\ \A d, e \in DOMAIN drawings :
       drawings[d].project = drawings[e].project
         /\ Key[drawings[d].file] = Key[drawings[e].file] => d = e

\* What has been handed out is what the tables still say.
AnswersStand ==
  /\ \A x \in handed : x[1] \in DOMAIN projects /\ x[2] = projects[x[1]]
  /\ \A x \in resolved : x[1] \in DOMAIN drawings /\ x[2] = Location(x[1])

ReferencesInv == CommandsNameProjects /\ ProjectsApart /\ DrawingsApart /\ AnswersStand

\* The next number is free (NewDrawing).
LEMMA NewDrawingIsNew ==
  ASSUME DrawingsApart
  PROVE  /\ NewDrawing \notin DOMAIN drawings
         /\ \E n \in Nat : DOMAIN drawings \cup {NewDrawing} = 1 .. n
<1>1. PICK n \in Nat : DOMAIN drawings = 1 .. n
  BY DEF DrawingsApart
<1>2. Cardinality(1 .. n) = n
  BY <1>1, FS_Interval
<1>3. NewDrawing = n + 1
  BY <1>1, <1>2 DEF NewDrawing
<1>4. NewDrawing \notin DOMAIN drawings
  BY <1>1, <1>3
<1>5. DOMAIN drawings \cup {NewDrawing} = 1 .. n + 1
  BY <1>1, <1>3
<1> QED
  BY <1>1, <1>4, <1>5

\* A session that another follows is a record, of a project it may work on.
LEMMA SessionsBecome ==
  ASSUME NEW w \in Workers, CommandsNameProjects, NEW next, Become(w, next),
         DOMAIN next = {"at", "todo", "project", "file", "drawing"},
         DOMAIN projects \subseteq DOMAIN projects',
         next.at \in {"list", "insert", "resolve"} => next.project \in DOMAIN projects
  PROVE  CommandsNameProjects'
<1>1. session' = [session EXCEPT ![w] = next]
  BY DEF Become
<1>2. DOMAIN session' = Workers /\ session'[w] = next
  BY <1>1 DEF CommandsNameProjects
<1>3. ASSUME NEW v \in Workers
      PROVE  /\ DOMAIN session'[v] = {"at", "todo", "project", "file", "drawing"}
             /\ session'[v].at \in {"list", "insert", "resolve"}
                  => session'[v].project \in DOMAIN projects'
  <2>1. CASE v = w
    BY <1>2, <2>1
  <2>2. CASE v # w
    <3>1. session'[v] = session[v]
      BY <1>1, <2>2 DEF CommandsNameProjects
    <3> QED
      BY <3>1 DEF CommandsNameProjects
  <2> QED
    BY <2>1, <2>2
<1> QED
  BY <1>2, <1>3 DEF CommandsNameProjects

\* Registration (EnsureProject): a row that is there stays as it is, and a new one
\* shares neither directory nor folded name with another.
LEMMA ProjectIsRegistered ==
  ASSUME NEW w \in Workers, ReferencesInv, EnsureProject(w)
  PROVE  ReferencesInv'
<1> DEFINE entry == Head(session[w].todo)
           row == [alias |-> entry.alias, root |-> entry.root]
<1>1. /\ ~Collides(entry)
      /\ Registered(entry) => projects[entry.project] = row
      /\ projects' = Stored(projects, entry.project, row)
      /\ Become(w, [session[w] EXCEPT !.todo = Tail(@)])
      /\ UNCHANGED <<drawings, handed, resolved>>
      /\ session[w].at = "start"
  BY DEF EnsureProject, Doing
<1> PICK id : id = entry.project
  OBVIOUS
<1> PICK stored : stored = row
  OBVIOUS
<1> HIDE DEF entry, row
<1>2. /\ DOMAIN projects' = DOMAIN projects \cup {id}
      /\ projects'[id] = stored
      /\ \A q \in DOMAIN projects : projects'[q] = projects[q]
  BY <1>1 DEF Stored, Registered
<1>3. \A q \in DOMAIN projects \ {id} :
        projects[q].root # stored.root /\ Folded[projects[q].alias] # Folded[stored.alias]
  BY <1>1 DEF Collides, row
<1>4. ProjectsApart'
  <2>1. \A q \in DOMAIN projects \ {id} :
          /\ projects'[q].root # projects'[id].root
          /\ Folded[projects'[q].alias] # Folded[projects'[id].alias]
    BY <1>2, <1>3
  <2>2. \A p, q \in DOMAIN projects :
          projects'[p].root = projects'[q].root
            \/ Folded[projects'[p].alias] = Folded[projects'[q].alias] => p = q
    BY <1>2 DEF ReferencesInv, ProjectsApart
  <2> QED
    BY <1>2, <2>1, <2>2 DEF ProjectsApart
<1>5. CommandsNameProjects'
  <2>1. PICK next : next = [session[w] EXCEPT !.todo = Tail(@)]
    OBVIOUS
  <2>2. /\ DOMAIN next = {"at", "todo", "project", "file", "drawing"}
        /\ next.at = "start"
    BY <1>1, <2>1 DEF ReferencesInv, CommandsNameProjects
  <2> QED
    BY <1>1, <1>2, <2>1, <2>2, SessionsBecome DEF ReferencesInv
<1>6. DrawingsApart'
  BY <1>1, <1>2 DEF ReferencesInv, DrawingsApart
<1>7. AnswersStand'
  <2>1. \A d \in DOMAIN drawings : Location(d)' = Location(d)
    BY <1>1, <1>2 DEF ReferencesInv, DrawingsApart, Location
  <2> QED
    BY <1>1, <1>2, <2>1 DEF ReferencesInv, AnswersStand
<1> QED
  BY <1>4, <1>5, <1>6, <1>7 DEF ReferencesInv

\* A scan stores a drawing (InsertDrawing) only if its key is free then, whatever the
\* scan of another process has stored since this one looked.
LEMMA DrawingIsInserted ==
  ASSUME NEW w \in Workers, ReferencesInv, InsertDrawing(w)
  PROVE  ReferencesInv'
<1> DEFINE rows == Rows(session[w].project, session[w].file)
<1>1. /\ session[w].at = "insert"
      /\ drawings' = IF rows = {} THEN Stored(drawings, NewDrawing, NewRow(w)) ELSE drawings
      /\ UNCHANGED <<projects, handed, resolved>>
      /\ session[w].project \in DOMAIN projects
  BY DEF InsertDrawing, Doing, ReferencesInv, CommandsNameProjects
<1>2. CommandsNameProjects'
  <2>1. PICK d, next : /\ next = [session[w] EXCEPT !.at = "resolve", !.drawing = d]
                       /\ Become(w, next)
    BY DEF InsertDrawing
  <2>2. /\ DOMAIN next = {"at", "todo", "project", "file", "drawing"}
        /\ next.project = session[w].project
    BY <2>1 DEF ReferencesInv, CommandsNameProjects
  <2> QED
    BY <1>1, <2>1, <2>2, SessionsBecome DEF ReferencesInv
<1>3. ProjectsApart'
  BY <1>1 DEF ReferencesInv, ProjectsApart
<1>4. DrawingsApart' /\ AnswersStand'
  <2>1. CASE rows # {}
    BY <1>1, <2>1 DEF ReferencesInv, DrawingsApart, AnswersStand, Location
  <2>2. CASE rows = {}
    <3>1. PICK number : number = NewDrawing
      OBVIOUS
    <3>2. number \notin DOMAIN drawings /\ \E n \in Nat : DOMAIN drawings \cup {number} = 1 .. n
      BY <3>1, NewDrawingIsNew DEF ReferencesInv
    <3>3. PICK new : new = NewRow(w)
      OBVIOUS
    <3>4. drawings' = Stored(drawings, number, new)
      BY <1>1, <2>2, <3>1, <3>3
    <3>5. /\ DOMAIN drawings' = DOMAIN drawings \cup {number}
          /\ drawings'[number] = new
          /\ \A d \in DOMAIN drawings : drawings'[d] = drawings[d]
      BY <3>2, <3>4 DEF Stored
    <3>6. new.project = session[w].project /\ new.file = session[w].file
      BY <3>3 DEF NewRow
    <3>7. \A d \in DOMAIN drawings :
            ~(drawings[d].project = new.project /\ Key[drawings[d].file] = Key[new.file])
      BY <2>2, <3>6 DEF Rows
    <3>8. DrawingsApart'
      <4>1. \E n \in Nat : DOMAIN drawings' = 1 .. n
        BY <3>2, <3>5
      <4>2. \A d \in DOMAIN drawings' : drawings'[d].project \in DOMAIN projects'
        BY <1>1, <3>5, <3>6 DEF ReferencesInv, DrawingsApart
      <4>3. \A d, e \in DOMAIN drawings' :
              drawings'[d].project = drawings'[e].project
                /\ Key[drawings'[d].file] = Key[drawings'[e].file] => d = e
        BY <3>5, <3>7 DEF ReferencesInv, DrawingsApart
      <4> QED
        BY <4>1, <4>2, <4>3 DEF DrawingsApart
    <3>9. AnswersStand'
      <4>1. \A d \in DOMAIN drawings : Location(d)' = Location(d)
        BY <1>1, <3>5 DEF Location
      <4> QED
        BY <1>1, <3>5, <4>1 DEF ReferencesInv, AnswersStand
    <3> QED
      BY <3>8, <3>9
  <2> QED
    BY <2>1, <2>2
<1> QED
  BY <1>2, <1>3, <1>4 DEF ReferencesInv

\* The tables stay; what the command names and answers is in them.
LEMMA TablesStay ==
  ASSUME ReferencesInv, UNCHANGED <<projects, drawings>>, CommandsNameProjects', AnswersStand'
  PROVE  ReferencesInv'
BY DEF ReferencesInv, ProjectsApart, DrawingsApart

\* No answer is added.
LEMMA AnswersStay ==
  ASSUME ReferencesInv, UNCHANGED <<projects, drawings, handed, resolved>>
  PROVE  AnswersStand'
BY DEF ReferencesInv, AnswersStand, Location

\* Every step of every process, and every change of the disk.
LEMMA ReferencesInductive ==
  ASSUME ReferencesInv, [ReferencesNext]_referenceVars
  PROVE  ReferencesInv'
<1>1. CASE UNCHANGED referenceVars \/ ChangeDisk
  <2>1. UNCHANGED <<projects, drawings, session, handed, resolved>>
    BY <1>1 DEF referenceVars, ChangeDisk
  <2>2. CommandsNameProjects'
    BY <2>1 DEF ReferencesInv, CommandsNameProjects
  <2> QED
    BY <2>1, <2>2, AnswersStay, TablesStay
<1>2. ASSUME NEW w \in Workers, WorkerCommand(w)
      PROVE  ReferencesInv'
  <2>0. /\ CommandsNameProjects
        /\ DOMAIN session[w] = {"at", "todo", "project", "file", "drawing"}
        /\ session[w].at \in {"list", "insert", "resolve"}
             => session[w].project \in DOMAIN projects
    BY DEF ReferencesInv, CommandsNameProjects
  <2>1. ASSUME UNCHANGED <<projects, drawings, handed, resolved>>,
               NEW next, Become(w, next),
               DOMAIN next = {"at", "todo", "project", "file", "drawing"},
               next.at \in {"list", "insert", "resolve"} => next.project \in DOMAIN projects
        PROVE  ReferencesInv'
    <3>1. CommandsNameProjects'
      BY <2>0, <2>1, SessionsBecome
    <3> QED
      BY <2>1, <3>1, AnswersStay, TablesStay
  <2>2. CASE StartWorker(w)
    <3>1. PICK c, next : next = [Stopped EXCEPT !.at = "start", !.todo = c] /\ Become(w, next)
      BY <2>2 DEF StartWorker
    <3>2. DOMAIN next = {"at", "todo", "project", "file", "drawing"} /\ next.at = "start"
      BY <3>1 DEF Stopped
    <3> QED
      BY <2>1, <2>2, <3>1, <3>2 DEF StartWorker
  <2>3. CASE EnsureProject(w)
    BY <2>3, ProjectIsRegistered
  <2>4. CASE FinishStart(w) \/ EndCommand(w)
    <3>1. PICK next : next = Ready /\ Become(w, next)
      BY <2>4 DEF FinishStart, EndCommand
    <3>2. DOMAIN next = {"at", "todo", "project", "file", "drawing"} /\ next.at = "ready"
      BY <3>1 DEF Ready, Stopped
    <3> QED
      BY <2>1, <2>4, <3>1, <3>2 DEF FinishStart, EndCommand
  <2>5. CASE StopWorker(w)
    <3>1. PICK next : next = Stopped /\ Become(w, next)
      BY <2>5 DEF StopWorker
    <3>2. DOMAIN next = {"at", "todo", "project", "file", "drawing"} /\ next.at = "stopped"
      BY <3>1 DEF Stopped
    <3> QED
      BY <2>1, <2>5, <3>1, <3>2 DEF StopWorker
  <2>6. CASE ListProjects(w)
    <3>1. /\ UNCHANGED <<projects, drawings, session, resolved>>
          /\ handed' = handed \cup {<<q, projects[q]>> : q \in DOMAIN projects}
      BY <2>6 DEF ListProjects
    <3>2. CommandsNameProjects'
      BY <2>0, <3>1 DEF CommandsNameProjects
    <3>3. AnswersStand'
      BY <3>1 DEF ReferencesInv, AnswersStand, Location
    <3> QED
      BY <3>1, <3>2, <3>3, TablesStay
  <2>7. CASE ScanProject(w)
    <3>1. PICK q \in DOMAIN projects :
            /\ \E s : Become(w, [Ready EXCEPT !.at = "list", !.project = q, !.todo = s])
            /\ UNCHANGED <<projects, drawings, handed, resolved>>
      BY <2>7 DEF ScanProject
    <3>2. PICK s, next : /\ next = [Ready EXCEPT !.at = "list", !.project = q, !.todo = s]
                         /\ Become(w, next)
      BY <3>1
    <3>3. DOMAIN next = {"at", "todo", "project", "file", "drawing"} /\ next.project = q
      BY <3>2 DEF Ready, Stopped
    <3> QED
      BY <2>1, <3>1, <3>2, <3>3
  <2>8. CASE FindDrawing(w)
    <3>1. PICK f, at, d, next :
            /\ next = [session[w] EXCEPT !.todo = Tail(@), !.file = f, !.at = at, !.drawing = d]
            /\ Become(w, next)
      BY <2>8 DEF FindDrawing
    <3>2. session[w].project \in DOMAIN projects
      BY <2>0, <2>8 DEF FindDrawing, Doing
    <3>3. DOMAIN next = {"at", "todo", "project", "file", "drawing"} /\ next.project = session[w].project
      BY <2>0, <3>1
    <3> QED
      BY <2>1, <2>8, <3>1, <3>2, <3>3 DEF FindDrawing
  <2>9. CASE InsertDrawing(w)
    BY <2>9, DrawingIsInserted
  <2>10. CASE ResolveListed(w)
    <3>1. /\ UNCHANGED <<projects, drawings, handed>>
          /\ session[w].drawing \in DOMAIN drawings
          /\ resolved' = resolved \cup {<<session[w].drawing, Location(session[w].drawing)>>}
          /\ session[w].at = "resolve"
      BY <2>10 DEF ResolveListed, ResolvedDrawing, Doing
    <3>2. PICK next : /\ next = [session[w] EXCEPT !.at = "list", !.file = Unknown,
                                                   !.drawing = Unknown]
                      /\ Become(w, next)
      BY <2>10 DEF ResolveListed
    <3>3. DOMAIN next = {"at", "todo", "project", "file", "drawing"} /\ next.project = session[w].project
      BY <2>0, <3>2
    <3>4. CommandsNameProjects'
      BY <2>0, <3>1, <3>2, <3>3, SessionsBecome
    <3>5. AnswersStand'
      BY <3>1 DEF ReferencesInv, AnswersStand, Location
    <3> QED
      BY <3>1, <3>4, <3>5, TablesStay
  <2>11. CASE UseDrawing(w)
    <3>1. PICK d \in DOMAIN drawings :
            /\ resolved' = resolved \cup {<<d, Location(d)>>}
            /\ UNCHANGED <<projects, drawings, session, handed>>
      BY <2>11 DEF UseDrawing
    <3>2. CommandsNameProjects'
      BY <2>0, <3>1 DEF CommandsNameProjects
    <3>3. AnswersStand'
      BY <3>1 DEF ReferencesInv, AnswersStand, Location
    <3> QED
      BY <3>1, <3>2, <3>3, TablesStay
  <2> QED
    BY <1>2, <2>2, <2>3, <2>4, <2>5, <2>6, <2>7, <2>8, <2>9, <2>10, <2>11 DEF WorkerCommand
<1> QED
  BY <1>1, <1>2 DEF ReferencesNext

\* A reference means one thing for ever, and one thing has one reference: whatever
\* processes scan at once, are restarted or configured otherwise (local_refs.py).
THEOREM ReferencesStayStable == ReferencesSpec => []ReferencesAreStable
<1>1. ReferencesInit => ReferencesInv
  <2> SUFFICES ASSUME ReferencesInit
               PROVE  ReferencesInv
    OBVIOUS
  <2>1. DOMAIN projects = {} /\ DOMAIN drawings = {}
    BY DEF ReferencesInit
  <2>2. CommandsNameProjects
    BY DEF ReferencesInit, CommandsNameProjects, Stopped
  <2>3. DrawingsApart
    <3>1. DOMAIN drawings = 1 .. 0 /\ 0 \in Nat
      BY <2>1
    <3> QED
      BY <2>1, <3>1 DEF DrawingsApart
  <2>4. ProjectsApart /\ AnswersStand
    BY <2>1 DEF ReferencesInit, ProjectsApart, AnswersStand
  <2> QED
    BY <2>2, <2>3, <2>4 DEF ReferencesInv
<1>2. ReferencesInv /\ [ReferencesNext]_referenceVars => ReferencesInv'
  BY ReferencesInductive
<1>3. ReferencesInv => ReferencesAreStable
  <2> SUFFICES ASSUME ReferencesInv
               PROVE  ReferencesAreStable
    OBVIOUS
  <2>1. ASSUME NEW x \in resolved, NEW y \in resolved
        PROVE  /\ x[1] = y[1] => x[2] = y[2]
               /\ x[2].root = y[2].root /\ Key[x[2].file] = Key[y[2].file] => x[1] = y[1]
    <3>1. /\ x[1] \in DOMAIN drawings /\ x[2] = Location(x[1])
          /\ y[1] \in DOMAIN drawings /\ y[2] = Location(y[1])
      BY <2>1 DEF ReferencesInv, AnswersStand
    <3>2. /\ x[2].root = projects[drawings[x[1]].project].root
          /\ x[2].file = drawings[x[1]].file
          /\ y[2].root = projects[drawings[y[1]].project].root
          /\ y[2].file = drawings[y[1]].file
      BY <3>1 DEF Location
    <3> QED
      BY <3>1, <3>2 DEF ReferencesInv, ProjectsApart, DrawingsApart
  <2>2. ASSUME NEW x \in handed, NEW y \in handed
        PROVE  /\ x[1] = y[1] => x[2] = y[2]
               /\ x[2].root = y[2].root \/ Folded[x[2].alias] = Folded[y[2].alias]
                    => x[1] = y[1]
    BY <2>2 DEF ReferencesInv, AnswersStand, ProjectsApart
  <2> QED
    BY <2>1, <2>2 DEF ReferencesAreStable
<1> QED
  BY <1>1, <1>2, <1>3, PTL DEF ReferencesSpec

(***************************************************************************)
(* Translation.                                                            *)
(***************************************************************************)

\* What is read of a copy is what the plan says (expected_after).
Reads(content, plan) ==
  TextSnapshot(content) = TextSnapshot(Translated(plan.inventory.content, plan.decisions))

\* The steps of a write once it has a job directory.
JobSteps == {"copy", "check_draft", "edit", "reopen", "result", "release", "record"}

PlansAreRead ==
  /\ source.content \in Versions
  /\ \A plan \in plans : plan.inventory.content \in Versions

ReviewsAdmitted == \A inv \in DOMAIN reviews : Admissible(inv.content, reviews[inv])

WritesPlanned ==
  /\ DOMAIN writes \subseteq plans
  /\ \A w \in DOMAIN writes :
       writes[w] # Nothing => /\ writes[w] \in DOMAIN copies
                              /\ copies[writes[w]].receipt
                              /\ copies[writes[w]].plan = w

CopiesApart ==
  /\ \E S : copies \in Seq(S)
  /\ \A i \in DOMAIN copies :
       /\ DOMAIN copies[i] = {"plan", "draft", "result", "receipt"}
       /\ copies[i].receipt \in BOOLEAN
       /\ copies[i].plan \in DOMAIN writes
       /\ copies[i].receipt =>
            Reads(copies[i].result, copies[i].plan) /\ Applicable(copies[i].plan)
  /\ \A i, j \in DOMAIN copies : copies[i].plan = copies[j].plan => i = j

\* A process that writes alone has its plan, and its job directory is that of the plan.
TranslatorsApart ==
  /\ DOMAIN translator = Translators
  /\ \A p \in Translators :
       /\ DOMAIN translator[p] = {"at", "plan", "copy"}
       /\ translator[p].at \in {"idle", "scan"} \cup JobSteps
       /\ translator[p].at # "idle" =>
            translator[p].plan \in DOMAIN writes /\ Applicable(translator[p].plan)
       /\ translator[p].at = "scan" =>
            \A i \in DOMAIN copies : copies[i].plan # translator[p].plan
       /\ translator[p].at \in JobSteps =>
            /\ translator[p].copy \in DOMAIN copies
            /\ copies[translator[p].copy].plan = translator[p].plan
            /\ (copies[translator[p].copy].receipt <=> translator[p].at = "record")
       /\ translator[p].at \in {"result", "release"} =>
            Reads(copies[translator[p].copy].draft, translator[p].plan)
  /\ \A p, q \in Translators :
       /\ translator[p].at # "idle" /\ translator[q].at # "idle"
       /\ translator[p].plan = translator[q].plan
       => p = q

TranslationInv ==
  PlansAreRead /\ ReviewsAdmitted /\ WritesPlanned /\ CopiesApart /\ TranslatorsApart

\* The list of job directories with another one at its end (StartCopy).
LEMMA CopyIsAdded ==
  ASSUME NEW S, copies \in Seq(S), NEW c
  PROVE  /\ DOMAIN Append(copies, c) = DOMAIN copies \cup {Len(copies) + 1}
         /\ Len(copies) + 1 \notin DOMAIN copies
         /\ Append(copies, c)[Len(copies) + 1] = c
         /\ \A i \in DOMAIN copies : Append(copies, c)[i] = copies[i]
         /\ \E T : Append(copies, c) \in Seq(T)
<1> DEFINE T == S \cup {c}
<1>1. copies \in Seq(T)
  OBVIOUS
<1>2. Append(copies, c) \in Seq(T) /\ Len(Append(copies, c)) = Len(copies) + 1
  BY <1>1, AppendProperties
<1>3. /\ Append(copies, c)[Len(copies) + 1] = c
      /\ \A i \in 1 .. Len(copies) : Append(copies, c)[i] = copies[i]
  BY <1>1, AppendProperties
<1>4. /\ Len(copies) \in Nat /\ DOMAIN copies = 1 .. Len(copies)
      /\ DOMAIN Append(copies, c) = 1 .. Len(copies) + 1
  BY <1>1, <1>2, LenProperties
<1> QED
  BY <1>2, <1>3, <1>4

\* The list of job directories with one of them changed.
LEMMA CopyIsChanged ==
  ASSUME NEW S, copies \in Seq(S), NEW i \in DOMAIN copies, NEW c,
         copies' = [copies EXCEPT ![i] = c]
  PROVE  /\ DOMAIN copies' = DOMAIN copies
         /\ copies'[i] = c
         /\ \A j \in DOMAIN copies : j # i => copies'[j] = copies[j]
         /\ \E T : copies' \in Seq(T)
<1> DEFINE T == S \cup {c}
<1>1. copies \in Seq(T)
  OBVIOUS
<1>2. i \in 1 .. Len(copies)
  BY <1>1, LenProperties
<1>3. copies' \in Seq(T)
  BY <1>1, <1>2, ExceptSeq
<1>4. /\ DOMAIN copies' = DOMAIN copies
      /\ copies'[i] = c
      /\ \A j \in DOMAIN copies : j # i => copies'[j] = copies[j]
  OBVIOUS
<1> QED
  BY <1>3, <1>4

\* A step of the service on the job directory of its plan: the directory may change,
\* but not the plan in it, and the receipt comes last.
LEMMA JobStep ==
  ASSUME NEW p \in Translators, TranslationInv, UNCHANGED <<source, reviews, plans, writes>>,
         translator[p].at \in JobSteps \ {"record"},
         NEW c, DOMAIN c = {"plan", "draft", "result", "receipt"},
         c.plan = translator[p].plan, c.receipt \in BOOLEAN,
         c.receipt => Reads(c.result, c.plan),
         copies' = [copies EXCEPT ![translator[p].copy] = c],
         NEW next, DOMAIN next = {"at", "plan", "copy"},
         next.at \in JobSteps, next.plan = translator[p].plan, next.copy = translator[p].copy,
         c.receipt <=> next.at = "record",
         next.at \in {"result", "release"} => Reads(c.draft, c.plan),
         translator' = [translator EXCEPT ![p] = next]
  PROVE  TranslationInv'
<1> PICK k : k = translator[p].copy
  OBVIOUS
<1>1. /\ k \in DOMAIN copies /\ copies[k].plan = c.plan /\ ~copies[k].receipt
      /\ c.plan \in DOMAIN writes /\ Applicable(c.plan)
  BY DEF TranslationInv, TranslatorsApart, JobSteps
<1>2. /\ DOMAIN copies' = DOMAIN copies
      /\ copies'[k] = c
      /\ \A i \in DOMAIN copies : i # k => copies'[i] = copies[i]
      /\ \E T : copies' \in Seq(T)
  BY <1>1, CopyIsChanged DEF TranslationInv, CopiesApart
<1>3. /\ DOMAIN translator' = Translators
      /\ translator'[p] = next
      /\ \A q \in Translators : q # p => translator'[q] = translator[q]
  BY DEF TranslationInv, TranslatorsApart
<1>4. PlansAreRead' /\ ReviewsAdmitted'
  BY DEF TranslationInv, PlansAreRead, ReviewsAdmitted
<1>5. WritesPlanned'
  <2>1. ASSUME NEW w \in DOMAIN writes, writes[w] # Nothing
        PROVE  /\ writes[w] \in DOMAIN copies'
               /\ copies'[writes[w]].receipt
               /\ copies'[writes[w]].plan = w
    BY <1>1, <1>2, <2>1 DEF TranslationInv, WritesPlanned
  <2> QED
    BY <2>1 DEF TranslationInv, WritesPlanned
<1>6. CopiesApart'
  <2>1. ASSUME NEW i \in DOMAIN copies
        PROVE  /\ DOMAIN copies'[i] = {"plan", "draft", "result", "receipt"}
               /\ copies'[i].receipt \in BOOLEAN
               /\ copies'[i].plan \in DOMAIN writes'
               /\ copies'[i].receipt =>
                    Reads(copies'[i].result, copies'[i].plan) /\ Applicable(copies'[i].plan)
               /\ copies'[i].plan = copies[i].plan
    <3>1. CASE i = k
      BY <1>1, <1>2, <3>1
    <3>2. CASE i # k
      BY <1>2, <3>2 DEF TranslationInv, CopiesApart
    <3> QED
      BY <3>1, <3>2
  <2>2. \A i, j \in DOMAIN copies : copies'[i].plan = copies'[j].plan => i = j
    BY <2>1 DEF TranslationInv, CopiesApart
  <2> QED
    BY <1>2, <2>1, <2>2 DEF CopiesApart
<1>7. TranslatorsApart'
  <2>1. ASSUME NEW q \in Translators
        PROVE  /\ DOMAIN translator'[q] = {"at", "plan", "copy"}
               /\ translator'[q].at \in {"idle", "scan"} \cup JobSteps
               /\ translator'[q].at # "idle" =>
                    translator'[q].plan \in DOMAIN writes' /\ Applicable(translator'[q].plan)
               /\ translator'[q].at = "scan" =>
                    \A i \in DOMAIN copies' : copies'[i].plan # translator'[q].plan
               /\ translator'[q].at \in JobSteps =>
                    /\ translator'[q].copy \in DOMAIN copies'
                    /\ copies'[translator'[q].copy].plan = translator'[q].plan
                    /\ (copies'[translator'[q].copy].receipt <=> translator'[q].at = "record")
               /\ translator'[q].at \in {"result", "release"} =>
                    Reads(copies'[translator'[q].copy].draft, translator'[q].plan)
    <3>1. CASE q = p
      BY <1>1, <1>2, <1>3, <3>1 DEF JobSteps
    <3>2. CASE q # p
      <4>1. /\ translator'[q] = translator[q]
            /\ translator[q].at # "idle" => translator[q].plan # c.plan
        BY <1>3, <3>2 DEF TranslationInv, TranslatorsApart, JobSteps
      <4>2. translator[q].at \in JobSteps =>
              translator[q].copy \in DOMAIN copies \ {k}
        BY <1>1, <4>1 DEF TranslationInv, TranslatorsApart, JobSteps
      <4> QED
        BY <1>1, <1>2, <4>1, <4>2 DEF TranslationInv, TranslatorsApart, JobSteps
    <3> QED
      BY <3>1, <3>2
  <2>2. \A q, r \in Translators :
          /\ translator'[q].at # "idle" /\ translator'[r].at # "idle"
          /\ translator'[q].plan = translator'[r].plan
          => q = r
    <3>1. translator[p].at # "idle"
      BY DEF JobSteps
    <3> QED
      BY <1>3, <3>1 DEF TranslationInv, TranslatorsApart
  <2> QED
    BY <1>3, <2>1, <2>2 DEF TranslatorsApart
<1> QED
  BY <1>4, <1>5, <1>6, <1>7 DEF TranslationInv

\* A decision laid over an admissible one is admissible (SubmitReview merges reviews).
LEMMA MergedIsAdmissible ==
  ASSUME NEW content, NEW new, NEW old, Admissible(content, new), Admissible(content, old)
  PROVE  Admissible(content, Over(new, old))
<1>1. ASSUME NEW e \in DOMAIN Over(new, old)
      PROVE  Over(new, old)[e].target # content.text[e]
               => Over(new, old)[e].language = "tr" /\ Over(new, old)[e].target \notin Coded
  <2>1. CASE e \in DOMAIN new
    <3>1. Over(new, old)[e] = new[e]
      BY <1>1, <2>1 DEF Over
    <3> QED
      BY <2>1, <3>1 DEF Admissible
  <2>2. CASE e \notin DOMAIN new
    <3>1. e \in DOMAIN old /\ Over(new, old)[e] = old[e]
      BY <1>1, <2>2 DEF Over
    <3> QED
      BY <3>1 DEF Admissible
  <2> QED
    BY <2>1, <2>2
<1> QED
  BY <1>1 DEF Admissible

\* Only the tables of reviews and plans have changed, or the drawing.
LEMMA RequestStep ==
  ASSUME TranslationInv, UNCHANGED <<writes, copies, translator>>,
         plans \subseteq plans', PlansAreRead', ReviewsAdmitted'
  PROVE  TranslationInv'
BY DEF TranslationInv, WritesPlanned, CopiesApart, TranslatorsApart

\* A review merges what is admissible for the inventory (SubmitReview).
LEMMA ReviewStep ==
  ASSUME TranslationInv, SubmitReview
  PROVE  TranslationInv'
<1>1. PICK ds :
        /\ Admissible(Scanned.content, ds)
        /\ reviews' = Over([inv \in {Scanned} |-> Over(ds, IF Scanned \in DOMAIN reviews
                                                           THEN reviews[Scanned] ELSE << >>)],
                           reviews)
        /\ UNCHANGED <<source, plans, writes, copies, translator>>
  BY DEF SubmitReview
<1> PICK old : old = IF Scanned \in DOMAIN reviews THEN reviews[Scanned] ELSE << >>
  OBVIOUS
<1>2. Admissible(Scanned.content, old)
  <2>1. CASE Scanned \in DOMAIN reviews
    BY <2>1 DEF TranslationInv, ReviewsAdmitted
  <2>2. CASE Scanned \notin DOMAIN reviews
    <3>1. DOMAIN old = {}
      BY <2>2
    <3> QED
      BY <3>1 DEF Admissible
  <2> QED
    BY <2>1, <2>2
<1>3. PICK merged : merged = Over(ds, old)
  OBVIOUS
<1>4. Admissible(Scanned.content, merged)
  BY <1>1, <1>2, <1>3, MergedIsAdmissible
<1>5. /\ DOMAIN reviews' = DOMAIN reviews \cup {Scanned}
      /\ reviews'[Scanned] = merged
      /\ \A inv \in DOMAIN reviews : inv # Scanned => reviews'[inv] = reviews[inv]
  BY <1>1, <1>3 DEF Over
<1>6. ReviewsAdmitted'
  BY <1>4, <1>5 DEF TranslationInv, ReviewsAdmitted
<1> QED
  BY <1>1, <1>6, RequestStep DEF TranslationInv, PlansAreRead

\* A plan that has no row gets one, and a process that goes on with it alone (BeginWrite).
LEMMA BeginStep ==
  ASSUME NEW p \in Translators, TranslationInv, BeginWrite(p)
  PROVE  TranslationInv'
<1>1. PICK plan \in plans :
        /\ translator[p].at = "idle" /\ Applicable(plan) /\ plan \notin DOMAIN writes
        /\ writes' = Over([w \in {plan} |-> Nothing], writes)
        /\ translator' = [translator EXCEPT ![p] = [Resting EXCEPT !.at = "scan", !.plan = plan]]
        /\ UNCHANGED <<source, reviews, plans, copies>>
  BY DEF BeginWrite, At
<1> PICK next : next = [Resting EXCEPT !.at = "scan", !.plan = plan]
  OBVIOUS
<1>2. DOMAIN next = {"at", "plan", "copy"} /\ next.at = "scan" /\ next.plan = plan
  BY DEF Resting
<1>3. /\ DOMAIN writes' = DOMAIN writes \cup {plan}
      /\ writes'[plan] = Nothing
      /\ \A w \in DOMAIN writes : writes'[w] = writes[w]
  BY <1>1 DEF Over
<1>4. /\ DOMAIN translator' = Translators
      /\ translator'[p] = next
      /\ \A q \in Translators : q # p => translator'[q] = translator[q]
  BY <1>1 DEF TranslationInv, TranslatorsApart
<1>5. PlansAreRead' /\ ReviewsAdmitted'
  BY <1>1 DEF TranslationInv, PlansAreRead, ReviewsAdmitted
<1>6. WritesPlanned'
  BY <1>1, <1>3 DEF TranslationInv, WritesPlanned
<1>7. CopiesApart'
  BY <1>1, <1>3 DEF TranslationInv, CopiesApart
<1>8. TranslatorsApart'
  <2>1. ASSUME NEW q \in Translators
        PROVE  /\ DOMAIN translator'[q] = {"at", "plan", "copy"}
               /\ translator'[q].at \in {"idle", "scan"} \cup JobSteps
               /\ translator'[q].at # "idle" =>
                    translator'[q].plan \in DOMAIN writes' /\ Applicable(translator'[q].plan)
               /\ translator'[q].at = "scan" =>
                    \A i \in DOMAIN copies' : copies'[i].plan # translator'[q].plan
               /\ translator'[q].at \in JobSteps =>
                    /\ translator'[q].copy \in DOMAIN copies'
                    /\ copies'[translator'[q].copy].plan = translator'[q].plan
                    /\ (copies'[translator'[q].copy].receipt <=> translator'[q].at = "record")
               /\ translator'[q].at \in {"result", "release"} =>
                    Reads(copies'[translator'[q].copy].draft, translator'[q].plan)
    <3>1. CASE q = p
      <4>1. \A i \in DOMAIN copies : copies[i].plan # plan
        BY <1>1 DEF TranslationInv, CopiesApart
      <4> QED
        BY <1>1, <1>2, <1>3, <1>4, <3>1, <4>1 DEF JobSteps
    <3>2. CASE q # p
      <4>1. translator'[q] = translator[q] /\ copies' = copies
        BY <1>1, <1>4, <3>2
      <4> QED
        BY <1>3, <4>1 DEF TranslationInv, TranslatorsApart
    <3> QED
      BY <3>1, <3>2
  <2>2. \A q, r \in Translators :
          /\ translator'[q].at # "idle" /\ translator'[r].at # "idle"
          /\ translator'[q].plan = translator'[r].plan
          => q = r
    BY <1>1, <1>2, <1>4 DEF TranslationInv, TranslatorsApart
  <2> QED
    BY <1>4, <2>1, <2>2 DEF TranslatorsApart
<1> QED
  BY <1>5, <1>6, <1>7, <1>8 DEF TranslationInv

\* The job directory of a plan is new (StartCopy).
LEMMA StartStep ==
  ASSUME NEW p \in Translators, TranslationInv, StartCopy(p)
  PROVE  TranslationInv'
<1> PICK plan : plan = translator[p].plan
  OBVIOUS
<1> PICK k : k = Len(copies) + 1
  OBVIOUS
<1> PICK c : c = [plan |-> plan, draft |-> Nothing, result |-> Nothing, receipt |-> FALSE]
  OBVIOUS
<1> PICK next : next = [translator[p] EXCEPT !.at = "copy", !.copy = k]
  OBVIOUS
<1>1. /\ translator[p].at = "scan"
      /\ copies' = Append(copies, c)
      /\ translator' = [translator EXCEPT ![p].at = "copy", ![p].copy = k]
      /\ UNCHANGED <<source, reviews, plans, writes>>
  BY DEF StartCopy, At, tables
<1>2. translator' = [translator EXCEPT ![p] = next]
  BY <1>1
<1>3. /\ DOMAIN next = {"at", "plan", "copy"}
      /\ next.at = "copy" /\ next.plan = plan /\ next.copy = k
  BY DEF TranslationInv, TranslatorsApart
<1>4. /\ plan \in DOMAIN writes /\ Applicable(plan)
      /\ \A i \in DOMAIN copies : copies[i].plan # plan
  BY <1>1 DEF TranslationInv, TranslatorsApart
<1>5. /\ DOMAIN copies' = DOMAIN copies \cup {k}
      /\ k \notin DOMAIN copies
      /\ copies'[k] = c
      /\ \A i \in DOMAIN copies : copies'[i] = copies[i]
      /\ \E T : copies' \in Seq(T)
  BY <1>1, CopyIsAdded DEF TranslationInv, CopiesApart
<1>6. /\ DOMAIN translator' = Translators
      /\ translator'[p] = next
      /\ \A q \in Translators : q # p => translator'[q] = translator[q]
  BY <1>2 DEF TranslationInv, TranslatorsApart
<1>7. PlansAreRead' /\ ReviewsAdmitted'
  BY <1>1 DEF TranslationInv, PlansAreRead, ReviewsAdmitted
<1>8. WritesPlanned'
  BY <1>1, <1>5 DEF TranslationInv, WritesPlanned
<1>9. CopiesApart'
  <2>1. /\ DOMAIN c = {"plan", "draft", "result", "receipt"}
        /\ c.plan = plan /\ c.receipt = FALSE
    OBVIOUS
  <2>2. \A i \in DOMAIN copies' :
          /\ DOMAIN copies'[i] = {"plan", "draft", "result", "receipt"}
          /\ copies'[i].receipt \in BOOLEAN
          /\ copies'[i].plan \in DOMAIN writes'
          /\ copies'[i].receipt =>
               Reads(copies'[i].result, copies'[i].plan) /\ Applicable(copies'[i].plan)
    <3>1. c.receipt \in BOOLEAN /\ ~c.receipt
      BY <2>1
    <3>2. \A i \in DOMAIN copies' : i = k \/ i \in DOMAIN copies
      BY <1>5
    <3>3. ASSUME NEW i \in DOMAIN copies
          PROVE  /\ DOMAIN copies'[i] = {"plan", "draft", "result", "receipt"}
                 /\ copies'[i].receipt \in BOOLEAN
                 /\ copies'[i].plan \in DOMAIN writes'
                 /\ copies'[i].receipt =>
                      Reads(copies'[i].result, copies'[i].plan) /\ Applicable(copies'[i].plan)
      BY <1>1, <1>5 DEF TranslationInv, CopiesApart
    <3>4. /\ DOMAIN copies'[k] = {"plan", "draft", "result", "receipt"}
          /\ copies'[k].receipt \in BOOLEAN /\ ~copies'[k].receipt
          /\ copies'[k].plan \in DOMAIN writes'
      BY <1>1, <1>4, <1>5, <2>1, <3>1
    <3> QED
      BY <3>2, <3>3, <3>4
  <2>3. \A i, j \in DOMAIN copies' : copies'[i].plan = copies'[j].plan => i = j
    BY <1>4, <1>5, <2>1 DEF TranslationInv, CopiesApart
  <2> QED
    BY <1>5, <2>2, <2>3 DEF CopiesApart
<1>10. TranslatorsApart'
  <2>1. ASSUME NEW q \in Translators
        PROVE  /\ DOMAIN translator'[q] = {"at", "plan", "copy"}
               /\ translator'[q].at \in {"idle", "scan"} \cup JobSteps
               /\ translator'[q].at # "idle" =>
                    translator'[q].plan \in DOMAIN writes' /\ Applicable(translator'[q].plan)
               /\ translator'[q].at = "scan" =>
                    \A i \in DOMAIN copies' : copies'[i].plan # translator'[q].plan
               /\ translator'[q].at \in JobSteps =>
                    /\ translator'[q].copy \in DOMAIN copies'
                    /\ copies'[translator'[q].copy].plan = translator'[q].plan
                    /\ (copies'[translator'[q].copy].receipt <=> translator'[q].at = "record")
               /\ translator'[q].at \in {"result", "release"} =>
                    Reads(copies'[translator'[q].copy].draft, translator'[q].plan)
    <3>1. CASE q = p
      <4>1. copies'[k].plan = plan /\ ~copies'[k].receipt /\ k \in DOMAIN copies'
        BY <1>5
      <4> QED
        BY <1>1, <1>3, <1>4, <1>6, <3>1, <4>1 DEF JobSteps
    <3>2. CASE q # p
      <4>1. /\ translator'[q] = translator[q]
            /\ translator[q].at # "idle" => translator[q].plan # plan
        BY <1>1, <1>6, <3>2 DEF TranslationInv, TranslatorsApart
      <4>2. copies'[k].plan = plan
        BY <1>5
      <4> QED
        BY <1>1, <1>5, <4>1, <4>2 DEF TranslationInv, TranslatorsApart
    <3> QED
      BY <3>1, <3>2
  <2>2. \A q, r \in Translators :
          /\ translator'[q].at # "idle" /\ translator'[r].at # "idle"
          /\ translator'[q].plan = translator'[r].plan
          => q = r
    BY <1>1, <1>3, <1>6 DEF TranslationInv, TranslatorsApart
  <2> QED
    BY <1>6, <2>1, <2>2 DEF TranslatorsApart
<1> QED
  BY <1>7, <1>8, <1>9, <1>10 DEF TranslationInv

\* A process that has ended its request leaves its plan and its job directory behind
\* (RecordReceipt, Abandon).
LEMMA RestStep ==
  ASSUME NEW p \in Translators, TranslationInv, Rest(p),
         UNCHANGED <<source, reviews, plans, copies>>, DOMAIN writes' = DOMAIN writes,
         WritesPlanned'
  PROVE  TranslationInv'
<1> PICK next : next = Resting
  OBVIOUS
<1>1. DOMAIN next = {"at", "plan", "copy"} /\ next.at = "idle"
  BY DEF Resting
<1>2. /\ DOMAIN translator' = Translators
      /\ translator'[p] = next
      /\ \A q \in Translators : q # p => translator'[q] = translator[q]
  BY DEF Rest, TranslationInv, TranslatorsApart
<1>3. PlansAreRead' /\ ReviewsAdmitted' /\ CopiesApart'
  BY DEF TranslationInv, PlansAreRead, ReviewsAdmitted, CopiesApart
<1>4. TranslatorsApart'
  BY <1>1, <1>2 DEF TranslationInv, TranslatorsApart, JobSteps
<1> QED
  BY <1>3, <1>4 DEF TranslationInv

\* Every step of every process, and every save by people.
LEMMA TranslationInductive ==
  ASSUME TranslationInv, [TranslationNext]_translationVars
  PROVE  TranslationInv'
<1>1. CASE UNCHANGED translationVars
  BY <1>1 DEF translationVars, tables, TranslationInv, PlansAreRead, ReviewsAdmitted,
              WritesPlanned, CopiesApart, TranslatorsApart
<1>2. CASE SaveDrawing
  <2>1. source'.content \in Versions /\ UNCHANGED <<reviews, plans, writes, copies, translator>>
    BY <1>2 DEF SaveDrawing, tables
  <2>2. PlansAreRead' /\ ReviewsAdmitted'
    BY <2>1 DEF TranslationInv, PlansAreRead, ReviewsAdmitted
  <2> QED
    BY <2>1, <2>2, RequestStep
<1>3. CASE SubmitReview
  BY <1>3, ReviewStep
<1>4. CASE PlanTranslation
  <2>1. PICK plan : /\ plan = [inventory |-> source, decisions |-> reviews[source]]
                    /\ plans' = plans \cup {plan}
                    /\ UNCHANGED <<source, reviews, writes, copies, translator>>
    BY <1>4 DEF PlanTranslation, Scanned
  <2>2. PlansAreRead' /\ ReviewsAdmitted'
    BY <2>1 DEF TranslationInv, PlansAreRead, ReviewsAdmitted
  <2> QED
    BY <2>1, <2>2, RequestStep
<1>5. ASSUME NEW p \in Translators, WriteCopy(p) \/ Abandon(p)
      PROVE  TranslationInv'
  <2> PICK k : k = translator[p].copy
    OBVIOUS
  <2>1. /\ DOMAIN translator[p] = {"at", "plan", "copy"}
        /\ \E S : copies \in Seq(S)
    BY DEF TranslationInv, TranslatorsApart, CopiesApart
  <2>2. ASSUME translator[p].at \in JobSteps
        PROVE  /\ k \in DOMAIN copies
               /\ DOMAIN copies[k] = {"plan", "draft", "result", "receipt"}
               /\ copies[k].plan = translator[p].plan
               /\ copies[k].receipt \in BOOLEAN
               /\ copies[k].receipt <=> translator[p].at = "record"
    BY <2>2 DEF TranslationInv, TranslatorsApart, CopiesApart
  <2>3. ASSUME NEW step, NEW c,
               translator[p].at \in JobSteps \ {"record"}, step \in JobSteps,
               Proceed(p, step),
               copies' = [copies EXCEPT ![k] = c],
               UNCHANGED <<source, tables>>,
               DOMAIN c = {"plan", "draft", "result", "receipt"},
               c.plan = translator[p].plan, c.receipt \in BOOLEAN,
               c.receipt <=> step = "record",
               c.receipt => Reads(c.result, c.plan),
               step \in {"result", "release"} => Reads(c.draft, c.plan)
        PROVE  TranslationInv'
    <3> PICK next : next = [translator[p] EXCEPT !.at = step]
      OBVIOUS
    <3>1. /\ DOMAIN next = {"at", "plan", "copy"} /\ next.at = step
          /\ next.plan = translator[p].plan /\ next.copy = translator[p].copy
      BY <2>1
    <3>2. translator' = [translator EXCEPT ![p] = next]
      BY <2>3 DEF Proceed
    <3>3. UNCHANGED <<source, reviews, plans, writes>>
      BY <2>3 DEF tables
    <3> QED
      BY <2>3, <3>1, <3>2, <3>3, JobStep
  <2>4. CASE BeginWrite(p)
    BY <2>4, BeginStep
  <2>5. CASE StartCopy(p)
    BY <2>5, StartStep
  <2>6. CASE CopySource(p)
    <3> PICK c : c = [copies[k] EXCEPT !.draft = source.content]
      OBVIOUS
    <3>1. /\ translator[p].at = "copy" /\ Proceed(p, "check_draft")
          /\ copies' = [copies EXCEPT ![k] = c] /\ UNCHANGED <<source, tables>>
      BY <2>6 DEF CopySource, At
    <3>2. /\ DOMAIN c = {"plan", "draft", "result", "receipt"}
          /\ c.plan = translator[p].plan /\ c.receipt = copies[k].receipt
      BY <2>2, <3>1 DEF JobSteps
    <3> QED
      BY <2>2, <2>3, <3>1, <3>2 DEF JobSteps
  <2>7. CASE CheckDraft(p)
    <3>1. /\ translator[p].at = "check_draft" /\ Proceed(p, "edit")
          /\ copies' = copies /\ UNCHANGED <<source, tables>>
      BY <2>7 DEF CheckDraft, At
    <3>2. copies' = [copies EXCEPT ![k] = copies[k]]
      BY <2>1, <2>2, <3>1 DEF JobSteps
    <3> QED
      BY <2>2, <2>3, <3>1, <3>2 DEF JobSteps
  <2>8. CASE EditDraft(p)
    <3>1. PICK saved, c :
            /\ c = [copies[k] EXCEPT !.draft = saved]
            /\ translator[p].at = "edit" /\ Proceed(p, "reopen")
            /\ copies' = [copies EXCEPT ![k] = c] /\ UNCHANGED <<source, tables>>
      BY <2>8 DEF EditDraft, At
    <3>2. /\ DOMAIN c = {"plan", "draft", "result", "receipt"}
          /\ c.plan = translator[p].plan /\ c.receipt = copies[k].receipt
      BY <2>2, <3>1 DEF JobSteps
    <3> QED
      BY <2>2, <2>3, <3>1, <3>2 DEF JobSteps
  <2>9. CASE VerifyDraft(p)
    <3>1. /\ translator[p].at = "reopen" /\ Proceed(p, "result")
          /\ copies' = copies /\ UNCHANGED <<source, tables>>
          /\ Reads(copies[k].draft, translator[p].plan)
      BY <2>9 DEF VerifyDraft, At, Reads, job, expectedAfter, before
    <3>2. copies' = [copies EXCEPT ![k] = copies[k]]
      BY <2>1, <2>2, <3>1 DEF JobSteps
    <3> QED
      BY <2>2, <2>3, <3>1, <3>2 DEF JobSteps
  <2>10. CASE CopyResult(p)
    <3> PICK c : c = [copies[k] EXCEPT !.result = copies[k].draft]
      OBVIOUS
    <3>1. /\ translator[p].at = "result" /\ Proceed(p, "release")
          /\ copies' = [copies EXCEPT ![k] = c] /\ UNCHANGED <<source, tables>>
      BY <2>10 DEF CopyResult, At, job
    <3>2. /\ DOMAIN c = {"plan", "draft", "result", "receipt"}
          /\ c.plan = translator[p].plan /\ c.receipt = copies[k].receipt
          /\ c.draft = copies[k].draft
      BY <2>2, <3>1 DEF JobSteps
    <3>3. Reads(copies[k].draft, translator[p].plan)
      BY <3>1 DEF TranslationInv, TranslatorsApart
    <3> QED
      BY <2>2, <2>3, <3>1, <3>2, <3>3 DEF JobSteps
  <2>11. CASE ReleaseCopy(p)
    <3> PICK c : c = [copies[k] EXCEPT !.receipt = TRUE]
      OBVIOUS
    <3>1. /\ translator[p].at = "release" /\ Proceed(p, "record")
          /\ copies' = [copies EXCEPT ![k] = c] /\ UNCHANGED <<source, tables>>
          /\ copies[k].result = copies[k].draft
      BY <2>11 DEF ReleaseCopy, At, job
    <3>2. /\ DOMAIN c = {"plan", "draft", "result", "receipt"}
          /\ c.plan = translator[p].plan /\ c.receipt = TRUE
          /\ c.result = copies[k].draft
      BY <2>2, <3>1 DEF JobSteps
    <3>3. Reads(copies[k].draft, translator[p].plan)
      BY <3>1 DEF TranslationInv, TranslatorsApart
    <3> QED
      BY <2>2, <2>3, <3>1, <3>2, <3>3 DEF JobSteps
  <2>12. CASE RecordReceipt(p)
    <3>1. /\ translator[p].at = "record" /\ Rest(p)
          /\ writes' = [writes EXCEPT ![translator[p].plan] = k]
          /\ UNCHANGED <<source, reviews, plans, copies>>
      BY <2>12 DEF RecordReceipt, At
    <3>2. k \in DOMAIN copies /\ copies[k].receipt /\ copies[k].plan = translator[p].plan
      BY <2>2, <3>1 DEF JobSteps
    <3>3. WritesPlanned'
      BY <3>1, <3>2 DEF TranslationInv, WritesPlanned
    <3> QED
      BY <3>1, <3>3, RestStep
  <2>13. CASE Abandon(p)
    <3>1. Rest(p) /\ UNCHANGED <<source, reviews, plans, writes, copies>>
      BY <2>13 DEF Abandon, tables
    <3>2. WritesPlanned'
      BY <3>1 DEF TranslationInv, WritesPlanned
    <3> QED
      BY <3>1, <3>2, RestStep
  <2> QED
    BY <1>5, <2>4, <2>5, <2>6, <2>7, <2>8, <2>9, <2>10, <2>11, <2>12, <2>13 DEF WriteCopy
<1> QED
  BY <1>1, <1>2, <1>3, <1>4, <1>5 DEF TranslationNext

\* Of a plan that may be applied, every entity with a text is decided, and there is
\* nothing else in the drawing that a decision would have been due for (ReadyToApply).
LEMMA ApplicableIsDecided ==
  ASSUME NEW plan, plan.inventory.content \in Versions, Applicable(plan), NEW e \in Entities
  PROVE  \/ plan.inventory.content.kind[e] = "plain"
         \/ plan.inventory.content.kind[e] = "text" /\ e \in DOMAIN plan.decisions
<1> PICK content : content = plan.inventory.content
  OBVIOUS
<1>1. content.kind[e] \in {"text", "table", "opaque", "plain"}
  BY TranslationAssumption DEF Kinds
<1>2. /\ ~TextSnapshot(content).blocked
      /\ \A f \in DOMAIN TextSnapshot(content).records : f \in Spans(content)
      /\ DOMAIN plan.decisions = Spans(content)
  BY DEF Applicable, ReadyToApply
<1>3. content.kind[e] \notin {"table", "opaque"}
  BY <1>2 DEF TextSnapshot
<1>4. ASSUME content.kind[e] = "text"
      PROVE  e \in DOMAIN plan.decisions
  <2>1. e \in DOMAIN TextSnapshot(content).records
    BY <1>4 DEF TextSnapshot
  <2> QED
    BY <1>2, <2>1
<1> QED
  BY <1>1, <1>3, <1>4

\* A plan is written at most once and its copy has a receipt only if it reads as the
\* reviewed drawing with the approved texts in place (remote_translation.py,
\* translation_service.py), whatever processes die and whoever saves the drawing.
THEOREM TranslatedAtMostOnce == TranslationSpec => []TranslatedOnce
<1>1. TranslationInit => TranslationInv
  <2> SUFFICES ASSUME TranslationInit
               PROVE  TranslationInv
    OBVIOUS
  <2>1. /\ source.content \in Versions /\ plans = {} /\ copies = <<>>
        /\ DOMAIN reviews = {} /\ DOMAIN writes = {}
    BY DEF TranslationInit
  <2>2. PlansAreRead /\ ReviewsAdmitted /\ WritesPlanned
    BY <2>1 DEF PlansAreRead, ReviewsAdmitted, WritesPlanned
  <2>3. CopiesApart
    <3>1. copies \in Seq({}) /\ DOMAIN copies = {}
      BY <2>1
    <3> QED
      BY <3>1 DEF CopiesApart
  <2>4. TranslatorsApart
    BY DEF TranslationInit, TranslatorsApart, Resting, JobSteps
  <2> QED
    BY <2>2, <2>3, <2>4 DEF TranslationInv
<1>2. TranslationInv /\ [TranslationNext]_translationVars => TranslationInv'
  BY TranslationInductive
<1>3. TranslationInv => TranslatedOnce
  <2> SUFFICES ASSUME TranslationInv
               PROVE  TranslatedOnce
    OBVIOUS
  <2>1. ASSUME NEW i \in DOMAIN copies, copies[i].receipt
        PROVE  LET content == copies[i].plan.inventory.content
                   decided == copies[i].plan.decisions
               IN  /\ TextSnapshot(copies[i].result) = TextSnapshot(Translated(content, decided))
                   /\ \A e \in Entities :
                        \/ content.kind[e] = "plain"
                        \/ content.kind[e] = "text" /\ e \in DOMAIN decided
    <3>1. /\ Reads(copies[i].result, copies[i].plan) /\ Applicable(copies[i].plan)
          /\ copies[i].plan.inventory.content \in Versions
      BY <2>1 DEF TranslationInv, CopiesApart, WritesPlanned, PlansAreRead
    <3> QED
      BY <3>1, ApplicableIsDecided DEF Reads
  <2>2. \A i, j \in DOMAIN copies : copies[i].plan = copies[j].plan => i = j
    BY DEF TranslationInv, CopiesApart
  <2> QED
    BY <2>1, <2>2 DEF TranslatedOnce, TranslationInv, ReviewsAdmitted, WritesPlanned
<1> QED
  BY <1>1, <1>2, <1>3, PTL DEF TranslationSpec

(***************************************************************************)
(* The composition that the run checks.                                    *)
(***************************************************************************)

\* The instance runs each part of the workstation by that part's own specification.
THEOREM WorkstationIsItsParts == WorkstationSpec => Spec /\ TranslationSpec /\ ReferencesSpec
<1>1. WorkstationInit => Init /\ TranslationInit /\ ReferencesInit
  BY DEF WorkstationInit
<1>2. [WorkstationNext]_workstationVars
        => [Next]_vars /\ [TranslationNext]_translationVars /\ [ReferencesNext]_referenceVars
  BY DEF WorkstationNext, workstationVars
<1> QED
  BY <1>1, <1>2, PTL DEF WorkstationSpec, Spec, TranslationSpec, ReferencesSpec

\* What a workstation keeps it keeps as a whole: plots, answers and successes of the publish
\* queue, English copies and references, for any number of bridges, processes and workers.
THEOREM WorkstationKeepsAll ==
  WorkstationSpec =>
    /\ [](TypeOK /\ PlotAtMostOnce /\ SuccessIsEarned /\ AnswersAreDurable /\ QueueMatchesStates)
    /\ [](TranslatedOnce /\ ReferencesAreStable)
<1>1. Spec => [](TypeOK /\ PlotAtMostOnce /\ SuccessIsEarned /\ AnswersAreDurable
                 /\ QueueMatchesStates)
  BY TypeCorrect, PlotsAtMostOnce, EverySuccessIsEarned, AnswersStayOnDisk,
     QueueStaysConsistent, PTL
<1>2. TranslationSpec /\ ReferencesSpec => [](TranslatedOnce /\ ReferencesAreStable)
  BY TranslatedAtMostOnce, ReferencesStayStable, PTL
<1> QED
  BY <1>1, <1>2, WorkstationIsItsParts
===============================================================================
