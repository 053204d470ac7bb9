---------------------------- MODULE LocalReferences ----------------------------
(* The names a workstation gives to its projects and drawings, so that no path *)
(* leaves it: the tables local_projects and local_drawings (local_refs.py),    *)
(* their registration at the start of a worker (worker_cli.py) and the         *)
(* commands that hand references out and take them back (worker_dispatch.py).  *)
(* Several worker processes share the tables; an administrator may start each  *)
(* with another configuration; people add and remove files and directories.    *)
(*                                                                             *)
(* A file is a name the file system tells from others.  Key is its casefolded  *)
(* relative path: what the table tells apart, which may be less.  One tenant   *)
(* and device is modelled; every query is restricted to them.  A path that is  *)
(* redirected, or not a plain drawing, is refused as a missing one is.         *)
EXTENDS Naturals, FiniteSets, Sequences

CONSTANTS
  Workers,         \* worker processes on one state database
  Roots,           \* project directories
  Files,           \* relative paths of drawings
  Key,             \* the casefolded path of each
  Folded,          \* the casefolded name of each alias
  Configurations,  \* sequences of [project, alias, root]
  MaxDiskChanges,  \* the bound on files and directories appearing or going
  Unknown          \* no row

ASSUME ReferencesAssumption ==
  /\ DOMAIN Key = Files /\ MaxDiskChanges \in Nat
  /\ \A c \in Configurations : \A i \in DOMAIN c :
       c[i].alias \in DOMAIN Folded /\ c[i].root \in Roots

VARIABLES
  tree,        \* the directories and files that are there
  changes,     \* how often they have changed
  projects,    \* table local_projects: project -> alias and root
  drawings,    \* table local_drawings: drawing -> project and file
  session,     \* what each process is doing
  handed,      \* what each reference has been resolved to: project -> alias and root,
  resolved     \* and drawing -> root and file

referenceVars == <<tree, changes, projects, drawings, session, handed, resolved>>
treeVars == <<tree, changes>>

Stopped == [at |-> "stopped", todo |-> <<>>, project |-> Unknown, file |-> Unknown,
            drawing |-> Unknown]
Ready == [Stopped EXCEPT !.at = "ready"]

ReferencesInit ==
  /\ tree \in SUBSET ({<<r>> : r \in Roots} \cup Roots \X Files)
  /\ changes = 0
  /\ projects = << >>
  /\ drawings = << >>
  /\ session = [w \in Workers |-> Stopped]
  /\ handed = {}
  /\ resolved = {}

Doing(w, step) == session[w].at = step
Become(w, state) == session' = [session EXCEPT ![w] = state]

\* A file is there if its directory is.
Present(root, file) == <<root>> \in tree /\ <<root, file>> \in tree

ChangeDisk ==
  /\ changes < MaxDiskChanges
  /\ \E x \in {<<r>> : r \in Roots} \cup Roots \X Files :
       tree' = IF x \in tree THEN tree \ {x} ELSE tree \cup {x}
  /\ changes' = changes + 1
  /\ UNCHANGED <<projects, drawings, session, handed, resolved>>

-----------------------------------------------------------------------------
(* Start: every configured project is registered, one transaction each. *)

StartWorker(w) ==
  /\ Doing(w, "stopped")
  /\ \E c \in Configurations : Become(w, [Stopped EXCEPT !.at = "start", !.todo = c])
  /\ UNCHANGED <<treeVars, projects, drawings, handed, resolved>>

\* A table with one more row, or with another one in its place.
Stored(table, key, row) ==
  [k \in DOMAIN table \cup {key} |-> IF k = key THEN row ELSE table[k]]

\* Another project has the directory, or the name but for its case.
Collides(entry) ==
  \E q \in DOMAIN projects \ {entry.project} :
    \/ Folded[projects[q].alias] = Folded[entry.alias]
    \/ projects[q].root = entry.root

Registered(entry) == entry.project \in DOMAIN projects

\* A row that exists must be this entry to the letter.  The caller has no use for the
\* reference that is resolved once the entry is stored; if that fails, the start ends.
EnsureProject(w) ==
  LET entry == Head(session[w].todo)
      row   == [alias |-> entry.alias, root |-> entry.root]
  IN  /\ Doing(w, "start") /\ session[w].todo # <<>>
      /\ <<entry.root>> \in tree /\ ~Collides(entry)
      /\ Registered(entry) => projects[entry.project] = row
      /\ projects' = Stored(projects, entry.project, row)
      /\ Become(w, [session[w] EXCEPT !.todo = Tail(@)])
      /\ UNCHANGED <<treeVars, drawings, handed, resolved>>

FinishStart(w) ==
  /\ Doing(w, "start") /\ session[w].todo = <<>>
  /\ Become(w, Ready)
  /\ UNCHANGED <<treeVars, projects, drawings, handed, resolved>>

\* A refused entry ends the start, and a process may die at any time.
StopWorker(w) ==
  /\ ~Doing(w, "stopped")
  /\ Become(w, Stopped)
  /\ UNCHANGED <<treeVars, projects, drawings, handed, resolved>>

-----------------------------------------------------------------------------
(* Commands.  A reference names what the tables say, if it is still there. *)

ResolvedProject(project) == project \in DOMAIN projects /\ <<projects[project].root>> \in tree

ResolvedDrawing(drawing) ==
  /\ drawing \in DOMAIN drawings
  /\ ResolvedProject(drawings[drawing].project)
  /\ Present(projects[drawings[drawing].project].root, drawings[drawing].file)

Location(drawing) ==
  [root |-> projects[drawings[drawing].project].root, file |-> drawings[drawing].file]

\* Every project is listed, or none if the directory of one is missing.
ListedProjects == \A q \in DOMAIN projects : ResolvedProject(q)

ListProjects(w) ==
  /\ Doing(w, "ready") /\ ListedProjects
  /\ handed' = handed \cup {<<q, projects[q]>> : q \in DOMAIN projects}
  /\ UNCHANGED <<treeVars, projects, drawings, session, resolved>>

\* scan_drawings: the files there are now, each then given its reference.
ScanProject(w) ==
  \E q \in DOMAIN projects :
    LET found == {f \in Files : Present(projects[q].root, f)}
    IN  /\ Doing(w, "ready") /\ ResolvedProject(q)
        /\ Become(w, [Ready EXCEPT !.at = "list", !.project = q,
                                   !.todo = CHOOSE s \in [1 .. Cardinality(found) -> found] :
                                              {s[i] : i \in DOMAIN s} = found])
        /\ UNCHANGED <<treeVars, projects, drawings, handed, resolved>>

Rows(project, file) ==
  {d \in DOMAIN drawings : drawings[d].project = project /\ Key[drawings[d].file] = Key[file]}

\* get_or_register_drawing looks its row up before any lock is taken.
FindDrawing(w) ==
  /\ Doing(w, "list") /\ session[w].todo # <<>>
  /\ LET q == session[w].project
         f == Head(session[w].todo)
     IN  /\ ResolvedProject(q) /\ Present(projects[q].root, f)
         /\ Become(w, [session[w] EXCEPT
              !.todo = Tail(@), !.file = f,
              !.at = IF Rows(q, f) = {} THEN "insert" ELSE "resolve",
              !.drawing = IF Rows(q, f) = {} THEN Unknown ELSE CHOOSE d \in Rows(q, f) : TRUE])
  /\ UNCHANGED <<treeVars, projects, drawings, handed, resolved>>

NewDrawing == Cardinality(DOMAIN drawings) + 1
NewRow(w) == [project |-> session[w].project, file |-> session[w].file]

\* A seeded fault: the key is not unique.
InsertDrawingTwice(w) ==
  /\ Doing(w, "insert")
  /\ drawings' = Stored(drawings, NewDrawing, NewRow(w))
  /\ Become(w, [session[w] EXCEPT !.at = "resolve", !.drawing = NewDrawing])
  /\ UNCHANGED <<treeVars, projects, handed, resolved>>

\* The unique key lets one of two scans insert; the other reads what was inserted.
InsertDrawing(w) ==
  LET rows == Rows(session[w].project, session[w].file)
  IN  /\ Doing(w, "insert")
      /\ drawings' = IF rows = {} THEN Stored(drawings, NewDrawing, NewRow(w)) ELSE drawings
      /\ Become(w, [session[w] EXCEPT !.at = "resolve",
                      !.drawing = IF rows = {} THEN NewDrawing ELSE CHOOSE d \in rows : TRUE])
      /\ UNCHANGED <<treeVars, projects, handed, resolved>>

ResolveListed(w) ==
  /\ Doing(w, "resolve") /\ ResolvedDrawing(session[w].drawing)
  /\ resolved' = resolved \cup {<<session[w].drawing, Location(session[w].drawing)>>}
  /\ Become(w, [session[w] EXCEPT !.at = "list", !.file = Unknown, !.drawing = Unknown])
  /\ UNCHANGED <<treeVars, projects, drawings, handed>>

\* The listing is complete, or an exception has ended the command.
EndCommand(w) ==
  /\ session[w].at \in {"list", "insert", "resolve"}
  /\ Become(w, Ready)
  /\ UNCHANGED <<treeVars, projects, drawings, handed, resolved>>

\* inspect_drawing, create_publish_plan and the translation commands work on the file
\* their reference resolves to.
UseDrawing(w) ==
  \E d \in DOMAIN drawings :
    /\ Doing(w, "ready") /\ ResolvedDrawing(d)
    /\ resolved' = resolved \cup {<<d, Location(d)>>}
    /\ UNCHANGED <<treeVars, projects, drawings, session, handed>>

WorkerCommand(w) ==
  \/ StartWorker(w) \/ EnsureProject(w) \/ FinishStart(w) \/ StopWorker(w)
  \/ ListProjects(w) \/ ScanProject(w) \/ FindDrawing(w) \/ InsertDrawing(w)
  \/ ResolveListed(w) \/ EndCommand(w) \/ UseDrawing(w)

ReferencesNext == ChangeDisk \/ \E w \in Workers : WorkerCommand(w)

ReferencesSpec == ReferencesInit /\ [][ReferencesNext]_referenceVars

-----------------------------------------------------------------------------
\* A reference means one thing for ever: whatever processes have scanned at once,
\* been restarted or been configured otherwise, a drawing id has never been resolved
\* to two files and a project id never to two directories or names; and one file has
\* one reference (two whose paths casefold alike share one), one directory or name
\* one project.
ReferencesAreStable ==
  /\ \A x, y \in resolved :
       /\ x[1] = y[1] => x[2] = y[2]
       /\ x[2].root = y[2].root /\ Key[x[2].file] = Key[y[2].file] => x[1] = y[1]
  /\ \A x, y \in handed :
       /\ x[1] = y[1] => x[2] = y[2]
       /\ x[2].root = y[2].root \/ Folded[x[2].alias] = Folded[y[2].alias] => x[1] = y[1]
=============================================================================
