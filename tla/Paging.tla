-------------------------------- MODULE Paging --------------------------------
(* The two walks a client of the local server makes page by page, while files  *)
(* and job directories come and go between the pages: batch planning over the  *)
(* drawings of a project (discovery.py, batch.py), which starts over when the  *)
(* inventory has changed, and the operations report over the job directories   *)
(* (reporting.py), which continues after the last job it listed.               *)
EXTENDS Integers, FiniteSets, Sequences, FiniteSetsExt, SequencesExt

CONSTANTS
  Paths,        \* drawing paths, numbers in the order of their names
  MaxChanges,   \* the bound on changes of drawings
  MaxJobIds,    \* the bound on job directories
  MaxLimit      \* the largest page

ASSUME PagingAssumption ==
  /\ Paths \subseteq Nat /\ IsFiniteSet(Paths)
  /\ MaxChanges \in Nat /\ MaxJobIds \in Nat /\ MaxLimit \in Nat \ {0}

VARIABLES
  files,        \* the drawings that exist, each with its modification time
  changes,      \* how many changes were made to them
  plans,        \* the client's walk over the drawings
  issued,       \* how many job ids were issued; an id is its time stamp
  unborn,       \* the ids whose directory was not created yet
  dirs,         \* the job directories that exist
  report        \* the client's walk over the jobs

pagingVars == <<files, changes, plans, issued, unborn, dirs, report>>

NoWalk == [id |-> <<>>, offset |-> 0, seen |-> <<>>, done |-> FALSE]
NoReport == [after |-> 0, seen |-> <<>>, lasting |-> {}, done |-> FALSE]

PagingInit ==
  /\ files = [d \in Paths |-> 0]
  /\ changes = 0
  /\ plans = NoWalk
  /\ issued = 0 /\ unborn = {} /\ dirs = {}
  /\ report = NoReport

\* sorted(): at each place the one element that so many others are below.  (The
\* sort of the community modules rests on operators the provers do not know.)
Sorted(S) == [i \in 1 .. Cardinality(S) |-> CHOOSE x \in S : Cardinality({y \in S : y < x}) = i - 1]

\* scan_drawings: the paths that exist, sorted.
Listed == Sorted(DOMAIN files)
\* build_drawing_inventory_id: the digest of paths and modification times.
InventoryId == files

\* A drawing appears, is saved, or is deleted.
ChangeDrawing(d) ==
  /\ changes < MaxChanges
  /\ changes' = changes + 1
  /\ \/ files' = [p \in DOMAIN files \cup {d} |-> IF p = d THEN changes + 1 ELSE files[p]]
     \/ files' = [p \in DOMAIN files \ {d} |-> files[p]]
  /\ UNCHANGED <<plans, issued, unborn, dirs, report>>

\* A seeded fault: a change of the inventory is noticed on the first page only.
PlanPageUnbound(limit) ==
  LET page == SubSeq(Listed, plans.offset + 1, Min({plans.offset + limit, Len(Listed)}))
      end == plans.offset + Len(page)
  IN  /\ ~plans.done
      /\ plans' = [id |-> InventoryId, offset |-> end, seen |-> plans.seen \o page,
                   done |-> end >= Len(Listed)]
      /\ UNCHANGED <<files, changes, issued, unborn, dirs, report>>

\* A seeded fault: the next offset counts the drawings asked for, not those on the page.
PlanPageByLimit(limit) ==
  LET page == SubSeq(Listed, plans.offset + 1, Min({plans.offset + limit, Len(Listed)}))
  IN  /\ ~plans.done
      /\ plans' = IF plans.offset > 0 /\ plans.id # InventoryId THEN NoWalk
                  ELSE [id |-> InventoryId, offset |-> plans.offset + limit,
                        seen |-> plans.seen \o page,
                        done |-> plans.offset + limit >= Len(Listed)]
      /\ UNCHANGED <<files, changes, issued, unborn, dirs, report>>

\* build_batch_page: the next page of at most limit drawings; when the inventory
\* is not that of the first page the walk is refused and starts again.
PlanPage(limit) ==
  LET page == SubSeq(Listed, plans.offset + 1, Min({plans.offset + limit, Len(Listed)}))
      end == plans.offset + Len(page)
  IN  /\ ~plans.done
      /\ plans' = IF plans.offset > 0 /\ plans.id # InventoryId THEN NoWalk
                  ELSE [id |-> InventoryId, offset |-> end, seen |-> plans.seen \o page,
                        done |-> end >= Len(Listed)]
      /\ UNCHANGED <<files, changes, issued, unborn, dirs, report>>

-----------------------------------------------------------------------------
\* Staging takes a time stamp, and creates the directory some time after it: the
\* directories of two servers may appear in either order, or never.
IssueJobId ==
  /\ issued < MaxJobIds
  /\ issued' = issued + 1
  /\ unborn' = unborn \cup {issued + 1}
  /\ UNCHANGED <<files, changes, plans, dirs, report>>

MakeJobDirectory(j) ==
  /\ j \in unborn
  /\ unborn' = unborn \ {j} /\ dirs' = dirs \cup {j}
  /\ UNCHANGED <<files, changes, plans, issued, report>>

\* Someone removes a job from the workspace.
RemoveJob(j) ==
  /\ j \in dirs
  /\ dirs' = dirs \ {j}
  /\ report' = [report EXCEPT !.lasting = @ \ {j}]
  /\ UNCHANGED <<files, changes, plans, issued, unborn>>

\* build_publish_operations_report: the next limit jobs after the last one listed.
ReportPage(limit) ==
  LET rest == Sorted({j \in dirs : j > report.after})
      page == SubSeq(rest, 1, Min({limit, Len(rest)}))
  IN  /\ ~report.done
      /\ report' = [after |-> IF page = <<>> THEN report.after ELSE Last(page),
                    seen |-> report.seen \o page,
                    lasting |-> IF report.after = 0 /\ report.seen = <<>> THEN dirs
                                ELSE report.lasting,
                    done |-> Len(page) = Len(rest)]
      /\ UNCHANGED <<files, changes, plans, issued, unborn, dirs>>

\* A client starts another walk.
Restart ==
  \/ plans.done /\ plans' = NoWalk /\ UNCHANGED <<files, changes, issued, unborn, dirs, report>>
  \/ report.done /\ report' = NoReport /\ UNCHANGED <<files, changes, plans, issued, unborn, dirs>>

PagingNext ==
  \/ \E d \in Paths : ChangeDrawing(d)
  \/ \E n \in 1 .. MaxLimit : PlanPage(n) \/ ReportPage(n)
  \/ IssueJobId
  \/ \E j \in 1 .. MaxJobIds : MakeJobDirectory(j) \/ RemoveJob(j)
  \/ Restart

PagingSpec == PagingInit /\ [][PagingNext]_pagingVars

-----------------------------------------------------------------------------
PagingTypeOK ==
  /\ DOMAIN files \subseteq Paths /\ changes \in 0 .. MaxChanges
  /\ \A d \in DOMAIN files : files[d] \in 0 .. changes
  /\ plans.offset = Len(plans.seen)
  /\ issued \in 0 .. MaxJobIds /\ dirs \cup unborn \subseteq 1 .. issued
  /\ report.lasting \subseteq dirs

Increasing(s) == \A i, j \in 1 .. Len(s) : i < j => s[i] < s[j]

\* Both walks are complete, whatever page sizes are asked for and whatever
\* changes between the pages.  A batch plan that came to its end covered each
\* drawing of one and the same inventory exactly once; an operations report that
\* came to its end listed every job that was there from its first page on, and
\* no job twice.
WalksMissNothing ==
  /\ plans.done => plans.seen = Sorted(DOMAIN plans.id)
  /\ report.done => report.lasting \subseteq ToSet(report.seen)
  /\ Increasing(report.seen)
=============================================================================
