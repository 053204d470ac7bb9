------------------------------ MODULE Translation ------------------------------
(* The reviewed translation of a drawing: the remote workflow with its SQLite  *)
(* tables (remote_translation.py), the service that writes the English copy    *)
(* (translation_service.py), the plan (translation.py) and the AutoCAD helper  *)
(* (translation_worker.py, backends/translation_com.py).  Worker processes     *)
(* share the tables, people edit the drawing between any two file accesses,    *)
(* and a process may die, or a helper time out, at any step.                   *)
(*                                                                             *)
(* A drawing is its content and its modification time, together its           *)
(* fingerprint; every write gives a new time.  A content gives each entity a   *)
(* kind, a text and the lock of its layer.  An inventory id, a review id and a *)
(* plan id are the values they are digests of.  One scope (tenant, user,       *)
(* device, policy and drawing) is modelled: rows of two scopes never meet.     *)
(* The local tools call the same service without the tables; a copy of theirs  *)
(* goes through the steps from StartCopy to ReleaseCopy in a directory of its own. *)
EXTENDS Naturals, FiniteSets, Sequences

CONSTANTS
  Translators,     \* processes that serve translation requests
  Entities,        \* entities of the drawing
  Versions,        \* contents people may save: [kind, text, locked]
  Languages,       \* languages a decision may name: tr, other, uncertain
  Words,           \* texts
  Coded,           \* the texts with controls that cannot be parsed
  MaxSaves,        \* the bound on saves by people
  MaxDecisions,    \* the bound on decisions in one request
  MaxPlans,        \* the bound on stored plans
  MaxCopies,       \* the bound on job directories
  Nothing          \* no row, no file

Kinds == {"text", "table", "opaque", "plain"}

ASSUME TranslationAssumption ==
  /\ Coded \subseteq Words /\ Languages \subseteq {"tr", "other", "uncertain"}
  /\ MaxSaves \in Nat /\ MaxDecisions \in Nat /\ MaxPlans \in Nat /\ MaxCopies \in Nat
  /\ Versions \subseteq [kind : [Entities -> Kinds], text : [Entities -> Words],
                         locked : SUBSET Entities]

VARIABLES
  source,      \* the drawing
  reviews,     \* table reviews: the decisions stored for an inventory
  plans,       \* table plans
  writes,      \* table writes: no row, a row without a receipt, or the receipt
  copies,      \* the job directories, in the order of their creation
  translator   \* what each process is doing

translationVars == <<source, reviews, plans, writes, copies, translator>>
tables == <<reviews, plans, writes>>

Resting == [at |-> "idle", plan |-> Nothing, copy |-> 0]

-----------------------------------------------------------------------------
(* What is read of a drawing, and the plan made of it. *)

\* Every entity is visited.  Text gives a record, writable unless its layer is
\* locked; a table gives records nobody may write and a blocker; an entity the
\* helper cannot read (an external reference, a block leader) gives a blocker.
TextSnapshot(content) ==
  [records   |-> [e \in {f \in Entities : content.kind[f] \in {"text", "table"}} |->
                    [raw |-> content.text[e],
                     writable |-> content.kind[e] = "text" /\ e \notin content.locked]],
   blocked   |-> \E e \in Entities : content.kind[e] \in {"table", "opaque"},
   structure |-> content.kind]

\* The spans a decision is due for: one in every record that can be parsed.
Spans(content) ==
  LET records == TextSnapshot(content).records
  IN  {e \in DOMAIN records : records[e].raw \notin Coded}

\* The decisions build_translation_plan does not raise on: each quotes the text it
\* decides (content.text), and only a Turkish text may change, not into a control.
Decisions(content) ==
  UNION {[S -> [language : Languages, target : Words]] : S \in SUBSET Spans(content)}

Admissible(content, decisions) ==
  \A e \in DOMAIN decisions :
    LET d == decisions[e]
    IN  d.target # content.text[e] => d.language = "tr" /\ d.target \notin Coded

\* One blocked span, or one blocker of the inventory, keeps the plan from being ready.
Settled(d, text) == d.language # "uncertain" /\ (d.language = "tr" => d.target # text)

Changes(content, decisions) ==
  {e \in DOMAIN decisions : decisions[e].target # content.text[e]}

Translated(content, decisions) ==
  [content EXCEPT !.text = [e \in Entities |-> IF e \in DOMAIN decisions THEN decisions[e].target
                                               ELSE content.text[e]]]

ReadyToApply(plan) ==
  LET content == plan.inventory.content
      records == TextSnapshot(content).records
  IN  /\ ~TextSnapshot(content).blocked
      /\ \A e \in DOMAIN records : e \in Spans(content)
      /\ DOMAIN plan.decisions = Spans(content)
      /\ \A e \in DOMAIN plan.decisions : Settled(plan.decisions[e], content.text[e])
      /\ \A e \in Changes(content, plan.decisions) : records[e].writable

-----------------------------------------------------------------------------
TranslationInit ==
  /\ source \in [content : Versions, time : {0}]
  /\ reviews = << >>
  /\ plans = {}
  /\ writes = << >>
  /\ copies = <<>>
  /\ translator = [p \in Translators |-> Resting]

At(p, step) == translator[p].at = step
Proceed(p, step) == translator' = [translator EXCEPT ![p].at = step]
Rest(p) == translator' = [translator EXCEPT ![p] = Resting]

\* Somebody saves the drawing, perhaps with the content it had.
SaveDrawing ==
  /\ source.time < MaxSaves
  /\ \E c \in Versions : source' = [content |-> c, time |-> source.time + 1]
  /\ UNCHANGED <<tables, copies, translator>>

-----------------------------------------------------------------------------
(* Review and plan.  A scan returns the inventory, if the fingerprint is the    *)
(* same before and after; a request that names another inventory is refused.    *)
(* A refused request leaves everything as it is.  What is written depends on the *)
(* inventory the request names and not on what the drawing has become since the *)
(* scan: scan and transaction are one step.                                    *)

\* scan_source: the inventory, which is the drawing as it is now.
Scanned == source

\* One table of values laid over another.
Over(new, old) ==
  [k \in DOMAIN new \cup DOMAIN old |-> IF k \in DOMAIN new THEN new[k] ELSE old[k]]

\* The decisions are merged into the stored ones if the client has seen those
\* (expected is the review id it names), or if it only repeats itself.
SubmitReview ==
  \E ds \in Decisions(Scanned.content), seen \in BOOLEAN :
    LET old    == IF Scanned \in DOMAIN reviews THEN reviews[Scanned] ELSE << >>
        merged == Over(ds, old)
    IN  /\ Cardinality(DOMAIN ds) <= MaxDecisions /\ Admissible(Scanned.content, ds)
        /\ seen \/ Scanned \notin DOMAIN reviews \/ merged = old
        /\ reviews' = Over([inv \in {Scanned} |-> merged], reviews)
        /\ UNCHANGED <<source, plans, writes, copies, translator>>

\* The plan of a review is stored, ready or not.
PlanTranslation ==
  /\ Scanned \in DOMAIN reviews
  /\ LET plan == [inventory |-> Scanned, decisions |-> reviews[Scanned]]
     IN  /\ Cardinality(plans \cup {plan}) <= MaxPlans
         /\ plans' = plans \cup {plan}
  /\ UNCHANGED <<source, reviews, writes, copies, translator>>

-----------------------------------------------------------------------------
(* Apply. *)

\* An approval of a plan that is blocked, or that changes nothing, is refused.
Applicable(plan) ==
  ReadyToApply(plan) /\ Changes(plan.inventory.content, plan.decisions) # {}

\* A seeded fault: a write without a receipt is tried again.
BeginWriteAgain(p) ==
  \E plan \in plans :
    /\ At(p, "idle") /\ Applicable(plan)
    /\ plan \in DOMAIN writes => writes[plan] = Nothing
    /\ writes' = Over([w \in {plan} |-> Nothing], writes)
    /\ translator' = [translator EXCEPT ![p] = [Resting EXCEPT !.at = "scan", !.plan = plan]]
    /\ UNCHANGED <<source, reviews, plans, copies>>

\* The write is recorded before anything is done.  A plan that has a row is not
\* written again: a receipt is returned, no receipt asks for attention.
BeginWrite(p) ==
  \E plan \in plans :
    /\ At(p, "idle") /\ Applicable(plan)
    /\ plan \notin DOMAIN writes
    /\ writes' = Over([w \in {plan} |-> Nothing], writes)
    /\ translator' = [translator EXCEPT ![p] = [Resting EXCEPT !.at = "scan", !.plan = plan]]
    /\ UNCHANGED <<source, reviews, plans, copies>>

\* The service scans once more: the plan of this moment must be the approved one, be
\* ready, and change something.  The job directory holds the plan as its audit.
StartCopy(p) ==
  /\ At(p, "scan") /\ Len(copies) < MaxCopies
  /\ Scanned = translator[p].plan.inventory /\ Applicable(translator[p].plan)
  /\ copies' = Append(copies, [plan |-> translator[p].plan, draft |-> Nothing,
                               result |-> Nothing, receipt |-> FALSE])
  /\ translator' = [translator EXCEPT ![p].at = "copy", ![p].copy = Len(copies) + 1]
  /\ UNCHANGED <<source, tables>>

before(p) == translator[p].plan.inventory
expectedAfter(p) == Translated(before(p).content, translator[p].plan.decisions)
job(p) == copies[translator[p].copy]

CopySource(p) ==
  /\ At(p, "copy")
  /\ copies' = [copies EXCEPT ![translator[p].copy].draft = source.content]
  /\ Proceed(p, "check_draft")
  /\ UNCHANGED <<source, tables>>

CheckDraft(p) ==
  /\ At(p, "check_draft")
  /\ job(p).draft = before(p).content /\ source = before(p)
  /\ Proceed(p, "edit")
  /\ UNCHANGED <<source, tables, copies>>

\* apply_to_copy in the helper: the copy has the approved bytes; AutoCAD sets the
\* texts and saves, once a snapshot shows them and nothing else changed.  What AutoCAD
\* saves is another matter.
EditDraft(p) ==
  /\ At(p, "edit")
  /\ job(p).draft = before(p).content
  /\ \E saved \in Versions \cup {expectedAfter(p)} :
       copies' = [copies EXCEPT ![translator[p].copy].draft = saved]
  /\ Proceed(p, "reopen")
  /\ UNCHANGED <<source, tables>>

\* The copy is opened again and read, and the source has not changed.
VerifyDraft(p) ==
  /\ At(p, "reopen")
  /\ TextSnapshot(job(p).draft) = TextSnapshot(expectedAfter(p)) /\ source = before(p)
  /\ Proceed(p, "result")
  /\ UNCHANGED <<source, tables, copies>>

CopyResult(p) ==
  /\ At(p, "result")
  /\ copies' = [copies EXCEPT ![translator[p].copy].result = job(p).draft]
  /\ Proceed(p, "release")
  /\ UNCHANGED <<source, tables>>

ReleaseCopy(p) ==
  /\ At(p, "release")
  /\ job(p).result = job(p).draft /\ source = before(p)
  /\ copies' = [copies EXCEPT ![translator[p].copy].receipt = TRUE]
  /\ Proceed(p, "record")
  /\ UNCHANGED <<source, tables>>

RecordReceipt(p) ==
  /\ At(p, "record")
  /\ writes' = [writes EXCEPT ![translator[p].plan] = translator[p].copy]
  /\ Rest(p)
  /\ UNCHANGED <<source, reviews, plans, copies>>

\* An exception, a failed check or a timeout of the helper ends the request, and so
\* does the death of the process.  A write that has begun stays without a receipt
\* (the answer asks for attention); its job directory stays as it is.
Abandon(p) ==
  /\ ~At(p, "idle")
  /\ Rest(p)
  /\ UNCHANGED <<source, tables, copies>>

WriteCopy(p) ==
  \/ BeginWrite(p) \/ StartCopy(p) \/ CopySource(p) \/ CheckDraft(p) \/ EditDraft(p)
  \/ VerifyDraft(p) \/ CopyResult(p) \/ ReleaseCopy(p) \/ RecordReceipt(p)

TranslationNext ==
  \/ SaveDrawing \/ SubmitReview \/ PlanTranslation
  \/ \E p \in Translators : WriteCopy(p) \/ Abandon(p)

TranslationSpec == TranslationInit /\ [][TranslationNext]_translationVars

-----------------------------------------------------------------------------
\* A plan is written at most once, whatever processes die and however often the
\* request is repeated; and an English copy has a receipt only if it reads as the
\* drawing that was reviewed with the approved texts in place, every span of it
\* decided and nothing blocked.  (Of an entity without text only the kind is read.)
\* The receipt in the table is that of the plan's own copy, and no merge of reviews
\* has stored a decision that the drawing it is for does not admit.
TranslatedOnce ==
  /\ \A inv \in DOMAIN reviews : Admissible(inv.content, reviews[inv])
  /\ DOMAIN writes \subseteq plans
  /\ \A i, j \in DOMAIN copies : copies[i].plan = copies[j].plan => i = j
  /\ \A i \in DOMAIN copies :
       LET content == copies[i].plan.inventory.content
           decided == copies[i].plan.decisions
       IN  copies[i].receipt =>
             /\ TextSnapshot(copies[i].result) = TextSnapshot(Translated(content, decided))
             /\ \A e \in Entities :
                  content.kind[e] = "plain" \/ (content.kind[e] = "text" /\ e \in DOMAIN decided)
  /\ \A w \in DOMAIN writes :
       writes[w] # Nothing => copies[writes[w]].receipt /\ copies[writes[w]].plan = w
=============================================================================
