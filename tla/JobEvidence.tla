----------------------------- MODULE JobEvidence ------------------------------
(* What the local server concludes from the files of published jobs.  The      *)
(* plug-in promotes the PDFs of a job one by one and binds them in a receipt;  *)
(* meanwhile a reader (audit.py) looks at one file after the other, without    *)
(* any lock, and reporting.py and pilot.py draw conclusions from what it saw.  *)
(* People may edit or delete any of the files between two reads.               *)
(*                                                                             *)
(* A file is its bytes and the identity that stat returns (device, inode,      *)
(* size, modification time): every write gives a new one.  A digest is the     *)
(* bytes it was computed from.  Two reads of a file that agree in bytes and    *)
(* identity are one read: a read that met a write fails.                       *)
EXTENDS Naturals, Sequences

CONSTANTS
  JobCount,    \* how many staged jobs the workspace holds
  Sheets,      \* the number of PDFs of each job
  MaxEdits,    \* the bound on what people change behind the program's back
  Absent       \* no such file

ASSUME EvidenceAssumption ==
  /\ JobCount \in Nat \ {0}
  /\ Sheets \in [1 .. JobCount -> Nat \ {0}]
  /\ MaxEdits \in Nat

\* The jobs, in the order of their ids.
Jobs == 1 .. JobCount

VARIABLES
  disk,        \* the files, by kind and job
  edits,       \* how many changes people have made
  run,         \* the plug-in's progress on each job
  reader,      \* the call of the local server that is under way, and what it saw
  items,       \* the last operations report: a status for each job
  evidence,    \* the last pilot or recovery record: the jobs it vouches for
  stale        \* history: the jobs whose inputs were changed all through that call

evidenceVars == <<disk, edits, run, reader, items, evidence, stale>>

Page == {"plotted", "foreign", "blank"}
File(bytes) == [bytes : bytes, id : 0 .. MaxEdits + 1] \cup {Absent}
Receipt == [state : {"succeeded", "failed", "malformed"}, manifest : {"original", "edited"},
            outputs : Seq(Page)]
NoCall == [call |-> "none", stage |-> "none", pc |-> "idle", cur |-> 1,
           manifest |-> Absent, pdf |-> <<>>, receipt |-> Absent, source |-> Absent,
           cancelled |-> FALSE]

\* The PDF passes the tests of _audit_pdf: header, one page, its size, its marks.
Valid(bytes) == bytes \in {"plotted", "foreign"}

\* What a reader made of one PDF.
Verdict(file) ==
  IF file = Absent THEN "missing"
  ELSE IF Valid(file.bytes) THEN file.bytes ELSE "invalid"

EvidenceInit ==
  /\ disk = [source |-> [j \in Jobs |-> [bytes |-> "approved", id |-> 0]],
             staged |-> [j \in Jobs |-> "approved"],
             template |-> "approved",
             manifest |-> [j \in Jobs |-> [bytes |-> "original", id |-> 0]],
             pdf |-> [j \in Jobs |-> [i \in 1 .. Sheets[j] |-> Absent]],
             receipt |-> [j \in Jobs |-> Absent],
             marker |-> [j \in Jobs |-> Absent]]
  /\ edits = 0
  /\ run = [j \in Jobs |-> [pc |-> "pending", n |-> 1, outputs |-> <<>>]]
  /\ reader = NoCall
  /\ items = [j \in Jobs |-> "none"]
  /\ evidence = {}
  /\ stale = {}

\* The jobs whose inputs are not what was approved: the source rewritten, be it with
\* the same bytes, the staged copy altered or the manifest edited.
Changed(files) ==
  {k \in Jobs : \/ files.source[k] # [bytes |-> "approved", id |-> 0]
                \/ files.staged[k] # "approved"
                \/ files.manifest[k].bytes # "original"}

-----------------------------------------------------------------------------
(* People. *)

Edit(kind) ==
  /\ edits < MaxEdits
  /\ edits' = edits + 1
  /\ UNCHANGED <<run, reader, items, evidence>>
  /\ \E j \in Jobs :
       \/ /\ kind = "source"
          /\ \E b \in {"approved", "altered"} :
               disk' = [disk EXCEPT !.source[j] = [bytes |-> b, id |-> edits + 1]]
       \/ kind = "staged" /\ disk' = [disk EXCEPT !.staged[j] = "altered"]
       \/ kind = "template" /\ disk' = [disk EXCEPT !.template = "altered"]
       \/ /\ kind = "manifest"
          /\ \E b \in {"original", "edited"} :
               disk' = [disk EXCEPT !.manifest[j] = [bytes |-> b, id |-> edits + 1]]
       \/ /\ kind = "pdf"
          /\ \E i \in 1 .. Sheets[j] :
               \/ \E b \in Page \ {"plotted"} :
                    disk' = [disk EXCEPT !.pdf[j][i] = [bytes |-> b, id |-> edits + 1]]
               \/ disk.pdf[j][i] # Absent /\ disk' = [disk EXCEPT !.pdf[j][i] = Absent]
       \/ /\ kind = "receipt" /\ disk.receipt[j] # Absent
          /\ disk' = [disk EXCEPT !.receipt[j].state = "malformed"]
  /\ stale' = stale \cap Changed(disk')

-----------------------------------------------------------------------------
(* The plug-in: PublishOutputTransaction and PublishReceiptWriter.             *)

pluginRest == <<edits, reader, items, evidence, stale>>
Ended == {"pending", "cancelled", "refused", "succeeded", "failed", "partial", "unrecorded", "lost"}
Trusted(j) == disk.manifest[j].bytes = "original" /\ disk.staged[j] = "approved"
FinalExists(j) == \E i \in 1 .. Sheets[j] : disk.pdf[j][i] # Absent

\* A pending job is taken up, one at a time, or refused when its files changed.
Start(j) ==
  /\ \A k \in Jobs : run[k].pc \in Ended
  /\ run[j].pc = "pending"
  /\ run' = [run EXCEPT ![j].pc = IF ~Trusted(j) THEN "refused"
                                  ELSE IF FinalExists(j) THEN "failing" ELSE "plotting"]
  /\ UNCHANGED <<disk, pluginRest>>

Cancel(j) ==
  /\ run[j].pc = "pending"
  /\ run' = [run EXCEPT ![j].pc = "cancelled"]
  /\ disk' = [disk EXCEPT !.marker[j] = "cancelled"]
  /\ UNCHANGED pluginRest

\* Every sheet is plotted to a private temporary name, and no final name is taken.
Commit(j) ==
  /\ run[j].pc = "plotting"
  /\ run' = [run EXCEPT ![j].pc = IF FinalExists(j) THEN "failing" ELSE "promoting"]
  /\ UNCHANGED <<disk, pluginRest>>

\* File.Move of one temporary file; it never replaces an existing file.
Promote(j) ==
  /\ run[j].pc = "promoting"
  /\ disk.pdf[j][run[j].n] = Absent
  /\ disk' = [disk EXCEPT !.pdf[j][run[j].n] = [bytes |-> "plotted", id |-> 0]]
  /\ run' = [run EXCEPT ![j] = IF run[j].n = Sheets[j]
                               THEN [run[j] EXCEPT !.pc = "hashing", !.n = 1]
                               ELSE [run[j] EXCEPT !.n = run[j].n + 1]]
  /\ UNCHANGED pluginRest

\* The move fails (a file of that name appeared, or any other I/O error).
PromotionFails(j) ==
  /\ run[j].pc = "promoting"
  /\ run' = [run EXCEPT ![j] = [run[j] EXCEPT !.pc = "undoing", !.n = run[j].n - 1]]
  /\ UNCHANGED <<disk, pluginRest>>

\* A seeded fault: the first file is left behind.
UndoButFirst(j) ==
  LET file == disk.pdf[j][run[j].n]
  IN  /\ run[j].pc = "undoing"
      /\ run' = [run EXCEPT ![j].pc =
                   IF run[j].n <= 1 THEN "failing"
                   ELSE IF file # Absent /\ file.bytes = "plotted" THEN "moving"
                   ELSE "stuck"]
      /\ UNCHANGED <<disk, pluginRest>>

\* The promoted files are taken back in reverse order: first the content of the
\* file is compared with what was promoted ...
UndoCheck(j) ==
  LET file == disk.pdf[j][run[j].n]
  IN  /\ run[j].pc = "undoing"
      /\ run' = [run EXCEPT ![j].pc =
                   IF run[j].n = 0 THEN "failing"
                   ELSE IF file # Absent /\ file.bytes = "plotted" THEN "moving"
                   ELSE "stuck"]
      /\ UNCHANGED <<disk, pluginRest>>

\* ... then it is moved away.
UndoMove(j) ==
  /\ run[j].pc = "moving"
  /\ IF disk.pdf[j][run[j].n] = Absent
     THEN run' = [run EXCEPT ![j].pc = "stuck"] /\ UNCHANGED disk
     ELSE /\ run' = [run EXCEPT ![j] = [run[j] EXCEPT !.pc = "undoing", !.n = run[j].n - 1]]
          /\ disk' = [disk EXCEPT !.pdf[j][run[j].n] = Absent]
  /\ UNCHANGED pluginRest

\* TryCompute: the promoted PDFs are read back and hashed, one after the other.
HashOutput(j) ==
  LET i == run[j].n
      file == disk.pdf[j][i]
  IN  /\ run[j].pc = "hashing"
      /\ run' = [run EXCEPT ![j] =
                   IF file = Absent \/ (i = 1 /\ ~Trusted(j))
                   THEN [run[j] EXCEPT !.pc = "unrecorded"]
                   ELSE [run[j] EXCEPT !.outputs = Append(run[j].outputs, file.bytes), !.n = i + 1,
                                       !.pc = IF i = Sheets[j] THEN "receipting" ELSE "hashing"]]
      /\ UNCHANGED <<disk, pluginRest>>

\* The receipt is written once, after the outputs it binds.
WriteReceipt(j) ==
  /\ run[j].pc \in {"receipting", "failing", "stuck"}
  /\ disk.receipt[j] = Absent
  /\ disk' = [disk EXCEPT !.receipt[j] =
                [state |-> IF run[j].pc = "receipting" THEN "succeeded" ELSE "failed",
                 manifest |-> "original", outputs |-> run[j].outputs]]
  /\ run' = [run EXCEPT ![j].pc = CASE @ = "receipting" -> "succeeded"
                                    [] @ = "failing" -> "failed"
                                    [] @ = "stuck" -> "partial"]
  /\ UNCHANGED pluginRest

\* AutoCAD is gone; the journal says that the job was started.
Lost(j) ==
  /\ run[j].pc \notin Ended
  /\ run' = [run EXCEPT ![j].pc = "lost"]
  /\ UNCHANGED <<disk, pluginRest>>

PluginStep(j) ==
  \/ Start(j) \/ Cancel(j) \/ Commit(j) \/ Promote(j) \/ PromotionFails(j)
  \/ UndoCheck(j) \/ UndoMove(j) \/ HashOutput(j) \/ WriteReceipt(j) \/ Lost(j)

-----------------------------------------------------------------------------
(* The reader: audit_publish_outputs_snapshot, step by step, for one job.      *)

readerRest == <<disk, edits, run, stale>>
cur == reader.cur
LastJob == reader.cur = JobCount

\* A report goes through every job; a recovery record goes through a report and
\* then audits every job again; a pilot record is about one job.
BeginCall(call, j) ==
  /\ reader.pc = "idle"
  /\ call \in {"report", "recovery"} => j = 1
  /\ reader' = [NoCall EXCEPT !.call = call, !.cur = j, !.pc = "manifest",
                              !.stage = IF call = "pilot" THEN "evidence" ELSE "report"]
  /\ items' = [k \in Jobs |-> "none"]
  /\ evidence' = {}
  /\ stale' = Changed(disk)
  /\ UNCHANGED <<disk, edits, run>>

\* The next job of the report, the second half of a recovery, or the end.
AfterItem(status) ==
  LET next == [NoCall EXCEPT !.call = reader.call, !.pc = "manifest"]
      all == [items EXCEPT ![cur] = status]
      recoverable == \A k \in Jobs : all[k] = "complete"
  IN  /\ items' = all
      /\ reader' = IF ~LastJob THEN [next EXCEPT !.cur = cur + 1, !.stage = "report"]
                   ELSE IF reader.call = "recovery" /\ recoverable
                   THEN [next EXCEPT !.stage = "evidence"]
                   ELSE NoCall
      /\ UNCHANGED <<evidence, readerRest>>

\* An exception: the job is listed as invalid, or no record is made.
Raise ==
  IF reader.stage = "report" THEN AfterItem("invalid_job")
  ELSE reader' = NoCall /\ evidence' = {} /\ UNCHANGED <<items, readerRest>>

Then(pc) == /\ reader' = [reader EXCEPT !.pc = pc]
            /\ UNCHANGED <<items, evidence, readerRest>>

\* A file could not be read, or changed while it was read.
ReadFails == reader.pc # "idle" /\ Raise

LoadManifest ==
  /\ reader.pc = "manifest"
  /\ reader' = [reader EXCEPT !.pc = "staged", !.manifest = disk.manifest[cur]]
  /\ UNCHANGED <<items, evidence, readerRest>>

\* The staged drawing and the staged templates still have the approved digests.
VerifyStaged ==
  /\ reader.pc = "staged"
  /\ IF disk.staged[cur] = "approved" THEN Then("validated") ELSE Raise

ManifestUnchanged == disk.manifest[cur] = reader.manifest

Validated ==
  /\ reader.pc = "validated"
  /\ IF ManifestUnchanged THEN Then("pdf") ELSE Raise

\* _audit_pdf for the next output; a PDF that changed meanwhile is invalid.
AuditPdf ==
  LET i == Len(reader.pdf) + 1
  IN  /\ reader.pc = "pdf"
      /\ \E v \in {Verdict(disk.pdf[cur][i])}
                  \cup (IF disk.pdf[cur][i] = Absent THEN {} ELSE {"invalid"}) :
           reader' = [reader EXCEPT !.pdf = Append(@, v),
                                    !.pc = IF i = Sheets[cur] THEN "receipt" ELSE "pdf"]
      /\ UNCHANGED <<items, evidence, readerRest>>

\* _read_publish_receipt: well formed, and about this plan and this manifest.
ReadReceipt ==
  LET receipt == disk.receipt[cur]
  IN  /\ reader.pc = "receipt"
      /\ IF receipt # Absent /\ (\/ receipt.state = "malformed"
                                 \/ receipt.manifest # reader.manifest.bytes)
         THEN Raise
         ELSE /\ reader' = [reader EXCEPT !.pc = "source", !.receipt = receipt]
              /\ UNCHANGED <<items, evidence, readerRest>>

FingerprintSource ==
  /\ reader.pc = "source"
  /\ reader' = [reader EXCEPT !.pc = "audited", !.source = disk.source[cur]]
  /\ UNCHANGED <<items, evidence, readerRest>>

(* The conclusions of the audit. *)
OutputsComplete == \A i \in 1 .. Len(reader.pdf) : reader.pdf[i] \notin {"missing", "invalid"}
AnyOutput == \E i \in 1 .. Len(reader.pdf) : reader.pdf[i] # "missing"
ReceiptState == IF reader.receipt = Absent THEN "none" ELSE reader.receipt.state
\* build_receipt_output_digest over the PDFs seen equals the receipt's digest.
BindingVerified == ReceiptState = "succeeded" /\ reader.receipt.outputs = reader.pdf
\* A seeded fault: only the digest is compared, not the modification time.
SourceSameBytes == reader.source.bytes = "approved"
SourceUnchanged == reader.source = [bytes |-> "approved", id |-> 0]
\* A seeded fault: the digest of the receipt is not compared.
PublishVerifiedUnbound == OutputsComplete /\ ReceiptState = "succeeded" /\ SourceUnchanged
PublishVerified == OutputsComplete /\ BindingVerified /\ SourceUnchanged

Audited ==
  /\ reader.pc = "audited"
  /\ IF ManifestUnchanged
     THEN Then(IF reader.stage = "report" THEN "marker" ELSE "again")
     ELSE Raise

-----------------------------------------------------------------------------
(* reporting.py: the status of the job. *)

ReadMarker ==
  /\ reader.pc = "marker"
  /\ reader' = [reader EXCEPT !.pc = "classify", !.cancelled = disk.marker[cur] # Absent]
  /\ UNCHANGED <<items, evidence, readerRest>>

Status ==
  IF reader.cancelled /\ (reader.receipt # Absent \/ AnyOutput) THEN "invalid_job"
  ELSE IF reader.cancelled THEN "cancelled_hold"
  ELSE IF ~SourceUnchanged THEN "source_changed"
  ELSE IF PublishVerified THEN "complete"
  ELSE IF ReceiptState = "failed" THEN "failed"
  ELSE IF AnyOutput THEN "manual_review"
  ELSE "awaiting_execution"

Classify ==
  /\ reader.pc = "classify"
  /\ IF ManifestUnchanged THEN AfterItem(Status) ELSE Raise

-----------------------------------------------------------------------------
(* pilot.py: a record that vouches for jobs. *)

\* Only a verified job, and for a pilot only one sheet; then the source, the
\* staged copy and the office template are fingerprinted again.
Again ==
  /\ reader.pc = "again"
  /\ IF PublishVerified /\ (reader.call = "pilot" => Sheets[cur] = 1)
     THEN Then("resource") ELSE Raise

RefingerprintSource ==
  /\ reader.pc = "resource"
  /\ IF disk.source[cur].bytes = "approved" THEN Then("restaged") ELSE Raise

\* A pilot record also needs the office template it was plotted with.
RefingerprintStaged ==
  /\ reader.pc = "restaged"
  /\ IF disk.staged[cur] = "approved" /\ (reader.call = "pilot" => disk.template = "approved")
     THEN Then("vouch") ELSE Raise

Vouch ==
  /\ reader.pc = "vouch"
  /\ IF ~ManifestUnchanged THEN Raise
     ELSE /\ evidence' = evidence \cup {cur}
          /\ reader' = IF reader.call = "pilot" \/ LastJob THEN NoCall
                       ELSE [NoCall EXCEPT !.call = "recovery", !.stage = "evidence",
                                           !.cur = cur + 1, !.pc = "manifest"]
          /\ UNCHANGED <<items, readerRest>>

ReaderStep ==
  \/ \E call \in {"report", "pilot", "recovery"}, j \in Jobs : BeginCall(call, j)
  \/ ReadFails \/ LoadManifest \/ VerifyStaged \/ Validated \/ AuditPdf \/ ReadReceipt
  \/ FingerprintSource \/ Audited \/ ReadMarker \/ Classify
  \/ Again \/ RefingerprintSource \/ RefingerprintStaged \/ Vouch

EvidenceNext ==
  \/ \E kind \in {"source", "staged", "template", "manifest", "pdf", "receipt"} : Edit(kind)
  \/ \E j \in Jobs : PluginStep(j)
  \/ ReaderStep

EvidenceSpec == EvidenceInit /\ [][EvidenceNext]_evidenceVars

-----------------------------------------------------------------------------
EvidenceTypeOK ==
  /\ \A j \in Jobs :
       /\ disk.source[j] \in File({"approved", "altered"})
       /\ disk.staged[j] \in {"approved", "altered"}
       /\ disk.manifest[j] \in File({"original", "edited"})
       /\ \A i \in 1 .. Sheets[j] : disk.pdf[j][i] \in File(Page)
       /\ disk.receipt[j] \in Receipt \cup {Absent}
       /\ disk.marker[j] \in {"cancelled", Absent}
       /\ run[j].n \in 0 .. Sheets[j] + 1 /\ Len(run[j].outputs) <= Sheets[j]
       /\ items[j] \in {"none", "complete", "source_changed", "awaiting_execution",
                        "cancelled_hold", "failed", "manual_review", "invalid_job"}
  /\ edits \in 0 .. MaxEdits
  /\ cur \in Jobs /\ Len(reader.pdf) <= Sheets[cur]
  /\ evidence \subseteq Jobs /\ stale \subseteq Jobs

Concluding == {"marker", "classify", "again", "resource", "restaged", "vouch"}
Claimed(j) == items[j] = "complete" \/ j \in evidence

\* publish_verified, pieced together from files read at different moments, is
\* never said of a job that the plug-in did not publish: the plug-in finished it,
\* and the PDFs seen are the ones whose digest it recorded when it did.
VerifiedWasPublished ==
  /\ reader.pc \in Concluding /\ PublishVerified
       => run[cur].pc = "succeeded" /\ reader.pdf = run[cur].outputs
  /\ \A j \in Jobs : Claimed(j) => run[j].pc = "succeeded"

\* A report calls a job complete, and a pilot or recovery record vouches for it, only
\* when at one instant of the call its source had not been rewritten since it was
\* approved (not even with the same bytes), its staged copy was unaltered and its
\* manifest unedited, all three together, although they are read one by one.
NothingStaleIsVouchedFor == \A j \in Jobs : Claimed(j) => j \notin stale

\* After an ordinary failure in the middle of promoting its PDFs, a job leaves
\* none of them behind under a final name (PublishOutputTransaction: "an ordinary
\* mid-promotion failure leaves no final names").
RolledBackLeavesNothing ==
  \A j \in Jobs : run[j].pc = "failed" =>
    \A i \in 1 .. Sheets[j] : disk.pdf[j][i] = Absent \/ disk.pdf[j][i].bytes # "plotted"

\* docs/operations-report.md says of awaiting_execution, the one status that hands
\* out a queue_approval: "no receipt and no existing outputs".
AwaitingMeansUntouched ==
  reader.pc = "classify" /\ Status = "awaiting_execution"
    => reader.receipt = Absent /\ ~AnyOutput
=============================================================================
