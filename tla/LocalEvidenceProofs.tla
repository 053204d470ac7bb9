-------------------------- MODULE LocalEvidenceProofs --------------------------
(* What the local server concludes from files that are read one after the      *)
(* other while people, AutoCAD and other programs change them, for any number  *)
(* of jobs, sheets, releases, builds and edits; and what it concludes from the *)
(* content of a page, for any content and any limit of the scan.               *)
EXTENDS JobEvidence, ReleaseAcceptance, PdfMarking, SequenceTheorems, WellFoundedInduction, TLAPS

(***************************************************************************)
(* Audit, report and pilot records of published jobs.                      *)
(***************************************************************************)

\* The digest and modification time that a plan was approved for.
Original == [bytes |-> "approved", id |-> 0]

\* The files are of their kinds, and a receipt says what the plug-in's run came to.
FilesOK ==
  /\ DOMAIN disk = {"source", "staged", "template", "manifest", "pdf", "receipt", "marker"}
  /\ DOMAIN disk.source = Jobs /\ DOMAIN disk.staged = Jobs /\ DOMAIN disk.manifest = Jobs
  /\ DOMAIN disk.pdf = Jobs /\ DOMAIN disk.receipt = Jobs /\ DOMAIN disk.marker = Jobs
  /\ \A j \in Jobs : DOMAIN disk.pdf[j] = 1 .. Sheets[j]
  /\ edits \in Nat /\ \A j \in Jobs : disk.manifest[j].id \in 0 .. edits

ReceiptsOK ==
  \A j \in Jobs : disk.receipt[j] # Absent =>
    /\ DOMAIN disk.receipt[j] = {"state", "manifest", "outputs"}
    /\ disk.receipt[j].manifest = "original"
    /\ disk.receipt[j].state = "succeeded" =>
         run[j].pc = "succeeded" /\ disk.receipt[j].outputs = run[j].outputs

\* Where the PDFs that were promoted, and are still there, may be found.
PromotedBy(r, i) ==
  \/ r.pc = "promoting" /\ i < r.n
  \/ r.pc \in {"undoing", "moving"} /\ i <= r.n
  \/ r.pc \in {"hashing", "receipting", "succeeded", "stuck", "partial", "lost", "unrecorded"}

NotPromoted(file) == file = Absent \/ file.bytes # "plotted"

\* The sheet that a run is at.
RunOK(j, r) ==
  /\ DOMAIN r = {"pc", "n", "outputs"} /\ r.n \in Nat
  /\ r.pc \in {"pending", "plotting"} => r.n = 1
  /\ r.pc \in {"promoting", "moving"} => r.n \in 1 .. Sheets[j]
  /\ r.pc = "undoing" => r.n <= Sheets[j]

RunsOK ==
  /\ DOMAIN run = Jobs
  /\ \A j \in Jobs : RunOK(j, run[j])
  /\ \A j \in Jobs : \A i \in 1 .. Sheets[j] :
       NotPromoted(disk.pdf[j][i]) \/ PromotedBy(run[j], i)

\* The steps of the reader after it has read the manifest, looked at the staged copy,
\* and read the receipt.
PastManifest == {"staged", "validated", "pdf", "receipt", "source", "audited"} \cup Concluding
PastStaged == {"validated", "pdf", "receipt", "source"}
PastReceipt == {"source", "audited"} \cup Concluding

\* What the reader has seen: if its job was not as approved when the staged copy was
\* looked at, a file shows it, which the reader will find out or has found out.
SeenOK(r) ==
  /\ DOMAIN r = {"call", "stage", "pc", "cur", "manifest", "pdf", "receipt", "source", "cancelled"}
  /\ r.cur \in Jobs
  /\ r.pc \in PastManifest => r.manifest.id \in 0 .. edits
  /\ r.pc \in PastReceipt /\ r.receipt # Absent =>
       /\ r.manifest.bytes = "original"
       /\ r.receipt.state = "succeeded" =>
            run[r.cur].pc = "succeeded" /\ r.receipt.outputs = run[r.cur].outputs
  /\ r.pc \in PastStaged /\ r.cur \in stale =>
       \/ disk.source[r.cur] # Original
       \/ r.manifest.bytes # "original" \/ disk.manifest[r.cur] # r.manifest
  /\ r.pc = "audited" /\ r.cur \in stale =>
       \/ r.source # Original
       \/ r.manifest.bytes # "original" \/ disk.manifest[r.cur] # r.manifest
  /\ r.pc \in Concluding /\ r.cur \in stale =>
       r.source # Original \/ r.manifest.bytes # "original"
  /\ r.pc \in {"resource", "restaged", "vouch"} =>
       r.receipt # Absent /\ r.receipt.state = "succeeded" /\ r.source = Original

\* A conclusion is about a job that was published, and as approved during the call.
ClaimsOK ==
  /\ DOMAIN items = Jobs
  /\ stale \subseteq Changed(disk)
  /\ \A j \in Jobs : Claimed(j) => run[j].pc = "succeeded" /\ j \notin stale

EvidenceInv == FilesOK /\ ReceiptsOK /\ RunsOK /\ SeenOK(reader) /\ ClaimsOK

(* What a step of the world does to the files and the runs.  *)
SameInputs ==
  disk'.source = disk.source /\ disk'.staged = disk.staged /\ disk'.manifest = disk.manifest
SameOutputs == disk'.pdf = disk.pdf /\ disk'.receipt = disk.receipt

SourceGoes == \A k \in Jobs : disk'.source[k] = disk.source[k] \/ disk'.source[k] # Original
ManifestGoes ==
  \A k \in Jobs : disk'.manifest[k] = disk.manifest[k] \/ disk'.manifest[k].id > edits
RunsGo == \A k \in Jobs : run[k].pc = "succeeded" => run'[k] = run[k]

\* What the reader has seen and concluded stays true whatever becomes of the files.
LEMMA WorldKeepsReader ==
  ASSUME FilesOK, SeenOK(reader), ClaimsOK, UNCHANGED <<reader, items, evidence>>,
         SourceGoes, ManifestGoes, RunsGo, edits' \in Nat, edits <= edits',
         stale' \subseteq stale, stale' \subseteq Changed(disk)'
  PROVE  SeenOK(reader)' /\ ClaimsOK'
<1> PICK r : r = reader
  OBVIOUS
<1>1. SeenOK(r) /\ r.cur \in Jobs /\ edits \in Nat
  BY DEF SeenOK, FilesOK
<1>2. r.pc \in PastManifest => r.manifest.id \in 0 .. edits'
  BY <1>1 DEF SeenOK
<1>3. r.pc \in PastReceipt /\ r.receipt # Absent =>
        /\ r.manifest.bytes = "original"
        /\ r.receipt.state = "succeeded" =>
             run'[r.cur].pc = "succeeded" /\ r.receipt.outputs = run'[r.cur].outputs
  BY <1>1 DEF SeenOK, RunsGo
<1>4. disk.source[r.cur] # Original => disk'.source[r.cur] # Original
  BY <1>1 DEF SourceGoes
<1>5. r.pc \in PastManifest /\ disk.manifest[r.cur] # r.manifest
        => disk'.manifest[r.cur] # r.manifest
  BY <1>1 DEF ManifestGoes, SeenOK
<1>6. r.pc \in PastStaged \cup {"audited"} => r.pc \in PastManifest
  BY DEF PastStaged, PastManifest
<1>7. r.pc \in PastStaged /\ r.cur \in stale' =>
        \/ disk'.source[r.cur] # Original
        \/ r.manifest.bytes # "original" \/ disk'.manifest[r.cur] # r.manifest
  BY <1>1, <1>4, <1>5, <1>6 DEF SeenOK
<1>8. r.pc = "audited" /\ r.cur \in stale' =>
        \/ r.source # Original
        \/ r.manifest.bytes # "original" \/ disk'.manifest[r.cur] # r.manifest
  BY <1>1, <1>5, <1>6 DEF SeenOK
<1>9. /\ r.pc \in Concluding /\ r.cur \in stale' =>
           r.source # Original \/ r.manifest.bytes # "original"
      /\ r.pc \in {"resource", "restaged", "vouch"} =>
           r.receipt # Absent /\ r.receipt.state = "succeeded" /\ r.source = Original
      /\ DOMAIN r = {"call", "stage", "pc", "cur", "manifest", "pdf", "receipt", "source",
                     "cancelled"}
  BY <1>1 DEF SeenOK
<1>10. SeenOK(reader)'
  BY <1>1, <1>2, <1>3, <1>7, <1>8, <1>9 DEF SeenOK
<1>11. ClaimsOK'
  BY DEF ClaimsOK, Claimed, RunsGo
<1> QED
  BY <1>10, <1>11

\* Writing or removing one PDF touches no other file.
OnlyPdf(j, i, file) ==
  /\ DOMAIN disk' = DOMAIN disk /\ SameInputs
  /\ disk'.receipt = disk.receipt /\ disk'.marker = disk.marker /\ DOMAIN disk'.pdf = DOMAIN disk.pdf
  /\ \A k \in Jobs : DOMAIN disk'.pdf[k] = DOMAIN disk.pdf[k]
  /\ disk'.pdf[j][i] = file
  /\ \A k \in Jobs : \A m \in 1 .. Sheets[k] : k # j \/ m # i => disk'.pdf[k][m] = disk.pdf[k][m]

\* The assignment to one PDF in the file tables is such a change.
LEMMA PdfChanges ==
  ASSUME FilesOK, NEW j \in Jobs, NEW i \in 1 .. Sheets[j], NEW file,
         disk' = [disk EXCEPT !.pdf[j][i] = file]
  PROVE  OnlyPdf(j, i, file)
<1> PICK row : row = [disk.pdf[j] EXCEPT ![i] = file]
  OBVIOUS
<1> PICK rows : rows = [disk.pdf EXCEPT ![j] = row]
  OBVIOUS
<1>1. disk' = [disk EXCEPT !.pdf = rows]
  OBVIOUS
<1>2. DOMAIN disk' = DOMAIN disk /\ SameInputs /\ disk'.receipt = disk.receipt
      /\ disk'.marker = disk.marker /\ disk'.pdf = rows
  BY <1>1 DEF FilesOK, SameInputs
<1>3. DOMAIN row = DOMAIN disk.pdf[j] /\ row[i] = file
      /\ \A m \in 1 .. Sheets[j] : m # i => row[m] = disk.pdf[j][m]
  BY DEF FilesOK
<1>4. DOMAIN rows = DOMAIN disk.pdf /\ rows[j] = row
      /\ \A k \in Jobs : k # j => rows[k] = disk.pdf[k]
  BY DEF FilesOK
<1> QED
  BY <1>2, <1>3, <1>4 DEF OnlyPdf

\* The plug-in's books stay right when no run goes on, no PDF it has promoted appears
\* and a receipt only gets unreadable.
LEMMA EditKeepsRuns ==
  ASSUME FilesOK, ReceiptsOK, RunsOK, run' = run,
         \A k \in Jobs : \A i \in 1 .. Sheets[k] :
           \/ disk'.pdf[k][i] = disk.pdf[k][i]
           \/ disk'.pdf[k][i] = Absent \/ disk'.pdf[k][i].bytes # "plotted",
         \A k \in Jobs :
           \/ disk'.receipt[k] = disk.receipt[k]
           \/ /\ disk.receipt[k] # Absent
              /\ DOMAIN disk'.receipt[k] = DOMAIN disk.receipt[k]
              /\ disk'.receipt[k].state = "malformed"
              /\ disk'.receipt[k].manifest = disk.receipt[k].manifest
  PROVE  ReceiptsOK' /\ RunsOK'
<1>1. ReceiptsOK'
  BY DEF ReceiptsOK
<1>2. RunsOK'
  BY DEF RunsOK, NotPromoted
<1> QED
  BY <1>1, <1>2

\* People change one file, which gets a new identity.
LEMMA EditKeeps ==
  ASSUME EvidenceInv, NEW kind, Edit(kind)
  PROVE  EvidenceInv'
<1>1. FilesOK /\ ReceiptsOK /\ RunsOK /\ SeenOK(reader) /\ ClaimsOK
  BY DEF EvidenceInv
<1>2. edits \in Nat /\ edits' = edits + 1 /\ edits' \in Nat
  BY <1>1 DEF Edit, FilesOK
<1>3. UNCHANGED <<run, reader, items, evidence>> /\ stale' = stale \cap Changed(disk')
  BY DEF Edit
<1>4. stale' \subseteq stale /\ stale' \subseteq Changed(disk)'
  BY <1>3 DEF Changed
<1>5. RunsGo
  BY <1>3 DEF RunsGo
<1>6. ASSUME FilesOK', SourceGoes, ManifestGoes, ReceiptsOK' /\ RunsOK'
      PROVE  EvidenceInv'
  BY <1>1, <1>2, <1>3, <1>4, <1>5, <1>6, WorldKeepsReader DEF EvidenceInv
<1>7. ASSUME NEW j \in Jobs, NEW b, disk' = [disk EXCEPT !.source[j] = [bytes |-> b, id |-> edits + 1]]
      PROVE  EvidenceInv'
  <2> PICK file : file = [bytes |-> b, id |-> edits + 1]
    OBVIOUS
  <2>1. file # Original
    BY <1>2 DEF Original
  <2> PICK rows : rows = [disk.source EXCEPT ![j] = file]
    OBVIOUS
  <2>2. disk' = [disk EXCEPT !.source = rows]
    BY <1>7
  <2>3. /\ DOMAIN disk' = DOMAIN disk /\ disk'.staged = disk.staged
        /\ disk'.manifest = disk.manifest /\ disk'.marker = disk.marker
        /\ SameOutputs /\ disk'.source = rows
    BY <1>1, <2>2 DEF FilesOK, SameOutputs
  <2>4. DOMAIN rows = Jobs /\ \A k \in Jobs : rows[k] = disk.source[k] \/ rows[k] # Original
    BY <1>1, <2>1 DEF FilesOK
  <2>5. FilesOK' /\ SourceGoes /\ ManifestGoes
    BY <1>1, <1>2, <2>3, <2>4 DEF FilesOK, SourceGoes, ManifestGoes, SameOutputs
  <2>6. ReceiptsOK' /\ RunsOK'
    BY <1>1, <1>3, <2>3, EditKeepsRuns DEF SameOutputs
  <2> QED
    BY <1>6, <2>5, <2>6
<1>8. ASSUME NEW j \in Jobs, NEW b,
             disk' = [disk EXCEPT !.manifest[j] = [bytes |-> b, id |-> edits + 1]]
      PROVE  EvidenceInv'
  <2> PICK file : file = [bytes |-> b, id |-> edits + 1]
    OBVIOUS
  <2>1. file.id > edits
    BY <1>2
  <2> PICK rows : rows = [disk.manifest EXCEPT ![j] = file]
    OBVIOUS
  <2>2. disk' = [disk EXCEPT !.manifest = rows]
    BY <1>8
  <2>3. /\ DOMAIN disk' = DOMAIN disk /\ disk'.staged = disk.staged
        /\ disk'.source = disk.source /\ disk'.marker = disk.marker
        /\ SameOutputs /\ disk'.manifest = rows
    BY <1>1, <2>2 DEF FilesOK, SameOutputs
  <2>4. DOMAIN rows = Jobs /\ \A k \in Jobs : rows[k] = disk.manifest[k] \/ rows[k].id > edits
    BY <1>1, <2>1 DEF FilesOK
  <2>5. FilesOK' /\ SourceGoes /\ ManifestGoes
    BY <1>1, <1>2, <2>3, <2>4 DEF FilesOK, SourceGoes, ManifestGoes, SameOutputs
  <2>6. ReceiptsOK' /\ RunsOK'
    BY <1>1, <1>3, <2>3, EditKeepsRuns DEF SameOutputs
  <2> QED
    BY <1>6, <2>5, <2>6
<1>9. ASSUME NEW j \in Jobs, \/ disk' = [disk EXCEPT !.staged[j] = "altered"]
                             \/ disk' = [disk EXCEPT !.template = "altered"]
      PROVE  EvidenceInv'
  <2>1. /\ DOMAIN disk' = DOMAIN disk /\ DOMAIN disk'.staged = DOMAIN disk.staged
        /\ disk'.source = disk.source /\ disk'.manifest = disk.manifest
        /\ disk'.marker = disk.marker /\ SameOutputs
    BY <1>1, <1>9 DEF FilesOK, SameOutputs
  <2>2. FilesOK' /\ SourceGoes /\ ManifestGoes
    BY <1>1, <1>2, <2>1 DEF FilesOK, SourceGoes, ManifestGoes, SameOutputs
  <2>3. ReceiptsOK' /\ RunsOK'
    BY <1>1, <1>3, <2>1, EditKeepsRuns DEF SameOutputs
  <2> QED
    BY <1>6, <2>2, <2>3
<1>10. ASSUME NEW j \in Jobs, NEW i \in 1 .. Sheets[j], NEW file,
              file = Absent \/ file.bytes # "plotted", disk' = [disk EXCEPT !.pdf[j][i] = file]
       PROVE  EvidenceInv'
  <2>1. OnlyPdf(j, i, file)
    BY <1>1, <1>10, PdfChanges
  <2>2. FilesOK' /\ SourceGoes /\ ManifestGoes
    BY <1>1, <1>2, <2>1 DEF OnlyPdf, SameInputs, FilesOK, SourceGoes, ManifestGoes
  <2>3. \A k \in Jobs : \A m \in 1 .. Sheets[k] :
          \/ disk'.pdf[k][m] = disk.pdf[k][m]
          \/ disk'.pdf[k][m] = Absent \/ disk'.pdf[k][m].bytes # "plotted"
    BY <1>10, <2>1 DEF OnlyPdf
  <2>4. disk'.receipt = disk.receipt
    BY <2>1 DEF OnlyPdf
  <2>5. ReceiptsOK' /\ RunsOK'
    BY <1>1, <1>3, <2>3, <2>4, EditKeepsRuns
  <2> QED
    BY <1>6, <2>2, <2>5
<1>11. ASSUME NEW j \in Jobs, disk.receipt[j] # Absent,
              disk' = [disk EXCEPT !.receipt[j].state = "malformed"]
       PROVE  EvidenceInv'
  <2> PICK file : file = [disk.receipt[j] EXCEPT !.state = "malformed"]
    OBVIOUS
  <2>1. DOMAIN file = DOMAIN disk.receipt[j] /\ file.state = "malformed"
        /\ file.manifest = disk.receipt[j].manifest
    BY <1>1, <1>11 DEF ReceiptsOK
  <2> PICK rows : rows = [disk.receipt EXCEPT ![j] = file]
    OBVIOUS
  <2>2. disk' = [disk EXCEPT !.receipt = rows]
    BY <1>11
  <2>3. /\ DOMAIN disk' = DOMAIN disk /\ SameInputs /\ disk'.marker = disk.marker
        /\ disk'.pdf = disk.pdf /\ disk'.receipt = rows
    BY <1>1, <2>2 DEF FilesOK, SameInputs
  <2>4. DOMAIN rows = Jobs /\ rows[j] = file /\ \A k \in Jobs : k # j => rows[k] = disk.receipt[k]
    BY <1>1 DEF FilesOK
  <2>5. FilesOK' /\ SourceGoes /\ ManifestGoes
    BY <1>1, <1>2, <2>3, <2>4 DEF FilesOK, SourceGoes, ManifestGoes, SameInputs
  <2>6. ReceiptsOK' /\ RunsOK'
    BY <1>1, <1>3, <1>11, <2>1, <2>3, <2>4, EditKeepsRuns
  <2> QED
    BY <1>6, <2>5, <2>6
<1> QED
  <2>1. PICK j \in Jobs :
       \/ \E b : disk' = [disk EXCEPT !.source[j] = [bytes |-> b, id |-> edits + 1]]
       \/ disk' = [disk EXCEPT !.staged[j] = "altered"]
       \/ disk' = [disk EXCEPT !.template = "altered"]
       \/ \E b : disk' = [disk EXCEPT !.manifest[j] = [bytes |-> b, id |-> edits + 1]]
       \/ \E i \in 1 .. Sheets[j] :
            \/ \E b \in Page \ {"plotted"} :
                 disk' = [disk EXCEPT !.pdf[j][i] = [bytes |-> b, id |-> edits + 1]]
            \/ disk' = [disk EXCEPT !.pdf[j][i] = Absent]
       \/ disk.receipt[j] # Absent /\ disk' = [disk EXCEPT !.receipt[j].state = "malformed"]
    BY DEF Edit
  <2>2. ASSUME NEW i \in 1 .. Sheets[j], NEW b \in Page \ {"plotted"},
               disk' = [disk EXCEPT !.pdf[j][i] = [bytes |-> b, id |-> edits + 1]]
        PROVE  EvidenceInv'
    BY <1>10, <2>2
  <2> QED
    BY <1>7, <1>8, <1>9, <1>10, <1>11, <2>1, <2>2

\* A step of the plug-in on one job: the run goes on from where it was not finished, and
\* what it promoted and is still there is where the run says.
LEMMA PluginFrame ==
  ASSUME EvidenceInv, UNCHANGED pluginRest, NEW j \in Jobs, NEW r,
         run' = [run EXCEPT ![j] = r], RunOK(j, r), run[j].pc # "succeeded",
         FilesOK', SameInputs, ReceiptsOK',
         \A i \in 1 .. Sheets[j] : NotPromoted(disk'.pdf[j][i]) \/ PromotedBy(r, i),
         \A k \in Jobs : \A i \in 1 .. Sheets[k] : k # j => disk'.pdf[k][i] = disk.pdf[k][i]
  PROVE  EvidenceInv'
<1>1. FilesOK /\ ReceiptsOK /\ RunsOK /\ SeenOK(reader) /\ ClaimsOK
  BY DEF EvidenceInv
<1>2. DOMAIN run' = Jobs /\ run'[j] = r /\ \A k \in Jobs : k # j => run'[k] = run[k]
  BY <1>1 DEF RunsOK
<1>3. RunsOK'
  <2>1. \A k \in Jobs : RunOK(k, run'[k])
    BY <1>1, <1>2 DEF RunsOK
  <2>2. ASSUME NEW k \in Jobs, NEW i \in 1 .. Sheets[k]
        PROVE  NotPromoted(disk'.pdf[k][i]) \/ PromotedBy(run'[k], i)
    BY <1>1, <1>2 DEF RunsOK
  <2> QED
    BY <1>2, <2>1, <2>2 DEF RunsOK, RunOK, NotPromoted, PromotedBy
<1>4. RunsGo
  BY <1>2 DEF RunsGo
<1>5. UNCHANGED <<edits, reader, items, evidence, stale>>
  BY DEF pluginRest
<1>6. SourceGoes /\ ManifestGoes
  BY DEF SourceGoes, ManifestGoes, SameInputs
<1>7. edits \in Nat /\ edits' \in Nat /\ edits <= edits'
  BY <1>1, <1>5 DEF FilesOK
<1>8. stale' \subseteq Changed(disk)'
  BY <1>1, <1>5 DEF ClaimsOK, Changed, SameInputs
<1>9. SeenOK(reader)' /\ ClaimsOK'
  BY <1>1, <1>4, <1>5, <1>6, <1>7, <1>8, WorldKeepsReader
<1> QED
  BY <1>3, <1>9 DEF EvidenceInv

\* The same, when the run alone changes.
LEMMA RunAlone ==
  ASSUME EvidenceInv, UNCHANGED <<disk, pluginRest>>, NEW j \in Jobs, NEW r,
         run' = [run EXCEPT ![j] = r], RunOK(j, r), run[j].pc # "succeeded", r.pc # "succeeded",
         \A i \in 1 .. Sheets[j] : PromotedBy(run[j], i) => NotPromoted(disk.pdf[j][i]) \/ PromotedBy(r, i)
  PROVE  EvidenceInv'
<1>1. FilesOK /\ ReceiptsOK /\ RunsOK
  BY DEF EvidenceInv
<1>2. disk' = disk /\ UNCHANGED pluginRest /\ edits' = edits
  BY DEF pluginRest
<1>3. FilesOK'
  BY <1>1, <1>2 DEF FilesOK
<1>4. \A k \in Jobs : k # j => run'[k] = run[k]
  BY <1>1 DEF RunsOK
<1>5. ReceiptsOK'
  BY <1>1, <1>2, <1>4 DEF ReceiptsOK
<1>6. SameInputs
  BY <1>2 DEF SameInputs
<1>7. \A i \in 1 .. Sheets[j] : NotPromoted(disk'.pdf[j][i]) \/ PromotedBy(r, i)
  BY <1>1, <1>2 DEF RunsOK
<1> QED
  BY <1>2, <1>3, <1>5, <1>6, <1>7, PluginFrame

\* A run that only goes on to another step.
LEMMA RunGoes ==
  ASSUME EvidenceInv, UNCHANGED <<disk, pluginRest>>, NEW j \in Jobs, NEW pc,
         run' = [run EXCEPT ![j].pc = pc], run[j].pc # "succeeded",
         pc \notin {"succeeded", "pending"},
         pc = "plotting" => run[j].n = 1,
         pc \in {"promoting", "moving"} => run[j].n \in 1 .. Sheets[j],
         pc = "undoing" => run[j].n <= Sheets[j],
         \A i \in 1 .. Sheets[j] : PromotedBy(run[j], i) =>
           \/ NotPromoted(disk.pdf[j][i])
           \/ pc \in {"undoing", "moving"} /\ i <= run[j].n
           \/ pc \in {"stuck", "partial", "lost", "unrecorded"}
  PROVE  EvidenceInv'
<1> PICK r : r = [run[j] EXCEPT !.pc = pc]
  OBVIOUS
<1>1. run' = [run EXCEPT ![j] = r]
  OBVIOUS
<1>2. RunOK(j, run[j])
  BY DEF EvidenceInv, RunsOK
<1>3. DOMAIN r = {"pc", "n", "outputs"} /\ r.pc = pc /\ r.n = run[j].n
  BY <1>2 DEF RunOK
<1>4. RunOK(j, r)
  BY <1>2, <1>3 DEF RunOK
<1>5. \A i \in 1 .. Sheets[j] : PromotedBy(run[j], i) => NotPromoted(disk.pdf[j][i]) \/ PromotedBy(r, i)
  BY <1>3 DEF PromotedBy
<1> QED
  BY <1>1, <1>3, <1>4, <1>5, RunAlone

\* Taking up, cancelling, checking, giving up: no file but a marker changes.
LEMMA PluginGoesOn ==
  ASSUME EvidenceInv, NEW j \in Jobs, Sheets[j] \in Nat \ {0},
         Start(j) \/ Cancel(j) \/ Commit(j) \/ PromotionFails(j) \/ UndoCheck(j) \/ Lost(j)
  PROVE  EvidenceInv'
<1>1. RunOK(j, run[j]) /\ FilesOK /\ ReceiptsOK /\ RunsOK
  BY DEF EvidenceInv, RunsOK
<1>2. CASE Start(j)
  <2>1. PICK pc \in {"refused", "failing", "plotting"} : run' = [run EXCEPT ![j].pc = pc]
    BY <1>2 DEF Start
  <2>2. run[j].pc = "pending" /\ UNCHANGED <<disk, pluginRest>>
    BY <1>2 DEF Start
  <2>3. run[j].n = 1
    BY <1>1, <2>2 DEF RunOK
  <2>4. \A i \in 1 .. Sheets[j] : ~ PromotedBy(run[j], i)
    BY <2>2 DEF PromotedBy
  <2> QED
    BY <2>1, <2>2, <2>3, <2>4, RunGoes
<1>3. CASE Cancel(j)
  <2>1. run[j].pc = "pending" /\ UNCHANGED pluginRest
        /\ run' = [run EXCEPT ![j].pc = "cancelled"]
        /\ disk' = [disk EXCEPT !.marker[j] = "cancelled"]
    BY <1>3 DEF Cancel
  <2> PICK r : r = [run[j] EXCEPT !.pc = "cancelled"]
    OBVIOUS
  <2>2. run' = [run EXCEPT ![j] = r]
    BY <2>1
  <2>3. RunOK(j, r) /\ r.pc = "cancelled"
    BY <1>1 DEF RunOK
  <2>4. \A k \in Jobs : k # j => run'[k] = run[k]
    BY <2>2, <1>1 DEF RunsOK
  <2> PICK rows : rows = [disk.marker EXCEPT ![j] = "cancelled"]
    OBVIOUS
  <2>5. disk' = [disk EXCEPT !.marker = rows] /\ DOMAIN rows = Jobs
    BY <1>1, <2>1 DEF FilesOK
  <2>6. DOMAIN disk' = DOMAIN disk /\ SameInputs /\ SameOutputs /\ disk'.marker = rows
    BY <1>1, <2>5 DEF FilesOK, SameInputs, SameOutputs
  <2>7. edits' = edits
    BY <2>1 DEF pluginRest
  <2>8. FilesOK'
    BY <1>1, <2>5, <2>6, <2>7 DEF FilesOK, SameInputs, SameOutputs
  <2>9. ReceiptsOK'
    BY <1>1, <2>1, <2>4, <2>6 DEF ReceiptsOK, SameOutputs
  <2>10. \A i \in 1 .. Sheets[j] : NotPromoted(disk'.pdf[j][i])
    BY <1>1, <2>1, <2>6 DEF RunsOK, PromotedBy, SameOutputs
  <2> QED
    BY <2>1, <2>2, <2>3, <2>6, <2>8, <2>9, <2>10, PluginFrame DEF SameOutputs
<1>4. CASE Commit(j)
  <2>1. PICK pc \in {"failing", "promoting"} : run' = [run EXCEPT ![j].pc = pc]
    BY <1>4 DEF Commit
  <2>2. run[j].pc = "plotting" /\ UNCHANGED <<disk, pluginRest>>
    BY <1>4 DEF Commit
  <2>3. run[j].n = 1 /\ run[j].n \in 1 .. Sheets[j]
    BY <1>1, <2>2 DEF RunOK
  <2>4. \A i \in 1 .. Sheets[j] : ~ PromotedBy(run[j], i)
    BY <2>2 DEF PromotedBy
  <2> QED
    BY <2>1, <2>2, <2>3, <2>4, RunGoes
<1>5. CASE PromotionFails(j)
  <2>1. /\ run[j].pc = "promoting" /\ UNCHANGED <<disk, pluginRest>>
        /\ run' = [run EXCEPT ![j] = [run[j] EXCEPT !.pc = "undoing", !.n = run[j].n - 1]]
    BY <1>5 DEF PromotionFails
  <2> PICK r : r = [run[j] EXCEPT !.pc = "undoing", !.n = run[j].n - 1]
    OBVIOUS
  <2>2. run' = [run EXCEPT ![j] = r]
    BY <2>1
  <2>3. DOMAIN r = {"pc", "n", "outputs"} /\ r.pc = "undoing" /\ r.n = run[j].n - 1
    BY <1>1 DEF RunOK
  <2>4. RunOK(j, r)
    BY <1>1, <2>1, <2>3 DEF RunOK
  <2>5. \A i \in 1 .. Sheets[j] : PromotedBy(run[j], i) => PromotedBy(r, i)
    BY <1>1, <2>1, <2>3 DEF RunOK, PromotedBy
  <2> QED
    BY <2>1, <2>2, <2>3, <2>4, <2>5, RunAlone
<1>6. CASE UndoCheck(j)
  <2>1. run[j].pc = "undoing" /\ UNCHANGED <<disk, pluginRest>>
    BY <1>6 DEF UndoCheck
  <2>2. PICK pc \in {"failing", "moving", "stuck"} :
          run' = [run EXCEPT ![j].pc = pc] /\ (pc = "failing" <=> run[j].n = 0)
    BY <1>6 DEF UndoCheck
  <2>3. pc = "failing" => \A i \in 1 .. Sheets[j] : ~ PromotedBy(run[j], i)
    BY <2>1, <2>2 DEF PromotedBy
  <2>4. \A i \in 1 .. Sheets[j] : PromotedBy(run[j], i) => i <= run[j].n
    BY <2>1 DEF PromotedBy
  <2>5. pc = "moving" => run[j].n \in 1 .. Sheets[j]
    BY <1>1, <2>1, <2>2 DEF RunOK
  <2> QED
    BY <2>1, <2>2, <2>3, <2>4, <2>5, RunGoes
<1>7. CASE Lost(j)
  <2>1. run[j].pc # "succeeded" /\ UNCHANGED <<disk, pluginRest>>
    BY <1>7 DEF Lost, Ended
  <2>2. PICK pc \in {"lost"} : run' = [run EXCEPT ![j].pc = pc]
    BY <1>7 DEF Lost
  <2> QED
    BY <2>1, <2>2, RunGoes
<1> QED
  BY <1>2, <1>3, <1>4, <1>5, <1>6, <1>7

\* A temporary file is moved to its final name, or moved away again.
LEMMA PluginMoves ==
  ASSUME EvidenceInv, NEW j \in Jobs, Sheets[j] \in Nat \ {0}, Promote(j) \/ UndoMove(j)
  PROVE  EvidenceInv'
<1>1. RunOK(j, run[j]) /\ FilesOK /\ ReceiptsOK /\ RunsOK
  BY DEF EvidenceInv, RunsOK
<1>2. UNCHANGED pluginRest /\ edits' = edits
  BY DEF Promote, UndoMove, pluginRest
<1>3. ASSUME NEW file, NEW r, run[j].n \in 1 .. Sheets[j],
             disk' = [disk EXCEPT !.pdf[j][run[j].n] = file],
             run' = [run EXCEPT ![j] = r], RunOK(j, r), r.pc # "succeeded",
             run[j].pc # "succeeded",
             NotPromoted(file) \/ PromotedBy(r, run[j].n),
             \A i \in 1 .. Sheets[j] : i # run[j].n /\ PromotedBy(run[j], i) => PromotedBy(r, i)
      PROVE  EvidenceInv'
  <2> PICK m \in 1 .. Sheets[j] : m = run[j].n
    BY <1>3
  <2>1. OnlyPdf(j, m, file)
    BY <1>1, <1>3, PdfChanges
  <2>2. FilesOK' /\ SameInputs
    BY <1>1, <1>2, <2>1 DEF OnlyPdf, SameInputs, FilesOK
  <2>3. \A k \in Jobs : k # j => run'[k] = run[k]
    BY <1>1, <1>3 DEF RunsOK
  <2>4. ReceiptsOK'
    BY <1>1, <1>3, <2>1, <2>3 DEF ReceiptsOK, OnlyPdf
  <2>5. \A i \in 1 .. Sheets[j] : NotPromoted(disk'.pdf[j][i]) \/ PromotedBy(r, i)
    BY <1>1, <1>3, <2>1 DEF RunsOK, OnlyPdf
  <2>6. \A k \in Jobs : \A i \in 1 .. Sheets[k] : k # j => disk'.pdf[k][i] = disk.pdf[k][i]
    BY <2>1 DEF OnlyPdf
  <2> QED
    BY <1>2, <1>3, <2>2, <2>4, <2>5, <2>6, PluginFrame
<1>4. CASE Promote(j)
  <2>1. /\ run[j].pc = "promoting"
        /\ disk' = [disk EXCEPT !.pdf[j][run[j].n] = [bytes |-> "plotted", id |-> 0]]
    BY <1>4 DEF Promote
  <2>2. run[j].n \in 1 .. Sheets[j]
    BY <1>1, <2>1 DEF RunOK
  <2>3. PICK r : /\ run' = [run EXCEPT ![j] = r] /\ DOMAIN r = DOMAIN run[j]
                 /\ \/ r.pc = "hashing" /\ r.n = 1
                    \/ r.pc = "promoting" /\ run[j].n # Sheets[j] /\ r.n = run[j].n + 1
    <3>1. CASE run[j].n = Sheets[j]
      <4> PICK r : r = [run[j] EXCEPT !.pc = "hashing", !.n = 1]
        OBVIOUS
      <4>1. run' = [run EXCEPT ![j] = r]
        BY <1>4, <3>1 DEF Promote
      <4>2. DOMAIN r = DOMAIN run[j] /\ r.pc = "hashing" /\ r.n = 1
        BY <1>1 DEF RunOK
      <4> QED
        BY <4>1, <4>2
    <3>2. CASE run[j].n # Sheets[j]
      <4> PICK r : r = [run[j] EXCEPT !.n = run[j].n + 1]
        OBVIOUS
      <4>1. run' = [run EXCEPT ![j] = r]
        BY <1>4, <3>2 DEF Promote
      <4>2. DOMAIN r = DOMAIN run[j] /\ r.pc = "promoting" /\ r.n = run[j].n + 1
        BY <1>1, <2>1 DEF RunOK
      <4> QED
        BY <3>2, <4>1, <4>2
    <3> QED
      BY <3>1, <3>2
  <2>4. RunOK(j, r) /\ r.pc # "succeeded"
    BY <1>1, <2>2, <2>3 DEF RunOK
  <2>5. PromotedBy(r, run[j].n)
    BY <1>1, <2>2, <2>3 DEF PromotedBy
  <2>6. \A i \in 1 .. Sheets[j] : PromotedBy(run[j], i) => PromotedBy(r, i)
    BY <2>1, <2>2, <2>3 DEF PromotedBy
  <2> QED
    BY <1>3, <2>1, <2>2, <2>3, <2>4, <2>5, <2>6
<1>5. CASE UndoMove(j)
  <2>1. run[j].pc = "moving"
    BY <1>5 DEF UndoMove
  <2>2. run[j].n \in 1 .. Sheets[j]
    BY <1>1, <2>1 DEF RunOK
  <2>3. CASE disk.pdf[j][run[j].n] = Absent
    <3>1. UNCHANGED <<disk, pluginRest>>
      BY <1>5, <2>3 DEF UndoMove
    <3>2. PICK pc \in {"stuck"} : run' = [run EXCEPT ![j].pc = pc]
      BY <1>5, <2>3 DEF UndoMove
    <3> QED
      BY <2>1, <3>1, <3>2, RunGoes
  <2>4. CASE disk.pdf[j][run[j].n] # Absent
    <3> PICK r : r = [run[j] EXCEPT !.pc = "undoing", !.n = run[j].n - 1]
      OBVIOUS
    <3>1. run' = [run EXCEPT ![j] = r] /\ disk' = [disk EXCEPT !.pdf[j][run[j].n] = Absent]
      BY <1>5, <2>4 DEF UndoMove
    <3>2. DOMAIN r = {"pc", "n", "outputs"} /\ r.pc = "undoing" /\ r.n = run[j].n - 1
      BY <1>1 DEF RunOK
    <3>3. RunOK(j, r) /\ r.pc # "succeeded"
      BY <2>2, <3>2 DEF RunOK
    <3>4. \A i \in 1 .. Sheets[j] : i # run[j].n /\ PromotedBy(run[j], i) => PromotedBy(r, i)
      BY <2>1, <2>2, <3>2 DEF PromotedBy
    <3>5. NotPromoted(Absent)
      BY DEF NotPromoted
    <3> QED
      BY <1>3, <2>1, <2>2, <3>1, <3>3, <3>4, <3>5
  <2> QED
    BY <2>3, <2>4
<1> QED
  BY <1>4, <1>5

\* The promoted PDFs are read back, and the receipt binds what was read.
LEMMA PluginRecords ==
  ASSUME EvidenceInv, NEW j \in Jobs, HashOutput(j) \/ WriteReceipt(j)
  PROVE  EvidenceInv'
<1>1. RunOK(j, run[j]) /\ FilesOK /\ ReceiptsOK /\ RunsOK
  BY DEF EvidenceInv, RunsOK
<1>2. CASE HashOutput(j)
  <2>1. run[j].pc = "hashing" /\ UNCHANGED <<disk, pluginRest>>
    BY <1>2 DEF HashOutput
  <2>2. \A r : r.pc \in {"unrecorded", "hashing", "receipting"}
                 => \A i \in 1 .. Sheets[j] : PromotedBy(r, i)
    BY DEF PromotedBy
  <2>3. ASSUME NEW r, run' = [run EXCEPT ![j] = r], DOMAIN r = {"pc", "n", "outputs"}, r.n \in Nat,
               r.pc \in {"unrecorded", "hashing", "receipting"}
        PROVE  EvidenceInv'
    <3>1. RunOK(j, r)
      BY <2>3 DEF RunOK
    <3>2. r.pc # "succeeded" /\ run[j].pc # "succeeded"
      BY <2>1, <2>3
    <3>3. \A i \in 1 .. Sheets[j] :
            PromotedBy(run[j], i) => NotPromoted(disk.pdf[j][i]) \/ PromotedBy(r, i)
      BY <2>2, <2>3
    <3> QED
      BY <2>1, <2>3, <3>1, <3>2, <3>3, RunAlone
  <2> PICK r : r = [run[j] EXCEPT !.pc = "unrecorded"]
    OBVIOUS
  <2>4. DOMAIN r = {"pc", "n", "outputs"} /\ r.n \in Nat /\ r.pc = "unrecorded"
    BY <1>1 DEF RunOK
  <2> PICK outputs : outputs = Append(run[j].outputs, disk.pdf[j][run[j].n].bytes)
    OBVIOUS
  <2> PICK pc \in {"receipting", "hashing"} :
        pc = IF run[j].n = Sheets[j] THEN "receipting" ELSE "hashing"
    OBVIOUS
  <2> PICK s : s = [run[j] EXCEPT !.outputs = outputs, !.n = run[j].n + 1, !.pc = pc]
    OBVIOUS
  <2>5. DOMAIN s = {"pc", "n", "outputs"} /\ s.n \in Nat /\ s.pc = pc
    BY <1>1 DEF RunOK
  <2>6. run' = [run EXCEPT ![j] = r] \/ run' = [run EXCEPT ![j] = s]
    BY <1>2 DEF HashOutput
  <2> QED
    BY <2>3, <2>4, <2>5, <2>6
<1>3. CASE WriteReceipt(j)
  <2>1. /\ run[j].pc \in {"receipting", "failing", "stuck"} /\ disk.receipt[j] = Absent
        /\ UNCHANGED pluginRest /\ edits' = edits
    BY <1>3 DEF WriteReceipt, pluginRest
  <2> PICK file : file = [state |-> IF run[j].pc = "receipting" THEN "succeeded" ELSE "failed",
                          manifest |-> "original", outputs |-> run[j].outputs]
    OBVIOUS
  <2>2. /\ DOMAIN file = {"state", "manifest", "outputs"} /\ file.manifest = "original"
        /\ file.outputs = run[j].outputs
        /\ file.state = "succeeded" => run[j].pc = "receipting"
    OBVIOUS
  <2> PICK pc : pc = CASE run[j].pc = "receipting" -> "succeeded"
                       [] run[j].pc = "failing" -> "failed"
                       [] run[j].pc = "stuck" -> "partial"
    OBVIOUS
  <2>3. /\ run[j].pc = "receipting" => pc = "succeeded"
        /\ run[j].pc = "failing" => pc = "failed"
        /\ run[j].pc = "stuck" => pc = "partial"
    OBVIOUS
  <2> PICK r : r = [run[j] EXCEPT !.pc = pc]
    OBVIOUS
  <2>4. DOMAIN r = {"pc", "n", "outputs"} /\ r.pc = pc /\ r.n = run[j].n
        /\ r.outputs = run[j].outputs
    BY <1>1 DEF RunOK
  <2>5. run' = [run EXCEPT ![j] = r]
    BY <1>3 DEF WriteReceipt
  <2>6. run'[j] = r /\ \A k \in Jobs : k # j => run'[k] = run[k]
    BY <1>1, <2>5 DEF RunsOK
  <2> PICK rows : rows = [disk.receipt EXCEPT ![j] = file]
    OBVIOUS
  <2>7. disk' = [disk EXCEPT !.receipt = rows]
    BY <1>3 DEF WriteReceipt
  <2>8. DOMAIN rows = Jobs /\ rows[j] = file /\ \A k \in Jobs : k # j => rows[k] = disk.receipt[k]
    BY <1>1 DEF FilesOK
  <2>9. /\ DOMAIN disk' = DOMAIN disk /\ SameInputs /\ disk'.marker = disk.marker
        /\ disk'.pdf = disk.pdf /\ disk'.receipt = rows
    BY <1>1, <2>7 DEF FilesOK, SameInputs
  <2>10. FilesOK'
    BY <1>1, <2>1, <2>8, <2>9 DEF FilesOK, SameInputs
  <2>11. ReceiptsOK'
    BY <1>1, <2>2, <2>3, <2>4, <2>6, <2>8, <2>9 DEF ReceiptsOK
  <2>12. RunOK(j, r)
    BY <1>1, <2>1, <2>3, <2>4 DEF RunOK
  <2>13. \A i \in 1 .. Sheets[j] : PromotedBy(run[j], i) => PromotedBy(r, i)
    <3>1. run[j].pc = "failing" => \A i \in 1 .. Sheets[j] : ~ PromotedBy(run[j], i)
      BY DEF PromotedBy
    <3>2. r.pc \in {"succeeded", "partial"} => \A i \in 1 .. Sheets[j] : PromotedBy(r, i)
      BY DEF PromotedBy
    <3> QED
      BY <2>1, <2>3, <2>4, <3>1, <3>2
  <2>14. \A i \in 1 .. Sheets[j] : NotPromoted(disk'.pdf[j][i]) \/ PromotedBy(r, i)
    BY <1>1, <2>9, <2>13 DEF RunsOK
  <2> QED
    BY <2>1, <2>5, <2>9, <2>10, <2>11, <2>12, <2>14, PluginFrame
<1> QED
  BY <1>2, <1>3

\* Every step of the plug-in.
LEMMA PluginKeeps ==
  ASSUME EvidenceInv, NEW j \in Jobs, PluginStep(j)
  PROVE  EvidenceInv'
<1>1. Sheets[j] \in Nat \ {0}
  BY EvidenceAssumption DEF Jobs
<1> QED
  BY <1>1, PluginGoesOn, PluginMoves, PluginRecords DEF PluginStep

\* A step of the reader changes what it has seen and concluded, and nothing else.
LEMMA ReaderFrame ==
  ASSUME EvidenceInv, UNCHANGED readerRest, NEW r, reader' = r, SeenOK(r), DOMAIN items' = Jobs,
         \A k \in Jobs : items'[k] = "complete" \/ k \in evidence'
                           => run[k].pc = "succeeded" /\ k \notin stale
  PROVE  EvidenceInv'
<1>1. FilesOK /\ ReceiptsOK /\ RunsOK /\ ClaimsOK
  BY DEF EvidenceInv
<1>2. disk' = disk /\ edits' = edits /\ run' = run /\ stale' = stale
  BY DEF readerRest
<1>3. FilesOK' /\ ReceiptsOK' /\ RunsOK'
  BY <1>1, <1>2 DEF FilesOK, ReceiptsOK, RunsOK
<1>4. SeenOK(reader)'
  BY <1>2 DEF SeenOK
<1>5. ClaimsOK'
  <2>1. stale' \subseteq Changed(disk)'
    BY <1>1, <1>2 DEF ClaimsOK
  <2> QED
    BY <1>2, <2>1 DEF ClaimsOK, Claimed
<1> QED
  BY <1>3, <1>4, <1>5 DEF EvidenceInv

\* What the reader has seen at the beginning of a job, and when no call is under way.
LEMMA NothingSeen ==
  ASSUME NEW r, DOMAIN r = {"call", "stage", "pc", "cur", "manifest", "pdf", "receipt", "source",
                            "cancelled"},
         r.cur \in Jobs, r.pc \in {"manifest", "idle"}
  PROVE  SeenOK(r)
<1>1. /\ r.pc \notin PastManifest /\ r.pc \notin PastReceipt /\ r.pc \notin PastStaged
      /\ r.pc \notin Concluding /\ r.pc # "audited"
      /\ r.pc \notin {"resource", "restaged", "vouch"}
  BY DEF PastManifest, PastReceipt, PastStaged, Concluding
<1> QED
  BY <1>1 DEF SeenOK

\* The fresh reader record of a call or of its next job.
LEMMA FreshReader ==
  /\ SeenOK(NoCall)
  /\ DOMAIN NoCall = {"call", "stage", "pc", "cur", "manifest", "pdf", "receipt", "source",
                      "cancelled"}
<1>1. /\ DOMAIN NoCall = {"call", "stage", "pc", "cur", "manifest", "pdf", "receipt", "source",
                          "cancelled"}
      /\ NoCall.cur = 1 /\ NoCall.pc = "idle"
  BY DEF NoCall
<1>2. 1 \in Jobs
  BY EvidenceAssumption DEF Jobs
<1> QED
  BY <1>1, <1>2, NothingSeen

\* A job of a report is done with.
LEMMA ItemKeeps ==
  ASSUME EvidenceInv, NEW status, AfterItem(status),
         status = "complete" => run[cur].pc = "succeeded" /\ cur \notin stale
  PROVE  EvidenceInv'
<1>1. SeenOK(reader) /\ ClaimsOK /\ UNCHANGED readerRest /\ evidence' = evidence
  BY DEF EvidenceInv, AfterItem
<1>2. cur \in Jobs /\ reader.cur = cur
  BY <1>1 DEF SeenOK, cur
<1>3. items' = [items EXCEPT ![cur] = status]
  BY DEF AfterItem
<1>4. DOMAIN items' = Jobs
      /\ \A k \in Jobs : items'[k] = "complete" \/ k \in evidence'
                           => run[k].pc = "succeeded" /\ k \notin stale
  BY <1>1, <1>2, <1>3 DEF ClaimsOK, Claimed
<1>5. SeenOK(reader')
  <2> PICK next : next = [NoCall EXCEPT !.call = reader.call, !.pc = "manifest"]
    OBVIOUS
  <2>1. DOMAIN next = DOMAIN NoCall /\ next.pc = "manifest" /\ next.cur = 1
    BY DEF NoCall
  <2> PICK a : a = [next EXCEPT !.cur = cur + 1, !.stage = "report"]
    OBVIOUS
  <2>2. DOMAIN a = DOMAIN NoCall /\ a.pc = "manifest" /\ a.cur = cur + 1
    BY <2>1, FreshReader
  <2> PICK b : b = [next EXCEPT !.stage = "evidence"]
    OBVIOUS
  <2>3. DOMAIN b = DOMAIN NoCall /\ b.pc = "manifest" /\ b.cur = 1
    BY <2>1, FreshReader
  <2>4. reader' = NoCall \/ (cur # JobCount /\ reader' = a) \/ reader' = b
    BY <1>2 DEF AfterItem, LastJob
  <2>5. 1 \in Jobs /\ (cur # JobCount => cur + 1 \in Jobs)
    BY <1>2, EvidenceAssumption DEF Jobs
  <2>6. SeenOK(b)
    BY <2>3, <2>5, FreshReader, NothingSeen
  <2>7. cur # JobCount => SeenOK(a)
    BY <2>2, <2>5, FreshReader, NothingSeen
  <2> QED
    BY <2>4, <2>6, <2>7, FreshReader
<1> PICK r : r = reader'
  OBVIOUS
<1> QED
  BY <1>1, <1>4, <1>5, ReaderFrame

\* The reader reads one more file, and concludes nothing yet.
LEMMA SeesMore ==
  ASSUME EvidenceInv, NEW r, reader' = r, UNCHANGED <<items, evidence, readerRest>>, SeenOK(r)
  PROVE  EvidenceInv'
<1>1. UNCHANGED readerRest /\ items' = items /\ evidence' = evidence
  OBVIOUS
<1>2. DOMAIN items' = Jobs
      /\ \A k \in Jobs : items'[k] = "complete" \/ k \in evidence'
                           => run[k].pc = "succeeded" /\ k \notin stale
  BY <1>1 DEF EvidenceInv, ClaimsOK, Claimed
<1> QED
  BY <1>1, <1>2, ReaderFrame

\* A call begins, or is given up.
LEMMA CallBegins ==
  ASSUME EvidenceInv, NEW call, NEW j \in Jobs, BeginCall(call, j)
  PROVE  EvidenceInv'
<1>1. FilesOK /\ ReceiptsOK /\ RunsOK
  BY DEF EvidenceInv
<1>2. disk' = disk /\ edits' = edits /\ run' = run /\ stale' = Changed(disk)
      /\ items' = [k \in Jobs |-> "none"] /\ evidence' = {}
  BY DEF BeginCall
<1> PICK stage : stage = IF call = "pilot" THEN "evidence" ELSE "report"
  OBVIOUS
<1> PICK r : r = [NoCall EXCEPT !.call = call, !.cur = j, !.pc = "manifest", !.stage = stage]
  OBVIOUS
<1>3. DOMAIN r = DOMAIN NoCall /\ r.pc = "manifest" /\ r.cur = j
  BY DEF NoCall
<1>4. reader' = r
  BY DEF BeginCall
<1>5. SeenOK(r)'
  BY <1>3, FreshReader, NothingSeen DEF SeenOK, PastManifest, PastReceipt, PastStaged, Concluding
<1>6. SeenOK(reader)'
  BY <1>4, <1>5 DEF SeenOK
<1>7. ClaimsOK'
  BY <1>2 DEF ClaimsOK, Claimed, Changed
<1>8. FilesOK' /\ ReceiptsOK' /\ RunsOK'
  BY <1>1, <1>2 DEF FilesOK, ReceiptsOK, RunsOK
<1> QED
  BY <1>6, <1>7, <1>8 DEF EvidenceInv

\* A read that raises ends the call, or the report goes on without the job.
LEMMA RaiseKeeps ==
  ASSUME EvidenceInv, Raise
  PROVE  EvidenceInv'
<1>1. CASE reader.stage = "report"
  <2>1. AfterItem("invalid_job")
    BY <1>1 DEF Raise
  <2> PICK status \in {"invalid_job"} : AfterItem(status)
    BY <2>1
  <2>2. status # "complete"
    OBVIOUS
  <2> QED
    BY <2>2, ItemKeeps
<1>2. CASE reader.stage # "report"
  <2>1. reader' = NoCall /\ evidence' = {} /\ UNCHANGED <<items, readerRest>>
    BY <1>2 DEF Raise
  <2>2. UNCHANGED readerRest /\ items' = items
    BY <2>1
  <2>3. DOMAIN items' = Jobs
        /\ \A k \in Jobs : items'[k] = "complete" \/ k \in evidence'
                             => run[k].pc = "succeeded" /\ k \notin stale
    BY <2>1, <2>2 DEF EvidenceInv, ClaimsOK, Claimed
  <2> PICK r : r = NoCall
    OBVIOUS
  <2> QED
    BY <2>1, <2>2, <2>3, ReaderFrame, FreshReader
<1> QED
  BY <1>1, <1>2

\* The reader goes on with the PDFs of its job.
AtPdfs(r) ==
  /\ reader.pc \in {"validated", "pdf"} /\ r.pc \in {"pdf", "receipt"}
  /\ DOMAIN r = DOMAIN reader /\ r.manifest = reader.manifest /\ r.cur = reader.cur

\* What the reader knows while it goes through the PDFs.
LEMMA StillReading ==
  ASSUME EvidenceInv, NEW r, AtPdfs(r)
  PROVE  SeenOK(r)
<1> USE DEF AtPdfs
<1>1. SeenOK(reader)
  BY DEF EvidenceInv
<1>2. /\ r.pc \notin PastReceipt /\ r.pc \notin Concluding
      /\ r.pc # "audited" /\ r.pc \notin {"resource", "restaged", "vouch"}
  BY DEF PastReceipt, Concluding
<1>3. reader.pc \in PastManifest /\ reader.pc \in PastStaged
  BY DEF PastManifest, PastStaged
<1> QED
  BY <1>1, <1>2, <1>3 DEF SeenOK

\* The reads up to the receipt: the staged copy that is as approved, of a job that was
\* never quite as approved during the call, leaves the source or the manifest to show it.
LEMMA ReaderReads ==
  ASSUME EvidenceInv, LoadManifest \/ VerifyStaged \/ Validated \/ AuditPdf
  PROVE  EvidenceInv'
<1>1. FilesOK /\ SeenOK(reader) /\ ClaimsOK /\ cur = reader.cur /\ cur \in Jobs
  BY DEF EvidenceInv, SeenOK, cur
<1>2. CASE LoadManifest
  <2>1. UNCHANGED <<items, evidence, readerRest>>
        /\ reader' = [reader EXCEPT !.pc = "staged", !.manifest = disk.manifest[cur]]
    BY <1>2 DEF LoadManifest
  <2> PICK file : file = disk.manifest[cur]
    OBVIOUS
  <2> PICK r : r = [reader EXCEPT !.pc = "staged", !.manifest = file]
    OBVIOUS
  <2>2. DOMAIN r = DOMAIN reader /\ r.pc = "staged" /\ r.manifest = file /\ r.cur = reader.cur
    BY <1>1 DEF SeenOK
  <2>3. /\ r.pc \notin PastReceipt /\ r.pc \notin PastStaged /\ r.pc \notin Concluding
        /\ r.pc # "audited" /\ r.pc \notin {"resource", "restaged", "vouch"}
    BY <2>2 DEF PastReceipt, PastStaged, Concluding
  <2>4. file.id \in 0 .. edits
    BY <1>1 DEF FilesOK
  <2>5. SeenOK(r)
    BY <1>1, <2>2, <2>3, <2>4 DEF SeenOK
  <2> QED
    BY <2>1, <2>5, SeesMore
<1>3. CASE VerifyStaged
  <2>1. reader.pc = "staged" /\ (Raise \/ (disk.staged[cur] = "approved" /\ Then("validated")))
    BY <1>3 DEF VerifyStaged
  <2>2. CASE disk.staged[cur] = "approved" /\ Then("validated")
    <3> PICK r : r = [reader EXCEPT !.pc = "validated"]
      OBVIOUS
    <3>1. reader' = r /\ UNCHANGED <<items, evidence, readerRest>>
      BY <2>2 DEF Then
    <3>2. DOMAIN r = DOMAIN reader /\ r.pc = "validated" /\ r.manifest = reader.manifest
          /\ r.cur = reader.cur
      BY <1>1 DEF SeenOK
    <3>3. /\ r.pc \notin PastReceipt /\ r.pc \notin Concluding
          /\ r.pc # "audited" /\ r.pc \notin {"resource", "restaged", "vouch"}
      BY <3>2 DEF PastReceipt, Concluding
    <3>4. r.cur \in stale =>
            \/ disk.source[r.cur] # Original
            \/ r.manifest.bytes # "original" \/ disk.manifest[r.cur] # r.manifest
      BY <1>1, <2>2, <3>2 DEF ClaimsOK, Changed, Original
    <3>5. r.manifest.id \in 0 .. edits
      BY <1>1, <2>1, <3>2 DEF SeenOK, PastManifest
    <3>6. SeenOK(r)
      BY <1>1, <3>2, <3>3, <3>4, <3>5 DEF SeenOK
    <3> QED
      BY <3>1, <3>6, SeesMore
  <2> QED
    BY <2>1, <2>2, RaiseKeeps
<1>4. CASE Validated
  <2>1. reader.pc = "validated" /\ (Raise \/ Then("pdf"))
    BY <1>4 DEF Validated
  <2>2. CASE Then("pdf")
    <3> PICK r : r = [reader EXCEPT !.pc = "pdf"]
      OBVIOUS
    <3>1. reader' = r /\ UNCHANGED <<items, evidence, readerRest>>
      BY <2>2 DEF Then
    <3>2. AtPdfs(r)
      BY <1>1, <2>1 DEF SeenOK, AtPdfs
    <3>3. SeenOK(r)
      BY <3>2, StillReading
    <3> QED
      BY <3>1, <3>3, SeesMore
  <2> QED
    BY <2>1, <2>2, RaiseKeeps
<1>5. CASE AuditPdf
  <2> PICK pc \in {"pdf", "receipt"} :
        pc = IF Len(reader.pdf) + 1 = Sheets[cur] THEN "receipt" ELSE "pdf"
    OBVIOUS
  <2>1. PICK v : reader' = [reader EXCEPT !.pdf = Append(@, v), !.pc = pc]
    BY <1>5 DEF AuditPdf
  <2>2. reader.pc = "pdf" /\ UNCHANGED <<items, evidence, readerRest>>
    BY <1>5 DEF AuditPdf
  <2> PICK pdfs : pdfs = Append(reader.pdf, v)
    OBVIOUS
  <2> PICK r : r = [reader EXCEPT !.pdf = pdfs, !.pc = pc]
    OBVIOUS
  <2>3. reader' = r
    BY <2>1
  <2>4. AtPdfs(r)
    BY <1>1, <2>2 DEF SeenOK, AtPdfs
  <2>5. SeenOK(r)
    BY <2>4, StillReading
  <2> QED
    BY <2>2, <2>3, <2>5, SeesMore
<1> QED
  BY <1>2, <1>3, <1>4, <1>5

\* The receipt and the source, and the end of the audit: the manifest is the one read.
LEMMA ReaderAudits ==
  ASSUME EvidenceInv, ReadReceipt \/ FingerprintSource \/ Audited
  PROVE  EvidenceInv'
<1>1. FilesOK /\ ReceiptsOK /\ SeenOK(reader) /\ cur = reader.cur /\ cur \in Jobs
  BY DEF EvidenceInv, SeenOK, cur
<1>2. CASE ReadReceipt
  <2> PICK receipt : receipt = disk.receipt[cur]
    OBVIOUS
  <2>1. /\ reader.pc = "receipt"
        /\ \/ Raise
           \/ /\ ~ (receipt # Absent /\ (\/ receipt.state = "malformed"
                                         \/ receipt.manifest # reader.manifest.bytes))
              /\ reader' = [reader EXCEPT !.pc = "source", !.receipt = receipt]
              /\ UNCHANGED <<items, evidence, readerRest>>
    BY <1>2 DEF ReadReceipt
  <2>2. ASSUME receipt # Absent => receipt.manifest = reader.manifest.bytes,
               reader' = [reader EXCEPT !.pc = "source", !.receipt = receipt],
               UNCHANGED <<items, evidence, readerRest>>
        PROVE  EvidenceInv'
    <3> PICK r : r = [reader EXCEPT !.pc = "source", !.receipt = receipt]
      OBVIOUS
    <3>1. DOMAIN r = DOMAIN reader /\ r.pc = "source" /\ r.receipt = receipt
          /\ r.manifest = reader.manifest /\ r.cur = reader.cur
      BY <1>1 DEF SeenOK
    <3>2. r.pc \notin Concluding /\ r.pc # "audited" /\ r.pc \notin {"resource", "restaged", "vouch"}
      BY <3>1 DEF Concluding
    <3>3. reader.pc \in PastManifest /\ reader.pc \in PastStaged
      BY <2>1 DEF PastManifest, PastStaged
    <3>4. receipt # Absent => receipt.manifest = "original" /\ reader.manifest.bytes = "original"
      BY <1>1, <2>2 DEF ReceiptsOK
    <3>5. r.receipt # Absent =>
            /\ r.manifest.bytes = "original"
            /\ r.receipt.state = "succeeded" =>
                 run[r.cur].pc = "succeeded" /\ r.receipt.outputs = run[r.cur].outputs
      BY <1>1, <3>1, <3>4 DEF ReceiptsOK
    <3>6. SeenOK(r)
      BY <1>1, <3>1, <3>2, <3>3, <3>5 DEF SeenOK
    <3> QED
      BY <2>2, <3>6, SeesMore
  <2> QED
    BY <2>1, <2>2, RaiseKeeps
<1>3. CASE FingerprintSource
  <2> PICK source : source = disk.source[cur]
    OBVIOUS
  <2> PICK r : r = [reader EXCEPT !.pc = "audited", !.source = source]
    OBVIOUS
  <2>1. reader.pc = "source" /\ reader' = r /\ UNCHANGED <<items, evidence, readerRest>>
    BY <1>3 DEF FingerprintSource
  <2>2. DOMAIN r = DOMAIN reader /\ r.pc = "audited" /\ r.receipt = reader.receipt
        /\ r.manifest = reader.manifest /\ r.cur = reader.cur /\ r.source = source
    BY <1>1 DEF SeenOK
  <2>3. r.pc \notin Concluding /\ r.pc \notin PastStaged /\ r.pc \notin {"resource", "restaged", "vouch"}
    BY <2>2 DEF Concluding, PastStaged
  <2>4. reader.pc \in PastManifest /\ reader.pc \in PastStaged /\ reader.pc \in PastReceipt
    BY <2>1 DEF PastManifest, PastStaged, PastReceipt
  <2>5. r.cur \in stale =>
          \/ r.source # Original
          \/ r.manifest.bytes # "original" \/ disk.manifest[r.cur] # r.manifest
    BY <1>1, <2>2, <2>4 DEF SeenOK
  <2>6. SeenOK(r)
    BY <1>1, <2>2, <2>3, <2>4, <2>5 DEF SeenOK
  <2> QED
    BY <2>1, <2>6, SeesMore
<1>4. CASE Audited
  <2> PICK pc \in {"marker", "again"} : pc = IF reader.stage = "report" THEN "marker" ELSE "again"
    OBVIOUS
  <2>1. reader.pc = "audited" /\ (Raise \/ (ManifestUnchanged /\ Then(pc)))
    BY <1>4 DEF Audited
  <2>2. CASE ManifestUnchanged /\ Then(pc)
    <3> PICK r : r = [reader EXCEPT !.pc = pc]
      OBVIOUS
    <3>1. reader' = r /\ UNCHANGED <<items, evidence, readerRest>>
      BY <2>2 DEF Then
    <3>2. DOMAIN r = DOMAIN reader /\ r.pc = pc /\ r.receipt = reader.receipt
          /\ r.manifest = reader.manifest /\ r.cur = reader.cur /\ r.source = reader.source
      BY <1>1 DEF SeenOK
    <3>3. r.pc # "audited" /\ r.pc \notin PastStaged /\ r.pc \notin {"resource", "restaged", "vouch"}
      BY <3>2 DEF PastStaged
    <3>4. reader.pc \in PastManifest /\ reader.pc \in PastReceipt
      BY <2>1 DEF PastManifest, PastReceipt
    <3>5. r.cur \in stale => r.source # Original \/ r.manifest.bytes # "original"
      BY <1>1, <2>1, <2>2, <3>2 DEF SeenOK, ManifestUnchanged
    <3>6. SeenOK(r)
      BY <1>1, <3>2, <3>3, <3>4, <3>5 DEF SeenOK
    <3> QED
      BY <3>1, <3>6, SeesMore
  <2> QED
    BY <2>1, <2>2, RaiseKeeps
<1> QED
  BY <1>2, <1>3, <1>4

\* The reader goes on to conclude, with what the audit has seen.
Concludes(r) ==
  /\ reader.pc \in Concluding /\ r.pc \in Concluding
  /\ DOMAIN r = DOMAIN reader /\ r.manifest = reader.manifest /\ r.cur = reader.cur
  /\ r.receipt = reader.receipt /\ r.source = reader.source
  /\ r.pc \in {"resource", "restaged", "vouch"} =>
       reader.pc \in {"resource", "restaged", "vouch"} \/ PublishVerified

\* What was seen of a job stays so while its report or its record is written.
LEMMA StillConcluding ==
  ASSUME EvidenceInv, NEW r, Concludes(r)
  PROVE  SeenOK(r)
<1> USE DEF Concludes
<1>1. SeenOK(reader)
  BY DEF EvidenceInv
<1>2. r.pc # "audited" /\ r.pc \notin PastStaged
  BY DEF PastStaged, Concluding
<1>3. reader.pc \in PastManifest /\ reader.pc \in PastReceipt
  BY DEF PastManifest, PastReceipt
<1>4. PublishVerified => /\ reader.receipt # Absent /\ reader.receipt.state = "succeeded"
                         /\ reader.source = Original
  BY DEF PublishVerified, BindingVerified, ReceiptState, SourceUnchanged, Original
<1> QED
  BY <1>1, <1>2, <1>3, <1>4 DEF SeenOK

\* A job of which all three were seen as approved, and a receipt of success, was
\* published, and not stale at every moment of the call.
LEMMA VerifiedIsFresh ==
  ASSUME EvidenceInv, reader.pc \in Concluding, reader.receipt # Absent,
         reader.receipt.state = "succeeded", reader.source = Original
  PROVE  run[cur].pc = "succeeded" /\ cur \notin stale
         /\ reader.receipt.outputs = run[cur].outputs
<1>1. SeenOK(reader) /\ cur = reader.cur
  BY DEF EvidenceInv, cur
<1>2. reader.pc \in PastReceipt
  BY DEF PastReceipt
<1> QED
  BY <1>1, <1>2 DEF SeenOK

\* The status in the report, and the record that vouches for the job.
LEMMA ReaderConcludes ==
  ASSUME EvidenceInv,
         ReadMarker \/ Classify \/ Again \/ RefingerprintSource \/ RefingerprintStaged \/ Vouch
  PROVE  EvidenceInv'
<1>1. SeenOK(reader) /\ ClaimsOK /\ cur = reader.cur /\ cur \in Jobs
  BY DEF EvidenceInv, SeenOK, cur
<1>2. ASSUME NEW pc \in {"resource", "restaged", "vouch"}, Then(pc),
             \/ reader.pc \in {"resource", "restaged", "vouch"}
             \/ reader.pc = "again" /\ PublishVerified
      PROVE  EvidenceInv'
  <2> PICK r : r = [reader EXCEPT !.pc = pc]
    OBVIOUS
  <2>1. reader' = r /\ UNCHANGED <<items, evidence, readerRest>>
    BY <1>2 DEF Then
  <2>2. Concludes(r)
    BY <1>1, <1>2 DEF SeenOK, Concludes, Concluding
  <2>3. SeenOK(r)
    BY <2>2, StillConcluding
  <2> QED
    BY <2>1, <2>3, SeesMore
<1>3. CASE ReadMarker
  <2> PICK b : b = (disk.marker[cur] # Absent)
    OBVIOUS
  <2> PICK r : r = [reader EXCEPT !.pc = "classify", !.cancelled = b]
    OBVIOUS
  <2>1. reader.pc = "marker" /\ reader' = r /\ UNCHANGED <<items, evidence, readerRest>>
    BY <1>3 DEF ReadMarker
  <2>2. Concludes(r)
    BY <1>1, <2>1 DEF SeenOK, Concludes, Concluding
  <2>3. SeenOK(r)
    BY <2>2, StillConcluding
  <2> QED
    BY <2>1, <2>3, SeesMore
<1>4. CASE Classify
  <2>1. reader.pc = "classify" /\ (Raise \/ AfterItem(Status))
    BY <1>4 DEF Classify
  <2>2. CASE AfterItem(Status)
    <3> PICK status : status = Status
      OBVIOUS
    <3>1. status = "complete" => PublishVerified
      BY DEF Status
    <3>2. PublishVerified => /\ reader.receipt # Absent /\ reader.receipt.state = "succeeded"
                             /\ reader.source = Original
      BY DEF PublishVerified, BindingVerified, ReceiptState, SourceUnchanged, Original
    <3>3. reader.pc \in Concluding
      BY <2>1 DEF Concluding
    <3>4. status = "complete" => run[cur].pc = "succeeded" /\ cur \notin stale
      BY <3>1, <3>2, <3>3, VerifiedIsFresh
    <3> QED
      BY <2>2, <3>4, ItemKeeps
  <2> QED
    BY <2>1, <2>2, RaiseKeeps
<1>5. CASE Again
  <2>1. Raise \/ (reader.pc = "again" /\ PublishVerified /\ Then("resource"))
    BY <1>5 DEF Again
  <2> PICK pc \in {"resource", "restaged", "vouch"} : pc = "resource"
    OBVIOUS
  <2> QED
    BY <1>2, <2>1, RaiseKeeps
<1>6. CASE RefingerprintSource
  <2>1. Raise \/ (reader.pc = "resource" /\ Then("restaged"))
    BY <1>6 DEF RefingerprintSource
  <2> PICK pc \in {"resource", "restaged", "vouch"} : pc = "restaged"
    OBVIOUS
  <2> QED
    BY <1>2, <2>1, RaiseKeeps
<1>7. CASE RefingerprintStaged
  <2>1. Raise \/ (reader.pc = "restaged" /\ Then("vouch"))
    BY <1>7 DEF RefingerprintStaged
  <2> PICK pc \in {"resource", "restaged", "vouch"} : pc = "vouch"
    OBVIOUS
  <2> QED
    BY <1>2, <2>1, RaiseKeeps
<1>8. CASE Vouch
  <2> PICK a : a = [NoCall EXCEPT !.call = "recovery", !.stage = "evidence",
                                  !.cur = cur + 1, !.pc = "manifest"]
    OBVIOUS
  <2>1. /\ reader.pc = "vouch"
        /\ \/ Raise
           \/ /\ evidence' = evidence \cup {cur} /\ UNCHANGED <<items, readerRest>>
              /\ reader' = NoCall \/ (cur # JobCount /\ reader' = a)
    BY <1>1, <1>8 DEF Vouch, LastJob
  <2>2. ASSUME evidence' = evidence \cup {cur}, UNCHANGED <<items, readerRest>>,
               reader' = NoCall \/ (cur # JobCount /\ reader' = a)
        PROVE  EvidenceInv'
    <3>1. reader.pc \in Concluding /\ reader.receipt # Absent
          /\ reader.receipt.state = "succeeded" /\ reader.source = Original
      BY <1>1, <2>1 DEF SeenOK, Concluding
    <3>2. run[cur].pc = "succeeded" /\ cur \notin stale
      BY <3>1, VerifiedIsFresh
    <3>3. UNCHANGED readerRest /\ items' = items
      BY <2>2
    <3>4. DOMAIN items' = Jobs
          /\ \A k \in Jobs : items'[k] = "complete" \/ k \in evidence'
                               => run[k].pc = "succeeded" /\ k \notin stale
      BY <1>1, <2>2, <3>2, <3>3 DEF ClaimsOK, Claimed
    <3>5. DOMAIN a = DOMAIN NoCall /\ a.pc = "manifest" /\ a.cur = cur + 1
      BY FreshReader
    <3>6. cur # JobCount => cur + 1 \in Jobs
      BY <1>1, EvidenceAssumption DEF Jobs
    <3>7. cur # JobCount => SeenOK(a)
      BY <3>5, <3>6, FreshReader, NothingSeen
    <3> PICK r : r = reader'
      OBVIOUS
    <3>8. SeenOK(r)
      BY <2>2, <3>7, FreshReader
    <3> QED
      BY <3>3, <3>4, <3>8, ReaderFrame
  <2> QED
    BY <2>1, <2>2, RaiseKeeps
<1> QED
  BY <1>3, <1>4, <1>5, <1>6, <1>7, <1>8

\* No step of the plug-in, of people or of a reader breaks the invariant.
LEMMA EvidenceInductive ==
  EvidenceInv /\ [EvidenceNext]_evidenceVars => EvidenceInv'
<1> SUFFICES ASSUME EvidenceInv, [EvidenceNext]_evidenceVars
             PROVE  EvidenceInv'
  OBVIOUS
<1>1. CASE UNCHANGED evidenceVars
  BY <1>1 DEF evidenceVars, EvidenceInv, FilesOK, ReceiptsOK, RunsOK, SeenOK, ClaimsOK, Claimed,
              Changed
<1>2. CASE \E kind \in {"source", "staged", "template", "manifest", "pdf", "receipt"} : Edit(kind)
  BY <1>2, EditKeeps
<1>3. CASE \E j \in Jobs : PluginStep(j)
  BY <1>3, PluginKeeps
<1>4. CASE ReaderStep
  BY <1>4, CallBegins, RaiseKeeps, ReaderReads, ReaderAudits, ReaderConcludes
     DEF ReaderStep, ReadFails
<1> QED
  BY <1>1, <1>2, <1>3, <1>4 DEF EvidenceNext

\* Before anything is published there is nothing to be wrong about.
LEMMA EvidenceStarts ==
  EvidenceInit => EvidenceInv
<1> SUFFICES ASSUME EvidenceInit
             PROVE  EvidenceInv
  OBVIOUS
<1>1. FilesOK
  BY DEF EvidenceInit, FilesOK
<1>2. ReceiptsOK
  BY DEF EvidenceInit, ReceiptsOK
<1>3. RunsOK
  BY DEF EvidenceInit, RunsOK, RunOK, NotPromoted
<1>4. SeenOK(reader)
  BY FreshReader DEF EvidenceInit
<1>5. ClaimsOK
  BY DEF EvidenceInit, ClaimsOK, Claimed
<1> QED
  BY <1>1, <1>2, <1>3, <1>4, <1>5 DEF EvidenceInv

\* The invariant of the published jobs, their files, and what is concluded from them.
THEOREM EvidenceIsSound == EvidenceSpec => []EvidenceInv
BY EvidenceStarts, EvidenceInductive, PTL DEF EvidenceSpec

\* However the reads of an audit fall between what the plug-in, people and other programs
\* do to the files, a job that is called complete or vouched for was published, and the
\* PDFs that were audited are the ones its receipt was written for.
THEOREM VerifiedAlwaysPublished == EvidenceSpec => []VerifiedWasPublished
<1>1. EvidenceInv => VerifiedWasPublished
  <2> SUFFICES ASSUME EvidenceInv
               PROVE  VerifiedWasPublished
    OBVIOUS
  <2>1. ASSUME reader.pc \in Concluding, PublishVerified
        PROVE  run[cur].pc = "succeeded" /\ reader.pdf = run[cur].outputs
    <3>1. /\ reader.receipt # Absent /\ reader.receipt.state = "succeeded"
          /\ reader.source = Original /\ reader.receipt.outputs = reader.pdf
      BY <2>1 DEF PublishVerified, BindingVerified, ReceiptState, SourceUnchanged, Original
    <3> QED
      BY <2>1, <3>1, VerifiedIsFresh
  <2>2. \A j \in Jobs : Claimed(j) => run[j].pc = "succeeded"
    BY DEF EvidenceInv, ClaimsOK
  <2> QED
    BY <2>1, <2>2 DEF VerifiedWasPublished
<1> QED
  BY <1>1, EvidenceIsSound, PTL

\* A job is called complete or vouched for only when the source, the staged copy and the
\* manifest were all as approved at one instant of the call, though they are read apart.
THEOREM NothingStaleIsEverVouchedFor == EvidenceSpec => []NothingStaleIsVouchedFor
<1>1. EvidenceInv => NothingStaleIsVouchedFor
  BY DEF EvidenceInv, ClaimsOK, NothingStaleIsVouchedFor
<1> QED
  BY <1>1, EvidenceIsSound, PTL

\* A run that failed in the middle of promoting its PDFs has taken all of them back.
THEOREM RollBackLeavesNothing == EvidenceSpec => []RolledBackLeavesNothing
<1>1. EvidenceInv => RolledBackLeavesNothing
  BY DEF EvidenceInv, RunsOK, PromotedBy, NotPromoted, RolledBackLeavesNothing
<1> QED
  BY <1>1, EvidenceIsSound, PTL

\* Every file and every record of the jobs is of its type; a run keeps no more outputs
\* than it has hashed, and a reader no more than there are sheets.
DiskTypes ==
  /\ disk.source \in [Jobs -> File({"approved", "altered"})]
  /\ disk.staged \in [Jobs -> {"approved", "altered"}]
  /\ disk.manifest \in [Jobs -> File({"original", "edited"})]
  /\ \A j \in Jobs : \A i \in 1 .. Sheets[j] : disk.pdf[j][i] \in File(Page)
  /\ disk.receipt \in [Jobs -> Receipt \cup {Absent}]
  /\ disk.marker \in [Jobs -> {"cancelled", Absent}]
RunTypes(j, r) ==
  /\ r.n \in 0 .. Sheets[j] + 1 /\ r.outputs \in Seq(Page) /\ Len(r.outputs) <= Sheets[j]
  /\ r.pc \in {"pending", "plotting", "promoting"} => r.outputs = <<>>
  /\ r.pc = "hashing" => r.n \in 1 .. Sheets[j] /\ Len(r.outputs) = r.n - 1
Verdicts == {"plotted", "foreign", "missing", "invalid"}
ReaderTypes(r) ==
  /\ r.cur \in Jobs /\ r.pdf \in Seq(Verdicts) /\ Len(r.pdf) <= Sheets[r.cur]
  /\ r.pc \in {"manifest", "staged", "validated"} => r.pdf = <<>>
  /\ r.pc = "pdf" => Len(r.pdf) < Sheets[r.cur]
Statuses == {"none", "complete", "source_changed", "awaiting_execution",
             "cancelled_hold", "failed", "manual_review", "invalid_job"}
EvidenceTypes ==
  /\ DiskTypes /\ (\A j \in Jobs : RunTypes(j, run[j])) /\ ReaderTypes(reader)
  /\ items \in [Jobs -> Statuses] /\ edits \in 0 .. MaxEdits
  /\ evidence \subseteq Jobs /\ stale \subseteq Jobs

\* The number of sheets of a job.
LEMMA SheetCount == ASSUME NEW j \in Jobs PROVE Sheets[j] \in Nat /\ Sheets[j] > 0
BY EvidenceAssumption DEF Jobs

\* People leave every file of its type.
LEMMA EditTypes ==
  ASSUME EvidenceInv, EvidenceTypes, NEW kind, Edit(kind)
  PROVE  EvidenceTypes'
<1>1. FilesOK /\ ReceiptsOK /\ DiskTypes
  BY DEF EvidenceInv, EvidenceTypes
<1>2. /\ run' = run /\ reader' = reader /\ items' = items /\ evidence' = evidence
      /\ edits' = edits + 1 /\ stale' = stale \cap Changed(disk') /\ edits < MaxEdits
  BY DEF Edit
<1>3. edits' \in 0 .. MaxEdits /\ edits + 1 \in 0 .. MaxEdits + 1
  BY <1>2, EvidenceAssumption DEF EvidenceTypes
<1>4. ASSUME DiskTypes' PROVE EvidenceTypes'
  BY <1>2, <1>3, <1>4 DEF EvidenceTypes, RunTypes, ReaderTypes
<1>5. ASSUME NEW S, NEW b \in S, NEW file, file = [bytes |-> b, id |-> edits + 1] PROVE file \in File(S)
  BY <1>3, <1>5 DEF File
<1>6. ASSUME NEW j \in Jobs, NEW b \in {"approved", "altered"},
             disk' = [disk EXCEPT !.source[j] = [bytes |-> b, id |-> edits + 1]]
      PROVE  DiskTypes'
  <2>1. PICK file : file = [bytes |-> b, id |-> edits + 1]
    OBVIOUS
  <2>2. PICK rows : rows = [disk.source EXCEPT ![j] = file]
    OBVIOUS
  <2>3. disk' = [disk EXCEPT !.source = rows]
    BY <1>6, <2>1, <2>2
  <2>4. /\ disk'.source = rows /\ disk'.staged = disk.staged /\ disk'.manifest = disk.manifest
        /\ disk'.pdf = disk.pdf /\ disk'.receipt = disk.receipt /\ disk'.marker = disk.marker
    BY <1>1, <2>3 DEF FilesOK
  <2>5. rows \in [Jobs -> File({"approved", "altered"})]
    BY <1>1, <1>5, <2>1, <2>2 DEF DiskTypes
  <2> QED  BY <1>1, <2>4, <2>5 DEF DiskTypes
<1>7. ASSUME NEW j \in Jobs, disk' = [disk EXCEPT !.staged[j] = "altered"] PROVE DiskTypes'
  <2>1. PICK rows : rows = [disk.staged EXCEPT ![j] = "altered"]
    OBVIOUS
  <2>2. disk' = [disk EXCEPT !.staged = rows]
    BY <1>7, <2>1
  <2>3. /\ disk'.source = disk.source /\ disk'.staged = rows /\ disk'.manifest = disk.manifest
        /\ disk'.pdf = disk.pdf /\ disk'.receipt = disk.receipt /\ disk'.marker = disk.marker
    BY <1>1, <2>2 DEF FilesOK
  <2>4. rows \in [Jobs -> {"approved", "altered"}]
    BY <1>1, <2>1 DEF DiskTypes
  <2> QED  BY <1>1, <2>3, <2>4 DEF DiskTypes
<1>8. ASSUME disk' = [disk EXCEPT !.template = "altered"] PROVE DiskTypes'
  <2>1. /\ disk'.source = disk.source /\ disk'.staged = disk.staged /\ disk'.manifest = disk.manifest
        /\ disk'.pdf = disk.pdf /\ disk'.receipt = disk.receipt /\ disk'.marker = disk.marker
    BY <1>1, <1>8 DEF FilesOK
  <2> QED  BY <1>1, <2>1 DEF DiskTypes
<1>9. ASSUME NEW j \in Jobs, NEW b \in {"original", "edited"},
             disk' = [disk EXCEPT !.manifest[j] = [bytes |-> b, id |-> edits + 1]]
      PROVE  DiskTypes'
  <2>1. PICK file : file = [bytes |-> b, id |-> edits + 1]
    OBVIOUS
  <2>2. PICK rows : rows = [disk.manifest EXCEPT ![j] = file]
    OBVIOUS
  <2>3. disk' = [disk EXCEPT !.manifest = rows]
    BY <1>9, <2>1, <2>2
  <2>4. /\ disk'.source = disk.source /\ disk'.staged = disk.staged /\ disk'.manifest = rows
        /\ disk'.pdf = disk.pdf /\ disk'.receipt = disk.receipt /\ disk'.marker = disk.marker
    BY <1>1, <2>3 DEF FilesOK
  <2>5. rows \in [Jobs -> File({"original", "edited"})]
    BY <1>1, <1>5, <2>1, <2>2 DEF DiskTypes
  <2> QED  BY <1>1, <2>4, <2>5 DEF DiskTypes
<1>10. ASSUME NEW j \in Jobs, NEW i \in 1 .. Sheets[j], NEW file \in File(Page),
              disk' = [disk EXCEPT !.pdf[j][i] = file]
       PROVE  DiskTypes'
  <2>1. OnlyPdf(j, i, file)
    BY <1>1, <1>10, PdfChanges
  <2> QED  BY <1>1, <1>10, <2>1 DEF OnlyPdf, SameInputs, DiskTypes
<1>11. ASSUME NEW j \in Jobs, disk.receipt[j] # Absent,
              disk' = [disk EXCEPT !.receipt[j].state = "malformed"]
       PROVE  DiskTypes'
  <2>1. PICK file : file = [disk.receipt[j] EXCEPT !.state = "malformed"]
    OBVIOUS
  <2>2. disk.receipt[j] \in Receipt
    BY <1>1, <1>11 DEF DiskTypes
  <2>3. file \in Receipt
    BY <2>1, <2>2 DEF Receipt
  <2>4. PICK rows : rows = [disk.receipt EXCEPT ![j] = file]
    OBVIOUS
  <2>5. disk' = [disk EXCEPT !.receipt = rows]
    BY <1>11, <2>1, <2>4
  <2>6. /\ disk'.source = disk.source /\ disk'.staged = disk.staged /\ disk'.manifest = disk.manifest
        /\ disk'.pdf = disk.pdf /\ disk'.receipt = rows /\ disk'.marker = disk.marker
    BY <1>1, <2>5 DEF FilesOK
  <2>7. rows \in [Jobs -> Receipt \cup {Absent}]
    BY <1>1, <2>3, <2>4 DEF DiskTypes
  <2> QED  BY <1>1, <2>6, <2>7 DEF DiskTypes
<1>12. PICK j \in Jobs :
       \/ \E b \in {"approved", "altered"} : disk' = [disk EXCEPT !.source[j] = [bytes |-> b, id |-> edits + 1]]
       \/ disk' = [disk EXCEPT !.staged[j] = "altered"]
       \/ disk' = [disk EXCEPT !.template = "altered"]
       \/ \E b \in {"original", "edited"} : disk' = [disk EXCEPT !.manifest[j] = [bytes |-> b, id |-> edits + 1]]
       \/ \E i \in 1 .. Sheets[j] :
            \/ \E b \in Page \ {"plotted"} :
                 disk' = [disk EXCEPT !.pdf[j][i] = [bytes |-> b, id |-> edits + 1]]
            \/ disk' = [disk EXCEPT !.pdf[j][i] = Absent]
       \/ disk.receipt[j] # Absent /\ disk' = [disk EXCEPT !.receipt[j].state = "malformed"]
  BY DEF Edit
<1>13. ASSUME NEW i \in 1 .. Sheets[j], NEW b \in Page,
              disk' = [disk EXCEPT !.pdf[j][i] = [bytes |-> b, id |-> edits + 1]]
       PROVE  DiskTypes'
  <2>1. PICK file : file = [bytes |-> b, id |-> edits + 1]
    OBVIOUS
  <2> QED  BY <1>5, <1>10, <1>13, <2>1
<1>14. ASSUME NEW i \in 1 .. Sheets[j], disk' = [disk EXCEPT !.pdf[j][i] = Absent] PROVE DiskTypes'
  <2>1. PICK file : file = Absent
    OBVIOUS
  <2> QED  BY <1>10, <1>14, <2>1 DEF File
<1> QED  BY <1>4, <1>6, <1>7, <1>8, <1>9, <1>11, <1>12, <1>13, <1>14

\* A step of the plug-in on one job.
LEMMA PluginTypes ==
  ASSUME EvidenceInv, EvidenceTypes, NEW j \in Jobs, PluginStep(j)
  PROVE  EvidenceTypes'
<1>1. FilesOK /\ DiskTypes /\ RunsOK /\ RunTypes(j, run[j]) /\ RunOK(j, run[j]) /\ Sheets[j] \in Nat /\ Sheets[j] > 0
  BY SheetCount DEF EvidenceInv, EvidenceTypes, RunsOK
<1>2. PICK r0 : r0 = run[j]
  OBVIOUS
<1>3. DOMAIN run = Jobs /\ DOMAIN r0 = {"pc", "n", "outputs"} /\ RunTypes(j, r0) /\ RunOK(j, r0)
  BY <1>1, <1>2 DEF RunsOK, RunOK
<1>4. ASSUME NEW r, run' = [run EXCEPT ![j] = r], RunTypes(j, r), DiskTypes', UNCHANGED pluginRest
      PROVE  EvidenceTypes'
  <2>1. UNCHANGED <<edits, reader, items, evidence, stale>>
    BY <1>4 DEF pluginRest
  <2>2. \A k \in Jobs : RunTypes(k, run'[k])
    BY <1>3, <1>4 DEF EvidenceTypes
  <2> QED  BY <1>4, <2>1, <2>2 DEF EvidenceTypes, ReaderTypes, RunTypes
<1>5. ASSUME disk' = disk PROVE DiskTypes'
  BY <1>1, <1>5 DEF DiskTypes
<1>6. ASSUME NEW pc, run' = [run EXCEPT ![j].pc = pc], pc # "hashing", pc # "pending",
             pc \in {"plotting", "promoting"} => r0.outputs = <<>>, DiskTypes', UNCHANGED pluginRest
      PROVE  EvidenceTypes'
  <2>1. PICK r : r = [r0 EXCEPT !.pc = pc]
    OBVIOUS
  <2>2. run' = [run EXCEPT ![j] = r]
    BY <1>2, <1>6, <2>1
  <2>3. r.pc = pc /\ r.n = r0.n /\ r.outputs = r0.outputs
    BY <1>3, <2>1
  <2>4. RunTypes(j, r)
    BY <1>3, <1>6, <2>3 DEF RunTypes
  <2> QED  BY <1>4, <1>6, <2>2, <2>4
<1>7. ASSUME Start(j) \/ Commit(j) PROVE EvidenceTypes'
  <2>1. disk' = disk /\ UNCHANGED pluginRest /\ r0.outputs = <<>>
    BY <1>2, <1>3, <1>7 DEF Start, Commit, RunTypes
  <2>2. PICK pc \in {"refused", "failing", "plotting", "promoting"} : run' = [run EXCEPT ![j].pc = pc]
    BY <1>7 DEF Start, Commit
  <2> QED  BY <1>5, <1>6, <2>1, <2>2
<1>8. ASSUME Cancel(j) PROVE EvidenceTypes'
  <2>1. PICK rows : rows = [disk.marker EXCEPT ![j] = "cancelled"]
    OBVIOUS
  <2>2. disk' = [disk EXCEPT !.marker = rows] /\ UNCHANGED pluginRest
    BY <1>8, <2>1 DEF Cancel
  <2>3. /\ disk'.source = disk.source /\ disk'.staged = disk.staged /\ disk'.manifest = disk.manifest
        /\ disk'.pdf = disk.pdf /\ disk'.receipt = disk.receipt /\ disk'.marker = rows
    BY <1>1, <2>2 DEF FilesOK
  <2>4. rows \in [Jobs -> {"cancelled", Absent}]
    BY <1>1, <2>1 DEF DiskTypes
  <2>5. DiskTypes'
    BY <1>1, <2>3, <2>4 DEF DiskTypes
  <2>6. PICK pc \in {"cancelled"} : run' = [run EXCEPT ![j].pc = pc]
    BY <1>8 DEF Cancel
  <2> QED  BY <1>6, <2>2, <2>5, <2>6
<1>9. ASSUME NEW i \in 1 .. Sheets[j], NEW file \in File(Page), disk' = [disk EXCEPT !.pdf[j][i] = file]
      PROVE  DiskTypes'
  <2>1. OnlyPdf(j, i, file)
    BY <1>1, <1>9, PdfChanges
  <2> QED  BY <1>1, <1>9, <2>1 DEF OnlyPdf, SameInputs, DiskTypes
<1>10. ASSUME Promote(j) PROVE EvidenceTypes'
  <2>1. r0.pc = "promoting" /\ r0.n \in 1 .. Sheets[j] /\ r0.outputs = <<>> /\ UNCHANGED pluginRest
    BY <1>2, <1>3, <1>10 DEF Promote, RunOK, RunTypes
  <2>2. DiskTypes'
    <3>1. PICK file : file = [bytes |-> "plotted", id |-> 0]
      OBVIOUS
    <3>2. file \in File(Page)
      BY <3>1, EvidenceAssumption DEF File, Page
    <3>3. disk' = [disk EXCEPT !.pdf[j][r0.n] = file]
      BY <1>2, <1>10, <3>1 DEF Promote
    <3> QED  BY <1>9, <2>1, <3>2, <3>3
  <2>3. CASE r0.n = Sheets[j]
    <3>1. PICK r : r = [r0 EXCEPT !.pc = "hashing", !.n = 1]
      OBVIOUS
    <3>2. run' = [run EXCEPT ![j] = r]
      BY <1>2, <1>10, <2>3, <3>1 DEF Promote
    <3>3. r.pc = "hashing" /\ r.n = 1 /\ r.outputs = <<>>
      BY <1>3, <2>1, <3>1
    <3>4. RunTypes(j, r)
      BY <1>1, <3>3, EmptySeq DEF RunTypes
    <3> QED  BY <1>4, <2>1, <2>2, <3>2, <3>4
  <2>4. CASE r0.n # Sheets[j]
    <3>1. PICK r : r = [r0 EXCEPT !.n = r0.n + 1]
      OBVIOUS
    <3>2. run' = [run EXCEPT ![j] = r]
      BY <1>2, <1>10, <2>4, <3>1 DEF Promote
    <3>3. r.pc = "promoting" /\ r.n = r0.n + 1 /\ r.outputs = r0.outputs
      BY <1>3, <2>1, <3>1
    <3>4. r.n \in 0 .. Sheets[j] + 1
      BY <1>1, <2>1, <3>3
    <3>5. RunTypes(j, r)
      BY <1>3, <2>1, <3>3, <3>4 DEF RunTypes
    <3> QED  BY <1>4, <2>1, <2>2, <3>2, <3>5
  <2> QED  BY <2>3, <2>4
<1>11. ASSUME NEW r, r = [r0 EXCEPT !.pc = "undoing", !.n = r0.n - 1], r0.n \in 1 .. Sheets[j],
              run' = [run EXCEPT ![j] = r], DiskTypes', UNCHANGED pluginRest
       PROVE  EvidenceTypes'
  <2>1. r.pc = "undoing" /\ r.n = r0.n - 1 /\ r.outputs = r0.outputs
    BY <1>3, <1>11
  <2>2. r.n \in 0 .. Sheets[j] + 1
    BY <1>1, <1>11, <2>1
  <2>3. RunTypes(j, r)
    BY <1>3, <2>1, <2>2 DEF RunTypes
  <2> QED  BY <1>4, <1>11, <2>3
<1>12. ASSUME PromotionFails(j) PROVE EvidenceTypes'
  <2>1. r0.n \in 1 .. Sheets[j] /\ disk' = disk /\ UNCHANGED pluginRest
    BY <1>2, <1>3, <1>12 DEF PromotionFails, RunOK
  <2>2. PICK r : r = [r0 EXCEPT !.pc = "undoing", !.n = r0.n - 1]
    OBVIOUS
  <2>3. run' = [run EXCEPT ![j] = r]
    BY <1>2, <1>12, <2>2 DEF PromotionFails
  <2> QED  BY <1>5, <1>11, <2>1, <2>2, <2>3
<1>13. ASSUME UndoCheck(j) PROVE EvidenceTypes'
  <2>1. disk' = disk /\ UNCHANGED pluginRest
    BY <1>13 DEF UndoCheck
  <2>2. PICK pc \in {"failing", "moving", "stuck"} : run' = [run EXCEPT ![j].pc = pc]
    BY <1>13 DEF UndoCheck
  <2> QED  BY <1>5, <1>6, <2>1, <2>2
<1>14. ASSUME UndoMove(j) PROVE EvidenceTypes'
  <2>1. r0.n \in 1 .. Sheets[j] /\ UNCHANGED pluginRest
    BY <1>2, <1>3, <1>14 DEF UndoMove, RunOK
  <2>2. CASE disk.pdf[j][r0.n] = Absent
    <3>1. disk' = disk
      BY <1>2, <1>14, <2>2 DEF UndoMove
    <3>2. PICK pc \in {"stuck"} : run' = [run EXCEPT ![j].pc = pc]
      BY <1>2, <1>14, <2>2 DEF UndoMove
    <3> QED  BY <1>5, <1>6, <2>1, <3>1, <3>2
  <2>3. CASE disk.pdf[j][r0.n] # Absent
    <3>1. PICK r : r = [r0 EXCEPT !.pc = "undoing", !.n = r0.n - 1]
      OBVIOUS
    <3>2. run' = [run EXCEPT ![j] = r]
      BY <1>2, <1>14, <2>3, <3>1 DEF UndoMove
    <3>3. PICK file : file = Absent
      OBVIOUS
    <3>4. disk' = [disk EXCEPT !.pdf[j][r0.n] = file]
      BY <1>2, <1>14, <2>3, <3>3 DEF UndoMove
    <3>5. DiskTypes'
      BY <1>9, <2>1, <3>3, <3>4 DEF File
    <3> QED  BY <1>11, <2>1, <3>1, <3>2, <3>5
  <2> QED  BY <2>2, <2>3
<1>15. ASSUME HashOutput(j) PROVE EvidenceTypes'
  <2>1. /\ r0.pc = "hashing" /\ r0.n \in 1 .. Sheets[j] /\ Len(r0.outputs) = r0.n - 1
        /\ r0.outputs \in Seq(Page) /\ disk' = disk /\ UNCHANGED pluginRest
    BY <1>2, <1>3, <1>15 DEF HashOutput, RunTypes
  <2>2. PICK file : file = disk.pdf[j][r0.n]
    OBVIOUS
  <2>3. CASE file = Absent \/ (r0.n = 1 /\ ~ Trusted(j))
    <3>1. PICK r : r = [r0 EXCEPT !.pc = "unrecorded"]
      OBVIOUS
    <3>2. run' = [run EXCEPT ![j] = r]
      BY <1>2, <1>15, <2>2, <2>3, <3>1 DEF HashOutput
    <3>3. r.pc = "unrecorded" /\ r.n = r0.n /\ r.outputs = r0.outputs
      BY <1>3, <3>1
    <3>4. RunTypes(j, r)
      BY <1>3, <3>3 DEF RunTypes
    <3> QED  BY <1>4, <1>5, <2>1, <3>2, <3>4
  <2>4. CASE ~ (file = Absent \/ (r0.n = 1 /\ ~ Trusted(j)))
    <3>1. PICK outputs : outputs = Append(r0.outputs, file.bytes)
      OBVIOUS
    <3>2. PICK pc : pc = IF r0.n = Sheets[j] THEN "receipting" ELSE "hashing"
      OBVIOUS
    <3>3. PICK r : r = [r0 EXCEPT !.outputs = outputs, !.n = r0.n + 1, !.pc = pc]
      OBVIOUS
    <3>4. run' = [run EXCEPT ![j] = r]
      BY <1>2, <1>15, <2>2, <2>4, <3>1, <3>2, <3>3 DEF HashOutput
    <3>5. file.bytes \in Page
      BY <1>1, <2>1, <2>2, <2>4 DEF DiskTypes, File
    <3>6. outputs \in Seq(Page) /\ Len(outputs) = r0.n
      <4>1. outputs \in Seq(Page) /\ Len(outputs) = Len(r0.outputs) + 1
        BY <2>1, <3>1, <3>5, AppendProperties
      <4> QED  BY <1>1, <2>1, <4>1
    <3>7. r.pc = pc /\ r.n = r0.n + 1 /\ r.outputs = outputs
      BY <1>3, <3>3
    <3>8. /\ r.n \in 0 .. Sheets[j] + 1 /\ Len(r.outputs) <= Sheets[j] /\ r.outputs \in Seq(Page)
          /\ r.pc = "hashing" => r.n \in 1 .. Sheets[j] /\ Len(r.outputs) = r.n - 1
      BY <1>1, <2>1, <3>2, <3>6, <3>7
    <3>9. RunTypes(j, r)
      BY <3>2, <3>7, <3>8 DEF RunTypes
    <3> QED  BY <1>4, <1>5, <2>1, <3>4, <3>9
  <2> QED  BY <2>3, <2>4
<1>16. ASSUME WriteReceipt(j) PROVE EvidenceTypes'
  <2>1. PICK state \in {"succeeded", "failed"} : state = IF r0.pc = "receipting" THEN "succeeded" ELSE "failed"
    OBVIOUS
  <2>2. PICK file : file = [state |-> state, manifest |-> "original", outputs |-> r0.outputs]
    OBVIOUS
  <2>3. file \in Receipt
    BY <1>3, <2>2 DEF Receipt, RunTypes
  <2>4. PICK rows : rows = [disk.receipt EXCEPT ![j] = file]
    OBVIOUS
  <2>5. disk' = [disk EXCEPT !.receipt = rows] /\ UNCHANGED pluginRest
    BY <1>2, <1>16, <2>1, <2>2, <2>4 DEF WriteReceipt
  <2>6. /\ disk'.source = disk.source /\ disk'.staged = disk.staged /\ disk'.manifest = disk.manifest
        /\ disk'.pdf = disk.pdf /\ disk'.receipt = rows /\ disk'.marker = disk.marker
    BY <1>1, <2>5 DEF FilesOK
  <2>7. rows \in [Jobs -> Receipt \cup {Absent}]
    BY <1>1, <2>3, <2>4 DEF DiskTypes
  <2>8. DiskTypes'
    BY <1>1, <2>6, <2>7 DEF DiskTypes
  <2>9. PICK pc \in {"succeeded", "failed", "partial"} : run' = [run EXCEPT ![j].pc = pc]
    BY <1>16 DEF WriteReceipt
  <2> QED  BY <1>6, <2>5, <2>8, <2>9
<1>17. ASSUME Lost(j) PROVE EvidenceTypes'
  <2>1. disk' = disk /\ UNCHANGED pluginRest
    BY <1>17 DEF Lost
  <2>2. PICK pc \in {"lost"} : run' = [run EXCEPT ![j].pc = pc]
    BY <1>17 DEF Lost
  <2> QED  BY <1>5, <1>6, <2>1, <2>2
<1> QED  BY <1>7, <1>8, <1>10, <1>12, <1>13, <1>14, <1>15, <1>16, <1>17 DEF PluginStep

\* A step of the reader that ends or begins the reading of a job.
LEMMA ReaderTypesFrame ==
  ASSUME EvidenceTypes, NEW r, reader' = r, ReaderTypes(r), items' \in [Jobs -> Statuses],
         evidence' \subseteq Jobs, UNCHANGED readerRest
  PROVE  EvidenceTypes'
<1>1. disk' = disk /\ edits' = edits /\ run' = run /\ stale' = stale
  BY DEF readerRest
<1>2. DiskTypes' /\ \A j \in Jobs : RunTypes(j, run'[j])
  BY <1>1 DEF EvidenceTypes, DiskTypes
<1> QED  BY <1>1, <1>2 DEF EvidenceTypes, ReaderTypes, RunTypes

\* A fresh reader of any job.
LEMMA FreshTypes ==
  ASSUME NEW r, r.cur \in Jobs, r.pdf = <<>>, r.pc \in {"manifest", "idle"}
  PROVE  ReaderTypes(r)
<1>1. Sheets[r.cur] \in Nat /\ Sheets[r.cur] > 0
  BY SheetCount
<1>2. r.pdf \in Seq(Verdicts) /\ Len(r.pdf) = 0
  BY EmptySeq
<1> QED  BY <1>1, <1>2 DEF ReaderTypes

\* So is the one when no call is under way.
LEMMA NoCallTypes == ReaderTypes(NoCall)
<1>1. NoCall.cur = 1 /\ NoCall.pdf = <<>> /\ NoCall.pc = "idle"
  BY DEF NoCall
<1>2. 1 \in Jobs
  BY EvidenceAssumption DEF Jobs
<1> QED  BY <1>1, <1>2, FreshTypes

\* The end of a job of a report.
LEMMA ItemTypes ==
  ASSUME EvidenceInv, EvidenceTypes, NEW status \in Statuses, AfterItem(status)
  PROVE  EvidenceTypes'
<1>1. cur \in Jobs /\ UNCHANGED readerRest /\ evidence' = evidence /\ items' = [items EXCEPT ![cur] = status]
  BY DEF EvidenceTypes, ReaderTypes, AfterItem, cur
<1>2. items' \in [Jobs -> Statuses]
  BY <1>1 DEF EvidenceTypes
<1>3. PICK next : next = [NoCall EXCEPT !.call = reader.call, !.pc = "manifest"]
  OBVIOUS
<1>4. DOMAIN next = DOMAIN NoCall /\ next.pc = "manifest" /\ next.cur = 1 /\ next.pdf = <<>>
  BY <1>3 DEF NoCall
<1>5. PICK a : a = [next EXCEPT !.cur = cur + 1, !.stage = "report"]
  OBVIOUS
<1>6. a.pc = "manifest" /\ a.cur = cur + 1 /\ a.pdf = <<>>
  BY <1>4, <1>5, FreshReader
<1>7. PICK b : b = [next EXCEPT !.stage = "evidence"]
  OBVIOUS
<1>8. b.pc = "manifest" /\ b.cur = 1 /\ b.pdf = <<>>
  BY <1>4, <1>7, FreshReader
<1>9. reader' = NoCall \/ (cur # JobCount /\ reader' = a) \/ reader' = b
  BY <1>3, <1>5, <1>7 DEF AfterItem, LastJob, cur
<1>10. 1 \in Jobs /\ (cur # JobCount => cur + 1 \in Jobs)
  BY <1>1, EvidenceAssumption DEF Jobs
<1>11. ReaderTypes(b) /\ (cur # JobCount => ReaderTypes(a))
  BY <1>6, <1>8, <1>10, FreshTypes
<1>12. PICK r : r = reader'
  OBVIOUS
<1>13. ReaderTypes(r)
  BY <1>9, <1>11, <1>12, NoCallTypes
<1> QED  BY <1>1, <1>2, <1>12, <1>13, ReaderTypesFrame DEF EvidenceTypes

\* A read that raises.
LEMMA RaiseTypes ==
  ASSUME EvidenceInv, EvidenceTypes, Raise
  PROVE  EvidenceTypes'
<1>1. CASE reader.stage = "report"
  <2>1. PICK status \in {"invalid_job"} : AfterItem(status)
    BY <1>1 DEF Raise
  <2> QED  BY <2>1, ItemTypes DEF Statuses
<1>2. CASE reader.stage # "report"
  <2>1. PICK r : r = NoCall
    OBVIOUS
  <2>2. reader' = r /\ evidence' = {} /\ items' = items /\ UNCHANGED readerRest
    BY <1>2, <2>1 DEF Raise
  <2> QED  BY <2>1, <2>2, NoCallTypes, ReaderTypesFrame DEF EvidenceTypes
<1> QED  BY <1>1, <1>2

\* A step of the reader on the job it is at.
LEMMA ReaderGoesOnTypes ==
  ASSUME EvidenceInv, EvidenceTypes, NEW r, reader' = r, UNCHANGED <<items, evidence, readerRest>>,
         r.cur = reader.cur, r.pdf = reader.pdf,
         \/ r.pc \notin {"manifest", "staged", "validated", "pdf"}
         \/ r.pc \in {"staged", "validated", "pdf"} /\ reader.pc \in {"manifest", "staged", "validated"}
  PROVE  EvidenceTypes'
<1>1. ReaderTypes(reader) /\ Sheets[reader.cur] \in Nat /\ Sheets[reader.cur] > 0
  BY SheetCount DEF EvidenceTypes, ReaderTypes
<1>2. r.pc \in {"staged", "validated", "pdf"} => r.pdf = <<>> /\ Len(r.pdf) = 0
  BY <1>1, EmptySeq DEF ReaderTypes
<1>3. ReaderTypes(r)
  BY <1>1, <1>2 DEF ReaderTypes
<1> QED  BY <1>3, ReaderTypesFrame DEF EvidenceTypes

\* The reader's steps keep it, and what it concluded, within their types.
LEMMA ReaderTypesStep ==
  ASSUME EvidenceInv, EvidenceTypes, ReaderStep
  PROVE  EvidenceTypes'
<1>0. /\ SeenOK(reader) /\ ReaderTypes(reader) /\ cur \in Jobs /\ reader.cur = cur
      /\ Sheets[cur] \in Nat /\ Sheets[cur] > 0
  BY SheetCount DEF EvidenceInv, EvidenceTypes, ReaderTypes, cur
<1>a. DOMAIN reader = {"call", "stage", "pc", "cur", "manifest", "pdf", "receipt", "source", "cancelled"}
  BY <1>0 DEF SeenOK
<1>1. ASSUME NEW call, NEW j \in Jobs, BeginCall(call, j) PROVE EvidenceTypes'
  <2>1. PICK stage : stage = IF call = "pilot" THEN "evidence" ELSE "report"
    OBVIOUS
  <2>2. PICK r : r = [NoCall EXCEPT !.call = call, !.cur = j, !.pc = "manifest", !.stage = stage]
    OBVIOUS
  <2>3. r.pc = "manifest" /\ r.cur = j /\ r.pdf = <<>>
    BY <2>2 DEF NoCall
  <2>4. /\ reader' = r /\ items' = [k \in Jobs |-> "none"] /\ evidence' = {} /\ stale' = Changed(disk)
        /\ disk' = disk /\ edits' = edits /\ run' = run
    BY <1>1, <2>1, <2>2 DEF BeginCall
  <2>5. ReaderTypes(r)
    BY <2>3, FreshTypes
  <2>6. items' \in [Jobs -> Statuses] /\ stale' \subseteq Jobs
    BY <2>4 DEF Statuses, Changed
  <2>7. DiskTypes'
    BY <2>4 DEF EvidenceTypes, DiskTypes
  <2> QED  BY <2>4, <2>5, <2>6, <2>7 DEF EvidenceTypes, ReaderTypes, RunTypes
<1>2. ASSUME NEW pc, Then(pc),
             \/ pc \notin {"manifest", "staged", "validated", "pdf"}
             \/ pc \in {"staged", "validated", "pdf"} /\ reader.pc \in {"manifest", "staged", "validated"}
      PROVE  EvidenceTypes'
  <2>1. PICK r : r = [reader EXCEPT !.pc = pc]
    OBVIOUS
  <2>2. r.pc = pc /\ r.cur = reader.cur /\ r.pdf = reader.pdf
    BY <1>a, <2>1
  <2>3. reader' = r /\ UNCHANGED <<items, evidence, readerRest>>
    BY <1>2, <2>1 DEF Then
  <2> QED  BY <1>2, <2>2, <2>3, ReaderGoesOnTypes
<1>3. ASSUME ReadFails PROVE EvidenceTypes'
  BY <1>3, RaiseTypes DEF ReadFails
<1>4. ASSUME LoadManifest PROVE EvidenceTypes'
  <2>1. PICK r : r = [reader EXCEPT !.pc = "staged", !.manifest = disk.manifest[cur]]
    OBVIOUS
  <2>2. r.pc = "staged" /\ r.cur = reader.cur /\ r.pdf = reader.pdf
    BY <1>a, <2>1
  <2>3. reader' = r /\ UNCHANGED <<items, evidence, readerRest>> /\ reader.pc = "manifest"
    BY <1>4, <2>1 DEF LoadManifest
  <2> QED  BY <2>2, <2>3, ReaderGoesOnTypes
<1>5. ASSUME VerifyStaged PROVE EvidenceTypes'
  <2>1. reader.pc = "staged" /\ (Raise \/ Then("validated"))
    BY <1>5 DEF VerifyStaged
  <2> QED  BY <1>2, <2>1, RaiseTypes
<1>6. ASSUME Validated PROVE EvidenceTypes'
  <2>1. reader.pc = "validated" /\ (Raise \/ Then("pdf"))
    BY <1>6 DEF Validated
  <2> QED  BY <1>2, <2>1, RaiseTypes
<1>7. ASSUME AuditPdf PROVE EvidenceTypes'
  <2>1. PICK i : i = Len(reader.pdf) + 1
    OBVIOUS
  <2>2. PICK file : file = disk.pdf[cur][i]
    OBVIOUS
  <2>3. PICK pc : pc = IF i = Sheets[cur] THEN "receipt" ELSE "pdf"
    OBVIOUS
  <2>4. PICK v \in {Verdict(file)} \cup (IF file = Absent THEN {} ELSE {"invalid"}) :
          reader' = [reader EXCEPT !.pdf = Append(@, v), !.pc = pc]
    BY <1>7, <2>1, <2>2, <2>3 DEF AuditPdf
  <2>5. v \in Verdicts
    <3>1. Verdict(file) \in Verdicts
      BY DEF Verdict, Verdicts, Valid
    <3>2. "invalid" \in Verdicts
      BY DEF Verdicts
    <3> QED  BY <2>4, <3>1, <3>2
  <2>6. PICK pdf : pdf = Append(reader.pdf, v)
    OBVIOUS
  <2>7. pdf \in Seq(Verdicts) /\ Len(pdf) = i
    BY <1>0, <2>1, <2>5, <2>6, AppendProperties DEF ReaderTypes
  <2>8. PICK r : r = [reader EXCEPT !.pdf = pdf, !.pc = pc]
    OBVIOUS
  <2>9. r.pc = pc /\ r.cur = cur /\ r.pdf = pdf /\ reader' = r
    BY <1>0, <1>a, <2>4, <2>6, <2>8
  <2>10. reader.pc = "pdf" /\ UNCHANGED <<items, evidence, readerRest>>
    BY <1>7 DEF AuditPdf
  <2>11. i \in Nat /\ i <= Sheets[cur] /\ (pc = "pdf" => i < Sheets[cur]) /\ pc \in {"pdf", "receipt"}
    <3>1. Len(reader.pdf) \in Nat /\ Len(reader.pdf) < Sheets[cur]
      BY <1>0, <2>10, LenProperties DEF ReaderTypes
    <3> QED  BY <1>0, <2>1, <2>3, <3>1
  <2>12. ReaderTypes(r)
    BY <1>0, <2>7, <2>9, <2>11 DEF ReaderTypes
  <2> QED  BY <2>9, <2>10, <2>12, ReaderTypesFrame DEF EvidenceTypes
<1>8. ASSUME ReadReceipt PROVE EvidenceTypes'
  <2>1. PICK receipt : receipt = disk.receipt[cur]
    OBVIOUS
  <2>2. PICK r : r = [reader EXCEPT !.pc = "source", !.receipt = receipt]
    OBVIOUS
  <2>3. r.pc = "source" /\ r.cur = reader.cur /\ r.pdf = reader.pdf
    BY <1>a, <2>2
  <2>4. Raise \/ (reader' = r /\ UNCHANGED <<items, evidence, readerRest>>)
    BY <1>8, <2>1, <2>2 DEF ReadReceipt
  <2> QED  BY <2>3, <2>4, RaiseTypes, ReaderGoesOnTypes
<1>9. ASSUME FingerprintSource PROVE EvidenceTypes'
  <2>1. PICK r : r = [reader EXCEPT !.pc = "audited", !.source = disk.source[cur]]
    OBVIOUS
  <2>2. r.pc = "audited" /\ r.cur = reader.cur /\ r.pdf = reader.pdf
    BY <1>a, <2>1
  <2>3. reader' = r /\ UNCHANGED <<items, evidence, readerRest>>
    BY <1>9, <2>1 DEF FingerprintSource
  <2> QED  BY <2>2, <2>3, ReaderGoesOnTypes
<1>10. ASSUME Audited PROVE EvidenceTypes'
  <2>1. Raise \/ Then("marker") \/ Then("again")
    BY <1>10 DEF Audited
  <2> QED  BY <1>2, <2>1, RaiseTypes
<1>11. ASSUME ReadMarker PROVE EvidenceTypes'
  <2>1. PICK r : r = [reader EXCEPT !.pc = "classify", !.cancelled = disk.marker[cur] # Absent]
    OBVIOUS
  <2>2. r.pc = "classify" /\ r.cur = reader.cur /\ r.pdf = reader.pdf
    BY <1>a, <2>1
  <2>3. reader' = r /\ UNCHANGED <<items, evidence, readerRest>>
    BY <1>11, <2>1 DEF ReadMarker
  <2> QED  BY <2>2, <2>3, ReaderGoesOnTypes
<1>12. ASSUME Classify PROVE EvidenceTypes'
  <2>1. PICK status \in Statuses : status = Status
    BY DEF Status, Statuses
  <2>2. Raise \/ AfterItem(status)
    BY <1>12, <2>1 DEF Classify
  <2> QED  BY <2>1, <2>2, RaiseTypes, ItemTypes
<1>13. ASSUME Again \/ RefingerprintSource \/ RefingerprintStaged PROVE EvidenceTypes'
  <2>1. Raise \/ Then("resource") \/ Then("restaged") \/ Then("vouch")
    BY <1>13 DEF Again, RefingerprintSource, RefingerprintStaged
  <2> QED  BY <1>2, <2>1, RaiseTypes
<1>14. ASSUME Vouch PROVE EvidenceTypes'
  <2>1. CASE ~ ManifestUnchanged
    BY <1>14, <2>1, RaiseTypes DEF Vouch
  <2>2. CASE ManifestUnchanged
    <3>1. PICK b : b = [NoCall EXCEPT !.call = "recovery", !.stage = "evidence", !.cur = cur + 1,
                                      !.pc = "manifest"]
      OBVIOUS
    <3>2. b.pc = "manifest" /\ b.cur = cur + 1 /\ b.pdf = <<>>
      BY <3>1 DEF NoCall
    <3>3. /\ evidence' = evidence \cup {cur} /\ items' = items /\ UNCHANGED readerRest
          /\ reader' = NoCall \/ (cur # JobCount /\ reader' = b)
      BY <1>0, <1>14, <2>2, <3>1 DEF Vouch, LastJob
    <3>4. cur # JobCount => cur + 1 \in Jobs
      BY <1>0, EvidenceAssumption DEF Jobs
    <3>5. PICK r : r = reader'
      OBVIOUS
    <3>6. ReaderTypes(r)
      BY <3>2, <3>3, <3>4, <3>5, FreshTypes, NoCallTypes
    <3>7. evidence' \subseteq Jobs /\ items' \in [Jobs -> Statuses]
      BY <1>0, <3>3 DEF EvidenceTypes
    <3> QED  BY <3>3, <3>5, <3>6, <3>7, ReaderTypesFrame
  <2> QED  BY <2>1, <2>2
<1> QED  BY <1>1, <1>3, <1>4, <1>5, <1>6, <1>7, <1>8, <1>9, <1>10, <1>11, <1>12, <1>13, <1>14 DEF ReaderStep

\* At first no file but the inputs is there, and nobody has read anything.
LEMMA EvidenceTypesStart == EvidenceInit => EvidenceTypes
<1> SUFFICES ASSUME EvidenceInit PROVE EvidenceTypes
  OBVIOUS
<1>1. PICK file \in {[bytes |-> "approved", id |-> 0]} : disk.source = [j \in Jobs |-> file]
  BY DEF EvidenceInit
<1>2. PICK manifest \in {[bytes |-> "original", id |-> 0]} : disk.manifest = [j \in Jobs |-> manifest]
  BY DEF EvidenceInit
<1>3. /\ disk.staged = [j \in Jobs |-> "approved"]
      /\ disk.pdf = [j \in Jobs |-> [i \in 1 .. Sheets[j] |-> Absent]]
      /\ disk.receipt = [j \in Jobs |-> Absent] /\ disk.marker = [j \in Jobs |-> Absent]
  BY DEF EvidenceInit
<1>4. file \in File({"approved", "altered"}) /\ manifest \in File({"original", "edited"})
  BY EvidenceAssumption DEF File
<1>5. DiskTypes
  BY <1>1, <1>2, <1>3, <1>4 DEF DiskTypes, File
<1>6. ASSUME NEW j \in Jobs PROVE RunTypes(j, run[j])
  <2>1. PICK r : r = [pc |-> "pending", n |-> 1, outputs |-> <<>>]
    OBVIOUS
  <2>2. run[j] = r
    BY <2>1 DEF EvidenceInit
  <2>3. r.pc = "pending" /\ r.n = 1 /\ r.outputs = <<>>
    BY <2>1
  <2>4. Sheets[j] \in Nat /\ Len(<<>>) = 0
    BY SheetCount
  <2>5. RunTypes(j, r)
    BY <2>3, <2>4, EmptySeq DEF RunTypes
  <2> QED  BY <2>2, <2>5
<1>7. reader = NoCall /\ items = [j \in Jobs |-> "none"] /\ edits = 0 /\ evidence = {} /\ stale = {}
  BY DEF EvidenceInit
<1>8. items \in [Jobs -> Statuses] /\ edits \in 0 .. MaxEdits
  BY <1>7, EvidenceAssumption DEF Statuses
<1> QED  BY <1>5, <1>6, <1>7, <1>8, NoCallTypes DEF EvidenceTypes

\* The files of the jobs, and what the audit, the report and the records say of them,
\* stay within their types.
THEOREM EvidenceTypeCorrect == EvidenceSpec => []EvidenceTypeOK
<1>1. EvidenceInv /\ EvidenceTypes /\ [EvidenceNext]_evidenceVars => EvidenceTypes'
  <2> SUFFICES ASSUME EvidenceInv, EvidenceTypes, [EvidenceNext]_evidenceVars PROVE EvidenceTypes'
    OBVIOUS
  <2>1. CASE UNCHANGED evidenceVars
    BY <2>1 DEF evidenceVars, EvidenceTypes, DiskTypes, ReaderTypes, RunTypes
  <2> QED  BY <2>1, EditTypes, PluginTypes, ReaderTypesStep DEF EvidenceNext
<1>2. EvidenceTypes => EvidenceTypeOK
  BY DEF EvidenceTypes, EvidenceTypeOK, DiskTypes, RunTypes, ReaderTypes, Statuses, cur
<1> QED  BY <1>1, <1>2, EvidenceTypesStart, EvidenceIsSound, PTL DEF EvidenceSpec

(***************************************************************************)
(* Acceptance of a release kit.                                            *)
(***************************************************************************)

\* An artifact that was rewritten has a modification time no earlier read has seen.
KitOK ==
  /\ writes \in Nat /\ DOMAIN kit = Artifacts
  /\ \A a \in Artifacts : kit[a].build \in Builds /\ kit[a].time \in 0 .. writes

\* What was seen belongs to one build, and what is no longer so was rewritten since.
SeenKit(c) ==
  /\ \A a \in DOMAIN c.seen :
       /\ c.seen[a].build \in Builds /\ c.seen[a].time \in 0 .. writes
       /\ "outer" \in DOMAIN c.seen /\ c.seen[a].build = c.seen["outer"].build

\* The files whose fingerprint is still to be compared are the only ones that may have
\* changed; if none of them has, the disk held the whole build when the first pass ended.
CollectorOK(c) ==
  /\ DOMAIN c = {"command", "pass", "claim", "left", "seen"}
  /\ c.pass # 0 => Complete(kit) \subseteq whole
  /\ SeenKit(c)
  /\ c.pass = 1 => c.left \subseteq Artifacts /\ DOMAIN c.seen = Artifacts \ c.left
  /\ c.pass = 2 =>
       /\ c.left \subseteq Artifacts /\ DOMAIN c.seen = Artifacts
       /\ (\A a \in c.left : kit[a] = c.seen[a]) => c.seen["manifest"].build \in whole
  /\ c.pass \in {3, 4} => c.claim \in whole

AcceptanceInv == KitOK /\ CollectorOK(collector) /\ AcceptedIsOneKit

\* A command that ends, or was not begun, knows nothing.
LEMMA IdleKnowsNothing ==
  /\ CollectorOK(Idle)
  /\ DOMAIN Idle = {"command", "pass", "claim", "left", "seen"}
<1>1. DOMAIN Idle = {"command", "pass", "claim", "left", "seen"} /\ Idle.pass = 0
      /\ DOMAIN Idle.seen = {}
  BY DEF Idle
<1> QED
  BY <1>1 DEF CollectorOK, SeenKit

\* A step that leaves the kit alone and accepts nothing.
LEMMA CollectorGoesOn ==
  ASSUME AcceptanceInv, NEW c, collector' = c, CollectorOK(c), UNCHANGED <<accepted, whole, rest>>
  PROVE  AcceptanceInv'
<1>1. kit' = kit /\ writes' = writes /\ whole' = whole /\ accepted' = accepted
  BY DEF rest
<1>2. KitOK' /\ AcceptedIsOneKit'
  BY <1>1 DEF AcceptanceInv, KitOK, AcceptedIsOneKit
<1>3. CollectorOK(collector)'
  BY <1>1 DEF CollectorOK, SeenKit, Complete
<1> QED
  BY <1>2, <1>3 DEF AcceptanceInv

\* The command ends without accepting.
LEMMA StopKeeps ==
  ASSUME AcceptanceInv, Stop
  PROVE  AcceptanceInv'
<1> PICK c : c = Idle
  OBVIOUS
<1>1. CollectorOK(c) /\ collector' = c /\ UNCHANGED <<accepted, whole, rest>>
  BY IdleKnowsNothing DEF Stop
<1> QED
  BY <1>1, CollectorGoesOn

\* Another kit is being copied over the one that is read.
LEMMA RewriteKeeps ==
  ASSUME AcceptanceInv, NEW a \in Artifacts, NEW b \in Builds, Rewrite(a, b)
  PROVE  AcceptanceInv'
<1>1. KitOK /\ CollectorOK(collector) /\ AcceptedIsOneKit
  BY DEF AcceptanceInv
<1> PICK file : file = [build |-> b, time |-> writes + 1]
  OBVIOUS
<1>2. file.build = b /\ file.time = writes + 1
  OBVIOUS
<1>3. /\ writes' = writes + 1 /\ kit' = [kit EXCEPT ![a] = file]
      /\ whole' = whole \cup Complete(kit') /\ collector' = collector /\ accepted' = accepted
  BY DEF Rewrite
<1>4. writes \in Nat /\ writes' \in Nat /\ kit'[a] = file /\ DOMAIN kit' = Artifacts
      /\ \A o \in Artifacts : o # a => kit'[o] = kit[o]
  BY <1>1, <1>3 DEF KitOK
<1>5. KitOK'
  BY <1>1, <1>2, <1>3, <1>4 DEF KitOK
<1> PICK c : c = collector
  OBVIOUS
<1>6. CollectorOK(c)
  BY <1>1
<1>7. \A o \in DOMAIN c.seen : c.seen[o].time \in 0 .. writes /\ c.seen[o].time \in 0 .. writes'
  BY <1>3, <1>4, <1>6 DEF CollectorOK, SeenKit
<1>8. a \in DOMAIN c.seen => kit'[a] # c.seen[a]
  BY <1>2, <1>4, <1>7
<1>9. c.pass = 2 => /\ c.left \subseteq Artifacts /\ DOMAIN c.seen = Artifacts
                    /\ (\A o \in c.left : kit'[o] = c.seen[o])
                         => c.seen["manifest"].build \in whole'
  BY <1>3, <1>4, <1>6, <1>8 DEF CollectorOK
<1>10. CollectorOK(collector)'
  BY <1>3, <1>6, <1>7, <1>9 DEF CollectorOK, SeenKit, Complete
<1>11. AcceptedIsOneKit'
  BY <1>1, <1>3 DEF AcceptedIsOneKit
<1> QED
  BY <1>5, <1>10, <1>11 DEF AcceptanceInv

\* A command begins: it has read nothing, and the kit is whole or it is not.
LEMMA BeginKeeps ==
  ASSUME AcceptanceInv, NEW command, Begin(command)
  PROVE  AcceptanceInv'
<1> PICK claim : claim = IF command = "finalize" THEN NoBuild ELSE acceptance
  OBVIOUS
<1> PICK c : c = [Idle EXCEPT !.command = command, !.pass = 1, !.left = Artifacts, !.claim = claim]
  OBVIOUS
<1>1. /\ collector' = c /\ whole' = Complete(kit) /\ accepted' = NoBuild
      /\ kit' = kit /\ writes' = writes
  BY DEF Begin, rest
<1>2. DOMAIN c = {"command", "pass", "claim", "left", "seen"} /\ c.pass = 1
      /\ c.left = Artifacts /\ DOMAIN c.seen = {}
  BY DEF Idle
<1>3. CollectorOK(collector)'
  BY <1>1, <1>2 DEF CollectorOK, SeenKit, Complete
<1>4. KitOK' /\ AcceptedIsOneKit'
  BY <1>1 DEF AcceptanceInv, KitOK, AcceptedIsOneKit
<1> QED
  BY <1>3, <1>4 DEF AcceptanceInv

\* The first pass: an artifact fits what was read before it.
LEMMA ReadKeeps ==
  ASSUME AcceptanceInv, NEW a \in Artifacts, Read(a)
  PROVE  AcceptanceInv'
<1>1. KitOK /\ CollectorOK(collector) /\ collector.pass = 1 /\ a \in collector.left
      /\ Before(a) \cap collector.left = {}
  BY DEF AcceptanceInv, Read
<1>2. CASE Fits(a, kit[a])
  <2> PICK seen : seen = [o \in DOMAIN collector.seen \cup {a} |->
                            IF o = a THEN kit[a] ELSE collector.seen[o]]
    OBVIOUS
  <2> PICK left : left = collector.left \ {a}
    OBVIOUS
  <2> PICK next : next = IF left = {} THEN Artifacts ELSE left
    OBVIOUS
  <2> PICK pass \in {1, 2} : pass = IF left = {} THEN 2 ELSE 1
    OBVIOUS
  <2> PICK c : c = [collector EXCEPT !.seen = seen, !.left = next, !.pass = pass]
    OBVIOUS
  <2>1. collector' = c /\ UNCHANGED <<accepted, whole, rest>>
    BY <1>2 DEF Read
  <2>2. DOMAIN c = DOMAIN collector /\ c.seen = seen /\ c.left = next /\ c.pass = pass
    BY <1>1 DEF CollectorOK
  <2>3. /\ DOMAIN seen = DOMAIN collector.seen \cup {a} /\ seen[a] = kit[a]
        /\ \A o \in DOMAIN collector.seen : o # a => seen[o] = collector.seen[o]
    OBVIOUS
  <2>4. collector.left \subseteq Artifacts /\ DOMAIN collector.seen = Artifacts \ collector.left
        /\ a \notin DOMAIN collector.seen
    BY <1>1 DEF CollectorOK
  <2>5. DOMAIN seen = Artifacts \ left /\ left \subseteq Artifacts
    BY <2>3, <2>4
  <2>6. a # "outer" => "outer" \in Before(a)
    BY DEF Before, Artifacts, KitFiles
  <2>7. a # "outer" => "outer" \in DOMAIN collector.seen
                       /\ collector.seen["outer"].build = kit[a].build
    BY <1>1, <1>2, <2>4, <2>6 DEF Fits, Artifacts
  <2>8. a = "outer" => DOMAIN collector.seen = {}
    BY <1>1, <2>4 DEF CollectorOK, SeenKit
  <2>9. SeenKit(c)
    <3>1. ASSUME NEW o \in DOMAIN seen
          PROVE  /\ seen[o].build \in Builds /\ seen[o].time \in 0 .. writes
                 /\ "outer" \in DOMAIN seen /\ seen[o].build = seen["outer"].build
      <4>1. CASE a = "outer"
        BY <1>1, <2>3, <2>8, <3>1, <4>1 DEF KitOK
      <4>2. CASE a # "outer" /\ o = a
        BY <1>1, <2>3, <2>7, <4>2 DEF KitOK
      <4>3. CASE a # "outer" /\ o # a
        BY <1>1, <2>3, <2>7, <3>1, <4>3 DEF CollectorOK, SeenKit
      <4> QED
        BY <4>1, <4>2, <4>3
    <3> QED
      BY <2>2, <3>1 DEF SeenKit
  <2>10. CASE left # {}
    <3>1. c.pass = 1 /\ c.left = left
      BY <2>2, <2>10
    <3> QED
      <4>1. CollectorOK(c)
        BY <1>1, <2>2, <2>5, <2>9, <3>1 DEF CollectorOK
      <4> QED
        BY <2>1, <4>1, CollectorGoesOn
  <2>11. CASE left = {}
    <3>1. c.pass = 2 /\ c.left = Artifacts /\ DOMAIN c.seen = Artifacts
      BY <2>2, <2>5, <2>11
    <3>2. ASSUME \A o \in Artifacts : kit[o] = c.seen[o]
          PROVE  c.seen["manifest"].build \in whole
      <4> PICK b : b = c.seen["manifest"].build
        OBVIOUS
      <4>1. b \in Builds /\ b = c.seen["outer"].build
        BY <2>9, <3>1 DEF SeenKit, Artifacts
      <4>2. \A o \in Artifacts : kit[o].build = b
        BY <2>9, <3>1, <3>2, <4>1 DEF SeenKit
      <4>3. b \in Complete(kit)
        BY <4>1, <4>2 DEF Complete
      <4> QED
        BY <1>1, <4>3 DEF CollectorOK
    <3>3. CollectorOK(c)
      BY <1>1, <2>2, <2>9, <3>1, <3>2 DEF CollectorOK
    <3> QED
      BY <2>1, <3>3, CollectorGoesOn
  <2> QED
    BY <2>10, <2>11
<1>3. CASE ~ Fits(a, kit[a])
  BY <1>3, StopKeeps DEF Read
<1> QED
  BY <1>2, <1>3

\* The second pass: an artifact still has the fingerprint it had.
LEMMA RecheckKeeps ==
  ASSUME AcceptanceInv, NEW a \in Artifacts, Recheck(a)
  PROVE  AcceptanceInv'
<1>1. KitOK /\ CollectorOK(collector) /\ collector.pass = 2 /\ a \in collector.left
  BY DEF AcceptanceInv, Recheck
<1> PICK left : left = collector.left \ {a}
  OBVIOUS
<1> PICK more : more = [collector EXCEPT !.left = left]
  OBVIOUS
<1> PICK done : done = [collector EXCEPT !.left = {}, !.pass = 3]
  OBVIOUS
<1> PICK claim : claim = collector.seen["manifest"].build
  OBVIOUS
<1> PICK again : again = [Idle EXCEPT !.command = "finalize", !.pass = 1, !.left = Artifacts,
                                      !.claim = claim]
  OBVIOUS
<1>2. \/ Stop
      \/ /\ kit[a] = collector.seen[a] /\ UNCHANGED <<accepted, whole, rest>>
         /\ \/ left # {} /\ collector' = more
            \/ left = {} /\ collector' = again
            \/ left = {} /\ collector.claim = claim /\ collector' = done
  BY DEF Recheck, Unchanged, CollectAgain, Collected
<1>3. ASSUME kit[a] = collector.seen[a]
      PROVE  (\A o \in left : kit[o] = collector.seen[o]) => claim \in whole
  BY <1>1, <1>3 DEF CollectorOK
<1>4. ASSUME kit[a] = collector.seen[a]
      PROVE  CollectorOK(more)
  <2>1. DOMAIN more = DOMAIN collector /\ more.left = left /\ more.pass = 2
        /\ more.seen = collector.seen
    BY <1>1 DEF CollectorOK
  <2> QED
    BY <1>1, <1>3, <1>4, <2>1 DEF CollectorOK, SeenKit
<1>5. ASSUME kit[a] = collector.seen[a], left = {}, collector.claim = claim
      PROVE  CollectorOK(done)
  <2>1. DOMAIN done = DOMAIN collector /\ done.pass = 3 /\ done.seen = collector.seen
        /\ done.claim = claim
    BY <1>1, <1>5 DEF CollectorOK
  <2>2. claim \in whole
    BY <1>3, <1>5
  <2> QED
    BY <1>1, <2>1, <2>2 DEF CollectorOK, SeenKit
<1>6. CollectorOK(again)
  <2>1. /\ DOMAIN again = {"command", "pass", "claim", "left", "seen"} /\ again.pass = 1
        /\ again.left = Artifacts /\ DOMAIN again.seen = {}
    BY DEF Idle
  <2> QED
    BY <1>1, <2>1 DEF CollectorOK, SeenKit
<1>7. ASSUME NEW c, CollectorOK(c), collector' = c, UNCHANGED <<accepted, whole, rest>>
      PROVE  AcceptanceInv'
  BY <1>7, CollectorGoesOn
<1> QED
  BY <1>2, <1>4, <1>5, <1>6, <1>7, StopKeeps

\* The report is written, and the command says what it accepted.
LEMMA ReportKeeps ==
  ASSUME AcceptanceInv, Create \/ Finish \/ Die \/ Discard
  PROVE  AcceptanceInv'
<1>1. CollectorOK(collector)
  BY DEF AcceptanceInv
<1>2. CASE Create
  <2> PICK c : c = [collector EXCEPT !.pass = 4]
    OBVIOUS
  <2>1. collector.pass = 3
        /\ (Stop \/ (collector' = c /\ UNCHANGED <<accepted, whole, rest>>))
    BY <1>2 DEF Create
  <2>2. DOMAIN c = DOMAIN collector /\ c.pass = 4 /\ c.claim = collector.claim
        /\ c.seen = collector.seen
    BY <1>1 DEF CollectorOK
  <2>3. CollectorOK(c)
    BY <1>1, <2>1, <2>2 DEF CollectorOK, SeenKit
  <2> QED
    BY <2>1, <2>3, StopKeeps, CollectorGoesOn
<1>3. CASE Finish
  <2>1. collector.pass \in {3, 4}
    BY <1>3 DEF Finish
  <2>2. collector.claim \in whole
    BY <1>1, <2>1 DEF CollectorOK
  <2>3. Stop \/ (/\ accepted' = collector.claim /\ collector' = Idle
                 /\ UNCHANGED <<whole, rest>>)
    BY <1>3 DEF Finish
  <2>4. CASE accepted' = collector.claim /\ collector' = Idle /\ UNCHANGED <<whole, rest>>
    <3>1. kit' = kit /\ writes' = writes /\ whole' = whole
      BY <2>4 DEF rest
    <3>2. CollectorOK(Idle)'
      BY <3>1, IdleKnowsNothing DEF CollectorOK, SeenKit, Complete, Idle
    <3>3. CollectorOK(collector)'
      BY <2>4, <3>2 DEF CollectorOK, SeenKit
    <3>4. KitOK' /\ AcceptedIsOneKit'
      BY <2>2, <2>4, <3>1 DEF AcceptanceInv, KitOK, AcceptedIsOneKit
    <3> QED
      BY <3>3, <3>4 DEF AcceptanceInv
  <2> QED
    BY <2>3, <2>4, StopKeeps
<1>4. CASE Die
  BY <1>4, StopKeeps DEF Die
<1>5. CASE Discard
  <2>1. collector' = collector /\ UNCHANGED <<accepted, whole, rest>>
    BY <1>5 DEF Discard
  <2> PICK c : c = collector
    OBVIOUS
  <2> QED
    BY <1>1, <2>1, CollectorGoesOn
<1> QED
  BY <1>2, <1>3, <1>4, <1>5

\* The invariant of a release kit, the command that reads it and what it accepted.
THEOREM AcceptanceIsSound == AcceptanceSpec => []AcceptanceInv
<1>1. AcceptanceInit => AcceptanceInv
  <2> SUFFICES ASSUME AcceptanceInit
               PROVE  AcceptanceInv
    OBVIOUS
  <2>1. KitOK
    BY DEF AcceptanceInit, KitOK
  <2>2. CollectorOK(collector) /\ AcceptedIsOneKit
    BY IdleKnowsNothing DEF AcceptanceInit, AcceptedIsOneKit
  <2> QED
    BY <2>1, <2>2 DEF AcceptanceInv
<1>2. AcceptanceInv /\ [AcceptanceNext]_acceptanceVars => AcceptanceInv'
  <2> SUFFICES ASSUME AcceptanceInv, [AcceptanceNext]_acceptanceVars
               PROVE  AcceptanceInv'
    OBVIOUS
  <2>1. CASE UNCHANGED acceptanceVars
    BY <2>1 DEF acceptanceVars, AcceptanceInv, KitOK, CollectorOK, SeenKit, Complete,
                AcceptedIsOneKit
  <2> QED
    BY <2>1, RewriteKeeps, BeginKeeps, ReadKeeps, RecheckKeeps, ReportKeeps DEF AcceptanceNext
<1> QED
  BY <1>1, <1>2, PTL DEF AcceptanceSpec

\* A release is accepted only when all its artifacts were of the accepted build at one
\* instant of the command, however often kits are copied over while it reads.
THEOREM AcceptedIsAlwaysOneKit == AcceptanceSpec => []AcceptedIsOneKit
<1>1. AcceptanceInv => AcceptedIsOneKit
  BY DEF AcceptanceInv
<1> QED
  BY <1>1, AcceptanceIsSound, PTL

\* What a collector holds, besides what it has seen.
CollectorTypes(c) == c.left \subseteq Artifacts /\ c.pass \in 0 .. 4 /\ c.claim \in Builds \cup {NoBuild}

\* A command that ends leaves everything but the collector alone.
LEMMA StopTypes ==
  ASSUME AcceptanceTypeOK, Stop
  PROVE  AcceptanceTypeOK'
<1>1. Idle.left = {} /\ Idle.pass = 0 /\ Idle.claim = NoBuild
  BY DEF Idle
<1>2. CollectorTypes(Idle)
  BY <1>1 DEF CollectorTypes
<1>3. /\ collector' = Idle /\ acceptance' = acceptance /\ accepted' = accepted /\ whole' = whole
      /\ kit' = kit /\ writes' = writes
  BY DEF Stop, rest
<1> QED  BY <1>2, <1>3 DEF AcceptanceTypeOK, CollectorTypes

\* A step of a command that writes no file.
LEMMA CollectorTypesGoOn ==
  ASSUME AcceptanceTypeOK, NEW c, CollectorTypes(c), collector' = c,
         UNCHANGED <<acceptance, accepted, whole, rest>>
  PROVE  AcceptanceTypeOK'
<1>1. acceptance' = acceptance /\ accepted' = accepted /\ whole' = whole /\ kit' = kit /\ writes' = writes
  BY DEF rest
<1> QED  BY <1>1 DEF AcceptanceTypeOK, CollectorTypes

\* Every step keeps the kit, the report and the collector within their types.
LEMMA AcceptanceTypesStep ==
  ASSUME AcceptanceInv, AcceptanceTypeOK, [AcceptanceNext]_acceptanceVars
  PROVE  AcceptanceTypeOK'
<1>0. CollectorOK(collector) /\ CollectorTypes(collector)
  BY DEF AcceptanceInv, AcceptanceTypeOK, CollectorTypes
<1>a. DOMAIN collector = {"command", "pass", "claim", "left", "seen"}
  BY <1>0 DEF CollectorOK
<1>1. ASSUME NEW a \in Artifacts, NEW b \in Builds, Rewrite(a, b) PROVE AcceptanceTypeOK'
  <2>1. PICK file : file = [build |-> b, time |-> writes + 1]
    OBVIOUS
  <2>2. /\ writes' = writes + 1 /\ kit' = [kit EXCEPT ![a] = file] /\ writes < MaxWrites
        /\ whole' = whole \cup Complete(kit') /\ UNCHANGED <<acceptance, collector, accepted>>
    BY <1>1, <2>1 DEF Rewrite
  <2>3. writes' \in 0 .. MaxWrites
    BY <2>2, AcceptanceAssumption DEF AcceptanceTypeOK
  <2>4. file \in Fingerprint
    BY <2>1, <2>2, <2>3 DEF Fingerprint
  <2>5. kit' \in [Artifacts -> Fingerprint]
    BY <2>2, <2>4 DEF AcceptanceTypeOK
  <2>6. whole' \subseteq Builds
    BY <2>2 DEF AcceptanceTypeOK, Complete
  <2> QED  BY <2>2, <2>3, <2>5, <2>6 DEF AcceptanceTypeOK
<1>2. ASSUME NEW command \in {"finalize", "validate"}, Begin(command) PROVE AcceptanceTypeOK'
  <2>1. PICK claim : claim = IF command = "finalize" THEN NoBuild ELSE acceptance
    OBVIOUS
  <2>2. claim \in Builds \cup {NoBuild}
    BY <1>2, <2>1 DEF Begin
  <2>3. PICK c : c = [Idle EXCEPT !.command = command, !.pass = 1, !.left = Artifacts, !.claim = claim]
    OBVIOUS
  <2>4. CollectorTypes(c)
    <3>1. c.left = Artifacts /\ c.pass = 1 /\ c.claim = claim
      BY <2>3 DEF Idle
    <3> QED  BY <2>2, <3>1 DEF CollectorTypes
  <2>5. /\ collector' = c /\ whole' = Complete(kit) /\ accepted' = NoBuild
        /\ acceptance' = acceptance /\ kit' = kit /\ writes' = writes
    BY <1>2, <2>1, <2>3 DEF Begin, rest
  <2>6. Complete(kit) \subseteq Builds
    BY DEF Complete
  <2> QED  BY <2>4, <2>5, <2>6 DEF AcceptanceTypeOK, CollectorTypes
<1>3. ASSUME NEW a \in Artifacts, Read(a) PROVE AcceptanceTypeOK'
  <2>1. CASE ~ Fits(a, kit[a])
    BY <1>3, <2>1, StopTypes DEF Read
  <2>2. CASE Fits(a, kit[a])
    <3>1. PICK seen : seen = [o \in DOMAIN collector.seen \cup {a} |->
                                IF o = a THEN kit[a] ELSE collector.seen[o]]
      OBVIOUS
    <3>2. PICK left : left = collector.left \ {a}
      OBVIOUS
    <3>3. PICK c : c = [collector EXCEPT !.seen = seen, !.left = IF left = {} THEN Artifacts ELSE left,
                                         !.pass = IF left = {} THEN 2 ELSE 1]
      OBVIOUS
    <3>4. collector' = c /\ UNCHANGED <<acceptance, accepted, whole, rest>>
      BY <1>3, <2>2, <3>1, <3>2, <3>3 DEF Read
    <3>5. c.left \subseteq Artifacts /\ c.pass \in {1, 2} /\ c.claim = collector.claim
      BY <1>0, <1>a, <3>2, <3>3 DEF CollectorTypes
    <3>6. CollectorTypes(c)
      BY <1>0, <3>5 DEF CollectorTypes
    <3> QED  BY <3>4, <3>6, CollectorTypesGoOn
  <2> QED  BY <2>1, <2>2
<1>4. ASSUME NEW a \in Artifacts, Recheck(a) PROVE AcceptanceTypeOK'
  <2>1. PICK left : left = collector.left \ {a}
    OBVIOUS
  <2>2. Stop \/ \E c : CollectorTypes(c) /\ collector' = c /\ UNCHANGED <<acceptance, accepted, whole, rest>>
    <3>1. CASE ~ Unchanged(a)
      BY <1>4, <3>1 DEF Recheck
    <3>2. CASE Unchanged(a) /\ left # {}
      <4>1. PICK c : c = [collector EXCEPT !.left = left]
        OBVIOUS
      <4>2. collector' = c /\ UNCHANGED <<acceptance, accepted, whole, rest>>
        BY <1>4, <2>1, <3>2, <4>1 DEF Recheck
      <4>3. CollectorTypes(c)
        BY <1>0, <1>a, <2>1, <4>1 DEF CollectorTypes
      <4> QED  BY <4>2, <4>3
    <3>3. CASE Unchanged(a) /\ left = {} /\ collector.claim = NoBuild
      <4>1. PICK c : c = [Idle EXCEPT !.command = "finalize", !.pass = 1, !.left = Artifacts,
                                      !.claim = Collected]
        OBVIOUS
      <4>2. collector' = c /\ UNCHANGED <<acceptance, accepted, whole, rest>>
        BY <1>4, <2>1, <3>3, <4>1 DEF Recheck, CollectAgain
      <4>3. Collected \in Builds
        BY <1>0, <1>4 DEF Collected, Recheck, CollectorOK, SeenKit, Artifacts
      <4>4. c.left = Artifacts /\ c.pass = 1 /\ c.claim = Collected
        BY <4>1 DEF Idle
      <4>5. CollectorTypes(c)
        BY <4>3, <4>4 DEF CollectorTypes
      <4> QED  BY <4>2, <4>5
    <3>4. CASE Unchanged(a) /\ left = {} /\ collector.claim # NoBuild /\ collector.claim # Collected
      BY <1>4, <2>1, <3>4 DEF Recheck
    <3>5. CASE Unchanged(a) /\ left = {} /\ collector.claim # NoBuild /\ collector.claim = Collected
      <4>1. PICK c : c = [collector EXCEPT !.left = {}, !.pass = 3]
        OBVIOUS
      <4>2. collector' = c /\ UNCHANGED <<acceptance, accepted, whole, rest>>
        BY <1>4, <2>1, <3>5, <4>1 DEF Recheck
      <4>3. CollectorTypes(c)
        BY <1>0, <1>a, <4>1 DEF CollectorTypes
      <4> QED  BY <4>2, <4>3
    <3> QED  BY <3>1, <3>2, <3>3, <3>4, <3>5
  <2> QED  BY <2>2, StopTypes, CollectorTypesGoOn
<1>5. ASSUME Create PROVE AcceptanceTypeOK'
  <2>1. CASE acceptance # "absent"
    BY <1>5, <2>1, StopTypes DEF Create
  <2>2. CASE acceptance = "absent"
    <3>1. PICK c : c = [collector EXCEPT !.pass = 4]
      OBVIOUS
    <3>2. /\ collector' = c /\ acceptance' = "empty" /\ accepted' = accepted /\ whole' = whole
          /\ kit' = kit /\ writes' = writes
      BY <1>5, <2>2, <3>1 DEF Create, rest
    <3>3. CollectorTypes(c)
      BY <1>0, <1>a, <3>1 DEF CollectorTypes
    <3> QED  BY <3>2, <3>3 DEF AcceptanceTypeOK, CollectorTypes
  <2> QED  BY <2>1, <2>2
<1>6. ASSUME Finish PROVE AcceptanceTypeOK'
  <2>1. CASE collector.command = "validate" /\ acceptance # collector.claim
    BY <1>6, <2>1, StopTypes DEF Finish
  <2>2. CASE ~ (collector.command = "validate" /\ acceptance # collector.claim)
    <3>1. /\ acceptance' = collector.claim /\ accepted' = collector.claim /\ collector' = Idle
          /\ whole' = whole /\ kit' = kit /\ writes' = writes /\ collector.pass \in {3, 4}
      BY <1>6, <2>2 DEF Finish, rest
    <3>2. collector.claim \in Builds
      BY <1>0, <3>1 DEF CollectorOK, AcceptanceTypeOK
    <3>3. Idle.left = {} /\ Idle.pass = 0 /\ Idle.claim = NoBuild
      BY DEF Idle
    <3> QED  BY <3>1, <3>2, <3>3 DEF AcceptanceTypeOK
  <2> QED  BY <2>1, <2>2
<1>7. ASSUME Die PROVE AcceptanceTypeOK'
  BY <1>7, StopTypes DEF Die
<1>8. ASSUME Discard PROVE AcceptanceTypeOK'
  BY <1>8 DEF Discard, AcceptanceTypeOK, rest
<1>9. CASE UNCHANGED acceptanceVars
  BY <1>9 DEF acceptanceVars, AcceptanceTypeOK
<1> QED  BY <1>1, <1>2, <1>3, <1>4, <1>5, <1>6, <1>7, <1>8, <1>9 DEF AcceptanceNext

\* The kit, the report and the command under way stay within their types.
THEOREM AcceptanceTypeCorrect == AcceptanceSpec => []AcceptanceTypeOK
<1>1. AcceptanceInit => AcceptanceTypeOK
  <2> SUFFICES ASSUME AcceptanceInit PROVE AcceptanceTypeOK
    OBVIOUS
  <2>1. /\ writes = 0 /\ acceptance = "absent" /\ collector = Idle /\ whole = {} /\ accepted = NoBuild
        /\ kit \in [Artifacts -> {[build |-> b, time |-> 0] : b \in Builds}]
    BY DEF AcceptanceInit
  <2>2. Idle.left = {} /\ Idle.pass = 0 /\ Idle.claim = NoBuild
    BY DEF Idle
  <2>3. \A b \in Builds : [build |-> b, time |-> 0] \in Fingerprint
    BY AcceptanceAssumption DEF Fingerprint
  <2>4. kit \in [Artifacts -> Fingerprint]
    BY <2>1, <2>3
  <2> QED  BY <2>1, <2>2, <2>4, AcceptanceAssumption DEF AcceptanceTypeOK
<1>2. AcceptanceInv /\ AcceptanceTypeOK /\ [AcceptanceNext]_acceptanceVars => AcceptanceTypeOK'
  BY AcceptanceTypesStep
<1>3. AcceptanceSpec => []AcceptanceInv
  BY AcceptanceIsSound
<1> QED  BY <1>1, <1>2, <1>3, PTL DEF AcceptanceSpec

(***************************************************************************)
(* The marks of a page.                                                    *)
(***************************************************************************)

\* The least of some natural numbers.
LEMMA LeastOf ==
  ASSUME NEW S, S \subseteq Nat, S # {}
  PROVE  \E x \in S : \A y \in S : x <= y
<1>1. PICK x \in S : \A y \in S : ~ (<<y, x>> \in OpToRel(<, Nat))
  BY NatLessThanWellFounded, WFMin
<1>2. \A y \in S : ~ (y < x)
  BY <1>1 DEF OpToRel
<1>3. ASSUME NEW y \in S PROVE x <= y
  <2>1. x \in Nat /\ y \in Nat /\ ~ (y < x)
    BY <1>2
  <2> QED  BY <2>1
<1> QED  BY <1>3

\* Min is that least number.
LEMMA MinIsLeast ==
  ASSUME NEW S, S \subseteq Nat, S # {}
  PROVE  Min(S) \in S /\ \A y \in S : Min(S) <= y
BY LeastOf DEF Min

\* What holds of the first place of an interval and passes from each place to the next
\* holds of all of them.
LEMMA FromPlaceToPlace ==
  ASSUME NEW a \in Nat, NEW b \in Nat, NEW S, a \in S,
         \A k \in a .. b - 1 : k \in S => k + 1 \in S
  PROVE  a .. b \subseteq S
<1> DEFINE T == {k \in a .. b : k \notin S}
<1>1. CASE T = {}
  BY <1>1
<1>2. CASE T # {}
  <2>1. PICK k \in T : \A j \in T : k <= j
    <3>1. T \subseteq Nat
      OBVIOUS
    <3> QED  BY <1>2, <3>1, LeastOf
  <2>2. k # a /\ k \in a .. b /\ k \notin S
    BY <2>1
  <2>3. k - 1 \in a .. b - 1 /\ k - 1 \notin T
    BY <2>1, <2>2
  <2>4. k - 1 \in S
    BY <2>3
  <2>5. (k - 1) + 1 \in S
    BY <2>3, <2>4
  <2> QED  BY <2>2, <2>5
<1> QED  BY <1>1, <1>2

\* The recursive reading of a text does what it says.
LEMMA ReadingIsDefined ==
  ASSUME NEW text, Len(text) \in Nat
  PROVE  Reading(text) = [k \in 0 .. Len(text) |->
                            IF k = 0 THEN Outside ELSE Feed(Reading(text)[k - 1], text[k])]
<1> DEFINE Reads(f, n) == f = [k \in 0 .. n |-> IF k = 0 THEN Outside ELSE Feed(f[k - 1], text[k])]
           S == {n \in 0 .. Len(text) : \E f : Reads(f, n)}
<1>1. 0 \in S
  <2>1. PICK f : f = [k \in 0 .. 0 |-> Outside]
    OBVIOUS
  <2>2. \A k \in 0 .. 0 : k = 0
    OBVIOUS
  <2>3. f = [k \in 0 .. 0 |-> IF k = 0 THEN Outside ELSE Feed(f[k - 1], text[k])]
    BY <2>1, <2>2
  <2> QED  BY <2>3
<1>2. ASSUME NEW n \in 0 .. Len(text) - 1, n \in S PROVE n + 1 \in S
  <2>1. PICK f : Reads(f, n)
    BY <1>2
  <2>2. PICK g : g = [k \in 0 .. n + 1 |-> IF k = n + 1 THEN Feed(f[n], text[n + 1]) ELSE f[k]]
    OBVIOUS
  <2>3. \A k \in 0 .. n : g[k] = f[k]
    BY <2>2
  <2>4. \A k \in 0 .. n + 1 : g[k] = IF k = 0 THEN Outside ELSE Feed(g[k - 1], text[k])
    <3> SUFFICES ASSUME NEW k \in 0 .. n + 1
                 PROVE  g[k] = IF k = 0 THEN Outside ELSE Feed(g[k - 1], text[k])
      OBVIOUS
    <3>1. CASE k = n + 1
      <4>1. g[k] = Feed(f[n], text[k]) /\ k - 1 = n /\ k # 0
        BY <2>2, <3>1
      <4> QED  BY <2>3, <4>1
    <3>2. CASE k # n + 1
      <4>1. k \in 0 .. n /\ g[k] = f[k]
        BY <2>3, <3>2
      <4>2. f[k] = IF k = 0 THEN Outside ELSE Feed(f[k - 1], text[k])
        BY <2>1, <4>1
      <4>3. k # 0 => k - 1 \in 0 .. n
        BY <4>1
      <4> QED  BY <2>3, <4>1, <4>2, <4>3
    <3> QED  BY <3>1, <3>2
  <2>5. Reads(g, n + 1)
    BY <2>2, <2>4
  <2> QED  BY <2>5
<1> HIDE DEF Reads
<1>3. 0 .. Len(text) \subseteq S
  <2> HIDE DEF S
  <2> QED  BY <1>1, <1>2, FromPlaceToPlace
<1>4. \E f : Reads(f, Len(text))
  BY <1>3
<1>5. Reading(text) = CHOOSE f : Reads(f, Len(text))
  BY DEF Reading, Reads
<1>6. Reads(Reading(text), Len(text))
  BY <1>4, <1>5
<1> QED  BY <1>6 DEF Reads

\* What a string's skipping does at one place, if f says what it does from there on.
SkipRow(f, i) ==
  [depth \in Nat |->
     IF depth = 0 \/ i > length THEN <<i, depth>>
     ELSE IF At(i) = "\\" THEN f[i + 2][depth]
     ELSE f[i + 1][CASE At(i) = "(" -> depth + 1
                     [] At(i) = ")" -> depth - 1
                     [] OTHER -> depth]]

\* It looks only at later places.
LEMMA SkipLooksAhead ==
  ASSUME length \in Nat, NEW a \in 1 .. length + 2, NEW f, NEW g,
         \A i \in a + 1 .. length + 2 : f[i] = g[i]
  PROVE  SkipRow(f, a) = SkipRow(g, a)
<1>1. CASE a > length
  BY <1>1 DEF SkipRow
<1>2. CASE ~ (a > length)
  <2>1. f[a + 1] = g[a + 1] /\ f[a + 2] = g[a + 2]
    <3>1. length \in Int /\ a \in Int
      OBVIOUS
    <3>2. a + 1 \in a + 1 .. length + 2 /\ a + 2 \in a + 1 .. length + 2
      BY <1>2, <3>1
    <3> QED  BY <3>2
  <2> QED  BY <2>1 DEF SkipRow
<1> QED  BY <1>1, <1>2

\* The recursive skipping does what it says.
LEMMA SkippingIsDefined ==
  ASSUME length \in Nat
  PROVE  \A i \in 1 .. length + 2 : Skipping[i] = SkipRow(Skipping, i)
<1>0. PICK L \in Nat : L = length
  OBVIOUS
<1> DEFINE Skips(f, a) == f = [i \in a .. L + 2 |-> SkipRow(f, i)]
           S == {m \in 0 .. L + 1 : \E f : Skips(f, L + 2 - m)}
<1>1. 0 \in S
  <2>1. PICK f : f = [i \in L + 2 .. L + 2 |-> [depth \in Nat |-> <<i, depth>>]]
    OBVIOUS
  <2>2. \A i \in L + 2 .. L + 2 : SkipRow(f, i) = [depth \in Nat |-> <<i, depth>>]
    BY <1>0 DEF SkipRow
  <2>3. f = [i \in L + 2 .. L + 2 |-> SkipRow(f, i)]
    BY <2>1, <2>2
  <2>4. L + 2 - 0 = L + 2 /\ 0 \in 0 .. L + 1
    OBVIOUS
  <2>5. Skips(f, L + 2 - 0)
    BY <2>3, <2>4
  <2> QED  BY <2>4, <2>5
<1>2. ASSUME NEW m \in 0 .. L, m \in S PROVE m + 1 \in S
  <2>0. PICK a : a = L + 2 - (m + 1)
    OBVIOUS
  <2>1. a \in 1 .. L + 1 /\ L + 2 - m = a + 1 /\ m + 1 \in 0 .. L + 1
    BY <2>0
  <2>2. PICK f : Skips(f, a + 1)
    BY <1>2, <2>1
  <2>3. PICK g : g = [i \in a .. L + 2 |-> IF i = a THEN SkipRow(f, i) ELSE f[i]]
    OBVIOUS
  <2>4. \A i \in a + 1 .. L + 2 : g[i] = f[i]
    BY <2>1, <2>3
  <2>5. ASSUME NEW i \in a .. L + 2 PROVE g[i] = SkipRow(g, i)
    <3>1. i \in 1 .. L + 2
      BY <2>1
    <3>2. \A j \in i + 1 .. L + 2 : g[j] = f[j]
      BY <2>1, <2>4
    <3>3. SkipRow(g, i) = SkipRow(f, i)
      BY <1>0, <3>1, <3>2, SkipLooksAhead
    <3>4. CASE i = a
      BY <2>3, <3>3, <3>4
    <3>5. CASE i # a
      <4>1. i \in a + 1 .. L + 2
        BY <2>1, <3>5
      <4>2. f[i] = SkipRow(f, i)
        BY <2>2, <4>1
      <4> QED  BY <2>4, <3>3, <4>1, <4>2
    <3> QED  BY <3>4, <3>5
  <2>6. Skips(g, a)
    BY <2>3, <2>5
  <2> QED  BY <2>0, <2>1, <2>6
<1> HIDE DEF Skips
<1>3. \E f : Skips(f, 1)
  <2>1. 0 .. L + 1 \subseteq S
    <3> HIDE DEF S
    <3>1. \A k \in 0 .. (L + 1) - 1 : k \in S => k + 1 \in S
      BY <1>2
    <3>2. L + 1 \in Nat /\ 0 \in Nat
      OBVIOUS
    <3> QED  BY <1>1, <3>1, <3>2, FromPlaceToPlace
  <2>2. L + 1 \in S /\ L + 2 - (L + 1) = 1
    BY <2>1
  <2> QED  BY <2>2
<1>4. Skipping = CHOOSE f : Skips(f, 1)
  BY <1>0 DEF Skipping, SkipRow, Skips
<1>5. Skips(Skipping, 1)
  BY <1>3, <1>4
<1> QED  BY <1>0, <1>5 DEF Skips

\* Its cases, place by place.
LEMMA SkipCases ==
  ASSUME length \in Nat, NEW i \in 1 .. length + 2, NEW d \in Nat
  PROVE  /\ d = 0 \/ i > length => Skipping[i][d] = <<i, d>>
         /\ d # 0 /\ ~ (i > length) =>
              /\ At(i) = "\\" => Skipping[i][d] = Skipping[i + 2][d]
              /\ At(i) = "(" => Skipping[i][d] = Skipping[i + 1][d + 1]
              /\ At(i) = ")" => Skipping[i][d] = Skipping[i + 1][d - 1]
              /\ At(i) \notin {"\\", "(", ")"} => Skipping[i][d] = Skipping[i + 1][d]
<1>1. PICK f : f = Skipping
  OBVIOUS
<1>2. PICK e : e = CASE At(i) = "(" -> d + 1 [] At(i) = ")" -> d - 1 [] OTHER -> d
  OBVIOUS
<1>3. /\ At(i) = "(" => e = d + 1
      /\ At(i) = ")" => e = d - 1
      /\ At(i) \notin {"(", ")"} => e = d
  BY <1>2
<1>4. f[i] = SkipRow(f, i)
  BY <1>1, SkippingIsDefined
<1>5. SkipRow(f, i)[d] = IF d = 0 \/ i > length THEN <<i, d>>
                         ELSE IF At(i) = "\\" THEN f[i + 2][d] ELSE f[i + 1][e]
  BY <1>2, Zenon DEF SkipRow
<1> QED  BY <1>1, <1>3, <1>4, <1>5

-----------------------------------------------------------------------------
\* The states of the definition's reader.
Readers ==
  [mode : {"between", "word", "name", "comment", "string", "escape", "hex", "<", ">"},
   word : Seq(Characters), depth : Int, open : Seq({">>", "]"}),
   marked : BOOLEAN, over : BOOLEAN, bad : BOOLEAN]

\* Removing the innermost container leaves containers.
LEMMA FrontType ==
  ASSUME NEW S, NEW s \in Seq(S), s # <<>>
  PROVE  Front(s) \in Seq(S)
<1>1. Len(s) \in Nat /\ Len(s) # 0
  BY EmptySeq, LenProperties
<1>2. Len(s) - 1 \in Int /\ \A i \in 1 .. Len(s) - 1 : s[i] \in S
  BY <1>1, ElementOfSeq
<1> QED  BY <1>1, <1>2, SubSeqProperties DEF Front

\* The end of a word leaves a reader.
LEMMA EndWordType ==
  ASSUME NEW s \in Readers
  PROVE  EndWord(s) \in Readers
<1>1. PICK paints \in BOOLEAN, ends \in BOOLEAN :
        EndWord(s) = [s EXCEPT !.mode = "between", !.word = <<>>, !.marked = paints, !.over = ends]
  <2>1. s.marked \in BOOLEAN /\ s.over \in BOOLEAN
    BY DEF Readers
  <2> QED  BY <2>1, Zenon DEF EndWord
<1>2. <<>> \in Seq(Characters)
  BY EmptySeq
<1> QED  BY <1>1, <1>2 DEF Readers

\* What a character begins is a reader.
LEMMA EnterType ==
  ASSUME NEW s \in Readers, NEW c \in Characters
  PROVE  Enter(s, c) \in Readers
<1>1. Append(s.open, "]") \in Seq({">>", "]"}) /\ <<c>> \in Seq(Characters)
  BY DEF Readers
<1>2. s.open # <<>> => Front(s.open) \in Seq({">>", "]"})
  BY FrontType DEF Readers
<1>3. CASE c \in {"n", "%", "/", "(", "<", ">", ")"}
  <2>1. c \in {"n", "%", "/"} => Enter(s, c) \in Readers
    BY DEF Enter, Readers
  <2>2. c = "(" => Enter(s, c) \in Readers
    <3>1. c = "(" => Enter(s, c) = [s EXCEPT !.mode = "string", !.depth = 1]
      BY DEF Enter
    <3>2. 1 \in Int
      OBVIOUS
    <3> QED  BY <3>1, <3>2 DEF Readers
  <2>3. c \in {"<", ">"} => Enter(s, c) \in Readers
    <3>1. c \in {"<", ">"} => Enter(s, c) = [s EXCEPT !.mode = c]
      BY DEF Enter
    <3> QED  BY <3>1 DEF Readers
  <2>4. c = ")" => Enter(s, c) \in Readers
    BY DEF Enter, Readers
  <2> QED  BY <1>3, <2>1, <2>2, <2>3, <2>4
<1>4. CASE c = "["
  BY <1>1, <1>4 DEF Enter, Readers
<1>5. CASE c = "]"
  BY <1>2, <1>5 DEF Enter, Readers
<1>6. CASE c \notin {"n", "%", "/", "(", "<", ">", ")", "[", "]"}
  <2>1. Enter(s, c) = [s EXCEPT !.mode = "word", !.word = <<c>>]
    BY <1>6 DEF Enter
  <2> QED  BY <1>1, <2>1 DEF Readers
<1> QED  BY <1>3, <1>4, <1>5, <1>6

\* So is what any character leaves of one.
LEMMA FeedType ==
  ASSUME NEW s \in Readers, NEW c \in Characters
  PROVE  Feed(s, c) \in Readers
<1>1. CASE s.over \/ s.bad
  BY <1>1 DEF Feed
<1>2. CASE ~ (s.over \/ s.bad)
  <2>1. CASE s.mode = "between"
    BY <1>2, <2>1, EnterType DEF Feed
  <2>2. CASE s.mode \in {"word", "name"}
    <3>1. EndWord(s) \in Readers /\ Enter(EndWord(s), c) \in Readers
      BY EndWordType, EnterType
    <3>2. [s EXCEPT !.word = Append(@, c)] \in Readers
      BY DEF Readers
    <3>3. Feed(s, c) = IF c \in WordEnds
                       THEN IF EndWord(s).over THEN EndWord(s) ELSE Enter(EndWord(s), c)
                       ELSE [s EXCEPT !.word = Append(@, c)]
      BY <1>2, <2>2 DEF Feed
    <3> QED  BY <3>1, <3>2, <3>3
  <2>3. CASE s.mode \in {"comment", "escape", "hex"}
    BY <1>2, <2>3 DEF Feed, Readers
  <2>4. CASE s.mode = "string"
    <3>1. PICK mode \in {"between", "string", "escape"}, d \in Int :
            Feed(s, c) = [s EXCEPT !.mode = mode, !.depth = d]
      <4>1. s.depth \in Int /\ s.depth + 1 \in Int /\ s.depth - 1 \in Int
        BY DEF Readers
      <4>2. c = "\\" => Feed(s, c) = [s EXCEPT !.mode = "escape", !.depth = s.depth]
        BY <1>2, <2>4 DEF Feed, Readers
      <4>3. c = "(" => Feed(s, c) = [s EXCEPT !.mode = "string", !.depth = s.depth + 1]
        BY <1>2, <2>4 DEF Feed, Readers
      <4>4. c = ")" => Feed(s, c) = [s EXCEPT !.mode = IF s.depth = 1 THEN "between" ELSE "string",
                                              !.depth = s.depth - 1]
        BY <1>2, <2>4 DEF Feed, Readers
      <4>5. c \notin {"\\", "(", ")"} => Feed(s, c) = [s EXCEPT !.mode = "string", !.depth = s.depth]
        BY <1>2, <2>4 DEF Feed, Readers
      <4> QED  BY <4>1, <4>2, <4>3, <4>4, <4>5
    <3> QED  BY <3>1 DEF Readers
  <2>5. CASE s.mode = "<"
    <3>1. Append(s.open, ">>") \in Seq({">>", "]"})
      BY DEF Readers
    <3> QED  BY <1>2, <2>5, <3>1 DEF Feed, Readers
  <2>6. CASE s.mode = ">"
    <3>1. s.open # <<>> => Front(s.open) \in Seq({">>", "]"})
      BY FrontType DEF Readers
    <3> QED  BY <1>2, <2>6, <3>1 DEF Feed, Readers
  <2> QED  BY <2>1, <2>2, <2>3, <2>4, <2>5, <2>6 DEF Readers
<1> QED  BY <1>1, <1>2

\* Each character is read from what was read before it.
LEMMA ReadingSteps ==
  ASSUME NEW text \in Seq(Characters)
  PROVE  /\ Reading(text)[0] = Outside
         /\ \A k \in 0 .. Len(text) : Reading(text)[k] \in Readers
         /\ \A k \in 0 .. Len(text) - 1 : Reading(text)[k + 1] = Feed(Reading(text)[k], text[k + 1])
<1>0. Len(text) \in Nat
  BY LenProperties
<1>1. PICK R : R = Reading(text)
  OBVIOUS
<1>2. R = [k \in 0 .. Len(text) |-> IF k = 0 THEN Outside ELSE Feed(R[k - 1], text[k])]
  BY <1>0, <1>1, ReadingIsDefined
<1>3. R[0] = Outside
  BY <1>0, <1>2
<1>4. ASSUME NEW k \in 0 .. Len(text) - 1 PROVE R[k + 1] = Feed(R[k], text[k + 1])
  <2>1. k + 1 \in 0 .. Len(text) /\ k + 1 # 0 /\ (k + 1) - 1 = k
    BY <1>0
  <2> QED  BY <1>2, <2>1
<1> DEFINE S == {k \in 0 .. Len(text) : R[k] \in Readers}
<1>5. 0 \in S
  <2>1. Outside \in Readers
    BY EmptySeq DEF Outside, Readers
  <2> QED  BY <1>0, <1>3, <2>1
<1>6. ASSUME NEW k \in 0 .. Len(text) - 1, k \in S PROVE k + 1 \in S
  <2>1. k + 1 \in 1 .. Len(text) /\ text[k + 1] \in Characters
    BY <1>0, ElementOfSeq
  <2> QED  BY <1>4, <1>6, <2>1, FeedType
<1>7. 0 .. Len(text) \subseteq S
  <2> HIDE DEF S
  <2> QED  BY <1>0, <1>5, <1>6, FromPlaceToPlace
<1> QED  BY <1>1, <1>3, <1>4, <1>7

\* Once the reader is over, or has found an error, nothing changes it.
LEMMA DoneStays ==
  ASSUME NEW text \in Seq(Characters), NEW k \in 0 .. Len(text),
         Reading(text)[k].over \/ Reading(text)[k].bad
  PROVE  Reading(text)[Len(text)] = Reading(text)[k]
<1>0. Len(text) \in Nat
  BY LenProperties
<1>1. PICK R : R = Reading(text)
  OBVIOUS
<1>2. \A j \in 0 .. Len(text) - 1 : R[j + 1] = Feed(R[j], text[j + 1])
  BY <1>1, ReadingSteps
<1> DEFINE S == {j \in k .. Len(text) : R[j] = R[k]}
<1>3. k \in S
  BY <1>0
<1>4. ASSUME NEW j \in k .. Len(text) - 1, j \in S PROVE j + 1 \in S
  <2>1. j \in 0 .. Len(text) - 1 /\ j + 1 \in k .. Len(text)
    BY <1>0
  <2>2. R[j + 1] = Feed(R[k], text[j + 1])
    BY <1>2, <1>4, <2>1
  <2>3. R[k].over \/ R[k].bad
    BY <1>1
  <2>4. Feed(R[k], text[j + 1]) = R[k]
    BY <2>3 DEF Feed
  <2> QED  BY <2>1, <2>2, <2>4
<1>5. k .. Len(text) \subseteq S
  <2> HIDE DEF S
  <2>1. k \in Nat
    BY <1>0
  <2> QED  BY <1>0, <1>3, <1>4, <2>1, FromPlaceToPlace
<1>6. Len(text) \in k .. Len(text)
  BY <1>0
<1> QED  BY <1>1, <1>5, <1>6

\* An error that the reader met is the judgement, unless the reader was over before.
LEMMA JudgedBad ==
  ASSUME NEW text \in Seq(Characters), NEW k \in 0 .. Len(text),
         Reading(text)[k].bad, ~ Reading(text)[k].over
  PROVE  Judgement(text) = "malformed"
<1>1. Reading(text)[Len(text)] = Reading(text)[k]
  BY DoneStays
<1> QED  BY <1>1 DEF Judgement

\* An inline image ends the reading: the page is marked.
LEMMA JudgedOver ==
  ASSUME NEW text \in Seq(Characters), NEW k \in 0 .. Len(text), Reading(text)[k].over
  PROVE  Judgement(text) = "marked"
<1>1. PICK r : r = Reading(text)[Len(text)]
  OBVIOUS
<1>2. r.over /\ r \in Readers
  <2>1. Len(text) \in Nat /\ k \in 0 .. Len(text)
    BY LenProperties
  <2> QED  BY <1>1, <2>1, DoneStays, ReadingSteps
<1>3. EndWord(r).over
  <2>1. EndWord(r) = [r EXCEPT !.mode = "between", !.word = <<>>,
                               !.marked = @ \/ (r.mode = "word" /\ r.open = <<>> /\ r.word \in Painting),
                               !.over = TRUE]
    BY <1>2, Zenon DEF EndWord
  <2> QED  BY <1>2, <2>1 DEF Readers
<1> QED  BY <1>1, <1>2, <1>3 DEF Judgement

\* A text that ends inside a string or between a pair of angle brackets is malformed.
LEMMA JudgedInside ==
  ASSUME NEW text \in Seq(Characters),
         Reading(text)[Len(text)].mode \in {"string", "escape", "hex", "<", ">"},
         ~ Reading(text)[Len(text)].over
  PROVE  Judgement(text) = "malformed"
BY DEF Judgement

\* A piece that is longer by one character.
LEMMA SubSeqAppended ==
  ASSUME NEW text \in Seq(Characters), NEW i \in 1 .. Len(text), NEW j \in i .. Len(text),
         j + 1 \in 1 .. Len(text)
  PROVE  SubSeq(text, i, j + 1) = Append(SubSeq(text, i, j), text[j + 1])
<1>0. Len(text) \in Nat /\ i \in Nat /\ j \in Nat
  BY LenProperties
<1>1. PICK b : b = j + 1
  OBVIOUS
<1>2. PICK s : s = SubSeq(text, i, j)
  OBVIOUS
<1>3. PICK t : t = SubSeq(text, i, b)
  OBVIOUS
<1>4. \A k \in 1 .. Len(text) : text[k] \in Characters
  BY <1>0, ElementOfSeq
<1>5. s \in Seq(Characters) /\ Len(s) = j - i + 1 /\ \A k \in 1 .. j - i + 1 : s[k] = text[i + k - 1]
  <2>1. \A k \in i .. j : text[k] \in Characters
    BY <1>0, <1>4
  <2>2. i <= j
    BY <1>0
  <2> QED  BY <1>0, <1>2, <2>1, SubSeqProperties
<1>6. t \in Seq(Characters) /\ Len(t) = b - i + 1 /\ \A k \in 1 .. b - i + 1 : t[k] = text[i + k - 1]
  <2>1. \A k \in i .. b : text[k] \in Characters
    BY <1>0, <1>1, <1>4
  <2>2. b \in Nat
    BY <1>0, <1>1
  <2> QED  BY <1>0, <1>1, <1>3, <2>1, <2>2, SubSeqProperties
<1>7. PICK u : u = Append(s, text[b])
  OBVIOUS
<1>8. text[b] \in Characters
  BY <1>1, <1>4
<1>9. u \in Seq(Characters) /\ Len(u) = Len(s) + 1 /\ (\A k \in 1 .. Len(s) : u[k] = s[k]) /\ u[Len(s) + 1] = text[b]
  BY <1>5, <1>7, <1>8, AppendProperties
<1>10. Len(u) = Len(t)
  BY <1>0, <1>1, <1>5, <1>6, <1>9
<1>11. ASSUME NEW k \in 1 .. Len(t) PROVE t[k] = u[k]
  <2>1. k \in Nat /\ t[k] = text[i + k - 1]
    BY <1>0, <1>1, <1>6, <1>11
  <2>2. CASE k = Len(s) + 1
    <3>1. i + k - 1 = b
      BY <1>0, <1>1, <1>5, <2>2
    <3> QED  BY <1>9, <2>1, <2>2, <3>1
  <2>3. CASE k # Len(s) + 1
    <3>1. k \in 1 .. Len(s) /\ k \in 1 .. j - i + 1
      BY <1>0, <1>1, <1>5, <1>6, <2>3
    <3> QED  BY <1>5, <1>9, <2>1, <3>1
  <2> QED  BY <2>2, <2>3
<1>12. t = u
  BY <1>6, <1>9, <1>10, <1>11, SeqEqual
<1> QED  BY <1>1, <1>2, <1>3, <1>7, <1>12

-----------------------------------------------------------------------------
\* A reader that goes on, and has the containers and the marks of another.
Live(s) == ~ s.over /\ ~ s.bad
Alike(s, r) == Live(s) /\ s.open = r.open /\ s.marked = r.marked

\* Through the characters of a word the reader collects them.
LEMMA WordGoesOn ==
  ASSUME NEW text \in Seq(Characters), NEW i \in 1 .. Len(text), NEW e \in i + 1 .. Len(text) + 1,
         LET s == Reading(text)[i] IN s.mode = "word" /\ s.word = SubSeq(text, i, i) /\ Live(s),
         \A j \in i + 1 .. e - 1 : text[j] \notin WordEnds
  PROVE  LET s == Reading(text)[e - 1]
         IN  s.mode = "word" /\ s.word = SubSeq(text, i, e - 1) /\ Alike(s, Reading(text)[i])
<1>0. Len(text) \in Nat /\ i \in Nat /\ e \in Nat
  BY LenProperties
<1>1. PICK R : R = Reading(text)
  OBVIOUS
<1>2. /\ \A j \in 0 .. Len(text) - 1 : R[j + 1] = Feed(R[j], text[j + 1])
      /\ \A j \in 0 .. Len(text) : R[j] \in Readers
  BY <1>1, ReadingSteps
<1> DEFINE S == {j \in i .. e - 1 :
                   R[j].mode = "word" /\ R[j].word = SubSeq(text, i, j) /\ Alike(R[j], R[i])}
<1>3. i \in S
  <2>1. i \in i .. e - 1
    BY <1>0
  <2>2. R[i].mode = "word" /\ R[i].word = SubSeq(text, i, i) /\ Live(R[i])
    BY <1>1
  <2> QED  BY <2>1, <2>2 DEF Alike
<1>4. ASSUME NEW j \in i .. e - 2, j \in S PROVE j + 1 \in S
  <2>1. /\ j \in 0 .. Len(text) - 1 /\ j + 1 \in i .. e - 1 /\ j + 1 \in i + 1 .. e - 1
        /\ j \in 0 .. Len(text) /\ j \in i .. Len(text) /\ j + 1 \in 1 .. Len(text)
    BY <1>0
  <2>2. R[j + 1] = [R[j] EXCEPT !.word = Append(@, text[j + 1])]
    BY <1>2, <1>4, <2>1 DEF Feed, Alike, Live
  <2>3. R[j] \in Readers
    BY <1>2, <2>1
  <2>4. SubSeq(text, i, j + 1) = Append(SubSeq(text, i, j), text[j + 1])
    BY <1>0, <2>1, SubSeqAppended
  <2>5. R[j + 1].mode = "word" /\ R[j + 1].word = SubSeq(text, i, j + 1) /\ Alike(R[j + 1], R[i])
    BY <1>4, <2>2, <2>3, <2>4 DEF Readers, Alike, Live
  <2> QED  BY <2>1, <2>5
<1>5. i .. e - 1 \subseteq S
  <2> HIDE DEF S
  <2>1. e - 1 \in Nat /\ (e - 1) - 1 = e - 2
    BY <1>0
  <2> QED  BY <1>0, <1>3, <1>4, <2>1, FromPlaceToPlace
<1>6. e - 1 \in i .. e - 1
  BY <1>0
<1> QED  BY <1>1, <1>5, <1>6

\* Through a name, a comment or a hexadecimal string it waits for the end.
LEMMA WaitsForTheEnd ==
  ASSUME NEW text \in Seq(Characters), NEW i \in 0 .. Len(text), NEW e \in i + 1 .. Len(text) + 1,
         NEW mode \in {"name", "comment", "hex"},
         NEW Stops, Stops = CASE mode = "name" -> WordEnds [] mode = "comment" -> {"n"} [] mode = "hex" -> {">"},
         Reading(text)[i].mode = mode, Live(Reading(text)[i]),
         \A j \in i + 1 .. e - 1 : text[j] \notin Stops
  PROVE  Reading(text)[e - 1].mode = mode /\ Alike(Reading(text)[e - 1], Reading(text)[i])
<1>0. Len(text) \in Nat /\ i \in Nat /\ e \in Nat
  BY LenProperties
<1>1. PICK R : R = Reading(text)
  OBVIOUS
<1>2. /\ \A j \in 0 .. Len(text) - 1 : R[j + 1] = Feed(R[j], text[j + 1])
      /\ \A j \in 0 .. Len(text) : R[j] \in Readers
  BY <1>1, ReadingSteps
<1> DEFINE S == {j \in i .. e - 1 : R[j].mode = mode /\ Alike(R[j], R[i])}
<1>3. i \in S
  BY <1>0, <1>1 DEF Alike
<1>4. ASSUME NEW j \in i .. e - 2, j \in S PROVE j + 1 \in S
  <2>1. /\ j \in 0 .. Len(text) - 1 /\ j + 1 \in i .. e - 1 /\ j + 1 \in i + 1 .. e - 1
        /\ j \in 0 .. Len(text)
    BY <1>0
  <2>2. R[j] \in Readers /\ R[j].mode = mode /\ Alike(R[j], R[i])
    BY <1>2, <1>4, <2>1
  <2>3. R[j + 1] = Feed(R[j], text[j + 1]) /\ text[j + 1] \notin Stops
    BY <1>2, <2>1
  <2>4. R[j + 1] = R[j] \/ R[j + 1] = [R[j] EXCEPT !.word = Append(@, text[j + 1])]
    <3>1. CASE mode = "name"
      BY <2>2, <2>3, <3>1 DEF Feed, Alike, Live
    <3>2. CASE mode = "comment"
      BY <2>2, <2>3, <3>2 DEF Feed, Alike, Live
    <3>3. CASE mode = "hex"
      BY <2>2, <2>3, <3>3 DEF Feed, Alike, Live
    <3> QED  BY <3>1, <3>2, <3>3
  <2>5. R[j + 1].mode = mode /\ Alike(R[j + 1], R[i])
    BY <2>2, <2>4 DEF Readers, Alike, Live
  <2> QED  BY <2>1, <2>5
<1>5. i .. e - 1 \subseteq S
  <2> HIDE DEF S
  <2>1. e - 1 \in Nat /\ (e - 1) - 1 = e - 2
    BY <1>0
  <2> QED  BY <1>0, <1>3, <1>4, <2>1, FromPlaceToPlace
<1>6. e - 1 \in i .. e - 1
  BY <1>0
<1> QED  BY <1>1, <1>5, <1>6

-----------------------------------------------------------------------------
\* A reader inside a string, and what a skip from there comes to: the place after
\* the string, or an end of the text that is still inside.
InString(i, d) ==
  LET s == Reading(content)[i - 1] IN s.mode = "string" /\ s.depth = d /\ Live(s)
SkipIsRight(i, r) ==
  /\ r[1] \in Nat /\ r[2] \in Nat
  /\ r[2] = 0 => /\ r[1] \in 1 .. length + 1
                 /\ LET s == Reading(content)[r[1] - 1]
                    IN  s.mode = "between" /\ Alike(s, Reading(content)[i - 1])
  /\ r[2] > 0 => LET s == Reading(content)[length] IN s.mode \in {"string", "escape"} /\ Live(s)

\* A skip that begins inside a string ends right.
LEMMA SkipsRight ==
  ASSUME content \in Seq(Characters)
  PROVE  \A i \in 1 .. length + 1, d \in Nat \ {0} : InString(i, d) => SkipIsRight(i, Skipping[i][d])
<1>0. length \in Nat /\ length = Len(content)
  BY LenProperties DEF length
<1>1. PICK R : R = Reading(content)
  OBVIOUS
<1>2. /\ \A j \in 0 .. length - 1 : R[j + 1] = Feed(R[j], content[j + 1])
      /\ \A j \in 0 .. length : R[j] \in Readers
  BY <1>0, <1>1, ReadingSteps
<1>3. ASSUME NEW i \in 1 .. length + 2, NEW d \in Nat
      PROVE  /\ d = 0 \/ i > length => Skipping[i][d] = <<i, d>>
             /\ d # 0 /\ ~ (i > length) =>
                  /\ At(i) = "\\" => Skipping[i][d] = Skipping[i + 2][d]
                  /\ At(i) = "(" => Skipping[i][d] = Skipping[i + 1][d + 1]
                  /\ At(i) = ")" => Skipping[i][d] = Skipping[i + 1][d - 1]
                  /\ At(i) \notin {"\\", "(", ")"} => Skipping[i][d] = Skipping[i + 1][d]
  BY <1>0, SkipCases
<1> DEFINE Right(i) == \A d \in Nat \ {0} : InString(i, d) => SkipIsRight(i, Skipping[i][d])
           S == {m \in 0 .. length : \A i \in length + 1 - m .. length + 1 : Right(i)}
<1>4. 0 \in S
  <2>1. Right(length + 1)
    <3> SUFFICES ASSUME NEW d \in Nat \ {0}, InString(length + 1, d)
                 PROVE  SkipIsRight(length + 1, Skipping[length + 1][d])
      OBVIOUS
    <3>1. Skipping[length + 1][d] = <<length + 1, d>>
      <4>1. length + 1 \in 1 .. length + 2 /\ length + 1 > length
        BY <1>0
      <4> QED  BY <1>3, <4>1
    <3>2. (length + 1) - 1 = length /\ length + 1 \in Nat
      BY <1>0
    <3>3. Reading(content)[length].mode = "string" /\ Live(Reading(content)[length])
      BY <3>2 DEF InString
    <3> QED  BY <3>1, <3>2, <3>3 DEF SkipIsRight
  <2>2. \A i \in length + 1 - 0 .. length + 1 : i = length + 1
    BY <1>0
  <2> QED  BY <1>0, <2>1, <2>2
<1>5. ASSUME NEW m \in 0 .. length - 1, m \in S PROVE m + 1 \in S
  <2>0. PICK a : a = length - m
    OBVIOUS
  <2>1. a \in 1 .. length /\ length + 1 - m = a + 1 /\ length + 1 - (m + 1) = a /\ m + 1 \in 0 .. length
    BY <1>0, <2>0
  <2>2. \A i \in a + 1 .. length + 1 : Right(i)
    BY <1>5, <2>1
  <2>3. Right(a)
    <3> SUFFICES ASSUME NEW d \in Nat \ {0}, InString(a, d)
                 PROVE  SkipIsRight(a, Skipping[a][d])
      OBVIOUS
    <3>1. PICK c : c = content[a]
      OBVIOUS
    <3>2. PICK s : s = R[a - 1]
      OBVIOUS
    <3>3. s \in Readers /\ s.mode = "string" /\ s.depth = d /\ Live(s) /\ R[a] = Feed(s, c)
      <4>1. a - 1 \in 0 .. length - 1 /\ (a - 1) + 1 = a
        BY <1>0, <2>1
      <4>2. R[(a - 1) + 1] = Feed(R[a - 1], content[(a - 1) + 1]) /\ R[a - 1] \in Readers
        BY <1>0, <1>2, <4>1
      <4> QED  BY <1>1, <3>1, <3>2, <4>1, <4>2 DEF InString
    <3>4. /\ At(a) = c /\ a \in 1 .. length + 2 /\ a + 1 \in a + 1 .. length + 1
          /\ ~ (a > length) /\ (a + 1) - 1 = a /\ d \in Nat /\ d # 0 /\ a \in Nat
      BY <1>0, <2>1, <3>1 DEF At
    <3>5. ASSUME NEW e \in Nat \ {0}, NEW i \in a + 1 .. length + 1, InString(i, e),
                 Alike(R[i - 1], s), Skipping[a][d] = Skipping[i][e]
          PROVE  SkipIsRight(a, Skipping[a][d])
      <4>1. SkipIsRight(i, Skipping[i][e])
        BY <2>2, <3>5
      <4> QED  BY <1>1, <3>2, <3>5, <4>1 DEF SkipIsRight, Alike
    <3>6. CASE c = "\\"
      <4>1. Skipping[a][d] = Skipping[a + 2][d]
        BY <1>3, <3>4, <3>6
      <4>2. R[a] = [s EXCEPT !.mode = "escape"]
        BY <3>3, <3>6 DEF Feed, Live
      <4>3. R[a].mode = "escape" /\ R[a].depth = d /\ Alike(R[a], s) /\ R[a] \in Readers
        BY <3>3, <4>2 DEF Readers, Alike, Live
      <4>4. CASE a = length
        <5>1. Skipping[a + 2][d] = <<a + 2, d>>
          BY <1>0, <1>3, <3>4, <4>4
        <5> QED  BY <1>1, <3>4, <4>1, <4>3, <4>4, <5>1 DEF SkipIsRight, Alike
      <4>5. CASE a # length
        <5>1. a \in 0 .. length - 1 /\ a + 2 \in a + 1 .. length + 1 /\ (a + 2) - 1 = a + 1
          BY <1>0, <2>1, <4>5
        <5>2. R[a + 1] = [R[a] EXCEPT !.mode = "string"]
          BY <1>2, <4>3, <5>1 DEF Feed, Alike, Live
        <5>3. R[a + 1].mode = "string" /\ R[a + 1].depth = d /\ Alike(R[a + 1], s)
          BY <4>3, <5>2 DEF Readers, Alike, Live
        <5>4. InString(a + 2, d)
          BY <1>1, <5>1, <5>3 DEF InString, Alike
        <5> QED  BY <3>5, <4>1, <5>1, <5>3, <5>4
      <4> QED  BY <4>4, <4>5
    <3>7. CASE c = "("
      <4>1. Skipping[a][d] = Skipping[a + 1][d + 1]
        BY <1>3, <3>4, <3>7
      <4>2. R[a] = [s EXCEPT !.depth = @ + 1]
        BY <3>3, <3>7 DEF Feed, Live
      <4>3. R[a].mode = "string" /\ R[a].depth = d + 1 /\ Alike(R[a], s)
        BY <3>3, <4>2 DEF Readers, Alike, Live
      <4>4. InString(a + 1, d + 1)
        BY <1>1, <3>4, <4>3 DEF InString, Alike
      <4> QED  BY <3>4, <3>5, <4>1, <4>3, <4>4
    <3>8. CASE c = ")"
      <4>1. Skipping[a][d] = Skipping[a + 1][d - 1]
        BY <1>3, <3>4, <3>8
      <4>2. R[a] = [s EXCEPT !.depth = @ - 1, !.mode = IF s.depth = 1 THEN "between" ELSE "string"]
        BY <3>3, <3>8 DEF Feed, Live
      <4>3. CASE d = 1
        <5>1. R[a].mode = "between" /\ Alike(R[a], s)
          BY <3>3, <4>2, <4>3 DEF Readers, Alike, Live
        <5>2. Skipping[a + 1][0] = <<a + 1, 0>>
          <6>1. a + 1 \in 1 .. length + 2 /\ 0 \in Nat
            BY <1>0, <2>1
          <6> QED  BY <1>3, <6>1
        <5>3. Skipping[a][d] = <<a + 1, 0>>
          BY <4>1, <4>3, <5>2
        <5> QED  BY <1>0, <1>1, <2>1, <3>2, <3>4, <5>1, <5>3 DEF SkipIsRight
      <4>4. CASE d # 1
        <5>1. R[a].mode = "string" /\ R[a].depth = d - 1 /\ Alike(R[a], s) /\ d - 1 \in Nat \ {0}
          BY <3>3, <4>2, <4>4 DEF Readers, Alike, Live
        <5>2. InString(a + 1, d - 1)
          BY <1>1, <3>4, <5>1 DEF InString, Alike
        <5> QED  BY <3>4, <3>5, <4>1, <5>1, <5>2
      <4> QED  BY <4>3, <4>4
    <3>9. CASE c \notin {"\\", "(", ")"}
      <4>1. Skipping[a][d] = Skipping[a + 1][d]
        BY <1>3, <3>4, <3>9
      <4>2. R[a] = s
        BY <3>3, <3>9 DEF Feed, Live
      <4>3. InString(a + 1, d)
        BY <1>1, <3>3, <3>4, <4>2 DEF InString
      <4>4. Alike(R[a], s)
        BY <3>3, <4>2 DEF Alike
      <4> QED  BY <3>4, <3>5, <4>1, <4>3, <4>4
    <3> QED  BY <3>6, <3>7, <3>8, <3>9
  <2>4. \A i \in a .. length + 1 : Right(i)
    <3> HIDE DEF Right
    <3>1. \A i \in a .. length + 1 : i = a \/ i \in a + 1 .. length + 1
      BY <1>0, <2>1
    <3> QED  BY <2>2, <2>3, <3>1
  <2> QED  BY <2>1, <2>4
<1>6. length \in S
  <2>1. 0 .. length \subseteq S
    <3> HIDE DEF S
    <3> QED  BY <1>0, <1>4, <1>5, FromPlaceToPlace
  <2> QED  BY <1>0, <2>1
<1> HIDE DEF Right
<1>7. \A i \in 1 .. length + 1 : Right(i)
  <2>1. length + 1 - length = 1
    BY <1>0
  <2> QED  BY <1>6, <2>1
<1> QED  BY <1>7 DEF Right

-----------------------------------------------------------------------------
\* The marks that a reader has seen, the word it is in included.
Sees(s) == s.marked \/ (s.mode = "word" /\ s.open = <<>> /\ s.word \in Painting)

\* The lexer is in step with the definition: what it holds is what the reader holds
\* after the characters before its place, and where it jumped to, the reader is
\* between things or at the end of one.
InStep(text, i, stack, f) ==
  LET s == Reading(text)[i - 1]
  IN  /\ i \in 1 .. Len(text) + 1
      /\ Live(s) /\ s.open = stack /\ f = Sees(s)
      /\ s.mode \in {"between", "word", "name", "comment"}
      /\ s.mode \in {"word", "name"} /\ i <= Len(text) => text[i] \in WordEnds
      /\ s.mode = "comment" /\ i <= Len(text) => text[i] = "n"
      /\ s.mode = "word" /\ s.open = <<>> => s.word # <<"I">>

\* A reader between things is in step with a lexer that holds the same.
LEMMA BetweenIsInStep ==
  ASSUME NEW text \in Seq(Characters), NEW i \in 1 .. Len(text) + 1, NEW s, s \in Readers,
         s = Reading(text)[i - 1], s.mode = "between", Live(s)
  PROVE  InStep(text, i, s.open, s.marked)
<1>1. Sees(s) = s.marked
  BY DEF Sees, Readers
<1> QED  BY <1>1 DEF InStep

\* From where the lexer is, the reader enters what the next character begins.
LEMMA EntersNext ==
  ASSUME NEW text \in Seq(Characters), NEW i \in 1 .. Len(text), NEW stack, NEW f,
         InStep(text, i, stack, f)
  PROVE  \E e \in Readers : /\ e.mode = "between" /\ Live(e) /\ e.open = stack /\ e.marked = f
                            /\ Reading(text)[i] = Enter(e, text[i])
<1>0. Len(text) \in Nat /\ i - 1 \in 0 .. Len(text) - 1 /\ i - 1 \in 0 .. Len(text) /\ (i - 1) + 1 = i
  BY LenProperties
<1>1. PICK s : s = Reading(text)[i - 1]
  OBVIOUS
<1>2. s \in Readers /\ Reading(text)[i] = Feed(s, text[i])
  <2>1. Reading(text)[(i - 1) + 1] = Feed(Reading(text)[i - 1], text[(i - 1) + 1])
    BY <1>0, ReadingSteps
  <2> QED  BY <1>0, <1>1, <2>1, ReadingSteps
<1>3. /\ Live(s) /\ s.open = stack /\ f = Sees(s)
      /\ s.mode \in {"between", "word", "name", "comment"}
      /\ s.mode \in {"word", "name"} => text[i] \in WordEnds
      /\ s.mode = "comment" => text[i] = "n"
      /\ s.mode = "word" /\ s.open = <<>> => s.word # <<"I">>
  BY <1>0, <1>1 DEF InStep
<1>4. CASE s.mode = "between"
  <2>1. f = s.marked /\ Feed(s, text[i]) = Enter(s, text[i])
    BY <1>2, <1>3, <1>4 DEF Sees, Feed, Live, Readers
  <2> QED  BY <1>2, <1>3, <1>4, <2>1
<1>5. CASE s.mode \in {"word", "name"}
  <2>1. PICK e : e = EndWord(s)
    OBVIOUS
  <2>2. e \in Readers /\ e.mode = "between" /\ e.open = s.open /\ ~ e.bad
    BY <1>2, <1>3, <2>1, EndWordType DEF EndWord, Readers, Live
  <2>3. e.marked = Sees(s)
    BY <1>2, <2>1 DEF EndWord, Readers, Sees
  <2>4. ~ e.over
    <3>1. e.over = (s.over \/ (s.mode = "word" /\ s.open = <<>> /\ s.word \in Painting /\ s.word = <<"I">>))
      BY <1>2, <2>1 DEF EndWord, Readers
    <3> QED  BY <1>3, <3>1 DEF Live
  <2>5. Feed(s, text[i]) = Enter(e, text[i])
    BY <1>2, <1>3, <1>5, <2>1, <2>4 DEF Feed, Live
  <2> QED  BY <1>2, <1>3, <2>2, <2>3, <2>4, <2>5 DEF Live
<1>6. CASE s.mode = "comment"
  <2>1. PICK e : e = [s EXCEPT !.mode = "between"]
    OBVIOUS
  <2>2. e \in Readers /\ e.mode = "between" /\ Live(e) /\ e.open = s.open /\ e.marked = s.marked
    BY <1>2, <1>3, <2>1 DEF Readers, Live
  <2>3. f = s.marked
    BY <1>2, <1>3, <1>6 DEF Sees, Readers
  <2>4. Feed(s, text[i]) = e
    BY <1>3, <1>6, <2>1 DEF Feed, Live
  <2>5. Enter(e, text[i]) = e
    BY <1>3, <1>6 DEF Enter
  <2> QED  BY <1>2, <1>3, <2>2, <2>3, <2>4, <2>5
<1> QED  BY <1>3, <1>4, <1>5, <1>6

\* Where a jump lands: at the first of the characters it looks for, or after the end.
LEMMA FirstFromIs ==
  ASSUME length \in Nat, NEW i \in 1 .. length + 1, NEW Stops
  PROVE  /\ FirstFrom(i, Stops) \in i .. length + 1
         /\ \A k \in i .. FirstFrom(i, Stops) - 1 : content[k] \notin Stops
         /\ FirstFrom(i, Stops) <= length => content[FirstFrom(i, Stops)] \in Stops
<1> DEFINE S == {k \in i .. length : content[k] \in Stops} \cup {length + 1}
<1>1. PICK e : e = FirstFrom(i, Stops)
  OBVIOUS
<1>2. e = Min(S)
  BY <1>1 DEF FirstFrom
<1>3. S \subseteq Nat /\ S # {} /\ S \subseteq i .. length + 1
  OBVIOUS
<1>4. e \in S /\ \A y \in S : e <= y
  <2> HIDE DEF S
  <2> QED  BY <1>2, <1>3, MinIsLeast
<1>5. ASSUME NEW k \in i .. e - 1 PROVE content[k] \notin Stops
  <2>1. k \in i .. length /\ k \in Nat /\ e \in Nat /\ k < e
    BY <1>3, <1>4
  <2> QED  BY <1>4, <2>1
<1> QED  BY <1>1, <1>3, <1>4, <1>5

-----------------------------------------------------------------------------
\* The lexer, at a character of a content, in step with the reader.
Scanning(e) ==
  /\ content \in Seq(Characters) /\ index \in 1 .. Len(content)
  /\ InStep(content, index, containers, found)
  /\ e \in Readers /\ e.mode = "between" /\ Live(e) /\ e.open = containers /\ e.marked = found
  /\ Reading(content)[index] = Enter(e, content[index])

\* A reader that enters nothing, or a container, is in step one character on.
LEMMA OneOn ==
  ASSUME NEW e, Scanning(e)
  PROVE  /\ content[index] = "n" => InStep(content, index + 1, containers, found)
         /\ content[index] = "[" => InStep(content, index + 1, Append(containers, "]"), found)
         /\ content[index] = "]" /\ containers # <<>> /\ Last(containers) = "]"
              => InStep(content, index + 1, Front(containers), found)
<1>0. /\ index + 1 \in 1 .. Len(content) + 1 /\ (index + 1) - 1 = index /\ index \in 0 .. Len(content)
      /\ content \in Seq(Characters)
  BY LenProperties DEF Scanning
<1>1. PICK s : s = Reading(content)[index]
  OBVIOUS
<1>2. s \in Readers /\ s = Reading(content)[(index + 1) - 1]
  BY <1>0, <1>1, ReadingSteps
<1>3. ASSUME s.mode = "between", Live(s), s.marked = found
      PROVE  InStep(content, index + 1, s.open, found)
  BY <1>0, <1>2, <1>3, BetweenIsInStep
<1>4. /\ e \in Readers /\ e.mode = "between" /\ Live(e) /\ e.open = containers /\ e.marked = found
      /\ s = Enter(e, content[index])
  BY <1>1 DEF Scanning
<1>5. CASE content[index] = "n"
  BY <1>3, <1>4, <1>5 DEF Enter
<1>6. CASE content[index] = "["
  <2>1. s = [e EXCEPT !.open = Append(@, "]")]
    BY <1>4, <1>6 DEF Enter
  <2> QED  BY <1>3, <1>4, <1>6, <2>1 DEF Readers, Live
<1>7. CASE content[index] = "]" /\ containers # <<>> /\ Last(containers) = "]"
  <2>1. s = [e EXCEPT !.open = Front(@)]
    BY <1>4, <1>7 DEF Enter
  <2> QED  BY <1>3, <1>4, <1>7, <2>1 DEF Readers, Live
<1> QED  BY <1>5, <1>6, <1>7

\* A bracket that closes what is not open is an error of the text.
LEMMA CloseFails ==
  ASSUME NEW e, Scanning(e),
         \/ content[index] = ")"
         \/ content[index] = "]" /\ ~ (containers # <<>> /\ Last(containers) = "]")
  PROVE  Judgement(content) = "malformed"
<1>0. index \in 0 .. Len(content) /\ content \in Seq(Characters)
  BY LenProperties DEF Scanning
<1>1. PICK s : s = Reading(content)[index]
  OBVIOUS
<1>2. /\ e \in Readers /\ Live(e) /\ e.open = containers /\ s = Enter(e, content[index])
  BY <1>1 DEF Scanning
<1>3. s = [e EXCEPT !.bad = TRUE]
  <2>1. CASE content[index] = ")"
    BY <1>2, <2>1 DEF Enter
  <2>2. CASE content[index] = "]" /\ ~ (containers # <<>> /\ Last(containers) = "]")
    BY <1>2, <2>2 DEF Enter
  <2> QED  BY <2>1, <2>2
<1>4. s.bad /\ ~ s.over
  BY <1>2, <1>3 DEF Readers, Live
<1> QED  BY <1>0, <1>1, <1>4, JudgedBad

\* A comment or a name is skipped to its end.
LEMMA SkipsToTheEnd ==
  ASSUME NEW e, Scanning(e), NEW Stops,
         \/ content[index] = "%" /\ Stops = {"n"}
         \/ content[index] = "/" /\ Stops = WordEnds
  PROVE  InStep(content, FirstFrom(index + 1, Stops), containers, found)
<1>0. /\ content \in Seq(Characters) /\ length = Len(content) /\ length \in Nat
      /\ index + 1 \in 1 .. length + 1 /\ index \in 0 .. length /\ index \in Nat
  BY LenProperties DEF Scanning, length
<1>1. PICK b : b = FirstFrom(index + 1, Stops)
  OBVIOUS
<1>2. /\ b \in index + 1 .. length + 1 /\ (\A k \in index + 1 .. b - 1 : content[k] \notin Stops)
      /\ b <= length => content[b] \in Stops
  BY <1>0, <1>1, FirstFromIs
<1>3. PICK s : s = Reading(content)[index]
  OBVIOUS
<1>4. /\ e \in Readers /\ Live(e) /\ e.open = containers /\ e.marked = found
      /\ s = Enter(e, content[index])
  BY <1>3 DEF Scanning
<1>5. PICK mode \in {"comment", "name"} :
        /\ s = [e EXCEPT !.mode = mode]
        /\ Stops = CASE mode = "name" -> WordEnds [] mode = "comment" -> {"n"} [] mode = "hex" -> {">"}
  BY <1>4 DEF Enter
<1>6. s.mode = mode /\ Live(s) /\ s.open = containers /\ s.marked = found
  BY <1>4, <1>5 DEF Readers, Live
<1>7. Reading(content)[b - 1].mode = mode /\ Alike(Reading(content)[b - 1], s)
  <2>1. /\ index \in 0 .. Len(content) /\ b \in index + 1 .. Len(content) + 1
        /\ mode \in {"name", "comment", "hex"}
        /\ Reading(content)[index].mode = mode /\ Live(Reading(content)[index])
    BY <1>0, <1>2, <1>3, <1>5, <1>6
  <2>2. Reading(content)[b - 1].mode = mode /\ Alike(Reading(content)[b - 1], Reading(content)[index])
    BY <1>0, <1>2, <1>5, <2>1, WaitsForTheEnd
  <2> QED  BY <1>3, <2>2
<1>8. PICK t : t = Reading(content)[b - 1]
  OBVIOUS
<1>9. t \in Readers
  <2>1. b - 1 \in 0 .. length
    BY <1>0, <1>2
  <2> QED  BY <1>0, <1>8, <2>1, ReadingSteps
<1>10. Sees(t) = found /\ Live(t) /\ t.open = containers /\ t.mode = mode
  BY <1>5, <1>6, <1>7, <1>8, <1>9 DEF Alike, Sees, Readers
<1>11. mode = "name" /\ b <= length => content[b] \in WordEnds
  BY <1>2, <1>5
<1>12. mode = "comment" /\ b <= length => content[b] = "n"
  BY <1>2, <1>5
<1>13. b \in 1 .. Len(content) + 1
  BY <1>0, <1>2
<1> QED  BY <1>0, <1>1, <1>5, <1>8, <1>10, <1>11, <1>12, <1>13 DEF InStep

\* A literal string is skipped to its end, or the text ends inside it.
LEMMA StringSkipped ==
  ASSUME NEW e, Scanning(e), content[index] = "("
  PROVE  /\ Skip(index + 1)[2] > 0 => Judgement(content) = "malformed"
         /\ ~ (Skip(index + 1)[2] > 0) => InStep(content, Skip(index + 1)[1], containers, found)
<1>0. /\ content \in Seq(Characters) /\ length = Len(content) /\ length \in Nat
      /\ index + 1 \in 1 .. length + 1 /\ index \in 0 .. length /\ (index + 1) - 1 = index
  BY LenProperties DEF Scanning, length
<1>1. PICK s : s = Reading(content)[index]
  OBVIOUS
<1>2. /\ e \in Readers /\ Live(e) /\ e.open = containers /\ e.marked = found
      /\ s = Enter(e, content[index])
  BY <1>1 DEF Scanning
<1>3. s = [e EXCEPT !.mode = "string", !.depth = 1]
  BY <1>2 DEF Enter
<1>4. s.mode = "string" /\ s.depth = 1 /\ Live(s) /\ s.open = containers /\ s.marked = found
  BY <1>2, <1>3 DEF Readers, Live
<1>5. InString(index + 1, 1)
  BY <1>0, <1>1, <1>4 DEF InString
<1>6. PICK r : r = Skip(index + 1)
  OBVIOUS
<1>7. SkipIsRight(index + 1, r)
  BY <1>0, <1>5, <1>6, SkipsRight DEF Skip
<1>8. ASSUME r[2] > 0 PROVE Judgement(content) = "malformed"
  BY <1>0, <1>7, <1>8, JudgedInside DEF SkipIsRight, Live
<1>9. ASSUME ~ (r[2] > 0) PROVE InStep(content, r[1], containers, found)
  <2>1. PICK t : t = Reading(content)[r[1] - 1]
    OBVIOUS
  <2>2. r[1] \in 1 .. Len(content) + 1 /\ t.mode = "between" /\ Alike(t, s)
    BY <1>0, <1>1, <1>7, <1>9, <2>1 DEF SkipIsRight
  <2>3. t \in Readers
    <3>1. r[1] - 1 \in 0 .. Len(content)
      BY <1>0, <2>2
    <3> QED  BY <1>0, <2>1, <3>1, ReadingSteps
  <2> QED  BY <1>0, <1>4, <2>1, <2>2, <2>3, BetweenIsInStep DEF Alike
<1> QED  BY <1>6, <1>8, <1>9

\* A dictionary opens at a pair of brackets.
LEMMA DictionaryOpened ==
  ASSUME NEW e, Scanning(e), content[index] = "<", At(index + 1) = "<"
  PROVE  InStep(content, index + 2, Append(containers, ">>"), found)
<1>0. /\ content \in Seq(Characters) /\ length = Len(content) /\ length \in Nat
      /\ index \in 0 .. length /\ index \in Nat
  BY LenProperties DEF Scanning, length
<1>1. index + 1 <= length /\ content[index + 1] = "<"
  BY <1>0 DEF At
<1>2. PICK s : s = Reading(content)[index]
  OBVIOUS
<1>3. /\ e \in Readers /\ Live(e) /\ e.open = containers /\ e.marked = found
      /\ s = Enter(e, content[index])
  BY <1>2 DEF Scanning
<1>4. s = [e EXCEPT !.mode = "<"]
  BY <1>3 DEF Enter
<1>5. s \in Readers /\ s.mode = "<" /\ Live(s) /\ s.open = containers /\ s.marked = found
  <2>1. s \in Readers
    BY <1>0, <1>2, ReadingSteps
  <2> QED  BY <1>3, <1>4, <2>1 DEF Readers, Live
<1>6. PICK t : t = Reading(content)[index + 1]
  OBVIOUS
<1>7. t \in Readers /\ t = Feed(s, "<")
  <2>1. index \in 0 .. Len(content) - 1 /\ index + 1 \in 0 .. Len(content)
    BY <1>0, <1>1
  <2> QED  BY <1>0, <1>1, <1>2, <1>6, <2>1, ReadingSteps
<1>8. t = [s EXCEPT !.mode = "between", !.open = Append(@, ">>")]
  BY <1>5, <1>7 DEF Feed, Live
<1>9. t.mode = "between" /\ Live(t) /\ t.open = Append(containers, ">>") /\ t.marked = found
  BY <1>5, <1>8 DEF Readers, Live
<1>10. index + 2 \in 1 .. Len(content) + 1 /\ (index + 2) - 1 = index + 1
  BY <1>0, <1>1
<1>11. InStep(content, index + 2, t.open, t.marked)
  BY <1>0, <1>6, <1>7, <1>9, <1>10, BetweenIsInStep
<1> QED  BY <1>9, <1>11

\* A lone opening bracket begins a hexadecimal string, which is skipped to its end, or
\* ends the text.
LEMMA HexadecimalSkipped ==
  ASSUME NEW e, Scanning(e), content[index] = "<", At(index + 1) # "<"
  PROVE  LET b == FirstFrom(index + 1, {">"})
         IN  /\ b > length => Judgement(content) = "malformed"
             /\ ~ (b > length) => InStep(content, b + 1, containers, found)
<1>0. /\ content \in Seq(Characters) /\ length = Len(content) /\ length \in Nat
      /\ index \in 0 .. length /\ index \in Nat /\ index + 1 \in 1 .. length + 1
  BY LenProperties DEF Scanning, length
<1>1. PICK b : b = FirstFrom(index + 1, {">"})
  OBVIOUS
<1>2. /\ b \in index + 1 .. length + 1 /\ (\A k \in index + 1 .. b - 1 : content[k] \notin {">"})
      /\ b <= length => content[b] \in {">"}
  BY <1>0, <1>1, FirstFromIs
<1>3. PICK s : s = Reading(content)[index]
  OBVIOUS
<1>4. /\ e \in Readers /\ Live(e) /\ e.open = containers /\ e.marked = found
      /\ s = Enter(e, content[index])
  BY <1>3 DEF Scanning
<1>5. s = [e EXCEPT !.mode = "<"]
  BY <1>4 DEF Enter
<1>6. s \in Readers /\ s.mode = "<" /\ Live(s) /\ s.open = containers /\ s.marked = found
  <2>1. s \in Readers
    BY <1>0, <1>3, ReadingSteps
  <2> QED  BY <1>4, <1>5, <2>1 DEF Readers, Live
<1>7. ASSUME NEW j \in index .. length - 1
      PROVE  Reading(content)[j + 1] = Feed(Reading(content)[j], content[j + 1])
  <2>1. j \in 0 .. Len(content) - 1
    BY <1>0
  <2> QED  BY <1>0, <2>1, ReadingSteps
\* The character before the end: still in the first bracket, or in the string.
<1>8. PICK t : t = Reading(content)[b - 1]
  OBVIOUS
<1>9. t \in Readers /\ t.mode \in {"<", "hex"} /\ Alike(t, s)
  <2>1. t \in Readers
    <3>1. b - 1 \in 0 .. Len(content)
      BY <1>0, <1>2
    <3> QED  BY <1>0, <1>8, <3>1, ReadingSteps
  <2>2. CASE b = index + 1
    <3>1. b - 1 = index
      BY <1>0, <2>2
    <3> QED  BY <1>3, <1>6, <1>8, <2>1, <3>1 DEF Alike
  <2>3. CASE b # index + 1
    <3>1. index + 1 \in 0 .. Len(content) /\ b \in (index + 1) + 1 .. Len(content) + 1 /\ index \in index .. length - 1
          /\ index + 1 \in index + 1 .. b - 1 /\ index + 1 <= length
      BY <1>0, <1>2, <2>3
    <3>2. PICK u : u = Reading(content)[index + 1]
      OBVIOUS
    <3>3. u = Feed(s, content[index + 1])
      BY <1>3, <1>7, <3>1, <3>2
    <3>4. content[index + 1] # ">" /\ content[index + 1] # "<"
      BY <1>2, <3>1 DEF At
    <3>5. u = [s EXCEPT !.mode = "hex"]
      BY <1>6, <3>3, <3>4 DEF Feed, Live
    <3>6. u.mode = "hex" /\ Alike(u, s) /\ Live(u)
      BY <1>6, <3>5 DEF Readers, Alike, Live
    <3>7. \A k \in (index + 1) + 1 .. b - 1 : content[k] \notin {">"}
      BY <1>0, <1>2
    <3>8. {">"} = CASE "hex" = "name" -> WordEnds [] "hex" = "comment" -> {"n"} [] "hex" = "hex" -> {">"}
      OBVIOUS
    <3>9. Reading(content)[b - 1].mode = "hex" /\ Alike(Reading(content)[b - 1], Reading(content)[index + 1])
      BY <1>0, <3>1, <3>2, <3>6, <3>7, <3>8, WaitsForTheEnd
    <3> QED  BY <1>8, <2>1, <3>2, <3>6, <3>9 DEF Alike
  <2> QED  BY <2>2, <2>3
<1>10. ASSUME b > length PROVE Judgement(content) = "malformed"
  <2>1. b - 1 = Len(content)
    BY <1>0, <1>2, <1>10
  <2> QED  BY <1>0, <1>8, <1>9, <2>1, JudgedInside DEF Alike, Live
<1>11. ASSUME ~ (b > length) PROVE InStep(content, b + 1, containers, found)
  <2>1. /\ b - 1 \in index .. length - 1 /\ (b - 1) + 1 = b /\ content[b] = ">"
        /\ b + 1 \in 1 .. Len(content) + 1 /\ (b + 1) - 1 = b /\ b \in 0 .. Len(content)
    BY <1>0, <1>2, <1>11
  <2>2. PICK u : u = Reading(content)[b]
    OBVIOUS
  <2>3. u \in Readers /\ u = Feed(t, ">")
    <3>1. Reading(content)[(b - 1) + 1] = Feed(Reading(content)[b - 1], content[(b - 1) + 1])
      BY <1>7, <2>1
    <3> QED  BY <1>0, <1>8, <2>1, <2>2, <3>1, ReadingSteps
  <2>4. u = [t EXCEPT !.mode = "between"]
    <3>1. CASE t.mode = "<"
      BY <1>9, <2>3, <3>1 DEF Feed, Alike, Live
    <3>2. CASE t.mode = "hex"
      BY <1>9, <2>3, <3>2 DEF Feed, Alike, Live
    <3> QED  BY <1>9, <3>1, <3>2
  <2>5. u.mode = "between" /\ Live(u) /\ u.open = containers /\ u.marked = found
    BY <1>6, <1>9, <2>4 DEF Readers, Alike, Live
  <2>6. InStep(content, b + 1, u.open, u.marked)
    BY <1>0, <2>1, <2>2, <2>3, <2>5, BetweenIsInStep
  <2> QED  BY <2>5, <2>6
<1> QED  BY <1>1, <1>10, <1>11

\* A pair of closing brackets closes the dictionary it is in; any other is an error.
LEMMA DictionaryClosed ==
  ASSUME NEW e, Scanning(e), content[index] = ">"
  PROVE  LET closes == At(index + 1) = ">" /\ containers # <<>> /\ Last(containers) = ">>"
         IN  /\ closes => InStep(content, index + 2, Front(containers), found)
             /\ ~ closes => Judgement(content) = "malformed"
<1>0. /\ content \in Seq(Characters) /\ length = Len(content) /\ length \in Nat
      /\ index \in 0 .. length /\ index \in Nat
  BY LenProperties DEF Scanning, length
<1>1. PICK s : s = Reading(content)[index]
  OBVIOUS
<1>2. /\ e \in Readers /\ Live(e) /\ e.open = containers /\ e.marked = found
      /\ s = Enter(e, content[index])
  BY <1>1 DEF Scanning
<1>3. s = [e EXCEPT !.mode = ">"]
  BY <1>2 DEF Enter
<1>4. s \in Readers /\ s.mode = ">" /\ Live(s) /\ s.open = containers /\ s.marked = found
  <2>1. s \in Readers
    BY <1>0, <1>1, ReadingSteps
  <2> QED  BY <1>2, <1>3, <2>1 DEF Readers, Live
<1>5. CASE index = length
  <2>1. At(index + 1) = "end"
    BY <1>0, <1>5 DEF At
  <2>2. Judgement(content) = "malformed"
    BY <1>0, <1>1, <1>4, <1>5, JudgedInside DEF Live
  <2> QED  BY <2>1, <2>2
<1>6. CASE index # length
  <2>1. /\ index \in 0 .. Len(content) - 1 /\ index + 1 \in 0 .. Len(content)
        /\ index + 2 \in 1 .. Len(content) + 1 /\ (index + 2) - 1 = index + 1 /\ index + 1 <= length
    BY <1>0, <1>6
  <2>2. PICK t : t = Reading(content)[index + 1]
    OBVIOUS
  <2>3. t \in Readers /\ t = Feed(s, content[index + 1])
    BY <1>0, <1>1, <2>1, <2>2, ReadingSteps
  <2>4. PICK c : c = content[index + 1]
    OBVIOUS
  <2>5. At(index + 1) = c
    BY <2>1, <2>4 DEF At
  <2>6. CASE c = ">" /\ containers # <<>> /\ Last(containers) = ">>"
    <3>1. t = [s EXCEPT !.mode = "between", !.open = Front(@)]
      BY <1>4, <2>3, <2>4, <2>6 DEF Feed, Live
    <3>2. t.mode = "between" /\ Live(t) /\ t.open = Front(containers) /\ t.marked = found
      BY <1>4, <3>1 DEF Readers, Live
    <3>3. InStep(content, index + 2, t.open, t.marked)
      BY <1>0, <2>1, <2>2, <2>3, <3>2, BetweenIsInStep
    <3> QED  BY <2>5, <2>6, <3>2, <3>3
  <2>7. CASE ~ (c = ">" /\ containers # <<>> /\ Last(containers) = ">>")
    <3>1. t = [s EXCEPT !.bad = TRUE]
      BY <1>4, <2>3, <2>4, <2>7 DEF Feed, Live
    <3>2. t.bad /\ ~ t.over
      BY <1>4, <3>1 DEF Readers, Live
    <3>3. Judgement(content) = "malformed"
      BY <1>0, <2>1, <2>2, <3>2, JudgedBad
    <3> QED  BY <2>5, <2>7, <3>3
  <2> QED  BY <2>6, <2>7
<1> QED  BY <1>5, <1>6

\* A piece of one character.
LEMMA SubSeqOfOne ==
  ASSUME NEW text \in Seq(Characters), NEW i \in 1 .. Len(text)
  PROVE  SubSeq(text, i, i) = <<text[i]>>
<1>0. Len(text) \in Nat /\ i \in Nat /\ text[i] \in Characters
  BY LenProperties, ElementOfSeq
<1>1. PICK s : s = SubSeq(text, i, i)
  OBVIOUS
<1>2. s \in Seq(Characters) /\ Len(s) = i - i + 1 /\ \A k \in 1 .. i - i + 1 : s[k] = text[i + k - 1]
  <2>1. (\A k \in i .. i : text[k] \in Characters) /\ i <= i
    BY <1>0
  <2>2. i \in Nat
    BY <1>0
  <2> QED  BY <1>1, <2>1, <2>2, SubSeqProperties
<1>3. Len(s) = 1 /\ s[1] = text[i]
  <2>1. i - i + 1 = 1 /\ 1 \in 1 .. i - i + 1 /\ i + 1 - 1 = i
    BY <1>0
  <2> QED  BY <1>2, <2>1
<1>4. PICK u : u = <<text[i]>>
  OBVIOUS
<1>5. u \in Seq(Characters) /\ Len(u) = 1 /\ u[1] = text[i]
  BY <1>0, <1>4
<1>6. s = u
  <2>1. \A k \in 1 .. Len(s) : s[k] = u[k]
    BY <1>3, <1>5
  <2> QED  BY <1>2, <1>3, <1>5, <2>1, SeqEqual
<1> QED  BY <1>1, <1>4, <1>6

\* A word is read to its end: outside every container it may paint, and the one that
\* begins an inline image ends the reading.
LEMMA WordSkipped ==
  ASSUME NEW e, Scanning(e), content[index] \notin WordEnds
  PROVE  LET b == FirstFrom(index, WordEnds)
             word == SubSeq(content, index, b - 1)
             paints == containers = <<>> /\ word \in Painting
         IN  /\ paints /\ word = <<"I">> => Judgement(content) = "marked"
             /\ ~ (paints /\ word = <<"I">>) => InStep(content, b, containers, found \/ paints)
<1>0. /\ content \in Seq(Characters) /\ length = Len(content) /\ length \in Nat
      /\ index \in 0 .. length /\ index \in Nat /\ index \in 1 .. length + 1 /\ index \in 1 .. length
  BY LenProperties DEF Scanning, length
<1>1. PICK b : b = FirstFrom(index, WordEnds)
  OBVIOUS
<1>2. /\ b \in index + 1 .. length + 1 /\ (\A k \in index + 1 .. b - 1 : content[k] \notin WordEnds)
      /\ b <= length => content[b] \in WordEnds
  <2>1. /\ b \in index .. length + 1 /\ (\A k \in index .. b - 1 : content[k] \notin WordEnds)
        /\ b <= length => content[b] \in WordEnds
    BY <1>0, <1>1, FirstFromIs
  <2>2. b # index
    BY <1>0, <2>1
  <2> QED  BY <1>0, <2>1, <2>2
<1>3. PICK s : s = Reading(content)[index]
  OBVIOUS
<1>4. /\ e \in Readers /\ Live(e) /\ e.open = containers /\ e.marked = found
      /\ s = Enter(e, content[index])
  BY <1>3 DEF Scanning
<1>5. s = [e EXCEPT !.mode = "word", !.word = <<content[index]>>]
  BY <1>4 DEF Enter, WordEnds, Delimiters
<1>6. s.mode = "word" /\ s.word = SubSeq(content, index, index) /\ Live(s) /\ s.open = containers /\ s.marked = found
  <2>1. s.mode = "word" /\ s.word = <<content[index]>> /\ Live(s) /\ s.open = containers /\ s.marked = found
    BY <1>4, <1>5 DEF Readers, Live
  <2> QED  BY <1>0, <2>1, SubSeqOfOne
<1>7. PICK word : word = SubSeq(content, index, b - 1)
  OBVIOUS
<1>8. PICK t : t = Reading(content)[b - 1]
  OBVIOUS
<1>9. t \in Readers
  <2>1. b - 1 \in 0 .. Len(content)
    BY <1>0, <1>2
  <2> QED  BY <1>0, <1>8, <2>1, ReadingSteps
<1>10. t.mode = "word" /\ t.word = word /\ Alike(t, s)
  <2>1. index \in 1 .. Len(content) /\ b \in index + 1 .. Len(content) + 1
    BY <1>0, <1>2
  <2>2. /\ Reading(content)[index].mode = "word" /\ Live(Reading(content)[index])
        /\ Reading(content)[index].word = SubSeq(content, index, index)
    BY <1>3, <1>6
  <2> QED  BY <1>0, <1>2, <1>3, <1>7, <1>8, <2>1, <2>2, WordGoesOn
<1>11. Live(t) /\ t.open = containers /\ t.marked = found
  BY <1>6, <1>10 DEF Alike
<1> DEFINE paints == containers = <<>> /\ word \in Painting
<1>12. ASSUME paints, word = <<"I">> PROVE Judgement(content) = "marked"
  <2>1. PICK n : n = EndWord(t)
    OBVIOUS
  <2>2. n.over
    BY <1>9, <1>10, <1>11, <1>12, <2>1 DEF EndWord, Readers
  <2>3. CASE b <= length
    <3>1. b - 1 \in 0 .. Len(content) - 1 /\ (b - 1) + 1 = b /\ b \in 0 .. Len(content)
      BY <1>0, <1>2, <2>3
    <3>2. Reading(content)[b] = Feed(t, content[b])
      BY <1>0, <1>8, <3>1, ReadingSteps
    <3>3. Feed(t, content[b]) = n
      BY <1>2, <1>10, <1>11, <2>1, <2>2, <2>3 DEF Feed, Live
    <3> QED  BY <1>0, <2>2, <3>1, <3>2, <3>3, JudgedOver
  <2>4. CASE ~ (b <= length)
    <3>1. b - 1 = Len(content)
      BY <1>0, <1>2, <2>4
    <3>2. t = Reading(content)[Len(content)]
      BY <1>8, <3>1
    <3> QED  BY <1>10, <1>11, <2>1, <2>2, <3>2 DEF Judgement, Live
  <2> QED  BY <2>3, <2>4
<1>13. ASSUME ~ (paints /\ word = <<"I">>) PROVE InStep(content, b, containers, found \/ paints)
  <2>1. Sees(t) = (found \/ paints)
    BY <1>10, <1>11 DEF Sees
  <2>2. ~ (containers = <<>> /\ word = <<"I">>)
    BY <1>13 DEF Painting
  <2>3. b \in 1 .. Len(content) + 1
    BY <1>0, <1>2
  <2>4. b <= Len(content) => content[b] \in WordEnds
    BY <1>0, <1>2
  <2> HIDE DEF paints
  <2> QED  BY <1>8, <1>10, <1>11, <2>1, <2>2, <2>3, <2>4 DEF InStep
<1> QED  BY <1>1, <1>7, <1>12, <1>13

\* At the end of the content the lexer holds what the definition judges by.
LEMMA AtTheEnd ==
  ASSUME NEW text \in Seq(Characters), NEW i \in 1 .. Len(text) + 1, NEW stack, NEW f \in BOOLEAN,
         InStep(text, i, stack, f), i > Len(text)
  PROVE  Judgement(text) = IF stack # <<>> THEN "malformed" ELSE IF f THEN "marked" ELSE "unmarked"
<1>0. Len(text) \in Nat /\ i - 1 = Len(text) /\ Len(text) \in 0 .. Len(text)
  BY LenProperties
<1>1. PICK s : s = Reading(text)[Len(text)]
  OBVIOUS
<1>2. s \in Readers
  BY <1>0, <1>1, ReadingSteps
<1>3. /\ Live(s) /\ s.open = stack /\ f = Sees(s)
      /\ s.mode \in {"between", "word", "name", "comment"}
      /\ s.mode = "word" /\ s.open = <<>> => s.word # <<"I">>
  BY <1>0, <1>1 DEF InStep
<1>4. PICK n : n = IF s.mode \in {"word", "name"} /\ ~ s.bad THEN EndWord(s) ELSE s
  OBVIOUS
<1>5. ~ n.over /\ ~ n.bad /\ n.open = stack /\ n.marked = f /\ n.mode \in {"between", "comment"}
  <2>1. CASE s.mode \in {"word", "name"}
    <3>1. n = EndWord(s)
      BY <1>3, <1>4, <2>1 DEF Live
    <3>2. n.mode = "between" /\ n.open = s.open /\ ~ n.bad
      BY <1>2, <1>3, <3>1 DEF EndWord, Readers, Live
    <3>3. n.marked = Sees(s)
      BY <1>2, <3>1 DEF EndWord, Readers, Sees
    <3>4. n.over = (s.over \/ (s.mode = "word" /\ s.open = <<>> /\ s.word \in Painting /\ s.word = <<"I">>))
      BY <1>2, <3>1 DEF EndWord, Readers
    <3> QED  BY <1>3, <3>2, <3>3, <3>4 DEF Live
  <2>2. CASE s.mode \in {"between", "comment"}
    <3>1. n = s
      BY <1>4, <2>2
    <3>2. f = s.marked
      BY <1>2, <1>3, <2>2 DEF Sees, Readers
    <3> QED  BY <1>3, <2>2, <3>1, <3>2 DEF Live
  <2> QED  BY <1>3, <2>1, <2>2
<1> QED  BY <1>1, <1>4, <1>5 DEF Judgement

-----------------------------------------------------------------------------
\* While the lexer scans, it is in step with the definition; what it concluded is right.
MarkingInv ==
  /\ MarkingTypeOK /\ index <= length + 1
  /\ verdict = "scanning" => InStep(content, index, containers, found)
  /\ LexerIsRight

\* What an iteration may do: go on in step, or stop for a reason of the definition.
LexerGoesOn == /\ UNCHANGED <<content, cut>> /\ verdict' = "scanning" /\ found' \in BOOLEAN
          /\ InStep(content, index', containers', found')
GivesUp == Judgement(content) = "malformed" /\ Unreadable
Paints == /\ Judgement(content) = "marked" /\ verdict' = "marked" /\ found' \in BOOLEAN
          /\ UNCHANGED <<content, cut, containers>> /\ index' \in 1 .. length + 1

\* And nothing else.
LEMMA EveryIteration ==
  ASSUME MarkingInv, Scan
  PROVE  LexerGoesOn \/ GivesUp \/ Paints
<1>0. /\ content \in Seq(Characters) /\ length = Len(content) /\ length \in Nat /\ index \in 1 .. Len(content)
      /\ verdict = "scanning" /\ InStep(content, index, containers, found) /\ found \in BOOLEAN
  BY LenProperties DEF MarkingInv, MarkingTypeOK, Scan, length
<1>1. PICK e : Scanning(e)
  BY <1>0, EntersNext DEF Scanning
<1>2. PICK c : c = content[index]
  OBVIOUS
<1>3. At(index) = c
  BY <1>0, <1>2 DEF At
<1>4. ASSUME NEW i, NEW stack, Jump(i, stack), InStep(content, i, stack, found) PROVE LexerGoesOn
  BY <1>0, <1>4 DEF Jump, LexerGoesOn
<1>5. CASE c = "n"
  <2>1. Jump(index + 1, containers)
    BY <1>3, <1>5 DEF Scan
  <2> QED  BY <1>1, <1>2, <1>4, <1>5, <2>1, OneOn
<1>6. CASE c = "%"
  <2>1. Jump(FirstFrom(index + 1, {"n"}), containers)
    BY <1>3, <1>6 DEF Scan
  <2> QED  BY <1>1, <1>2, <1>4, <1>6, <2>1, SkipsToTheEnd
<1>7. CASE c = "("
  <2>1. IF Skip(index + 1)[2] > 0 THEN Unreadable ELSE Jump(Skip(index + 1)[1], containers)
    BY <1>3, <1>7 DEF Scan
  <2>2. CASE Skip(index + 1)[2] > 0
    BY <1>1, <1>2, <1>7, <2>1, <2>2, StringSkipped DEF GivesUp
  <2>3. CASE ~ (Skip(index + 1)[2] > 0)
    BY <1>1, <1>2, <1>4, <1>7, <2>1, <2>3, StringSkipped
  <2> QED  BY <2>2, <2>3
<1>8. CASE c = "<" /\ At(index + 1) = "<"
  <2>1. Jump(index + 2, Append(containers, ">>"))
    BY <1>3, <1>8 DEF Scan
  <2> QED  BY <1>1, <1>2, <1>4, <1>8, <2>1, DictionaryOpened
<1>9. CASE c = "<" /\ At(index + 1) # "<"
  <2>0. PICK b : b = FirstFrom(index + 1, {">"})
    OBVIOUS
  <2>1. IF b > length THEN Unreadable ELSE Jump(b + 1, containers)
    BY <1>3, <1>9, <2>0 DEF Scan
  <2>2. /\ b > length => Judgement(content) = "malformed"
        /\ ~ (b > length) => InStep(content, b + 1, containers, found)
    BY <1>1, <1>2, <1>9, <2>0, HexadecimalSkipped
  <2>3. CASE b > length
    BY <2>1, <2>2, <2>3 DEF GivesUp
  <2>4. CASE ~ (b > length)
    BY <1>4, <2>1, <2>2, <2>4
  <2> QED  BY <2>3, <2>4
<1>10. CASE c = "/"
  <2>1. Jump(FirstFrom(index + 1, WordEnds), containers)
    BY <1>3, <1>10 DEF Scan
  <2> QED  BY <1>1, <1>2, <1>4, <1>10, <2>1, SkipsToTheEnd
<1>11. CASE c = "["
  <2>1. Jump(index + 1, Append(containers, "]"))
    BY <1>3, <1>11 DEF Scan
  <2> QED  BY <1>1, <1>2, <1>4, <1>11, <2>1, OneOn
<1>12. CASE c = "]"
  <2>1. Close("]", 1)
    BY <1>3, <1>12 DEF Scan
  <2>2. CASE containers # <<>> /\ Last(containers) = "]"
    <3>1. Jump(index + 1, Front(containers))
      BY <2>1, <2>2 DEF Close
    <3> QED  BY <1>1, <1>2, <1>4, <1>12, <2>2, <3>1, OneOn
  <2>3. CASE ~ (containers # <<>> /\ Last(containers) = "]")
    <3>1. Unreadable
      BY <2>1, <2>3 DEF Close
    <3> QED  BY <1>1, <1>2, <1>12, <2>3, <3>1, CloseFails DEF GivesUp
  <2> QED  BY <2>2, <2>3
<1>13. CASE c = ">"
  <2>1. IF At(index + 1) = ">" THEN Close(">>", 2) ELSE Unreadable
    <3>1. CASE At(index + 1) = ">"
      BY <1>3, <1>13, <3>1 DEF Scan
    <3>2. CASE At(index + 1) # ">"
      BY <1>3, <1>13, <3>2 DEF Scan
    <3> QED  BY <3>1, <3>2
  <2>2. PICK closes \in BOOLEAN : closes = (At(index + 1) = ">" /\ containers # <<>> /\ Last(containers) = ">>")
    OBVIOUS
  <2>3. IF closes THEN Jump(index + 2, Front(containers)) ELSE Unreadable
    BY <2>1, <2>2 DEF Close
  <2>4. /\ closes => InStep(content, index + 2, Front(containers), found)
        /\ ~ closes => Judgement(content) = "malformed"
    BY <1>1, <1>2, <1>13, <2>2, DictionaryClosed
  <2>5. CASE closes
    BY <1>4, <2>3, <2>4, <2>5
  <2>6. CASE ~ closes
    BY <2>3, <2>4, <2>6 DEF GivesUp
  <2> QED  BY <2>5, <2>6
<1>14. CASE c = ")"
  <2>1. Unreadable
    BY <1>3, <1>14 DEF Scan
  <2> QED  BY <1>1, <1>2, <1>14, <2>1, CloseFails DEF GivesUp
<1>15. CASE c \notin WordEnds
  <2>1. Word
    BY <1>3, <1>15 DEF Scan, WordEnds, Delimiters
  <2>2. PICK b : b = FirstFrom(index, WordEnds)
    OBVIOUS
  <2>3. PICK word : word = SubSeq(content, index, b - 1)
    OBVIOUS
  <2>4. PICK paints \in BOOLEAN : paints = (containers = <<>> /\ word \in Painting)
    OBVIOUS
  <2>5. /\ index' = b /\ found' = (found \/ paints)
        /\ verdict' = IF paints /\ word = <<"I">> THEN "marked" ELSE verdict
        /\ UNCHANGED <<content, cut, containers>>
    BY <2>1, <2>2, <2>3, <2>4, Zenon DEF Word
  <2>6. /\ paints /\ word = <<"I">> => Judgement(content) = "marked"
        /\ ~ (paints /\ word = <<"I">>) => InStep(content, b, containers, found \/ paints)
    BY <1>1, <1>2, <1>15, <2>2, <2>3, <2>4, WordSkipped
  <2>7. found' \in BOOLEAN
    BY <1>0, <2>5
  <2>8. CASE paints /\ word = <<"I">>
    <3>1. index' \in 1 .. length + 1
      <4>1. b \in index .. length + 1
        BY <1>0, <2>2, FirstFromIs
      <4> QED  BY <1>0, <2>5, <4>1
    <3> QED  BY <2>5, <2>6, <2>7, <2>8, <3>1 DEF Paints
  <2>9. CASE ~ (paints /\ word = <<"I">>)
    <3>1. InStep(content, index', containers', found')
      BY <2>5, <2>6, <2>9
    <3> QED  BY <1>0, <2>5, <2>7, <2>9, <3>1 DEF LexerGoesOn
  <2> QED  BY <2>8, <2>9
<1>16. c \in WordEnds => c \in {"n", "%", "(", "<", "/", "[", "]", ">", ")"}
  BY DEF WordEnds, Delimiters
<1> QED  BY <1>5, <1>6, <1>7, <1>8, <1>9, <1>10, <1>11, <1>12, <1>13, <1>14, <1>15, <1>16

\* A run starts in step: before the first character the reader is between things.
LEMMA MarkingStarts == MarkingInit => MarkingInv
<1> SUFFICES ASSUME MarkingInit PROVE MarkingInv
  OBVIOUS
<1>1. content \in Seq(Characters) /\ Len(content) <= ScanLimit
  <2>1. PICK m \in 0 .. ScanLimit : content \in [1 .. m -> Characters]
    BY DEF MarkingInit, BoundedSeq, SeqOf
  <2>2. m \in Nat /\ m <= ScanLimit
    BY MarkingAssumption
  <2> QED  BY <2>1, <2>2, MarkingAssumption
<1>2. /\ length \in Nat /\ length = Len(content) /\ index = 1 /\ containers = <<>> /\ found = FALSE
      /\ verdict = "scanning" /\ (cut => length = ScanLimit)
  BY <1>1, LenProperties DEF MarkingInit, length
<1>3. Reading(content)[0] = Outside /\ Outside \in Readers
  <2>1. 0 \in 0 .. Len(content)
    BY <1>2
  <2> QED  BY <1>1, <2>1, ReadingSteps
<1>4. InStep(content, 1, <<>>, FALSE)
  <2>1. Outside.mode = "between" /\ Live(Outside) /\ Outside.open = <<>> /\ Outside.marked = FALSE
    BY DEF Outside, Live
  <2>2. 1 \in 1 .. Len(content) + 1 /\ 1 - 1 = 0
    BY <1>2
  <2>3. InStep(content, 1, Outside.open, Outside.marked)
    BY <1>1, <1>3, <2>1, <2>2, BetweenIsInStep
  <2> QED  BY <2>1, <2>3
<1>5. MarkingTypeOK
  <2>1. <<>> \in Seq({">>", "]"})
    BY EmptySeq
  <2>2. 1 \in 1 .. length + 2
    BY <1>2
  <2> QED  BY <1>1, <1>2, <2>1, <2>2 DEF MarkingTypeOK
<1>6. index <= length + 1 /\ InStep(content, index, containers, found)
  <2>1. index <= length + 1
    BY <1>2
  <2>2. InStep(content, index, containers, found)
    BY <1>2, <1>4, Zenon
  <2> QED  BY <2>1, <2>2
<1>7. LexerIsRight
  BY <1>2 DEF LexerIsRight
<1> QED  BY <1>5, <1>6, <1>7 DEF MarkingInv

\* Every step of the lexer keeps it in step, and concludes what the definition does.
LEMMA MarkingStep == MarkingInv /\ [MarkingNext]_markingVars => MarkingInv'
<1> SUFFICES ASSUME MarkingInv, [MarkingNext]_markingVars PROVE MarkingInv'
  OBVIOUS
<1>0. /\ content \in Seq(Characters) /\ length = Len(content) /\ length \in Nat
      /\ (cut => length = ScanLimit) /\ index \in 1 .. length + 1
      /\ containers \in Seq({">>", "]"}) /\ found \in BOOLEAN
  BY LenProperties DEF MarkingInv, MarkingTypeOK, length
<1>1. ASSUME UNCHANGED <<content, cut>>, index' \in 1 .. length + 1, found' \in BOOLEAN,
             containers' \in Seq({">>", "]"}),
             verdict' \in {"scanning", "marked", "unmarked", "malformed", "limit"},
             verdict' = "scanning" => InStep(content, index', containers', found'),
             verdict' # "scanning" =>
               IF cut THEN verdict' = (IF Judgement(content) = "marked" THEN "marked" ELSE "limit")
               ELSE verdict' = Judgement(content)
      PROVE  MarkingInv'
  <2>1. MarkingTypeOK' /\ (index <= length + 1)'
    BY <1>0, <1>1 DEF MarkingTypeOK, length
  <2>2. (verdict = "scanning" => InStep(content, index, containers, found))'
    BY <1>1
  <2>3. LexerIsRight'
    BY <1>1 DEF LexerIsRight
  <2> QED  BY <2>1, <2>2, <2>3 DEF MarkingInv
<1>2. ASSUME LexerGoesOn PROVE MarkingInv'
  <2>1. PICK i : i = index'
    OBVIOUS
  <2>2. PICK s : s = Reading(content)[i - 1]
    OBVIOUS
  <2>3. i \in 1 .. Len(content) + 1 /\ s.open = containers'
    BY <1>2, <2>1, <2>2 DEF LexerGoesOn, InStep
  <2>4. s \in Readers
    <3>1. i - 1 \in 0 .. Len(content)
      BY <1>0, <2>3
    <3> QED  BY <1>0, <2>2, <3>1, ReadingSteps
  <2>5. containers' \in Seq({">>", "]"})
    BY <2>3, <2>4 DEF Readers
  <2> QED  BY <1>0, <1>1, <1>2, <2>1, <2>3, <2>5 DEF LexerGoesOn
<1>3. ASSUME Judgement(content) = "malformed", Unreadable PROVE MarkingInv'
  BY <1>0, <1>1, <1>3 DEF Unreadable, Conclude
<1>4. CASE Scan
  <2>1. LexerGoesOn \/ GivesUp \/ Paints
    BY <1>4, EveryIteration
  <2>2. CASE Paints
    BY <1>0, <1>1, <2>2 DEF Paints
  <2> QED  BY <1>2, <1>3, <2>1, <2>2 DEF GivesUp
<1>5. CASE Finished
  <2>1. /\ InStep(content, index, containers, found) /\ index > Len(content)
        /\ index \in 1 .. Len(content) + 1
    BY <1>0, <1>5 DEF Finished, MarkingInv
  <2>2. Judgement(content) = IF containers # <<>> THEN "malformed" ELSE IF found THEN "marked" ELSE "unmarked"
    BY <1>0, <2>1, AtTheEnd
  <2>3. CASE containers # <<>>
    BY <1>3, <1>5, <2>2, <2>3 DEF Finished
  <2>4. CASE containers = <<>>
    <3>1. Conclude(IF found THEN "marked" ELSE IF cut THEN "limit" ELSE "unmarked")
      BY <1>5, <2>4 DEF Finished
    <3>2. verdict' = (IF found THEN "marked" ELSE IF cut THEN "limit" ELSE "unmarked")
          /\ UNCHANGED <<content, cut, index, containers, found>>
      BY <3>1 DEF Conclude
    <3> QED  BY <1>0, <1>1, <2>2, <2>4, <3>2
  <2> QED  BY <2>3, <2>4
<1>6. CASE UNCHANGED markingVars
  <2>1. UNCHANGED <<content, cut, index, containers, found, verdict>>
    BY <1>6 DEF markingVars
  <2> QED  BY <1>0, <1>1, <2>1 DEF MarkingInv, MarkingTypeOK, LexerIsRight
<1> QED  BY <1>4, <1>5, <1>6 DEF MarkingNext

\* The lexer of audit.py keeps in step with the definition of what a page holds.
THEOREM LexerStaysInStep == MarkingSpec => []MarkingInv
BY MarkingStarts, MarkingStep, PTL DEF MarkingSpec

\* _count_marking_operators agrees with the character by character definition on a
\* content of any length, over any characters, for any limit of the scan.
THEOREM LexerIsAlwaysRight == MarkingSpec => []LexerIsRight
<1>1. MarkingInv => LexerIsRight
  BY DEF MarkingInv
<1> QED  BY <1>1, LexerStaysInStep, PTL
===============================================================================
