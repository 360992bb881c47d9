------------------------ MODULE DocumentProcessing ------------------------
(***************************************************************************)
(* One uploaded document: the upload handler that stores the file and its  *)
(* pending row, the background task that reads the text out of the file,   *)
(* and the recovery of an unfinished document when the process starts      *)
(* again (app/api/routes.py, app/main.py, app/memory/store.py,             *)
(* app/tools/document_processing.py).                                      *)
(*                                                                         *)
(* Like WorkerEngine, the module has one step per durable write, and       *)
(* `pending' is a row written in the transaction of the shared connection  *)
(* but not committed.  The text of a document is abstracted to how sure    *)
(* the OCR is of it, in percent, and to the number of fields found in it   *)
(* and the mean confidence of those.  A document is either an image or a   *)
(* PDF; a PDF without text is rendered to images in a temporary directory. *)
(***************************************************************************)
EXTENDS FieldExtraction

CONSTANTS
  OcrConfidences,     (* what OCR can report, in percent                   *)
  FieldConfidences,   (* mean confidences of the fields found in a text    *)
  FieldCounts,        (* how many of the eight fields a text can have      *)
  MaxPages,           (* max_pdf_pages                                     *)
  MaxFaults           (* bound on the faults of one behaviour              *)

ASSUME OcrConfidencesAssumption == OcrConfidences \subseteq 0 .. 100
ASSUME FieldConfidencesAssumption == FieldConfidences \subseteq 1 .. 100
ASSUME FieldCountsAssumption == FieldCounts \subseteq 1 .. 8
ASSUME MaxPagesAssumption == MaxPages \in Nat \ {0}
ASSUME MaxFaultsAssumption == MaxFaults \in Nat

VARIABLES
  kind,       (* what was uploaded                                         *)
  file,       (* the stored file exists                                    *)
  accepted,   (* the upload was answered with 202                          *)
  row,        (* the committed documents row                               *)
  pending,    (* an uncommitted row in the shared transaction              *)
  pc,         (* where the handler of this document is                     *)
  pages,      (* rendered pages not yet read                               *)
  readings,   (* how many pages text was found on, and the sum of their     *)
              (* OCR confidences                                            *)
  result,     (* the DocumentProcessingResult about to be written          *)
  tempDirs,   (* temporary directories left on disk                        *)
  faults

work == << pages, readings, result >>
vars == << kind, file, accepted, row, pending, pc, pages, readings, result,
           tempDirs, faults >>

Status == { "pending", "processing", "completed", "low_confidence", "failed" }

Row == [ status : Status, available : BOOLEAN, overall : 0 .. 100,
         found : 0 .. 8, error : BOOLEAN ]

RowOf(status, available, overall, found, error) ==
  [ status |-> status, available |-> available, overall |-> overall,
    found |-> found, error |-> error ]

NewRow == RowOf("pending", FALSE, 0, 0, FALSE)

NoReadings == [ count |-> 0, sum |-> 0 ]

(* No row, no uncommitted write, no result. *)
None == RowOf("none", FALSE, 0, 0, FALSE)

MaybeRow == Row \cup { None }

Finished(r) == r.status \in { "completed", "low_confidence", "failed" }

Step == { "upload", "stored", "queued", "requeued", "started", "process",
          "render", "ocr", "write", "audit", "catch", "over", "down" }

TypeOK ==
  /\ kind \in { "image", "pdf" }
  /\ file \in BOOLEAN /\ accepted \in BOOLEAN
  /\ row \in MaybeRow /\ pending \in MaybeRow /\ result \in MaybeRow
  /\ pc \in Step
  /\ pages \in 0 .. MaxPages
  /\ readings \in [ count : 0 .. MaxPages, sum : Nat ]
  /\ tempDirs \in Nat
  /\ faults \in 0 .. MaxFaults

Init ==
  /\ kind \in { "image", "pdf" }
  /\ file = FALSE /\ accepted = FALSE
  /\ row = None /\ pending = None
  /\ pc = "upload"
  /\ pages = 0 /\ readings = NoReadings /\ result = None
  /\ tempDirs = 0 /\ faults = 0
-----------------------------------------------------------------------------
(***************************************************************************)
(* Persistence                                                             *)
(***************************************************************************)
Fault == faults < MaxFaults /\ faults' = faults + 1

(* What an UPDATE on the shared connection applies to. *)
Visible == IF pending # None THEN pending ELSE row

(* A write and its commit; or an exception in execute(), in commit(), or   *)
(* one on which SQLite rolls the transaction back.                         *)
Write(r) == row' = r /\ pending' = None /\ UNCHANGED faults

WriteFails(r) == Fault /\ pending' \in { pending, r, None } /\ UNCHANGED row

(* Mutant: confidences are only written when they are given. *)
UpdateStatusKeepingResult(old, new) ==
  RowOf(new.status, new.available,
        IF new.available THEN new.overall ELSE old.overall,
        new.found, new.error \/ old.error)

(* update_document_status: the status, the availability and the            *)
(* confidences are always replaced (by their defaults if not given), the   *)
(* fields only if the caller passes some, and an error code is never       *)
(* taken back.                                                             *)
UpdateStatus(old, new) ==
  RowOf(new.status, new.available, new.overall, new.found, new.error \/ old.error)

(* The two updates without fields. *)
Started(old) ==
  UpdateStatus(old, RowOf("processing", FALSE, 0, old.found, FALSE))

Failed(old) == UpdateStatus(old, RowOf("failed", FALSE, 0, old.found, TRUE))

(* A later commit on the shared connection. *)
CommitPending ==
  /\ pc # "down" /\ pending # None
  /\ row' = pending /\ pending' = None
  /\ UNCHANGED << kind, file, accepted, pc, work, tempDirs, faults >>
-----------------------------------------------------------------------------
(***************************************************************************)
(* upload_document                                                         *)
(***************************************************************************)
(* The application does not exist, or validate_file refuses the file. *)
RefuseUpload ==
  /\ pc = "upload" /\ pc' = "over"
  /\ UNCHANGED << kind, file, accepted, row, pending, work, tempDirs, faults >>

StoreFile ==
  /\ pc = "upload" /\ pc' = "stored"
  /\ file' = TRUE
  /\ UNCHANGED << kind, accepted, row, pending, work, tempDirs, faults >>

(* Mutant: the task is scheduled and the upload answered before the row is *)
(* written.                                                                *)
AnswerBeforeSaving ==
  /\ pc = "stored"
  /\ accepted' = TRUE
  /\ \/ Write(NewRow) /\ pc' = "queued"
     \/ WriteFails(NewRow) /\ pc' = "over"
  /\ UNCHANGED << kind, file, work, tempDirs >>

(* save_pending_document, and then the task is submitted and the upload    *)
(* answered; a failed write is an error answer, and the file stays.        *)
SavePendingDocument ==
  /\ pc = "stored"
  /\ \/ Write(NewRow) /\ pc' = "queued" /\ accepted' = TRUE
     \/ WriteFails(NewRow) /\ pc' = "over" /\ UNCHANGED accepted
  /\ UNCHANGED << kind, file, work, tempDirs >>
-----------------------------------------------------------------------------
(***************************************************************************)
(* process_document_file                                                   *)
(***************************************************************************)
(* extract_fields: no field at all has confidence 0. *)
FieldResults ==
  { [ confidence |-> 0, found |-> 0 ] }
    \cup { [ confidence |-> c, found |-> n ] : c \in FieldConfidences, n \in FieldCounts }

FailedResult == RowOf("failed", FALSE, 0, 0, TRUE)

(* The result of an OCR text: completed from one half on. *)
OcrResult(ocr, fields) ==
  LET overall == Overall(ocr, fields.confidence, fields.found)
  IN  RowOf(IF overall >= 50 THEN "completed" ELSE "low_confidence",
            TRUE, overall, fields.found, FALSE)

(* The result of a PDF with text in it: completed, however sure. *)
TextResult(fields) ==
  RowOf("completed", TRUE, Overall(95, fields.confidence, fields.found),
        fields.found, FALSE)

ProcessImage ==
  /\ pc = "process" /\ kind = "image"
  /\ \/ result' = FailedResult
     \/ \E ocr \in OcrConfidences, fields \in FieldResults :
          result' = OcrResult(ocr, fields)
  /\ pc' = "write"
  /\ UNCHANGED << kind, file, accepted, row, pending, pages, readings,
                  tempDirs, faults >>

(* extract_text_from_pdf fails, or finds text, or the PDF is scanned. *)
ExtractPdfText ==
  /\ pc = "process" /\ kind = "pdf"
  /\ \/ result' = FailedResult /\ pc' = "write"
     \/ /\ \E fields \in FieldResults : result' = TextResult(fields)
        /\ pc' = "write"
     \/ pc' = "render" /\ UNCHANGED result
  /\ UNCHANGED << kind, file, accepted, row, pending, pages, readings,
                  tempDirs, faults >>

(* render_pdf_pages: what raises before or after the directory is made is  *)
(* caught, and the caller is told neither of the directory nor of pages; a *)
(* PDF without pages ends the same way.                                    *)
RenderPages ==
  /\ pc = "render"
  /\ \/ /\ pages' \in 1 .. MaxPages /\ readings' = NoReadings
        /\ tempDirs' = tempDirs + 1
        /\ pc' = "ocr" /\ UNCHANGED result
     \/ /\ tempDirs' \in { tempDirs, tempDirs + 1 }
        /\ result' = FailedResult
        /\ pc' = "write" /\ UNCHANGED << pages, readings >>
  /\ UNCHANGED << kind, file, accepted, row, pending, faults >>

OcrPage ==
  /\ pc = "ocr" /\ pages > 0
  /\ pages' = pages - 1
  /\ \/ UNCHANGED readings
     \/ \E ocr \in OcrConfidences : readings' = [ count |-> readings.count + 1,
                                               sum |-> readings.sum + ocr ]
  /\ UNCHANGED << kind, file, accepted, row, pending, pc, result, tempDirs,
                  faults >>

MeanReading == readings.sum \div readings.count

(* Mutant: a document that could be read keeps its directory. *)
CombinePagesKeepingDirectory ==
  /\ pc = "ocr" /\ pages = 0
  /\ \/ /\ readings.count = 0 /\ result' = FailedResult
        /\ tempDirs' = tempDirs - 1
     \/ /\ readings.count > 0
        /\ \E fields \in FieldResults : result' = OcrResult(MeanReading, fields)
        /\ UNCHANGED tempDirs
  /\ pc' = "write"
  /\ UNCHANGED << kind, file, accepted, row, pending, pages, readings, faults >>

(* All pages are read: the result, and the directory is removed. *)
CombinePages ==
  /\ pc = "ocr" /\ pages = 0
  /\ \/ readings.count = 0 /\ result' = FailedResult
     \/ /\ readings.count > 0
        /\ \E fields \in FieldResults : result' = OcrResult(MeanReading, fields)
  /\ tempDirs' = tempDirs - 1
  /\ pc' = "write"
  /\ UNCHANGED << kind, file, accepted, row, pending, pages, readings, faults >>

(* Anything raised in the thread; the `finally' removes the directory. *)
ProcessingRaises ==
  /\ pc \in { "process", "ocr" }
  /\ Fault
  /\ tempDirs' = IF pc = "ocr" THEN tempDirs - 1 ELSE tempDirs
  /\ pc' = "catch"
  /\ UNCHANGED << kind, file, accepted, row, pending, work >>
-----------------------------------------------------------------------------
(***************************************************************************)
(* _process_document_background and _recover_document                      *)
(***************************************************************************)
(* The upload's task; the recovery's first reads the row, and passes over  *)
(* a completed one.                                                        *)
StartTask ==
  /\ pc \in { "queued", "requeued" }
  /\ IF pc = "requeued" /\ Visible.status = "completed"
     THEN pc' = "over" /\ UNCHANGED << row, pending, faults >>
     ELSE \/ /\ Write(Started(Visible))
             /\ pc' = IF pc = "queued" THEN "started" ELSE "process"
          \/ WriteFails(Started(Visible)) /\ pc' = "catch"
  /\ UNCHANGED << kind, file, accepted, work, tempDirs >>

(* The recovery cannot read the row. *)
ReadFails ==
  /\ pc = "requeued" /\ Fault /\ pc' = "catch"
  /\ UNCHANGED << kind, file, accepted, row, pending, work, tempDirs >>

(* The STARTED event, which only the upload's task records. *)
AuditStart ==
  /\ pc = "started"
  /\ \/ pc' = "process" /\ UNCHANGED faults
     \/ Fault /\ pc' = "catch"
  /\ UNCHANGED << kind, file, accepted, row, pending, work, tempDirs >>

WriteResult ==
  /\ pc = "write"
  /\ LET r == UpdateStatus(Visible, result)
     IN  \/ Write(r) /\ pc' = "audit"
         \/ WriteFails(r) /\ pc' = "catch"
  /\ UNCHANGED << kind, file, accepted, work, tempDirs >>

(* The event of the result is inside the same try block as its write. *)
AuditResult ==
  /\ pc = "audit"
  /\ \/ pc' = "over" /\ UNCHANGED faults
     \/ Fault /\ pc' = "catch"
  /\ UNCHANGED << kind, file, accepted, row, pending, work, tempDirs >>

(* except Exception: the row is marked failed; if that fails too, or the   *)
(* event of it, nothing more is done.                                      *)
MarkFailed ==
  /\ pc = "catch"
  /\ Write(Failed(Visible)) \/ WriteFails(Failed(Visible))
  /\ pc' = "over"
  /\ UNCHANGED << kind, file, accepted, work, tempDirs >>
-----------------------------------------------------------------------------
(***************************************************************************)
(* The process ends and starts again                                       *)
(***************************************************************************)
Forget ==
  /\ pc \notin { "upload", "down" } /\ pc' = "down"
  /\ Fault
  /\ pending' = None
  /\ pages' = 0 /\ readings' = NoReadings /\ result' = None
  /\ UNCHANGED << kind, file, accepted, row >>

Crash == Forget /\ UNCHANGED tempDirs

(* A shutdown cancels the task, whose thread runs to its end. *)
Shutdown ==
  /\ Forget
  /\ tempDirs' = IF pc = "ocr" THEN tempDirs - 1 ELSE tempDirs

(* Mutant: what failed is tried again too. *)
UnfinishedOrFailed == { "pending", "processing", "failed" }

(* Mutant: only what no task had started on is tried again. *)
NotStarted == { "pending" }

(* The rows _recover_stuck_work selects. *)
Unfinished == { "pending", "processing" }

(* An exception in the scan is logged, and nothing is re-queued. *)
Restart ==
  /\ pc = "down"
  /\ \/ /\ pc' = IF row.status \in Unfinished THEN "requeued" ELSE "over"
        /\ UNCHANGED faults
     \/ Fault /\ pc' = "over"
  /\ UNCHANGED << kind, file, accepted, row, pending, work, tempDirs >>

TaskStep ==
  \/ StoreFile \/ SavePendingDocument
  \/ ProcessImage \/ ExtractPdfText \/ RenderPages \/ OcrPage \/ CombinePages
  \/ StartTask \/ AuditStart \/ WriteResult \/ AuditResult \/ MarkFailed

Next ==
  \/ TaskStep \/ RefuseUpload \/ ProcessingRaises \/ ReadFails
  \/ CommitPending \/ Crash \/ Shutdown \/ Restart

Fairness == WF_vars(TaskStep) /\ WF_vars(Restart)

Spec == Init /\ [][Next]_vars /\ Fairness
-----------------------------------------------------------------------------
(***************************************************************************)
(* What is promised about a document                                       *)
(***************************************************************************)
(* An upload answered with 202 has its row and its file, whatever happens  *)
(* afterwards (routes.py 313-352).                                         *)
AcceptedIsDurable == accepted => row # None /\ file

(* A completed row is the whole of one result: it has text, no error, and  *)
(* the confidence that goes with its fields, although updates are partial, *)
(* never clear an error and may follow those of an earlier task (store.py  *)
(* 363-417, main.py 100-126, 175-259).                                     *)
CompletedIsWhole ==
  row.status = "completed" =>
    row.available /\ ~row.error /\ (row.found > 0 <=> row.overall > 40)

(* A failed row has an error and nothing to rely on, also when it was      *)
(* completed before (routes.py 436-445, store.py 363-417).                 *)
FailedIsWorthless ==
  row.status = "failed" => row.error /\ ~row.available /\ row.overall = 0

(* What _verify_documents reuses instead of extracting again. *)
Reusable(r) == r.status = "completed" /\ r.overall >= 60

(* Evidence the engine reuses has at least one extracted field: no OCR is  *)
(* sure enough on its own to lift a document over the threshold            *)
(* (document_processing.py 399-425, engine.py 142-159).                    *)
ReusedHasFields == Reusable(row) => row.found > 0

(* A document that was read leaves no rendered pages behind, unless there  *)
(* was a fault (pdf_processing.py 77-125, document_processing.py 317-396). *)
CleanWhenRead == row.available /\ faults = 0 => tempDirs = 0

(* A document that is finished is never processed again: the only thing    *)
(* that can still happen to it is that it is marked failed, once           *)
(* (routes.py 355-454, main.py 100-126, 175-259).                          *)
NeverReopened ==
  [][ Finished(row) => row'.status = "failed" /\ row.status # "failed" ]_row

(* One fault, be it a crash, a failed write or a lost event, never leaves  *)
(* an accepted document unfinished for ever (routes.py 355-454, main.py    *)
(* 100-126, 175-259).                                                      *)
OneFaultIsSurvived == accepted ~> Finished(row) \/ faults >= 2
=============================================================================
