--------------------- MODULE DocumentProcessingProofs ---------------------
(***************************************************************************)
(* What is promised about a document holds for any confidences, any number *)
(* of pages and any number of faults.                                      *)
(*                                                                         *)
(* The argument: while a task is at work the row says "processing" and     *)
(* nothing is uncommitted, so that every update of a row starts from one   *)
(* without fields and without an error; only the last update, to "failed", *)
(* may meet a finished row or an uncommitted one.                          *)
(***************************************************************************)
EXTENDS DocumentProcessing, TLAPS

(* A task is between its first write and that of its result. *)
Working == { "started", "process", "render", "ocr", "write" }

(* What every copy of the row satisfies, committed or not. *)
GoodRow(r) ==
  /\ r.status \in Unfinished =>
       r.found = 0 /\ ~r.available /\ ~r.error /\ r.overall = 0
  /\ r.status = "completed" =>
       r.available /\ ~r.error /\ (r.found > 0 <=> r.overall > 40)
  /\ r.status = "failed" => r.error /\ ~r.available /\ r.overall = 0

(* A row that was never completed before it failed. *)
NeverRead(r) == r.status = "failed" => r.found = 0

RowsInv == GoodRow(row) /\ GoodRow(pending) /\ GoodRow(result)

(* Where the handler is says what is in the rows. *)
ControlInv ==
  /\ pc = "upload" => row = None /\ pending = None /\ ~file /\ ~accepted
  /\ pc = "stored" => row = None /\ pending = None /\ file /\ ~accepted
  /\ pc = "queued" => row = NewRow /\ pending = None
  /\ pc = "requeued" => row.status \in Unfinished /\ pending = None
  /\ pc \in Working => row.status = "processing" /\ pending = None
  /\ pc = "write" => Finished(result) /\ NeverRead(result)
  /\ pc = "audit" => Finished(row) /\ NeverRead(row) /\ pending = None
  /\ pc = "catch" => row # None /\ NeverRead(row) /\ NeverRead(pending)
  /\ pc = "down" => pending = None

(* The pages read and the directory they are in. *)
PagesInv ==
  /\ readings.sum <= 100 * readings.count
  /\ readings.count + pages <= MaxPages
  /\ pc = "ocr" => tempDirs > 0

(* What is not committed yet can only make a finished row a failed one. *)
PendingInv ==
  pending # None /\ Finished(row) =>
    pending.status = "failed" /\ (row.status = "failed" => pending = row)

(* Without a fault the only directory of a document is the one it is read  *)
(* from, or one that a failed rendering left.                              *)
CleanInv ==
  faults = 0 =>
    /\ pending = None /\ pc \notin { "catch", "down", "requeued" }
    /\ pc \in { "upload", "stored", "queued", "started", "process", "render" }
         => tempDirs = 0 /\ ~row.available
    /\ pc = "ocr" => tempDirs = 1 /\ ~row.available
    /\ pc = "write" => ~row.available /\ (result.available => tempDirs = 0)
    /\ row.available => tempDirs = 0

IInv ==
  /\ TypeOK /\ AcceptedIsDurable
  /\ RowsInv /\ ControlInv /\ PagesInv /\ PendingInv /\ CleanInv
-----------------------------------------------------------------------------
USE OcrConfidencesAssumption, FieldConfidencesAssumption, FieldCountsAssumption,
    MaxPagesAssumption, MaxFaultsAssumption

(* The three special rows: a new one and a failed one are rows and good,   *)
(* and the absent one is no row.                                           *)
LEMMA SpecialRows ==
  /\ NewRow \in Row /\ GoodRow(NewRow) /\ NewRow.status = "pending"
  /\ FailedResult \in Row /\ GoodRow(FailedResult)
  /\ Finished(FailedResult) /\ NeverRead(FailedResult) /\ ~FailedResult.available
  /\ FailedResult.error
  /\ None \notin Row /\ None.status = "none" /\ GoodRow(None) /\ NeverRead(None)
  /\ ~Finished(None) /\ ~None.available /\ None # NewRow
  BY DEF NewRow, None, FailedResult, RowOf, Row, Status, GoodRow, Finished, NeverRead,
         Unfinished

(* The confidence of a document is a percentage, and is above 40 only if a *)
(* field was found.                                                        *)
LEMMA OverallRange ==
  ASSUME NEW ocr \in 0 .. 100, NEW field \in 0 .. 100, NEW found \in 0 .. 8,
         found = 0 => field = 0
  PROVE  /\ Overall(ocr, field, found) \in 0 .. 100
         /\ found = 0 => Overall(ocr, field, found) <= 40
         /\ found > 0 /\ ocr = 95 => Overall(ocr, field, found) > 40
<1> DEFINE base == (40 * ocr + 40 * field) \div 100
           bonus == 5 * (IF found < 4 THEN found ELSE 4)
<1>1. base \in 0 .. 80 /\ (field = 0 => base <= 40) /\ (ocr = 95 => base >= 38)
  OBVIOUS
<1>2. bonus \in 0 .. 20 /\ (found = 0 => bonus = 0) /\ (found > 0 => bonus >= 5)
  OBVIOUS
<1>3. Overall(ocr, field, found) = base + bonus
  BY DEF Overall
<1> HIDE DEF base, bonus
<1> QED BY <1>1, <1>2, <1>3

(* The fields found in a text. *)
LEMMA FieldTypes ==
  ASSUME NEW fields \in FieldResults
  PROVE  /\ fields.confidence \in 0 .. 100 /\ fields.found \in 0 .. 8
         /\ fields.found = 0 => fields.confidence = 0
  BY DEF FieldResults

(* What reading a document results in is the whole of a good row. *)
LEMMA GoodResults ==
  ASSUME NEW ocr \in 0 .. 100, NEW fields \in FieldResults,
         NEW r \in { OcrResult(ocr, fields), TextResult(fields) }
  PROVE  r \in Row /\ GoodRow(r) /\ Finished(r) /\ NeverRead(r) /\ r.available
         /\ ~r.error
<1>1. CASE r = OcrResult(ocr, fields)
  <2> DEFINE overall == Overall(ocr, fields.confidence, fields.found)
  <2>1. overall \in 0 .. 100 /\ fields.found \in 0 .. 8
        /\ (fields.found = 0 => overall <= 40)
    BY FieldTypes, OverallRange
  <2>2. r = RowOf(IF overall >= 50 THEN "completed" ELSE "low_confidence",
                  TRUE, overall, fields.found, FALSE)
    BY <1>1 DEF OcrResult
  <2> HIDE DEF overall
  <2>3. CASE overall >= 50
    BY <2>1, <2>2, <2>3 DEF RowOf, Row, Status, GoodRow, Finished, NeverRead,
                            Unfinished
  <2>4. CASE ~(overall >= 50)
    BY <2>1, <2>2, <2>4 DEF RowOf, Row, Status, GoodRow, Finished, NeverRead,
                            Unfinished
  <2> QED BY <2>3, <2>4
<1>2. CASE r = TextResult(fields)
  <2> DEFINE overall == Overall(95, fields.confidence, fields.found)
  <2>1. overall \in 0 .. 100 /\ fields.found \in 0 .. 8
        /\ (fields.found > 0 <=> overall > 40)
    <3>1. 95 \in 0 .. 100
      OBVIOUS
    <3>2. /\ overall \in 0 .. 100 /\ fields.found \in 0 .. 8
          /\ fields.found = 0 => overall <= 40
          /\ fields.found > 0 => overall > 40
      BY <3>1, FieldTypes, OverallRange
    <3> QED BY <3>2
  <2>2. r = RowOf("completed", TRUE, overall, fields.found, FALSE)
    BY <1>2 DEF TextResult
  <2> HIDE DEF overall
  <2> QED BY <2>1, <2>2 DEF RowOf, Row, Status, GoodRow, Finished, NeverRead,
                            Unfinished
<1> QED BY <1>1, <1>2

(* The mean of the readings is a percentage too. *)
LEMMA MeanRange ==
  ASSUME NEW sum \in Nat, NEW count \in Nat \ { 0 }, sum <= 100 * count
  PROVE  sum \div count \in 0 .. 100
<1> DEFINE mean == sum \div count
<1>1. mean \in Nat /\ sum < count * (mean + 1)
  OBVIOUS
<1>2. ASSUME mean > 100
      PROVE  FALSE
  <2> HIDE DEF mean
  <2>1. count * mean >= count * 101
    BY <1>1, <1>2
  <2>2. count * mean <= sum
    BY DEF mean
  <2> QED BY <1>1, <2>1, <2>2
<1> QED BY <1>1, <1>2

(* What the two updates without a result make of the visible row. *)
LEMMA Updates ==
  ASSUME NEW old \in Row, GoodRow(old)
  PROVE  /\ Started(old) \in Row /\ Started(old).status = "processing"
         /\ old.status \in Unfinished => GoodRow(Started(old))
         /\ Failed(old) \in Row /\ GoodRow(Failed(old)) /\ Failed(old).status = "failed"
         /\ old.status = "failed" /\ old.found = 0 => Failed(old) = old
<1>1. /\ old.error \in BOOLEAN /\ old.found \in 0 .. 8
      /\ old = [ status |-> old.status, available |-> old.available,
                 overall |-> old.overall, found |-> old.found,
                 error |-> old.error ]
  BY DEF Row
<1>2. Started(old) = [ status |-> "processing", available |-> FALSE, overall |-> 0,
                  found |-> old.found, error |-> old.error ]
  <2>1. CASE old.error = TRUE
    BY <2>1 DEF Started, Failed, UpdateStatus, RowOf
  <2>2. CASE old.error = FALSE
    BY <2>2 DEF Started, Failed, UpdateStatus, RowOf
  <2> QED BY <1>1, <2>1, <2>2
<1>3. Failed(old) = [ status |-> "failed", available |-> FALSE, overall |-> 0,
                 found |-> old.found, error |-> TRUE ]
  BY <1>1 DEF Started, Failed, UpdateStatus, RowOf
<1>4. Started(old) \in Row /\ Failed(old) \in Row
  BY <1>1, <1>2, <1>3 DEF Row, Status
<1>5. old.status \in Unfinished => GoodRow(Started(old))
  BY <1>2 DEF GoodRow, Unfinished
<1>6. GoodRow(Failed(old))
  BY <1>3 DEF GoodRow, Unfinished
<1>7. old.status = "failed" /\ old.found = 0 => Failed(old) = old
  BY <1>1, <1>3 DEF GoodRow
<1> QED BY <1>2, <1>3, <1>4, <1>5, <1>6, <1>7

(* A result replaces a row without an error as it is. *)
LEMMA ResultReplaces ==
  ASSUME NEW old \in Row, ~old.error, NEW new \in Row
  PROVE  UpdateStatus(old, new) = new
<1>1. /\ new.error \in BOOLEAN /\ old.error = FALSE
      /\ new = [ status |-> new.status, available |-> new.available,
                 overall |-> new.overall, found |-> new.found,
                 error |-> new.error ]
  BY DEF Row
<1>2. CASE new.error = TRUE
  BY <1>1, <1>2 DEF UpdateStatus, RowOf
<1>3. CASE new.error = FALSE
  BY <1>1, <1>3 DEF UpdateStatus, RowOf
<1> QED BY <1>1, <1>2, <1>3
-----------------------------------------------------------------------------
LEMMA InitInvariant == Init => IInv
<1> SUFFICES ASSUME Init
             PROVE  IInv
  OBVIOUS
<1>1. TypeOK
  <2>1. readings \in [ count : 0 .. MaxPages, sum : Nat ]
    BY DEF Init, NoReadings
  <2>2. pages \in 0 .. MaxPages /\ faults \in 0 .. MaxFaults /\ tempDirs \in Nat
    BY DEF Init
  <2>3. row \in MaybeRow /\ pending \in MaybeRow /\ result \in MaybeRow
    BY DEF Init, MaybeRow
  <2>4. kind \in { "image", "pdf" } /\ file \in BOOLEAN /\ accepted \in BOOLEAN
        /\ pc \in Step
    BY DEF Init, Step
  <2> QED BY <2>1, <2>2, <2>3, <2>4 DEF TypeOK
<1>2. AcceptedIsDurable
  BY DEF Init, AcceptedIsDurable
<1>3. RowsInv
  BY SpecialRows DEF Init, RowsInv
<1>4. ControlInv
  BY DEF Init, ControlInv, Working
<1>5. PagesInv
  BY DEF Init, PagesInv, NoReadings
<1>6. PendingInv
  BY DEF Init, PendingInv
<1>7. CleanInv
  BY SpecialRows DEF Init, CleanInv
<1> QED BY <1>1, <1>2, <1>3, <1>4, <1>5, <1>6, <1>7 DEF IInv

(* A step that does not touch the rows and stays within the pcs where no   *)
(* row is constrained differently. *)
LEMMA UploadSteps ==
  ASSUME IInv, RefuseUpload \/ StoreFile \/ SavePendingDocument
  PROVE  IInv'
<1> USE DEF IInv
<1>1. CASE RefuseUpload
  <2>1. TypeOK'
    BY <1>1 DEF RefuseUpload, TypeOK, Step, work
  <2>2. AcceptedIsDurable'
    BY <1>1 DEF RefuseUpload, AcceptedIsDurable
  <2>3. RowsInv'
    BY <1>1 DEF RefuseUpload, RowsInv, work
  <2>4. ControlInv'
    BY <1>1 DEF RefuseUpload, ControlInv, Working, work
  <2>5. PagesInv'
    BY <1>1 DEF RefuseUpload, PagesInv, work
  <2>6. PendingInv'
    BY <1>1 DEF RefuseUpload, PendingInv
  <2>7. CleanInv'
    BY <1>1 DEF RefuseUpload, CleanInv, work
  <2> QED BY <2>1, <2>2, <2>3, <2>4, <2>5, <2>6, <2>7
<1>2. CASE StoreFile
  <2>1. TypeOK'
    BY <1>2 DEF StoreFile, TypeOK, Step, work
  <2>2. AcceptedIsDurable'
    BY <1>2 DEF StoreFile, AcceptedIsDurable
  <2>3. RowsInv'
    BY <1>2 DEF StoreFile, RowsInv, work
  <2>4. ControlInv'
    BY <1>2 DEF StoreFile, ControlInv, Working, work
  <2>5. PagesInv'
    BY <1>2 DEF StoreFile, PagesInv, work
  <2>6. PendingInv'
    BY <1>2 DEF StoreFile, PendingInv
  <2>7. CleanInv'
    BY <1>2 DEF StoreFile, CleanInv, work
  <2> QED BY <2>1, <2>2, <2>3, <2>4, <2>5, <2>6, <2>7
<1>3. CASE SavePendingDocument
  <2> USE SpecialRows
  <2>1. TypeOK'
    <3>1. row' \in MaybeRow /\ pending' \in MaybeRow /\ result' = result
      BY <1>3 DEF SavePendingDocument, Write, WriteFails, TypeOK, MaybeRow, work
    <3>2. faults' \in 0 .. MaxFaults
      BY <1>3 DEF SavePendingDocument, Write, WriteFails, Fault, TypeOK
    <3>3. pc' \in Step /\ accepted' \in BOOLEAN
      BY <1>3 DEF SavePendingDocument, TypeOK, Step
    <3> QED BY <1>3, <3>1, <3>2, <3>3 DEF SavePendingDocument, TypeOK, work
  <2>2. AcceptedIsDurable'
    BY <1>3 DEF SavePendingDocument, Write, WriteFails, ControlInv,
                AcceptedIsDurable
  <2>3. RowsInv'
    BY <1>3 DEF SavePendingDocument, Write, WriteFails, RowsInv, work
  <2>4. ControlInv'
    <3>1. (pc' = "queued" /\ row' = NewRow /\ pending' = None) \/ pc' = "over"
      BY <1>3 DEF SavePendingDocument, Write, WriteFails
    <3> QED BY <3>1 DEF ControlInv, Working
  <2>5. PagesInv'
    BY <1>3 DEF SavePendingDocument, PagesInv, work
  <2>6. PendingInv'
    BY <1>3 DEF SavePendingDocument, Write, WriteFails, ControlInv, PendingInv
  <2>7. CleanInv'
    BY <1>3 DEF SavePendingDocument, Write, WriteFails, Fault, NewRow, RowOf,
                TypeOK, CleanInv, work
  <2> QED BY <2>1, <2>2, <2>3, <2>4, <2>5, <2>6, <2>7
<1> QED BY <1>1, <1>2, <1>3

GoodResult(r) == r \in Row /\ GoodRow(r) /\ Finished(r) /\ NeverRead(r)

(* Handing over a good result keeps what the invariant says of the rows    *)
(* and of the control.                                                     *)
LEMMA ResultKept ==
  ASSUME IInv, pc \in Working, pc' = "write", GoodResult(result'),
         UNCHANGED << kind, file, accepted, row, pending, faults >>
  PROVE  /\ result' \in MaybeRow /\ RowsInv' /\ ControlInv' /\ PendingInv'
         /\ AcceptedIsDurable'
<1>1. result' \in MaybeRow
  BY DEF GoodResult, MaybeRow
<1>2. RowsInv'
  BY DEF IInv, RowsInv, GoodResult
<1>3. ControlInv'
  BY DEF IInv, ControlInv, Working, GoodResult
<1>4. PendingInv' /\ AcceptedIsDurable'
  BY DEF IInv, PendingInv, AcceptedIsDurable
<1> QED BY <1>1, <1>2, <1>3, <1>4

(* The results the steps of process_document_file come to. *)
LEMMA ResultOptions ==
  /\ GoodResult(FailedResult)
  /\ \A ocr \in OcrConfidences, fields \in FieldResults :
       GoodResult(OcrResult(ocr, fields))
  /\ \A fields \in FieldResults : GoodResult(TextResult(fields))
<1>1. GoodResult(FailedResult)
  BY SpecialRows DEF GoodResult
<1>2. ASSUME NEW ocr \in OcrConfidences, NEW fields \in FieldResults
      PROVE  GoodResult(OcrResult(ocr, fields))
  BY GoodResults DEF GoodResult
<1>3. ASSUME NEW fields \in FieldResults
      PROVE  GoodResult(TextResult(fields))
  <2>1. 95 \in 0 .. 100
    OBVIOUS
  <2> QED BY <2>1, GoodResults DEF GoodResult
<1> QED BY <1>1, <1>2, <1>3

LEMMA ProcessImageStep == IInv /\ ProcessImage => IInv'
<1> SUFFICES ASSUME IInv, ProcessImage
             PROVE  IInv'
  OBVIOUS
<1>1. GoodResult(result')
  BY ResultOptions DEF ProcessImage
<1>2. pc = "process" /\ pc' = "write" /\ pc \in Working
      /\ UNCHANGED << kind, file, accepted, row, pending, pages, readings,
                      tempDirs, faults >>
  BY DEF ProcessImage, Working
<1>3. result' \in MaybeRow /\ RowsInv' /\ ControlInv' /\ PendingInv'
      /\ AcceptedIsDurable'
  BY <1>1, <1>2, ResultKept
<1>4. TypeOK'
  BY <1>2, <1>3 DEF IInv, TypeOK, Step
<1>5. PagesInv' /\ CleanInv'
  BY <1>2 DEF IInv, PagesInv, CleanInv
<1> QED BY <1>3, <1>4, <1>5 DEF IInv

LEMMA ExtractPdfTextStep == IInv /\ ExtractPdfText => IInv'
<1> SUFFICES ASSUME IInv, ExtractPdfText
             PROVE  IInv'
  OBVIOUS
<1>1. pc = "process" /\ pc \in Working
      /\ UNCHANGED << kind, file, accepted, row, pending, pages, readings,
                      tempDirs, faults >>
  BY DEF ExtractPdfText, Working
<1>2. CASE pc' = "write" /\ GoodResult(result')
  <2>1. result' \in MaybeRow /\ RowsInv' /\ ControlInv' /\ PendingInv'
        /\ AcceptedIsDurable'
    BY <1>1, <1>2, ResultKept
  <2>2. TypeOK'
    BY <1>1, <1>2, <2>1 DEF IInv, TypeOK, Step
  <2>3. PagesInv' /\ CleanInv'
    BY <1>1, <1>2 DEF IInv, PagesInv, CleanInv
  <2> QED BY <2>1, <2>2, <2>3 DEF IInv
<1>3. CASE pc' = "render" /\ UNCHANGED result
  <2>1. TypeOK'
    BY <1>1, <1>3 DEF IInv, TypeOK, Step
  <2>2. RowsInv' /\ PendingInv' /\ AcceptedIsDurable'
    BY <1>1, <1>3 DEF IInv, RowsInv, PendingInv, AcceptedIsDurable
  <2>3. ControlInv'
    BY <1>1, <1>3 DEF IInv, ControlInv, Working
  <2>4. PagesInv' /\ CleanInv'
    BY <1>1, <1>3 DEF IInv, PagesInv, CleanInv
  <2> QED BY <2>1, <2>2, <2>3, <2>4 DEF IInv
<1> QED BY <1>2, <1>3, ResultOptions DEF ExtractPdfText

LEMMA RenderPagesStep == IInv /\ RenderPages => IInv'
<1> SUFFICES ASSUME IInv, RenderPages
             PROVE  IInv'
  OBVIOUS
<1>1. pc = "render" /\ pc \in Working
      /\ UNCHANGED << kind, file, accepted, row, pending, faults >>
  BY DEF RenderPages, Working
<1>2. CASE /\ pages' \in 1 .. MaxPages /\ readings' = NoReadings
           /\ tempDirs' = tempDirs + 1
           /\ pc' = "ocr" /\ UNCHANGED result
  <2>1. readings' \in [ count : 0 .. MaxPages, sum : Nat ]
        /\ readings'.count = 0 /\ readings'.sum = 0
    BY <1>2 DEF NoReadings
  <2>2. pages' \in 0 .. MaxPages /\ tempDirs' \in Nat
        /\ pages' <= MaxPages /\ tempDirs' > 0
    <3>1. tempDirs \in Nat
      BY DEF IInv, TypeOK
    <3>2. pages' \in 1 .. MaxPages /\ tempDirs' = tempDirs + 1
      BY <1>2
    <3> QED BY <3>1, <3>2
  <2>3. TypeOK'
    BY <1>1, <1>2, <2>1, <2>2 DEF IInv, TypeOK, Step
  <2>4. RowsInv' /\ PendingInv' /\ AcceptedIsDurable'
    BY <1>1, <1>2 DEF IInv, RowsInv, PendingInv, AcceptedIsDurable
  <2>5. ControlInv'
    BY <1>1, <1>2 DEF IInv, ControlInv, Working
  <2>6. PagesInv'
    <3>1. \A c \in { 0 }, n \in 0 .. MaxPages : c + n <= MaxPages
      OBVIOUS
    <3>2. readings'.count + pages' <= MaxPages
      BY <2>1, <2>2, <3>1
    <3>3. readings'.sum <= 100 * readings'.count
      BY <2>1
    <3> QED BY <2>2, <3>2, <3>3 DEF PagesInv
  <2>7. CleanInv'
    BY <1>1, <1>2 DEF IInv, CleanInv
  <2> QED BY <2>3, <2>4, <2>5, <2>6, <2>7 DEF IInv
<1>3. CASE /\ tempDirs' \in { tempDirs, tempDirs + 1 }
           /\ result' = FailedResult
           /\ pc' = "write" /\ UNCHANGED << pages, readings >>
  <2>1. result' \in MaybeRow /\ RowsInv' /\ ControlInv' /\ PendingInv'
        /\ AcceptedIsDurable'
    BY <1>1, <1>3, ResultKept, ResultOptions
  <2>2. TypeOK'
    BY <1>1, <1>3, <2>1 DEF IInv, TypeOK, Step
  <2>3. PagesInv'
    BY <1>1, <1>3 DEF IInv, PagesInv
  <2>4. CleanInv'
    BY <1>1, <1>3, SpecialRows DEF IInv, CleanInv
  <2> QED BY <2>1, <2>2, <2>3, <2>4 DEF IInv
<1> QED BY <1>2, <1>3 DEF RenderPages

LEMMA OcrPageStep == IInv /\ OcrPage => IInv'
<1> SUFFICES ASSUME IInv, OcrPage
             PROVE  IInv'
  OBVIOUS
<1>1. pc = "ocr" /\ pages > 0 /\ pages' = pages - 1
      /\ UNCHANGED << kind, file, accepted, row, pending, pc, result, tempDirs,
                      faults >>
  BY DEF OcrPage
<1>2. /\ pages \in 0 .. MaxPages /\ readings.count \in 0 .. MaxPages
      /\ readings.sum \in Nat /\ readings.sum <= 100 * readings.count
      /\ readings.count + pages <= MaxPages /\ tempDirs > 0
  BY <1>1 DEF IInv, TypeOK, PagesInv
<1>3. pages' \in 0 .. MaxPages
  BY <1>1, <1>2
<1>4. /\ readings' \in [ count : 0 .. MaxPages, sum : Nat ]
      /\ readings'.sum <= 100 * readings'.count
      /\ readings'.count + pages' <= MaxPages
  <2>1. CASE UNCHANGED readings
    BY <1>1, <1>2, <2>1 DEF IInv, TypeOK
  <2>2. CASE \E ocr \in OcrConfidences :
               readings' = [ count |-> readings.count + 1,
                             sum |-> readings.sum + ocr ]
    <3>1. PICK ocr \in 0 .. 100 :
            readings' = [ count |-> readings.count + 1,
                          sum |-> readings.sum + ocr ]
      BY <2>2
    <3>2. /\ readings.count + 1 \in 0 .. MaxPages
          /\ readings.sum + ocr \in Nat
          /\ readings.sum + ocr <= 100 * (readings.count + 1)
          /\ readings.count + 1 + pages' <= MaxPages
      BY <1>1, <1>2
    <3> QED BY <3>1, <3>2
  <2> QED BY <2>1, <2>2 DEF OcrPage
<1>5. TypeOK'
  BY <1>1, <1>3, <1>4 DEF IInv, TypeOK
<1>6. PagesInv'
  BY <1>1, <1>2, <1>4 DEF PagesInv
<1>7. RowsInv' /\ ControlInv' /\ PendingInv' /\ AcceptedIsDurable' /\ CleanInv'
  BY <1>1 DEF IInv, RowsInv, ControlInv, PendingInv, AcceptedIsDurable, CleanInv
<1> QED BY <1>5, <1>6, <1>7 DEF IInv

LEMMA CombinePagesStep == IInv /\ CombinePages => IInv'
<1> SUFFICES ASSUME IInv, CombinePages
             PROVE  IInv'
  OBVIOUS
<1>1. pc = "ocr" /\ pc' = "write" /\ tempDirs' = tempDirs - 1 /\ pc \in Working
      /\ UNCHANGED << kind, file, accepted, row, pending, pages, readings, faults >>
  BY DEF CombinePages, Working
<1>2. tempDirs \in Nat /\ tempDirs > 0
  BY <1>1 DEF IInv, TypeOK, PagesInv
<1>3. GoodResult(result')
  <2>1. CASE result' = FailedResult
    BY <2>1, ResultOptions
  <2>2. CASE /\ readings.count > 0
             /\ \E fields \in FieldResults : result' = OcrResult(MeanReading, fields)
    <3>1. /\ readings.sum \in Nat /\ readings.count \in Nat \ { 0 }
          /\ readings.sum <= 100 * readings.count
      BY <2>2 DEF IInv, TypeOK, PagesInv
    <3>2. MeanReading \in 0 .. 100
      BY <3>1, MeanRange DEF MeanReading
    <3> QED BY <2>2, <3>2, GoodResults DEF GoodResult
  <2> QED BY <2>1, <2>2 DEF CombinePages
<1>4. result' \in MaybeRow /\ RowsInv' /\ ControlInv' /\ PendingInv'
      /\ AcceptedIsDurable'
  BY <1>1, <1>3, ResultKept
<1>5. TypeOK'
  BY <1>1, <1>2, <1>4 DEF IInv, TypeOK, Step
<1>6. PagesInv'
  BY <1>1 DEF IInv, PagesInv
<1>7. CleanInv'
  BY <1>1, <1>2 DEF IInv, CleanInv
<1> QED BY <1>4, <1>5, <1>6, <1>7 DEF IInv

(* A step to the handler's except clause that leaves the rows alone. *)
LEMMA CatchKept ==
  ASSUME IInv, pc' = "catch", faults' = faults + 1, faults < MaxFaults,
         pc \in Working \cup { "requeued", "audit" },
         UNCHANGED << kind, file, accepted, row, pending, work >>,
         tempDirs' = tempDirs \/ (pc = "ocr" /\ tempDirs' = tempDirs - 1)
  PROVE  IInv'
<1>1. tempDirs' \in Nat
  BY DEF IInv, TypeOK, PagesInv
<1>2. faults' \in 0 .. MaxFaults /\ faults' # 0
  BY DEF IInv, TypeOK
<1>3. TypeOK'
  BY <1>1, <1>2 DEF IInv, TypeOK, Step, work
<1>4. RowsInv' /\ PendingInv' /\ AcceptedIsDurable'
  BY DEF IInv, RowsInv, PendingInv, AcceptedIsDurable, work
<1>5. ControlInv'
  <2>1. NeverRead(row) /\ NeverRead(pending)
    BY SpecialRows DEF IInv, ControlInv, Unfinished, NeverRead
  <2>2. row # None
    BY SpecialRows DEF IInv, ControlInv, Unfinished, Finished
  <2>3. row' = row /\ pending' = pending
    OBVIOUS
  <2> QED BY <2>1, <2>2, <2>3 DEF ControlInv, Working, NeverRead
<1>6. PagesInv' /\ CleanInv'
  BY <1>2 DEF IInv, PagesInv, CleanInv, work
<1> QED BY <1>3, <1>4, <1>5, <1>6 DEF IInv

LEMMA RaisingSteps == IInv /\ (ProcessingRaises \/ ReadFails) => IInv'
<1>1. ASSUME IInv, ProcessingRaises
      PROVE  IInv'
  <2>1. /\ pc' = "catch" /\ faults' = faults + 1 /\ faults < MaxFaults
        /\ pc \in Working \cup { "requeued", "audit" }
        /\ UNCHANGED << kind, file, accepted, row, pending, work >>
        /\ (tempDirs' = tempDirs \/ (pc = "ocr" /\ tempDirs' = tempDirs - 1))
    BY <1>1 DEF ProcessingRaises, Fault, Working
  <2> QED BY <1>1, <2>1, CatchKept
<1>2. ASSUME IInv, ReadFails
      PROVE  IInv'
  <2>1. /\ pc' = "catch" /\ faults' = faults + 1 /\ faults < MaxFaults
        /\ pc \in Working \cup { "requeued", "audit" }
        /\ UNCHANGED << kind, file, accepted, row, pending, work >>
        /\ (tempDirs' = tempDirs \/ (pc = "ocr" /\ tempDirs' = tempDirs - 1))
    BY <1>2 DEF ReadFails, Fault, Working
  <2> QED BY <1>2, <2>1, CatchKept
<1> QED BY <1>1, <1>2

LEMMA AuditSteps == IInv /\ (AuditStart \/ AuditResult) => IInv'
<1> SUFFICES ASSUME IInv, AuditStart \/ AuditResult
             PROVE  IInv'
  OBVIOUS
<1>1. CASE Fault /\ pc' = "catch"
  <2>1. /\ pc' = "catch" /\ faults' = faults + 1 /\ faults < MaxFaults
        /\ pc \in Working \cup { "requeued", "audit" }
        /\ UNCHANGED << kind, file, accepted, row, pending, work >>
        /\ (tempDirs' = tempDirs \/ (pc = "ocr" /\ tempDirs' = tempDirs - 1))
    BY <1>1 DEF AuditStart, AuditResult, Fault, Working
  <2> QED BY <2>1, CatchKept
<1>2. CASE ~(Fault /\ pc' = "catch")
  <2>1. /\ UNCHANGED << kind, file, accepted, row, pending, work, tempDirs, faults >>
        /\ \/ pc = "started" /\ pc' = "process"
           \/ pc = "audit" /\ pc' = "over"
    BY <1>2 DEF AuditStart, AuditResult
  <2>2. TypeOK'
    BY <2>1 DEF IInv, TypeOK, Step, work
  <2>3. RowsInv' /\ PendingInv' /\ AcceptedIsDurable'
    BY <2>1 DEF IInv, RowsInv, PendingInv, AcceptedIsDurable, work
  <2>4. ControlInv'
    BY <2>1 DEF IInv, ControlInv, Working
  <2>5. PagesInv' /\ CleanInv'
    BY <2>1 DEF IInv, PagesInv, CleanInv, work
  <2> QED BY <2>2, <2>3, <2>4, <2>5 DEF IInv
<1> QED BY <1>1, <1>2

LEMMA StartTaskStep == IInv /\ StartTask => IInv'
<1> SUFFICES ASSUME IInv, StartTask
             PROVE  IInv'
  OBVIOUS
<1> DEFINE r == Started(row)
<1>1. /\ pc \in { "queued", "requeued" } /\ pending = None /\ Visible = row
      /\ row \in Row /\ row.status \in Unfinished /\ GoodRow(row)
  BY SpecialRows DEF StartTask, IInv, ControlInv, TypeOK, MaybeRow, RowsInv,
                     Visible, Unfinished
<1>2. UNCHANGED << kind, file, accepted, work, tempDirs >>
  BY DEF StartTask
<1>3. r \in Row /\ r.status = "processing" /\ GoodRow(r)
  BY <1>1, Updates
<1>4. ~Finished(row) /\ row # None /\ row.status # "completed"
  BY <1>1, SpecialRows DEF Unfinished, Finished
<1>5. CASE Write(r) /\ pc' \in { "started", "process" }
  <2>1. row' = r /\ pending' = None /\ faults' = faults
    BY <1>5 DEF Write
  <2>2. TypeOK'
    BY <1>2, <1>3, <1>5, <2>1 DEF IInv, TypeOK, MaybeRow, Step, work
  <2>3. r # None /\ ~r.available
    BY <1>3, SpecialRows DEF GoodRow, Unfinished
  <2>4. RowsInv' /\ PendingInv' /\ AcceptedIsDurable'
    BY <1>2, <1>3, <2>1, <2>3, SpecialRows
       DEF IInv, RowsInv, PendingInv, AcceptedIsDurable, work
  <2>5. ControlInv'
    BY <1>3, <1>5, <2>1 DEF ControlInv, Working
  <2>6. PagesInv'
    BY <1>2, <1>5 DEF IInv, PagesInv, work
  <2>7. CleanInv'
    BY <1>1, <1>2, <1>5, <2>1, <2>3 DEF IInv, CleanInv, work
  <2> QED BY <2>2, <2>4, <2>5, <2>6, <2>7 DEF IInv
<1>6. CASE WriteFails(r) /\ pc' = "catch"
  <2>1. /\ row' = row /\ pending' \in { None, r }
        /\ faults' = faults + 1 /\ faults < MaxFaults
    BY <1>1, <1>6 DEF WriteFails, Fault
  <2>2. faults' \in 0 .. MaxFaults /\ faults' # 0
    BY <2>1 DEF IInv, TypeOK
  <2>3. pending' \in MaybeRow /\ GoodRow(pending') /\ NeverRead(pending')
    BY <1>3, <2>1, SpecialRows DEF MaybeRow, NeverRead
  <2>4. TypeOK'
    BY <1>2, <1>6, <2>1, <2>2, <2>3 DEF IInv, TypeOK, Step, work
  <2>5. RowsInv' /\ PendingInv' /\ AcceptedIsDurable'
    BY <1>2, <1>4, <2>1, <2>3
       DEF IInv, RowsInv, PendingInv, AcceptedIsDurable, work
  <2>6. NeverRead(row)
    BY <1>1 DEF NeverRead, Unfinished
  <2>7. ControlInv'
    BY <1>4, <1>6, <2>1, <2>3, <2>6 DEF ControlInv, Working
  <2>8. PagesInv' /\ CleanInv'
    BY <1>2, <1>6, <2>2 DEF IInv, PagesInv, CleanInv, work
  <2> QED BY <2>4, <2>5, <2>7, <2>8 DEF IInv
<1> HIDE DEF r
<1>7. (Write(r) /\ pc' \in { "started", "process" }) \/ (WriteFails(r) /\ pc' = "catch")
  BY <1>1, <1>4 DEF StartTask, r
<1> QED BY <1>5, <1>6, <1>7

LEMMA WriteResultStep == IInv /\ WriteResult => IInv'
<1> SUFFICES ASSUME IInv, WriteResult
             PROVE  IInv'
  OBVIOUS
<1>1. /\ pc = "write" /\ pending = None /\ Visible = row
      /\ row \in Row /\ row.status = "processing" /\ ~row.error /\ ~row.available
  BY SpecialRows DEF WriteResult, IInv, ControlInv, TypeOK, MaybeRow, RowsInv,
                     Visible, Working, GoodRow, Unfinished
<1>2. UNCHANGED << kind, file, accepted, work, tempDirs >>
  BY DEF WriteResult
<1>3. GoodResult(result) /\ result # None
  BY <1>1, SpecialRows DEF IInv, ControlInv, TypeOK, MaybeRow, RowsInv, GoodResult
<1>4. UpdateStatus(Visible, result) = result
  BY <1>1, <1>3, ResultReplaces DEF GoodResult
<1>5. ~Finished(row) /\ row # None /\ NeverRead(row)
  BY <1>1, SpecialRows DEF Finished, NeverRead
<1>6. CASE Write(result) /\ pc' = "audit"
  <2>1. row' = result /\ pending' = None /\ faults' = faults /\ result' = result
    BY <1>2, <1>6 DEF Write, work
  <2>2. TypeOK'
    BY <1>2, <1>3, <1>6, <2>1 DEF IInv, TypeOK, GoodResult, MaybeRow, Step, work
  <2>3. RowsInv' /\ PendingInv' /\ AcceptedIsDurable'
    BY <1>2, <1>3, <2>1, SpecialRows
       DEF IInv, RowsInv, PendingInv, AcceptedIsDurable, GoodResult
  <2>4. ControlInv'
    BY <1>3, <1>6, <2>1 DEF ControlInv, Working, GoodResult
  <2>5. PagesInv'
    BY <1>2, <1>6 DEF IInv, PagesInv, work
  <2>6. CleanInv'
    BY <1>1, <1>2, <1>6, <2>1 DEF IInv, CleanInv, work
  <2> QED BY <2>2, <2>3, <2>4, <2>5, <2>6 DEF IInv
<1>7. CASE WriteFails(result) /\ pc' = "catch"
  <2>1. /\ row' = row /\ pending' \in { None, result } /\ result' = result
        /\ faults' = faults + 1 /\ faults < MaxFaults
    BY <1>1, <1>2, <1>7 DEF WriteFails, Fault, work
  <2>2. faults' \in 0 .. MaxFaults /\ faults' # 0
    BY <2>1 DEF IInv, TypeOK
  <2>3. pending' \in MaybeRow /\ GoodRow(pending') /\ NeverRead(pending')
    BY <1>3, <2>1, SpecialRows DEF MaybeRow, GoodResult
  <2>4. TypeOK'
    BY <1>2, <1>7, <2>1, <2>2, <2>3 DEF IInv, TypeOK, Step, work
  <2>5. RowsInv' /\ PendingInv' /\ AcceptedIsDurable'
    BY <1>2, <1>5, <2>1, <2>3
       DEF IInv, RowsInv, PendingInv, AcceptedIsDurable
  <2>6. ControlInv'
    BY <1>5, <1>7, <2>1, <2>3 DEF ControlInv, Working
  <2>7. PagesInv' /\ CleanInv'
    BY <1>2, <1>7, <2>2 DEF IInv, PagesInv, CleanInv, work
  <2> QED BY <2>4, <2>5, <2>6, <2>7 DEF IInv
<1>8. (Write(result) /\ pc' = "audit") \/ (WriteFails(result) /\ pc' = "catch")
  BY <1>4 DEF WriteResult
<1> QED BY <1>6, <1>7, <1>8

LEMMA MarkFailedStep == IInv /\ MarkFailed => IInv'
<1> SUFFICES ASSUME IInv, MarkFailed
             PROVE  IInv'
  OBVIOUS
<1> DEFINE r == Failed(Visible)
<1>1. /\ pc = "catch" /\ pc' = "over" /\ row # None
      /\ UNCHANGED << kind, file, accepted, work, tempDirs >>
  BY DEF MarkFailed, IInv, ControlInv
<1>2. Visible \in Row /\ GoodRow(Visible) /\ NeverRead(Visible)
  BY <1>1 DEF IInv, TypeOK, MaybeRow, RowsInv, ControlInv, Visible
<1>3. /\ r \in Row /\ GoodRow(r) /\ r.status = "failed" /\ ~r.available
      /\ Visible.status = "failed" => r = Visible
  BY <1>2, Updates DEF NeverRead, GoodRow
<1>4. r # None
  BY <1>3, SpecialRows
<1>5. Finished(row) /\ row.status = "failed" => r = row
  BY <1>3 DEF IInv, PendingInv, Visible
<1>6. faults # 0
  BY <1>1 DEF IInv, CleanInv
<1> HIDE DEF r
<1>7. CASE Write(r)
  <2>1. row' = r /\ pending' = None /\ faults' = faults
    BY <1>7 DEF Write
  <2>2. TypeOK'
    BY <1>1, <1>3, <2>1 DEF IInv, TypeOK, MaybeRow, Step, work
  <2>3. RowsInv' /\ PendingInv' /\ AcceptedIsDurable'
    BY <1>1, <1>3, <1>4, <2>1, SpecialRows
       DEF IInv, RowsInv, PendingInv, AcceptedIsDurable, work
  <2>4. ControlInv' /\ PagesInv' /\ CleanInv'
    BY <1>1, <1>6, <2>1 DEF IInv, ControlInv, Working, PagesInv, CleanInv, work
  <2> QED BY <2>2, <2>3, <2>4 DEF IInv
<1>8. CASE WriteFails(r)
  <2>1. /\ row' = row /\ pending' \in { pending, None, r }
        /\ faults' = faults + 1 /\ faults < MaxFaults
    BY <1>8 DEF WriteFails, Fault
  <2>2. faults' \in 0 .. MaxFaults /\ faults' # 0
    BY <2>1 DEF IInv, TypeOK
  <2>3. pending' \in MaybeRow /\ GoodRow(pending')
    BY <1>3, <2>1, SpecialRows DEF IInv, TypeOK, RowsInv, MaybeRow
  <2>4. TypeOK'
    BY <1>1, <2>1, <2>2, <2>3 DEF IInv, TypeOK, Step, work
  <2>5. RowsInv' /\ AcceptedIsDurable'
    BY <1>1, <2>1, <2>3 DEF IInv, RowsInv, AcceptedIsDurable, work
  <2>6. PendingInv'
    BY <1>3, <1>5, <2>1 DEF IInv, PendingInv, Finished
  <2>7. ControlInv' /\ PagesInv' /\ CleanInv'
    BY <1>1, <2>2 DEF IInv, ControlInv, Working, PagesInv, CleanInv, work
  <2> QED BY <2>4, <2>5, <2>6, <2>7 DEF IInv
<1> QED BY <1>7, <1>8 DEF MarkFailed, r

LEMMA CommitPendingStep == IInv /\ CommitPending => IInv'
<1> SUFFICES ASSUME IInv, CommitPending
             PROVE  IInv'
  OBVIOUS
<1>1. /\ pc # "down" /\ pending # None /\ row' = pending /\ pending' = None
      /\ UNCHANGED << kind, file, accepted, pc, work, tempDirs, faults >>
  BY DEF CommitPending
<1>2. pc \in { "catch", "over" } /\ faults # 0
  BY <1>1 DEF IInv, TypeOK, Step, ControlInv, Working, CleanInv
<1>3. TypeOK'
  BY <1>1 DEF IInv, TypeOK, MaybeRow, work
<1>4. RowsInv' /\ PendingInv' /\ AcceptedIsDurable'
  BY <1>1, SpecialRows DEF IInv, RowsInv, PendingInv, AcceptedIsDurable, work
<1>5. ControlInv'
  BY <1>1, <1>2, SpecialRows DEF IInv, ControlInv, Working
<1>6. PagesInv' /\ CleanInv'
  BY <1>1, <1>2 DEF IInv, PagesInv, CleanInv, work
<1> QED BY <1>3, <1>4, <1>5, <1>6 DEF IInv

LEMMA DownSteps == IInv /\ (Crash \/ Shutdown) => IInv'
<1> SUFFICES ASSUME IInv, Crash \/ Shutdown
             PROVE  IInv'
  OBVIOUS
<1>1. /\ pc \notin { "upload", "down" } /\ pc' = "down" /\ pending' = None
      /\ pages' = 0 /\ readings' = NoReadings /\ result' = None
      /\ faults < MaxFaults /\ faults' = faults + 1
      /\ UNCHANGED << kind, file, accepted, row >>
  BY DEF Crash, Shutdown, Forget, Fault
<1>2. tempDirs' = tempDirs \/ (pc = "ocr" /\ tempDirs' = tempDirs - 1)
  BY DEF Crash, Shutdown
<1>3. tempDirs' \in Nat
  BY <1>2 DEF IInv, TypeOK, PagesInv
<1>4. faults' \in 0 .. MaxFaults /\ faults' # 0
  BY <1>1 DEF IInv, TypeOK
<1>5. /\ readings' \in [ count : 0 .. MaxPages, sum : Nat ]
      /\ readings'.count = 0 /\ readings'.sum = 0
  BY <1>1 DEF NoReadings
<1>6. pages' \in 0 .. MaxPages
  BY <1>1
<1>7. TypeOK'
  BY <1>1, <1>3, <1>4, <1>5, <1>6 DEF IInv, TypeOK, MaybeRow, Step
<1>8. RowsInv' /\ PendingInv' /\ AcceptedIsDurable'
  BY <1>1, SpecialRows DEF IInv, RowsInv, PendingInv, AcceptedIsDurable
<1>9. ControlInv'
  BY <1>1 DEF ControlInv, Working
<1>10. PagesInv'
  <2>1. readings'.count + pages' <= MaxPages
    BY <1>1, <1>5
  <2>2. readings'.sum <= 100 * readings'.count
    BY <1>5
  <2> QED BY <1>1, <2>1, <2>2 DEF PagesInv
<1>11. CleanInv'
  BY <1>4 DEF CleanInv
<1> QED BY <1>7, <1>8, <1>9, <1>10, <1>11 DEF IInv

LEMMA RestartStep == IInv /\ Restart => IInv'
<1> SUFFICES ASSUME IInv, Restart
             PROVE  IInv'
  OBVIOUS
<1>1. /\ pc = "down" /\ faults # 0 /\ pending = None
      /\ UNCHANGED << kind, file, accepted, row, pending, work, tempDirs >>
  BY DEF Restart, IInv, CleanInv, ControlInv
<1>2. pc' = "over" \/ (pc' = "requeued" /\ row.status \in Unfinished)
  BY DEF Restart
<1>3. faults' \in 0 .. MaxFaults /\ faults' # 0
  BY <1>1 DEF Restart, Fault, IInv, TypeOK
<1>4. TypeOK'
  BY <1>1, <1>2, <1>3 DEF IInv, TypeOK, Step, work
<1>5. RowsInv' /\ PendingInv' /\ AcceptedIsDurable'
  BY <1>1 DEF IInv, RowsInv, PendingInv, AcceptedIsDurable, work
<1>6. ControlInv'
  BY <1>1, <1>2 DEF ControlInv, Working
<1>7. PagesInv' /\ CleanInv'
  BY <1>1, <1>2, <1>3 DEF IInv, PagesInv, CleanInv, work
<1> QED BY <1>4, <1>5, <1>6, <1>7 DEF IInv

LEMMA StepInvariant == IInv /\ [Next]_vars => IInv'
<1>1. ASSUME IInv, Next
      PROVE  IInv'
  BY <1>1, UploadSteps, ProcessImageStep, ExtractPdfTextStep, RenderPagesStep,
     OcrPageStep, CombinePagesStep, RaisingSteps, AuditSteps, StartTaskStep,
     WriteResultStep, MarkFailedStep, CommitPendingStep, DownSteps, RestartStep
     DEF Next, TaskStep
<1>2. ASSUME IInv, UNCHANGED vars
      PROVE  IInv'
  <2>1. UNCHANGED << kind, file, accepted, row, pending, pc, pages, readings,
                     result, tempDirs, faults >>
    BY <1>2 DEF vars
  <2>2. TypeOK' /\ AcceptedIsDurable' /\ RowsInv'
    BY <1>2, <2>1 DEF IInv, TypeOK, AcceptedIsDurable, RowsInv
  <2>3. ControlInv' /\ PagesInv' /\ PendingInv' /\ CleanInv'
    BY <1>2, <2>1 DEF IInv, ControlInv, PagesInv, PendingInv, CleanInv
  <2> QED BY <2>2, <2>3 DEF IInv
<1> QED BY <1>1, <1>2
-----------------------------------------------------------------------------
(* The inductive invariant: the types, the rows, and how the two depend on *)
(* where the handler of the document is (routes.py 268-454, main.py        *)
(* 100-126, 175-259).                                                      *)
THEOREM Invariance == Spec => []IInv
  BY InitInvariant, StepInvariant, PTL DEF Spec

(* The variables keep their types; in particular every confidence written  *)
(* is a percentage and no directory is removed twice                       *)
(* (document_processing.py 317-425).                                       *)
THEOREM TypeCorrect == Spec => []TypeOK
<1>1. IInv => TypeOK
  BY DEF IInv
<1> QED BY <1>1, Invariance, PTL

(* An accepted upload keeps its row and its file (routes.py 313-352).      *)
THEOREM AcceptedDurable == Spec => []AcceptedIsDurable
<1>1. IInv => AcceptedIsDurable
  BY DEF IInv
<1> QED BY <1>1, Invariance, PTL

(* A completed row is one whole result (store.py 363-417).                 *)
THEOREM CompletedWhole == Spec => []CompletedIsWhole
<1>1. IInv => CompletedIsWhole
  BY DEF IInv, RowsInv, GoodRow, CompletedIsWhole
<1> QED BY <1>1, Invariance, PTL

(* A failed row has nothing to rely on (routes.py 436-445, store.py        *)
(* 363-417).                                                               *)
THEOREM FailedWorthless == Spec => []FailedIsWorthless
<1>1. IInv => FailedIsWorthless
  BY DEF IInv, RowsInv, GoodRow, FailedIsWorthless
<1> QED BY <1>1, Invariance, PTL

(* The evidence the engine reuses has a field, however sure the OCR is     *)
(* (document_processing.py 399-425, engine.py 142-159).                    *)
THEOREM ReusedFields == Spec => []ReusedHasFields
<1>1. IInv => ReusedHasFields
  <2> SUFFICES ASSUME IInv, row.status = "completed", row.overall >= 60
               PROVE  row.found > 0
    BY DEF ReusedHasFields, Reusable
  <2>1. row \in Row
    BY SpecialRows DEF IInv, TypeOK, MaybeRow
  <2>2. row.overall \in 0 .. 100 /\ (row.found > 0 <=> row.overall > 40)
    BY <2>1 DEF IInv, RowsInv, GoodRow, Row
  <2> QED BY <2>2
<1> QED BY <1>1, Invariance, PTL

(* A document read without a fault leaves no rendered pages                *)
(* (pdf_processing.py 77-125, document_processing.py 317-396).             *)
THEOREM DirectoriesRemoved == Spec => []CleanWhenRead
<1>1. IInv => CleanWhenRead
  BY DEF IInv, CleanInv, CleanWhenRead
<1> QED BY <1>1, Invariance, PTL
-----------------------------------------------------------------------------
(* Which steps change the row, and what to. *)
LEMMA RowStep ==
  ASSUME IInv, Next, row' # row, Finished(row)
  PROVE  row'.status = "failed" /\ row.status # "failed"
<1>1. CASE CommitPending
  BY <1>1 DEF CommitPending, IInv, PendingInv
<1>2. CASE MarkFailed
  <2>1. pc = "catch" /\ row # None
    BY <1>2 DEF MarkFailed, IInv, ControlInv
  <2>2. row' = Failed(Visible)
    BY <1>2 DEF MarkFailed, Write, WriteFails
  <2>3. Visible \in Row /\ GoodRow(Visible) /\ NeverRead(Visible)
    BY <2>1 DEF IInv, TypeOK, MaybeRow, RowsInv, ControlInv, Visible
  <2>4. row'.status = "failed" /\ (Visible.status = "failed" => row' = Visible)
    BY <2>2, <2>3, Updates DEF NeverRead, GoodRow
  <2>5. row.status = "failed" => row' = row
    BY <2>4 DEF IInv, PendingInv, Visible
  <2> QED BY <2>4, <2>5
<1>3. ~SavePendingDocument /\ ~StartTask /\ ~WriteResult
  BY SpecialRows DEF SavePendingDocument, StartTask, WriteResult, IInv, ControlInv,
                     Working, Finished, Unfinished
<1>4. CASE ~CommitPending /\ ~MarkFailed
  BY <1>3, <1>4
     DEF Next, TaskStep, RefuseUpload, StoreFile, ProcessImage, ExtractPdfText,
         RenderPages, OcrPage, CombinePages, ProcessingRaises, ReadFails,
         AuditStart, AuditResult, Crash, Shutdown, Forget, Restart
<1> QED BY <1>1, <1>2, <1>4

(* A finished document is never processed again, over any number of        *)
(* crashes and failed writes (routes.py 355-454, main.py 100-126,          *)
(* 175-259).                                                               *)
THEOREM FinishedStays == Spec => NeverReopened
<1>1. IInv /\ [Next]_vars =>
        [ Finished(row) => row'.status = "failed" /\ row.status # "failed" ]_row
  BY RowStep DEF vars
<1> QED BY <1>1, Invariance, PTL DEF Spec, NeverReopened
-----------------------------------------------------------------------------
(***************************************************************************)
(* A task ends, and one fault is survived                                  *)
(***************************************************************************)
(* A task that is over, with its document accepted and not finished, has   *)
(* met two faults: one sends it to its handler or to a recovery, and only  *)
(* another one keeps that from writing what became of the document         *)
(* (routes.py 355-454, main.py 100-126, 175-259).                          *)
OneFaultStrandsNothing ==
  accepted /\ pc = "over" /\ ~Finished(row) => faults >= 2

(* Where a task is that has met a fault, and what one that is over leaves. *)
SurvivalInv ==
  /\ pc \in { "catch", "down", "requeued" } => faults >= 1
  /\ accepted /\ pc = "over" /\ faults < 2 => Finished(row) /\ pending = None

(* The steps the task of this document can still make, at most.            *)
StepsAt(place, page) ==
  CASE place = "down"    -> 0
    [] place = "over"    -> 1
    [] place = "catch"   -> 2
    [] place = "audit"   -> 3
    [] place = "write"   -> 4
    [] place = "ocr"     -> 5 + page
    [] place = "render"  -> 6 + MaxPages
    [] place = "process" -> 7 + MaxPages
    [] place = "started" -> 8 + MaxPages
    [] place \in { "queued", "requeued" } -> 9 + MaxPages
    [] place = "stored"  -> 10 + MaxPages
    [] place = "upload"  -> 11 + MaxPages

StepsLeft == StepsAt(pc, pages)

(* With the commits by others of a write that was left behind.             *)
Left == 2 * StepsLeft + (IF pending = None THEN 0 ELSE 1)

(* Whatever fails, every step but the restart of the process brings the    *)
(* task nearer to its end, which is never further than that                *)
(* (routes.py 355-454, main.py 175-259, document_processing.py 317-396).   *)
TaskGetsOn == [][ Left' < Left \/ Restart ]_vars

LeftBounded == Left \in 0 .. 2 * (11 + MaxPages) + 1

(* An update always ends in the status it is given.                        *)
LEMMA UpdatedStatus ==
  ASSUME NEW old, NEW new
  PROVE  /\ UpdateStatus(old, new).status = new.status
         /\ Finished(Failed(old))
  BY DEF UpdateStatus, Failed, RowOf, Finished

LEMMA SurvivalStep ==
  ASSUME IInv, SurvivalInv, [Next]_vars
  PROVE  SurvivalInv'
<1>1. faults \in Nat
  BY DEF IInv, TypeOK
<1>2. CASE RefuseUpload \/ StoreFile \/ SavePendingDocument
  BY <1>1, <1>2 DEF RefuseUpload, StoreFile, SavePendingDocument, IInv, ControlInv,
                    SurvivalInv, Write, WriteFails, Fault, vars
<1>3. CASE ProcessImage \/ ExtractPdfText \/ RenderPages \/ OcrPage \/ CombinePages
  BY <1>3 DEF ProcessImage, ExtractPdfText, RenderPages, OcrPage, CombinePages,
              SurvivalInv
<1>4. CASE StartTask
  <2>1. CASE pc = "requeued" /\ Visible.status = "completed"
    BY <1>4, <2>1 DEF StartTask, IInv, ControlInv, Visible, Unfinished
  <2>2. CASE ~(pc = "requeued" /\ Visible.status = "completed")
    BY <1>1, <1>4, <2>2 DEF StartTask, SurvivalInv, WriteFails, Fault
  <2>. QED  BY <2>1, <2>2
<1>5. CASE AuditStart \/ ReadFails \/ ProcessingRaises \/ WriteResult
  BY <1>1, <1>5 DEF AuditStart, ReadFails, ProcessingRaises, WriteResult, SurvivalInv,
                    WriteFails, Fault
<1>6. CASE AuditResult
  BY <1>1, <1>6 DEF AuditResult, IInv, ControlInv, SurvivalInv, Fault
<1>7. CASE MarkFailed
  <2>1. CASE Write(Failed(Visible))
    BY <1>7, <2>1, UpdatedStatus DEF MarkFailed, Write, SurvivalInv
  <2>2. CASE WriteFails(Failed(Visible))
    BY <1>1, <1>7, <2>2 DEF MarkFailed, WriteFails, Fault, SurvivalInv
  <2>. QED  BY <1>7, <2>1, <2>2 DEF MarkFailed
<1>8. CASE CommitPending
  BY <1>8 DEF CommitPending, SurvivalInv
<1>9. CASE Crash \/ Shutdown
  BY <1>1, <1>9 DEF Crash, Shutdown, Forget, Fault, SurvivalInv
<1>10. CASE Restart
  <2>1. accepted => row \in Row
    BY DEF IInv, TypeOK, MaybeRow, AcceptedIsDurable
  <2>2. accepted => row.status \in Unfinished \/ Finished(row)
    BY <2>1 DEF Row, Status, Unfinished, Finished
  <2>. QED  BY <1>1, <1>10, <2>2 DEF Restart, Fault, SurvivalInv, IInv, ControlInv
<1>11. CASE UNCHANGED vars
  BY <1>11 DEF vars, SurvivalInv, Finished
<1>. QED  BY <1>2, <1>3, <1>4, <1>5, <1>6, <1>7, <1>8, <1>9, <1>10, <1>11
          DEF Next, TaskStep

(* A document is left unfinished by two faults only                        *)
(* (routes.py 355-454, main.py 100-126, 175-259).                          *)
THEOREM OneFaultSurvived == Spec => []OneFaultStrandsNothing
<1>1. Init => SurvivalInv
  BY DEF Init, SurvivalInv
<1>2. IInv /\ SurvivalInv /\ [Next]_vars => SurvivalInv'
  BY SurvivalStep
<1>3. IInv /\ SurvivalInv => OneFaultStrandsNothing
  BY DEF IInv, TypeOK, SurvivalInv, OneFaultStrandsNothing
<1>. QED  BY <1>1, <1>2, <1>3, Invariance, PTL DEF Spec

(* How many steps are left at each place.                                  *)
LEMMA StepsAtPlaces ==
  ASSUME NEW n
  PROVE  /\ StepsAt("down", n) = 0 /\ StepsAt("over", n) = 1
         /\ StepsAt("catch", n) = 2 /\ StepsAt("audit", n) = 3
         /\ StepsAt("write", n) = 4 /\ StepsAt("ocr", n) = 5 + n
         /\ StepsAt("render", n) = 6 + MaxPages /\ StepsAt("process", n) = 7 + MaxPages
         /\ StepsAt("started", n) = 8 + MaxPages
         /\ StepsAt("queued", n) = 9 + MaxPages /\ StepsAt("requeued", n) = 9 + MaxPages
         /\ StepsAt("stored", n) = 10 + MaxPages
         /\ StepsAt("upload", n) = 11 + MaxPages
  BY DEF StepsAt

(* How far it is to the end: a number.                                     *)
LEMMA StepsBounded ==
  /\ TypeOK => StepsLeft \in 0 .. 11 + MaxPages
  /\ TypeOK' => StepsLeft' \in 0 .. 11 + MaxPages
<1>1. MaxPages \in Nat
  OBVIOUS
<1>2. ASSUME NEW p \in Step, NEW n \in 0 .. MaxPages
      PROVE  StepsAt(p, n) \in 0 .. 11 + MaxPages
  BY <1>1, StepsAtPlaces DEF Step
<1>. QED  BY <1>2 DEF TypeOK, StepsLeft

LEMMA StepLowers ==
  ASSUME TypeOK, TypeOK', Next, ~Restart
  PROVE  Left' < Left
<1>1. /\ StepsLeft \in Nat /\ StepsLeft' \in Nat /\ MaxPages \in Nat
      /\ pages \in 0 .. MaxPages /\ pages' \in 0 .. MaxPages
  BY StepsBounded DEF TypeOK
<1>2. \A m, n \in Nat : \A i, j \in { 0, 1 } : m < n => 2 * m + i < 2 * n + j
  OBVIOUS
<1>3. \E i, j \in { 0, 1 } : Left = 2 * StepsLeft + j /\ Left' = 2 * StepsLeft' + i
  BY DEF Left
<1>4. CASE CommitPending
  <2>1. StepsLeft' = StepsLeft
    BY <1>4 DEF CommitPending, work, StepsLeft
  <2>. QED  BY <1>1, <1>4, <2>1 DEF CommitPending, Left
<1>5. ASSUME ~CommitPending PROVE StepsLeft' < StepsLeft
  <2>1. CASE RefuseUpload \/ StoreFile \/ SavePendingDocument \/ StartTask
    BY <1>1, <2>1, StepsAtPlaces
       DEF RefuseUpload, StoreFile, SavePendingDocument, StartTask, StepsLeft
  <2>2. CASE ProcessImage \/ ExtractPdfText \/ RenderPages
    BY <1>1, <2>2, StepsAtPlaces DEF ProcessImage, ExtractPdfText, RenderPages, StepsLeft
  <2>3. CASE OcrPage \/ CombinePages
    BY <1>1, <2>3, StepsAtPlaces DEF OcrPage, CombinePages, StepsLeft
  <2>4. CASE AuditStart \/ WriteResult \/ AuditResult \/ MarkFailed
    BY <1>1, <2>4, StepsAtPlaces DEF AuditStart, WriteResult, AuditResult, MarkFailed, StepsLeft
  <2>5. CASE ProcessingRaises \/ ReadFails
    BY <1>1, <2>5, StepsAtPlaces DEF ProcessingRaises, ReadFails, StepsLeft
  <2>6. CASE Crash \/ Shutdown
    BY <1>1, <2>6, StepsAtPlaces DEF Crash, Shutdown, Forget, TypeOK, Step, StepsLeft
  <2>. QED  BY <1>5, <2>1, <2>2, <2>3, <2>4, <2>5, <2>6 DEF Next, TaskStep
<1>. QED  BY <1>1, <1>2, <1>3, <1>4, <1>5

(* No failure and no page keeps a task from its end                        *)
(* (routes.py 355-454, main.py 175-259, document_processing.py 317-396).   *)
THEOREM TasksGetOn == Spec => TaskGetsOn /\ []LeftBounded
<1>1. TypeOK /\ TypeOK' /\ [Next]_vars => [ Left' < Left \/ Restart ]_vars
  BY StepLowers
<1>2. TypeOK => LeftBounded
  <2>1. TypeOK => \E i \in { 0, 1 } : Left = 2 * StepsLeft + i
    BY DEF Left
  <2>. QED  BY <2>1, StepsBounded, MaxPagesAssumption DEF LeftBounded
<1>. QED  BY <1>1, <1>2, TypeCorrect, PTL DEF Spec, TaskGetsOn
=============================================================================
