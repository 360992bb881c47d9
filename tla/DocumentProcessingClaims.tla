--------------------- MODULE DocumentProcessingClaims ---------------------
(***************************************************************************)
(* Statements the repository's documents make about uploaded documents and *)
(* that the code does not keep, each the property of a run of its own.     *)
(***************************************************************************)
EXTENDS DocumentProcessing

(* "If AuditLogger.record() fails, the workflow continues with a warning": *)
(* a document whose result is durable stays completed.  The event of the   *)
(* result is recorded in the try block of the whole task, so that losing   *)
(* it marks the document failed (routes.py 423-445, main.py 235-259).      *)
AuditFailureIsHarmless ==
  [][ row.status = "completed" => row'.status = "completed" ]_row

(* "PDF rendering creates temporary directories that are always cleaned up *)
(* ..., regardless of whether processing succeeds or fails": a handled     *)
(* document leaves none behind.  A page that cannot be rendered leaves the *)
(* directory made for it, which no caller knows of (pdf_processing.py      *)
(* 93-125, document_processing.py 317-340).                                *)
TempFilesAreCleaned == pc = "over" => tempDirs = 0
=============================================================================
