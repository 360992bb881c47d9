----------------------- MODULE MCDocumentProcessing -----------------------
(* Small instances of DocumentProcessing for TLC. *)
EXTENDS DocumentProcessing

(* An unsure and a sure reading, and fields that put the result below the  *)
(* line of a completed document, between it and the line of a reusable     *)
(* one, and above both.                                                    *)
MCOcrConfidences == { 50, 90 }
MCFieldConfidences == { 60, 70, 95 }
MCFieldCounts == { 1, 8 }
=============================================================================
