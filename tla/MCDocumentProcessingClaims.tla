-------------------- MODULE MCDocumentProcessingClaims --------------------
(* Small instances of DocumentProcessingClaims for TLC. *)
EXTENDS DocumentProcessingClaims

MCOcrConfidences == { 50, 90 }
MCFieldConfidences == { 60, 95 }
MCFieldCounts == { 1, 8 }
=============================================================================
