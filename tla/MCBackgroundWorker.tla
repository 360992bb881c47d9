------------------------ MODULE MCBackgroundWorker ------------------------
(* Small instances of BackgroundWorker for TLC: three documents compete    *)
(* for two OCR slots, next to an application.                              *)
EXTENDS BackgroundWorker

CONSTANTS d1, d2, d3, a1

MCOcrKeys == { d1, d2, d3 }
MCWorkflowKeys == { a1 }
=============================================================================
