--------------------- MODULE MCBackgroundWorkerClaims ---------------------
(* A small instance of BackgroundWorkerClaims for TLC. *)
EXTENDS BackgroundWorkerClaims

CONSTANTS d1, a1

MCOcrKeys == { d1 }
MCWorkflowKeys == { a1 }
=============================================================================
