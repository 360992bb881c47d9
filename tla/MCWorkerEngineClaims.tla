----------------------- MODULE MCWorkerEngineClaims -----------------------
(* Small instances of WorkerEngineClaims for TLC. *)
EXTENDS WorkerEngineClaims

MCMismatches == 0 .. 3
=============================================================================
