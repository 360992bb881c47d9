-------------------------- MODULE MCWorkerEngine --------------------------
(* Small instances of WorkerEngine for TLC. *)
EXTENDS WorkerEngine

(* A match, one, two and three or more differing fields are the four cases *)
(* the score and the rules tell apart.                                     *)
MCMismatches == 0 .. 3
=============================================================================
