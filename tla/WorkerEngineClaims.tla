------------------------ MODULE WorkerEngineClaims ------------------------
(***************************************************************************)
(* Statements the repository's documents make about the engine and that    *)
(* the code does not keep.  Each is the property of a run of its own, in   *)
(* which TLC shows the behaviour that contradicts it.                      *)
(***************************************************************************)
EXTENDS WorkerEngine

(* "All state is recovered from SQLite. The workflow can resume from any   *)
(* persisted state": after a restart an application that was submitted is  *)
(* settled at some point.  A row left in VALIDATING or TOOL_RETRYING is    *)
(* resumed into a transition the table forbids, and one left in            *)
(* MISSING_INFORMATION, ANALYZING_RISK, DECIDING or TOOL_FAILED is never   *)
(* re-queued (main.py 55-70, engine.py 68-87).                             *)
ResumesFromAnyState ==
  pc = "down" /\ db # None ~> db.state \in SettledState

(* "Illegal state transitions are rejected": what is durable moves along   *)
(* the table.  A save that fails inside _extract_with_retry is caught      *)
(* there, the run goes on from the state that was not written, and its     *)
(* next save takes the row over an edge the table does not have            *)
(* (engine.py 303-325).                                                    *)
RowFollowsTable ==
  [][ db # None /\ db'.state # db.state => CanTransition(db.state, db'.state) ]_db

(* "The engine sets final_decision = ESCALATE_TO_HUMAN regardless of the   *)
(* recommendation" for a CRITICAL risk.  Only a recommendation to approve  *)
(* is overridden (engine.py 390-396).                                      *)
CriticalIsEscalated ==
  (db.state \in SettledState /\ db.risk = "CRITICAL")
    => db.decision = "ESCALATE_TO_HUMAN"
=============================================================================
