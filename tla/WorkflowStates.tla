-------------------------- MODULE WorkflowStates --------------------------
(***************************************************************************)
(* The states of one onboarding application, the decisions about it, and   *)
(* the table of transitions every other module is checked against          *)
(* (src/app/models/states.py).                                             *)
(***************************************************************************)
EXTENDS FiniteSets

WorkflowState ==
  { "RECEIVED", "VALIDATING", "MISSING_INFORMATION", "VERIFYING",
    "TOOL_RETRYING", "TOOL_FAILED", "LOW_CONFIDENCE", "ANALYZING_RISK",
    "DECIDING", "APPROVED", "MORE_INFORMATION_REQUIRED", "ESCALATED",
    "ESCALATED_TO_HUMAN", "REJECTED", "FAILED" }

FinalDecision ==
  { "APPROVE", "REQUEST_MORE_INFORMATION", "ESCALATE_TO_HUMAN",
    "REJECT_OR_BLOCK" }

RiskLevel == { "LOW", "MEDIUM", "HIGH", "CRITICAL" }

(* Mutant: an application without documents may skip their verification. *)
ValidTransitionsSkippingDocuments ==
       { "RECEIVED" }       \X { "VALIDATING" }
  \cup { "VALIDATING" }     \X { "MISSING_INFORMATION", "VERIFYING",
                                 "ANALYZING_RISK", "FAILED" }
  \cup { "MISSING_INFORMATION" } \X { "MORE_INFORMATION_REQUIRED" }
  \cup { "MORE_INFORMATION_REQUIRED" } \X { "VALIDATING" }
  \cup { "VERIFYING" }      \X { "ANALYZING_RISK", "TOOL_RETRYING",
                                 "TOOL_FAILED", "LOW_CONFIDENCE", "FAILED" }
  \cup { "TOOL_RETRYING" }  \X { "VERIFYING", "TOOL_FAILED" }
  \cup { "TOOL_FAILED" }    \X { "ESCALATED_TO_HUMAN", "FAILED" }
  \cup { "LOW_CONFIDENCE" } \X { "ESCALATED_TO_HUMAN", "VERIFYING" }
  \cup { "ANALYZING_RISK" } \X { "DECIDING", "FAILED" }
  \cup { "DECIDING" }       \X { "APPROVED", "ESCALATED",
                                 "MORE_INFORMATION_REQUIRED", "REJECTED",
                                 "FAILED" }

(* VALID_TRANSITIONS, as the set of its edges. *)
ValidTransitions ==
       { "RECEIVED" }       \X { "VALIDATING" }
  \cup { "VALIDATING" }     \X { "MISSING_INFORMATION", "VERIFYING", "FAILED" }
  \cup { "MISSING_INFORMATION" } \X { "MORE_INFORMATION_REQUIRED" }
  \cup { "MORE_INFORMATION_REQUIRED" } \X { "VALIDATING" }
  \cup { "VERIFYING" }      \X { "ANALYZING_RISK", "TOOL_RETRYING",
                                 "TOOL_FAILED", "LOW_CONFIDENCE", "FAILED" }
  \cup { "TOOL_RETRYING" }  \X { "VERIFYING", "TOOL_FAILED" }
  \cup { "TOOL_FAILED" }    \X { "ESCALATED_TO_HUMAN", "FAILED" }
  \cup { "LOW_CONFIDENCE" } \X { "ESCALATED_TO_HUMAN", "VERIFYING" }
  \cup { "ANALYZING_RISK" } \X { "DECIDING", "FAILED" }
  \cup { "DECIDING" }       \X { "APPROVED", "ESCALATED",
                                 "MORE_INFORMATION_REQUIRED", "REJECTED",
                                 "FAILED" }

CanTransition(from, to) == <<from, to>> \in ValidTransitions

(* The states no code path leaves: the ones with no successor in the table, *)
(* and MORE_INFORMATION_REQUIRED, whose only successor nothing asks for.    *)
SettledState ==
  { "APPROVED", "ESCALATED", "ESCALATED_TO_HUMAN", "REJECTED", "FAILED",
    "MORE_INFORMATION_REQUIRED" }

(* The states an application can only be in once its fields were accepted.  *)
PastValidation ==
  { "VERIFYING", "TOOL_RETRYING", "TOOL_FAILED", "LOW_CONFIDENCE",
    "ANALYZING_RISK", "DECIDING", "APPROVED", "ESCALATED",
    "ESCALATED_TO_HUMAN", "REJECTED" }
=============================================================================
