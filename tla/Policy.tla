------------------------------ MODULE Policy ------------------------------
(***************************************************************************)
(* The decision rules of the engine, as pure operators: the risk score     *)
(* (app/tools/risk.py), the rule-based recommendation used without a       *)
(* language model (app/tools/llm_analysis.py) and the policy that has the  *)
(* last word (WorkerEngine._enforce_policy).                               *)
(*                                                                         *)
(* A confidence is abstracted to the side of the two thresholds it is on:  *)
(* "trusted" means at or above low_confidence_threshold.  Scores are in    *)
(* hundredths; for every combination of the four terms the code adds, the  *)
(* floating-point sum falls in the same band as this integer.              *)
(***************************************************************************)
EXTENDS WorkflowStates, Naturals

CONSTANT MaxToolRetries

ASSUME MaxToolRetriesAssumption == MaxToolRetries \in Nat \ {0}

AtMost(n, cap) == IF n < cap THEN n ELSE cap

(* What assess_risk looks at: the number of fields that differ, the number *)
(* of extractions below 0.5, whether there is any extraction at all, and   *)
(* whether one of them carries a PAN or GST number.                        *)
Findings ==
  [ mismatches : Nat, weak : Nat, anyData : BOOLEAN, identified : BOOLEAN ]

RiskScore(f) ==
  AtMost(  30 * AtMost(f.mismatches, 3)
         + 25 * f.weak
         + (IF f.anyData THEN 0 ELSE 30)
         + (IF f.identified THEN 0 ELSE 15), 100)

(* Mutant: a single difference is not enough for the next level. *)
AssessRiskAbove(f) ==
  LET score == RiskScore(f)
  IN  IF score > 80 THEN "CRITICAL"
      ELSE IF score > 60 THEN "HIGH"
      ELSE IF score > 30 THEN "MEDIUM"
      ELSE "LOW"

AssessRisk(f) ==
  LET score == RiskScore(f)
  IN  IF score >= 80 THEN "CRITICAL"
      ELSE IF score >= 60 THEN "HIGH"
      ELSE IF score >= 30 THEN "MEDIUM"
      ELSE "LOW"

Recommendation == [ action : FinalDecision, trusted : BOOLEAN ]

(* _rule_based_recommendation: every confidence it returns (0.65 to 0.9)   *)
(* is above the threshold.                                                 *)
RuleBasedRecommendation(missing, risk, f, untrustedData) ==
  [ action |-> IF missing THEN "REQUEST_MORE_INFORMATION"
               ELSE IF risk \in { "CRITICAL", "HIGH" } THEN "ESCALATE_TO_HUMAN"
               ELSE IF f.mismatches >= 3 THEN "ESCALATE_TO_HUMAN"
               ELSE IF f.mismatches > 0 THEN "REQUEST_MORE_INFORMATION"
               ELSE IF untrustedData THEN "ESCALATE_TO_HUMAN"
               ELSE IF ~f.anyData THEN "REQUEST_MORE_INFORMATION"
               ELSE "APPROVE",
    trusted |-> TRUE ]

(* Mutant: the policy without its retry rule. *)
EnforcePolicyNoRetryRule(rec, risk, anyData, missing, retries) ==
  LET approve == rec.action = "APPROVE"
      reject  == rec.action = "REJECT_OR_BLOCK"
  IN  IF approve /\ (risk = "CRITICAL" \/ ~rec.trusted) THEN "ESCALATE_TO_HUMAN"
      ELSE IF approve /\ ~anyData THEN "REQUEST_MORE_INFORMATION"
      ELSE IF missing THEN "REQUEST_MORE_INFORMATION"
      ELSE IF reject /\ risk \in { "LOW", "MEDIUM" } THEN "ESCALATE_TO_HUMAN"
      ELSE rec.action

(* Mutant: the policy without its CRITICAL rule. *)
EnforcePolicyNoCriticalRule(rec, risk, anyData, missing, retries) ==
  LET approve == rec.action = "APPROVE"
      reject  == rec.action = "REJECT_OR_BLOCK"
  IN  IF approve /\ ~rec.trusted THEN "ESCALATE_TO_HUMAN"
      ELSE IF approve /\ ~anyData THEN "REQUEST_MORE_INFORMATION"
      ELSE IF missing THEN "REQUEST_MORE_INFORMATION"
      ELSE IF retries >= MaxToolRetries THEN "ESCALATE_TO_HUMAN"
      ELSE IF reject /\ risk \in { "LOW", "MEDIUM" } THEN "ESCALATE_TO_HUMAN"
      ELSE rec.action

(* _enforce_policy, in the order its rules are tried. *)
EnforcePolicy(rec, risk, anyData, missing, retries) ==
  LET approve == rec.action = "APPROVE"
      reject  == rec.action = "REJECT_OR_BLOCK"
  IN  IF approve /\ (risk = "CRITICAL" \/ ~rec.trusted) THEN "ESCALATE_TO_HUMAN"
      ELSE IF approve /\ ~anyData THEN "REQUEST_MORE_INFORMATION"
      ELSE IF missing THEN "REQUEST_MORE_INFORMATION"
      ELSE IF retries >= MaxToolRetries THEN "ESCALATE_TO_HUMAN"
      ELSE IF reject /\ risk \in { "LOW", "MEDIUM" } THEN "ESCALATE_TO_HUMAN"
      ELSE rec.action
=============================================================================
