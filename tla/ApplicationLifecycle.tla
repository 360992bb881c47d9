----------------------- MODULE ApplicationLifecycle -----------------------
(***************************************************************************)
(* What an onboarding application is promised, whatever happens to the     *)
(* process that works on it.  A submitted application is open until it is  *)
(* settled, once and for good, with one outcome.  While it is open,        *)
(* evidence about its documents accumulates and is never lost, and it may  *)
(* be handed to a human, once.  The outcome fits the request: nothing but  *)
(* a valid request is judged, and it is approved, rejected or sent back    *)
(* only on evidence for all of its documents.                              *)
(*                                                                         *)
(* WorkerEngine is the implementation: see Lifecycle there.                *)
(***************************************************************************)
CONSTANT Documents

VARIABLES request, phase, outcome, evidence, notified

lifecycleVars == << request, phase, outcome, evidence, notified >>

Outcomes == { "APPROVED", "REJECTED", "ESCALATED", "ESCALATED_TO_HUMAN",
              "MORE_INFORMATION_REQUIRED", "FAILED" }

Fits(o, req, ev, told) ==
  \/ o = "FAILED" /\ req = "invalid"
  \/ o = "MORE_INFORMATION_REQUIRED" /\ req = "missing"
  \/ o = "ESCALATED" /\ req = "valid"
  \/ o = "ESCALATED_TO_HUMAN" /\ req = "valid" /\ ev = {} /\ told
  \/ /\ o \in { "APPROVED", "REJECTED", "MORE_INFORMATION_REQUIRED" }
     /\ req = "valid" /\ ev = Documents

Init ==
  /\ request \in { "valid", "missing", "invalid" }
  /\ phase = "absent" /\ outcome = "none"
  /\ evidence = {} /\ notified = FALSE

Accept ==
  /\ phase = "absent" /\ phase' = "open"
  /\ UNCHANGED << request, outcome, evidence, notified >>

Learn ==
  /\ phase = "open" /\ request = "valid"
  /\ \E found \in SUBSET Documents : evidence' = evidence \cup found
  /\ UNCHANGED << request, phase, outcome, notified >>

NotifyHuman ==
  /\ phase = "open" /\ request = "valid"
  /\ ~notified /\ notified'
  /\ UNCHANGED << request, phase, outcome, evidence >>

Settle ==
  /\ phase = "open" /\ phase' = "settled"
  /\ outcome' \in { o \in Outcomes : Fits(o, request, evidence, notified) }
  /\ UNCHANGED << request, evidence, notified >>

Next == Accept \/ Learn \/ NotifyHuman \/ Settle

Spec == Init /\ [][Next]_lifecycleVars
=============================================================================
