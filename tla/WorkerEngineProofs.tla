------------------------ MODULE WorkerEngineProofs ------------------------
(***************************************************************************)
(* Proofs about WorkerEngine, for every number of documents, every retry   *)
(* limit, every set of mismatch counts and any number of faults.           *)
(*                                                                         *)
(* First the types, which need ControlInv; then the inductive invariant    *)
(* IInv of WorkerEngineInvariants, action by action; then the properties   *)
(* that follow from it.                                                    *)
(***************************************************************************)
EXTENDS WorkerEngineInvariants, TLAPS

USE NumDocsAssumption, MaxToolRetriesAssumption, MaxFaultsAssumption,
    MismatchesAssumption

MaybeContext == Context \cup { None }

TypeInv == TypeOK /\ ControlInv
-----------------------------------------------------------------------------
(* The two special contexts: a new one is a context, and None is not. *)
LEMMA SpecialContexts ==
  /\ NewContext \in Context
  /\ None \notin Context
  /\ NewContext # None
  /\ None.state = "none" /\ None.missing = FALSE /\ None.extracted = << >>
<1>1. NewContext \in Context
  BY DEF NewContext, Context, WorkflowState, NoDecision, NoRisk
<1>2. None.state = "none" /\ None.missing = FALSE /\ None.extracted = << >>
  BY DEF None, NewContext
<1>3. \A c \in Context : c.state # "none"
  BY DEF Context, WorkflowState
<1> QED BY <1>1, <1>2, <1>3

(* Changing the fields of a context within their types keeps it one. *)
LEMMA ContextUpdates ==
  ASSUME NEW c \in Context
  PROVE  /\ \A s \in WorkflowState : [ c EXCEPT !.state = s ] \in Context
         /\ \A d \in FinalDecision : [ c EXCEPT !.decision = d ] \in Context
         /\ \A m \in Nat : [ c EXCEPT !.mismatches = m ] \in Context
         /\ [ c EXCEPT !.missing = TRUE ] \in Context
         /\ CountRetry(c) \in Context
         /\ \A d \in Docs : WithEvidence(c, d) \in Context
         /\ \A r \in RiskLevel, rec \in Recommendation :
              [ c EXCEPT !.risk = r, !.rec = rec ] \in Context
<1>1. /\ \A s \in WorkflowState : [ c EXCEPT !.state = s ] \in Context
      /\ \A d \in FinalDecision : [ c EXCEPT !.decision = d ] \in Context
      /\ \A m \in Nat : [ c EXCEPT !.mismatches = m ] \in Context
      /\ [ c EXCEPT !.missing = TRUE ] \in Context
  BY DEF Context
<1>2. CountRetry(c) \in Context
  BY DEF Context, CountRetry
<1>3. ASSUME NEW d \in Docs
      PROVE  WithEvidence(c, d) \in Context
  <2>1. [ doc |-> d, trusted |-> TRUE ] \in Evidence
    BY DEF Evidence
  <2>2. Append(c.extracted, [ doc |-> d, trusted |-> TRUE ]) \in Seq(Evidence)
    BY <2>1 DEF Context
  <2> QED BY <2>2 DEF Context, WithEvidence
<1>4. \A r \in RiskLevel, rec \in Recommendation :
        [ c EXCEPT !.risk = r, !.rec = rec ] \in Context
  BY DEF Context
<1> QED BY <1>1, <1>2, <1>3, <1>4

(* The three ways a transition can go: saved, not saved, or forbidden. *)
LEMMA TransitionOutcomes ==
  ASSUME NEW c, NEW s, NEW next, NEW handler, Transition(c, s, next, handler)
  PROVE  \/ /\ CanTransition(c.state, s)
            /\ ctx' = [ c EXCEPT !.state = s ]
            /\ db' = [ c EXCEPT !.state = s ]
            /\ pending' = None /\ pc' = next
         \/ /\ CanTransition(c.state, s)
            /\ ctx' = [ c EXCEPT !.state = s ]
            /\ db' = db
            /\ pending' \in { pending, [ c EXCEPT !.state = s ], None }
            /\ pc' = handler
         \/ /\ ~CanTransition(c.state, s)
            /\ ctx' = c /\ db' = db /\ pending' = pending /\ pc' = handler
BY DEF Transition, Save, SaveFails

(* What a transition leaves of the types. *)
LEMMA TransitionTypes ==
  ASSUME NEW c \in Context, NEW s \in WorkflowState, NEW next, NEW handler,
         TypeOK, Transition(c, s, next, handler)
  PROVE  /\ ctx' \in Context
         /\ db' \in MaybeContext /\ pending' \in MaybeContext
         /\ pc' \in { next, handler }
         /\ trail' \subseteq WorkflowState
         /\ faults' \in 0 .. MaxFaults
<1>1. [ c EXCEPT !.state = s ] \in Context
  BY ContextUpdates
<1>2. db \in MaybeContext /\ pending \in MaybeContext
  BY DEF TypeOK, MaybeContext
<1>3. ctx' \in Context /\ db' \in MaybeContext /\ pending' \in MaybeContext
  BY <1>1, <1>2, TransitionOutcomes DEF MaybeContext
<1>4. pc' \in { next, handler }
  BY TransitionOutcomes
<1>5. trail' \subseteq WorkflowState
  BY DEF Transition, TypeOK, RecordTransition
<1>6. faults' \in 0 .. MaxFaults
  BY DEF Transition, TypeOK, Save, SaveFails, Fault
<1> QED BY <1>3, <1>4, <1>5, <1>6
-----------------------------------------------------------------------------
(* The operators of Policy stay within their types. *)
LEMMA PolicyTypes ==
  /\ \A f : AssessRisk(f) \in RiskLevel
  /\ \A missing, risk, f, untrusted :
       RuleBasedRecommendation(missing, risk, f, untrusted) \in Recommendation
  /\ \A rec \in Recommendation : \A risk, anyData, missing, retries :
       EnforcePolicy(rec, risk, anyData, missing, retries) \in FinalDecision
  /\ \A d \in FinalDecision : DecidedState[d] \in WorkflowState
<1>1. \A f : AssessRisk(f) \in RiskLevel
  BY DEF AssessRisk, RiskLevel
<1>2. \A missing, risk, f, untrusted :
        RuleBasedRecommendation(missing, risk, f, untrusted) \in Recommendation
  BY DEF RuleBasedRecommendation, Recommendation, FinalDecision
<1>3. \A rec \in Recommendation : \A risk, anyData, missing, retries :
        EnforcePolicy(rec, risk, anyData, missing, retries) \in FinalDecision
  BY DEF EnforcePolicy, Recommendation, FinalDecision
<1>4. \A d \in FinalDecision : DecidedState[d] \in WorkflowState
  BY DEF DecidedState, FinalDecision, WorkflowState
<1> QED BY <1>1, <1>2, <1>3, <1>4

(* A handler at work has a context of the right type. *)
LEMMA ContextAtWork ==
  ASSUME TypeInv, pc \in Running
  PROVE  ctx \in Context
BY DEF TypeInv, TypeOK, ControlInv

(* What is left to show of TypeInv' once a transition has been made by one *)
(* of the actions that move neither to a document nor to a decision.       *)
Places == { "unsubmitted", "queued", "requeued", "validate", "validated",
            "missing", "verify", "document", "attempt", "retry", "caught",
            "recaught", "escalate", "notified", "analyze", "decide",
            "returned", "raised", "idle", "down" }

LEMMA PlainTransitionKeepsTypes ==
  ASSUME NEW c \in Context, NEW s \in WorkflowState,
         NEW next \in Places \ (AtOneDocument \cup { "decide", "queued", "requeued" }),
         TypeInv, Transition(c, s, next, "raised"),
         UNCHANGED << application, doc, attempt, reusable, handovers >>
  PROVE  TypeInv'
<1>1. /\ ctx' \in Context
      /\ db' \in MaybeContext /\ pending' \in MaybeContext
      /\ pc' \in { next, "raised" }
      /\ trail' \subseteq WorkflowState
      /\ faults' \in 0 .. MaxFaults
  BY TransitionTypes DEF TypeInv
<1>2. TypeOK'
  <2>1. pc' \in Places
    BY <1>1 DEF Places
  <2> QED BY <1>1, <2>1 DEF TypeInv, TypeOK, MaybeContext, Places, Docs
<1>3. ControlInv'
  BY <1>1, SpecialContexts
  DEF ControlInv, Places, AtOneDocument, AtDocuments, Running
<1> QED BY <1>2, <1>3 DEF TypeInv
-----------------------------------------------------------------------------
(* The handler of one document, where a transition may be caught. *)
LEMMA DocumentTransitionKeepsTypes ==
  ASSUME NEW c \in Context, NEW s \in WorkflowState,
         NEW next \in { "attempt", "retry", "recaught" },
         NEW handler \in { "caught", "raised" },
         TypeInv, Transition(c, s, next, handler),
         pc \in AtOneDocument, attempt < MaxToolRetries,
         attempt' = IF pc' = "attempt" THEN attempt + 1 ELSE attempt,
         UNCHANGED << application, doc, reusable, handovers >>
  PROVE  TypeInv'
<1>1. /\ ctx' \in Context
      /\ db' \in MaybeContext /\ pending' \in MaybeContext
      /\ pc' \in { next, handler }
      /\ trail' \subseteq WorkflowState
      /\ faults' \in 0 .. MaxFaults
  BY TransitionTypes DEF TypeInv
<1>2. doc \in Docs
  BY DEF TypeInv, ControlInv
<1>3. attempt \in 0 .. MaxToolRetries /\ MaxToolRetries \in Nat
  BY DEF TypeInv, TypeOK
<1>4. attempt' \in 0 .. MaxToolRetries
  BY <1>3
<1>5. TypeOK'
  BY <1>1, <1>4 DEF TypeInv, TypeOK, MaybeContext, Docs
<1>6. pc' # "attempt" => attempt' < MaxToolRetries
  BY <1>3
<1>7. ControlInv'
  BY <1>1, <1>2, <1>6, SpecialContexts
  DEF ControlInv, AtOneDocument, AtDocuments, Running, Docs
<1> QED BY <1>5, <1>7 DEF TypeInv

LEMMA InitTypes == Init => TypeInv
<1> SUFFICES ASSUME Init PROVE TypeInv
  OBVIOUS
<1>1. 1 \in 1 .. NumDocs + 1 /\ 0 \in 0 .. MaxToolRetries /\ 0 \in 0 .. MaxFaults
  OBVIOUS
<1>2. TypeOK
  BY <1>1 DEF Init, TypeOK
<1>3. ControlInv
  BY DEF Init, ControlInv, Running, AtDocuments, AtOneDocument
<1> QED BY <1>2, <1>3 DEF TypeInv

LEMMA StepTypes == TypeInv /\ [Next]_vars => TypeInv'
<1> SUFFICES ASSUME TypeInv, [Next]_vars PROVE TypeInv'
  OBVIOUS
<1> USE DEF TypeInv
<1>1. CASE Submit
  <2>1. db' \in MaybeContext /\ pending' \in MaybeContext
    BY <1>1, SpecialContexts
    DEF Submit, Save, SaveFails, TypeOK, MaybeContext
  <2>2. faults' \in 0 .. MaxFaults
    BY <1>1 DEF Submit, Save, SaveFails, Fault, TypeOK
  <2>3. pc' = "idle" \/ (pc' = "queued" /\ db' = NewContext)
    BY <1>1 DEF Submit, Save
  <2>4. TypeOK'
    BY <1>1, <2>1, <2>2, <2>3 DEF Submit, TypeOK, MaybeContext, local, Docs
  <2>5. ControlInv'
    BY <1>1, <2>3, SpecialContexts
    DEF ControlInv, Running, AtDocuments, AtOneDocument
  <2> QED BY <2>4, <2>5
<1>2. CASE StartRun \/ RecoverRun
  <2>1. db \in Context /\ ctx' = db
    BY <1>2 DEF StartRun, RecoverRun, ControlInv, TypeOK
  <2>2. pc' \in { "validate", "verify", "returned" }
    BY <1>2 DEF StartRun, RecoverRun, EntryPoint
  <2>3. TypeOK'
    BY <1>2, <2>1, <2>2 DEF StartRun, RecoverRun, TypeOK, Docs
  <2>4. ControlInv'
    BY <2>1, <2>2, SpecialContexts
    DEF ControlInv, Running, AtDocuments, AtOneDocument
  <2> QED BY <2>3, <2>4
<1>3. CASE StartValidation
  <2>1. ctx \in Context
    BY <1>3, ContextAtWork DEF StartValidation, Running
  <2> QED
    BY <1>3, <2>1, PlainTransitionKeepsTypes
    DEF StartValidation, WorkflowState, Places, AtOneDocument, AtDocuments
<1>4. CASE Validate
  <2>1. ctx \in Context
    BY <1>4, ContextAtWork DEF Validate, Running
  <2>2. [ ctx EXCEPT !.missing = TRUE ] \in Context
    BY <2>1, ContextUpdates
  <2> QED
    BY <1>4, <2>1, <2>2, PlainTransitionKeepsTypes
    DEF Validate, WorkflowState, Places, AtOneDocument, AtDocuments
<1>5. CASE RequestMissingFields
  <2>1. ctx \in Context
    BY <1>5, ContextAtWork DEF RequestMissingFields, Running
  <2> QED
    BY <1>5, <2>1, PlainTransitionKeepsTypes
    DEF RequestMissingFields, WorkflowState, Places, AtOneDocument, AtDocuments
<1>6. CASE StartVerification
  <2>1. ctx \in Context
    BY <1>6, ContextAtWork DEF StartVerification, Running
  <2>2. TypeOK'
    BY <1>6, <2>1 DEF StartVerification, TypeOK, Docs
  <2>3. ControlInv'
    BY <1>6, <2>1, SpecialContexts
    DEF StartVerification, ControlInv, Running, AtDocuments, AtOneDocument
  <2> QED BY <2>2, <2>3
<1>7. CASE ReuseDocument \/ ExtractConfident
  <2>1. ctx \in Context
    BY <1>7, ContextAtWork DEF ReuseDocument, ExtractConfident, Running, AtDocuments
  <2>2. doc \in Docs
    BY <1>7 DEF ReuseDocument, ExtractConfident, TypeOK, ControlInv, AtOneDocument,
                AtDocuments
  <2>3. ctx' \in Context /\ pc' = "document" /\ doc' = doc + 1
    BY <1>7, <2>1, <2>2, ContextUpdates DEF ReuseDocument, ExtractConfident
  <2>4. doc' \in 1 .. NumDocs + 1
    BY <2>2, <2>3 DEF Docs
  <2>5. TypeOK'
    BY <1>7, <2>3, <2>4 DEF ReuseDocument, ExtractConfident, TypeOK, Docs
  <2>6. ControlInv'
    BY <2>3, SpecialContexts DEF ControlInv, Running, AtDocuments, AtOneDocument
  <2> QED BY <2>5, <2>6
<1>8. CASE StartExtraction
  <2>1. ctx \in Context
    BY <1>8, ContextAtWork DEF StartExtraction, Running, AtDocuments
  <2>2. TypeOK'
    BY <1>8, <2>1 DEF StartExtraction, TypeOK, Docs
  <2>3. ControlInv'
    BY <1>8, <2>1, SpecialContexts
    DEF StartExtraction, ControlInv, Running, AtDocuments, AtOneDocument, Docs
  <2> QED BY <2>2, <2>3
<1>9. CASE ExtractWeak
  <2>1. ctx \in Context
    BY <1>9, ContextAtWork DEF ExtractWeak, Running, AtDocuments
  <2>2. CountRetry(ctx) \in Context /\ "TOOL_RETRYING" \in WorkflowState
    BY <2>1, ContextUpdates DEF WorkflowState
  <2>3. pc' \in { "retry", "caught" }
    BY <1>9, TransitionOutcomes DEF ExtractWeak
  <2> QED
    BY <1>9, <2>2, <2>3, DocumentTransitionKeepsTypes
    DEF ExtractWeak, AtOneDocument, AtDocuments
<1>10. CASE RetryExtraction \/ RetryAfterError
  <2>1. ctx \in Context
    BY <1>10, ContextAtWork
    DEF RetryExtraction, RetryAfterError, Running, AtDocuments
  <2> QED
    BY <1>10, <2>1, DocumentTransitionKeepsTypes
    DEF RetryExtraction, RetryAfterError, AtOneDocument, AtDocuments, ControlInv,
        WorkflowState
<1>11. CASE ExtractRaises
  <2>1. ctx \in Context
    BY <1>11, ContextAtWork DEF ExtractRaises, Running, AtDocuments
  <2>2. TypeOK'
    BY <1>11, <2>1 DEF ExtractRaises, TypeOK, local, Docs
  <2>3. ControlInv'
    BY <1>11, <2>1, SpecialContexts
    DEF ExtractRaises, ControlInv, Running, AtDocuments, AtOneDocument, local, Docs
  <2> QED BY <2>2, <2>3
<1>12. CASE HandleError
  <2>1. ctx \in Context
    BY <1>12, ContextAtWork DEF HandleError, Running, AtDocuments
  <2>2. CountRetry(ctx) \in Context /\ "TOOL_RETRYING" \in WorkflowState
    BY <2>1, ContextUpdates DEF WorkflowState
  <2>3. attempt \in 0 .. MaxToolRetries /\ attempt < MaxToolRetries
    BY <1>12 DEF HandleError, TypeOK, ControlInv
  <2>4. CASE /\ Transition(CountRetry(ctx), "TOOL_RETRYING", "recaught", "raised")
             /\ UNCHANGED attempt
    <3>1. pc' \in { "recaught", "raised" }
      BY <2>4, TransitionOutcomes
    <3> QED
      BY <1>12, <2>2, <2>3, <2>4, <3>1, DocumentTransitionKeepsTypes
      DEF HandleError, AtOneDocument, AtDocuments
  <2>5. CASE /\ ctx' = CountRetry(ctx) /\ attempt' = attempt + 1
             /\ pc' = "attempt" /\ UNCHANGED << db, pending, trail, faults >>
    <3>1. attempt' \in 0 .. MaxToolRetries
      BY <2>3, <2>5
    <3>2. TypeOK'
      BY <1>12, <2>2, <2>5, <3>1 DEF HandleError, TypeOK, Docs
    <3>3. ControlInv'
      BY <1>12, <2>2, <2>5, SpecialContexts
      DEF HandleError, ControlInv, Running, AtDocuments, AtOneDocument, Docs
    <3> QED BY <3>2, <3>3
  <2> QED BY <1>12, <2>4, <2>5 DEF HandleError
<1>13. CASE GiveUpDocument
  <2>1. ctx \in Context
    BY <1>13, ContextAtWork DEF GiveUpDocument, Running, AtDocuments
  <2>2. doc \in Docs
    BY <1>13 DEF GiveUpDocument, ControlInv, AtOneDocument, AtDocuments
  <2>3. doc' \in 1 .. NumDocs + 1
    BY <1>13, <2>2 DEF GiveUpDocument, Docs
  <2>4. TypeOK'
    BY <1>13, <2>1, <2>3 DEF GiveUpDocument, TypeOK, Docs
  <2>5. ControlInv'
    BY <1>13, <2>1, SpecialContexts
    DEF GiveUpDocument, ControlInv, Running, AtDocuments, AtOneDocument
  <2> QED BY <2>4, <2>5
<1>14. CASE AllDocumentsFailed \/ EscalateToHuman
  <2>1. ctx \in Context
    BY <1>14, ContextAtWork
    DEF AllDocumentsFailed, EscalateToHuman, Running, AtDocuments
  <2> QED
    BY <1>14, <2>1, PlainTransitionKeepsTypes
    DEF AllDocumentsFailed, EscalateToHuman, WorkflowState, Places, AtOneDocument,
        AtDocuments
<1>15. CASE CreateEscalation
  <2>1. ctx \in Context
    BY <1>15, ContextAtWork DEF CreateEscalation, Running
  <2>2. ctx' \in Context
    BY <1>15, <2>1, ContextUpdates DEF CreateEscalation, FinalDecision
  <2>3. TypeOK'
    BY <1>15, <2>2 DEF CreateEscalation, TypeOK, Docs
  <2>4. ControlInv'
    BY <1>15, <2>2, SpecialContexts
    DEF CreateEscalation, ControlInv, Running, AtDocuments, AtOneDocument
  <2> QED BY <2>3, <2>4
<1>16. CASE CompareInformation
  <2>1. ctx \in Context
    BY <1>16, ContextAtWork DEF CompareInformation, Running, AtDocuments
  <2>2. PICK m \in Nat :
          \/ Transition([ [ ctx EXCEPT !.mismatches = m ]
                            EXCEPT !.decision = "ESCALATE_TO_HUMAN" ],
                        "LOW_CONFIDENCE", "returned", "raised")
          \/ Transition([ ctx EXCEPT !.mismatches = m ], "ANALYZING_RISK",
                        "analyze", "raised")
    BY <1>16 DEF CompareInformation
  <2>3. /\ [ ctx EXCEPT !.mismatches = m ] \in Context
        /\ [ [ ctx EXCEPT !.mismatches = m ]
               EXCEPT !.decision = "ESCALATE_TO_HUMAN" ] \in Context
    BY <2>1, ContextUpdates DEF FinalDecision
  <2> QED
    BY <1>16, <2>2, <2>3, PlainTransitionKeepsTypes
    DEF CompareInformation, WorkflowState, Places, AtOneDocument, AtDocuments
<1>17. CASE Analyze
  <2>1. ctx \in Context
    BY <1>17, ContextAtWork DEF Analyze, Running
  <2>2. PICK r \in RiskLevel, rec \in Recommendation :
          Transition([ ctx EXCEPT !.risk = r, !.rec = rec ], "DECIDING",
                     "decide", "raised")
    BY <1>17, PolicyTypes DEF Analyze
  <2> DEFINE analyzed == [ ctx EXCEPT !.risk = r, !.rec = rec ]
  <2>3. analyzed \in Context /\ analyzed.risk = r /\ analyzed.rec = rec
    BY <2>1, ContextUpdates DEF Context
  <2> HIDE DEF analyzed
  <2>4. Transition(analyzed, "DECIDING", "decide", "raised")
    BY <2>2 DEF analyzed
  <2>5. /\ ctx' \in Context /\ ctx'.risk = r /\ ctx'.rec = rec
        /\ db' \in MaybeContext /\ pending' \in MaybeContext
        /\ pc' \in { "decide", "raised" }
        /\ trail' \subseteq WorkflowState
        /\ faults' \in 0 .. MaxFaults
    <3>1. "DECIDING" \in WorkflowState
      BY DEF WorkflowState
    <3>2. ctx'.risk = r /\ ctx'.rec = rec
      BY <2>3, <2>4, TransitionOutcomes DEF Context
    <3> QED BY <2>3, <2>4, <3>1, <3>2, TransitionTypes
  <2>6. TypeOK'
    BY <1>17, <2>5 DEF Analyze, TypeOK, MaybeContext, Docs
  <2>7. ControlInv'
    BY <2>5, SpecialContexts DEF ControlInv, Running, AtDocuments, AtOneDocument
  <2> QED BY <2>6, <2>7
<1>18. CASE Decide
  <2>1. ctx \in Context
    BY <1>18, ContextAtWork DEF Decide, Running
  <2>2. PICK d \in FinalDecision :
          Transition([ ctx EXCEPT !.decision = d ], DecidedState[d],
                     "returned", "raised")
    BY <1>18, PolicyTypes DEF Decide, ControlInv
  <2>3. [ ctx EXCEPT !.decision = d ] \in Context
    BY <2>1, ContextUpdates
  <2>4. DecidedState[d] \in WorkflowState
    BY PolicyTypes
  <2> QED
    BY <1>18, <2>2, <2>3, <2>4, PlainTransitionKeepsTypes
    DEF Decide, Places, AtOneDocument, AtDocuments
<1>19. CASE EndRun \/ Crash
  <2>1. pc' \in { "idle", "down" } /\ ctx' = None /\ doc' = 1 /\ attempt' = 0
        /\ reusable' = {} /\ pending' \in { pending, None } /\ db' = db
        /\ UNCHANGED << application, trail, handovers >>
    BY <1>19 DEF EndRun, Crash
  <2>2. faults' \in 0 .. MaxFaults
    BY <1>19 DEF EndRun, Crash, Fault, TypeOK
  <2>3. 1 \in 1 .. NumDocs + 1 /\ 0 \in 0 .. MaxToolRetries
    OBVIOUS
  <2>4. TypeOK'
    BY <2>1, <2>2, <2>3 DEF TypeOK
  <2>5. ControlInv'
    BY <2>1 DEF ControlInv, Running, AtDocuments, AtOneDocument
  <2> QED BY <2>4, <2>5
<1>20. CASE ReadFails
  <2>1. faults' \in 0 .. MaxFaults
    BY <1>20 DEF ReadFails, Fault, TypeOK
  <2>2. TypeOK'
    BY <1>20, <2>1 DEF ReadFails, TypeOK, local, Docs
  <2>3. ControlInv'
    BY <1>20 DEF ReadFails, ControlInv, Running, AtDocuments, AtOneDocument
  <2> QED BY <2>2, <2>3
<1>21. CASE CommitPending
  <2>1. TypeOK'
    BY <1>21 DEF CommitPending, TypeOK, local, Docs
  <2>2. ControlInv'
    BY <1>21
    DEF CommitPending, ControlInv, local, Running, AtDocuments, AtOneDocument, Docs
  <2> QED BY <2>1, <2>2
<1>22. CASE Restart
  <2>1. faults' \in 0 .. MaxFaults
    BY <1>22 DEF Restart, Fault, TypeOK
  <2>2. pc' = "idle" \/ (pc' = "requeued" /\ db # None)
    BY <1>22, SpecialContexts DEF Restart, Recoverable
  <2>3. TypeOK'
    BY <1>22, <2>1, <2>2 DEF Restart, TypeOK, local, Docs
  <2>4. ControlInv'
    BY <1>22, <2>2
    DEF Restart, ControlInv, Running, AtDocuments, AtOneDocument, Docs
  <2> QED BY <2>3, <2>4
<1>23. CASE UNCHANGED vars
  BY <1>23
  DEF vars, TypeOK, ControlInv, Docs, AtOneDocument, AtDocuments, Running
<1> QED
  BY <1>1, <1>2, <1>3, <1>4, <1>5, <1>6, <1>7, <1>8, <1>9, <1>10, <1>11,
     <1>12, <1>13, <1>14, <1>15, <1>16, <1>17, <1>18, <1>19, <1>20, <1>21,
     <1>22, <1>23
  DEF Next, EngineStep

(* The variables of the engine stay within their types, and its loops      *)
(* within their bounds, whatever fails (engine.py 59-379, main.py 42-172). *)
THEOREM TypeCorrect == Spec => []TypeOK
<1>1. TypeInv => TypeOK
  BY DEF TypeInv
<1>2. Spec => []TypeInv
  BY InitTypes, StepTypes, PTL DEF Spec
<1> QED BY <1>1, <1>2, PTL
-----------------------------------------------------------------------------
(***************************************************************************)
(* The rows                                                                *)
(***************************************************************************)
(* Verification is the only way past validation. *)
LEMMA StaysPastValidation ==
  ASSUME NEW from, NEW to \in PastValidation, CanTransition(from, to)
  PROVE  \/ from \in PastValidation
         \/ from = "VALIDATING" /\ to = "VERIFYING"
BY DEF CanTransition, ValidTransitions, PastValidation

LEMMA NoneIsGood == ASSUME NEW app PROVE GoodRow(app, None)
BY SpecialContexts DEF GoodRow, PastValidation

(* While the application is open, a row only says that it was accepted. *)
LEMMA OpenRowIsGood ==
  ASSUME NEW app, NEW c, c.state \notin SettledState,
         c.state \in PastValidation => app = "valid",
         c.missing => app = "missing"
  PROVE  GoodRow(app, c)
BY DEF GoodRow, SettledState

(* A transition keeps the rows good if the state it saves is. *)
LEMMA TransitionKeepsRows ==
  ASSUME NEW c \in Context, NEW s \in WorkflowState, NEW next, NEW handler,
         RowsInv, UNCHANGED application, Transition(c, s, next, handler),
         c.state \notin SettledState,
         c.state \in PastValidation => application = "valid",
         c.missing => application = "missing",
         (c.state = "VALIDATING" /\ s = "VERIFYING") => application = "valid",
         (s \in SettledState /\ CanTransition(c.state, s)) =>
            GoodRow(application, [ c EXCEPT !.state = s ])
  PROVE  RowsInv'
<1> DEFINE new == [ c EXCEPT !.state = s ]
<1>1. GoodRow(application, None) /\ GoodRow(application, c)
  BY NoneIsGood, OpenRowIsGood
<1>2. new.state = s /\ new.missing = c.missing
  BY DEF Context
<1>3. ASSUME CanTransition(c.state, s)
      PROVE  GoodRow(application, new)
  <2>1. CASE s \in SettledState
    BY <1>3, <2>1
  <2>2. CASE s \notin SettledState
    <3>1. s \in PastValidation => application = "valid"
      BY <1>3, StaysPastValidation
    <3> HIDE DEF new
    <3> QED BY <1>2, <2>2, <3>1, OpenRowIsGood
  <2> QED BY <2>1, <2>2
<1>4. /\ ctx' = c \/ (ctx' = new /\ CanTransition(c.state, s))
      /\ db' = db \/ (db' = new /\ CanTransition(c.state, s))
      /\ pending' \in { pending, None } \/ (pending' = new /\ CanTransition(c.state, s))
  BY TransitionOutcomes
<1> HIDE DEF new
<1> QED BY <1>1, <1>3, <1>4 DEF RowsInv

(* What an extraction adds to a context, and what it leaves. *)
LEMMA EvidenceGrows ==
  ASSUME NEW c \in Context, NEW d \in Docs
  PROVE  LET new == WithEvidence(c, d) IN
         /\ HasEvidence(new, d)
         /\ \A e \in Docs : HasEvidence(c, e) => HasEvidence(new, e)
         /\ new.extracted # << >>
         /\ new.retries = c.retries /\ new.state = c.state
         /\ new.missing = c.missing
<1> DEFINE new == WithEvidence(c, d)
           found == [ doc |-> d, trusted |-> TRUE ]
<1>1. c.extracted \in Seq(Evidence) /\ found \in Evidence
  BY DEF Context, Evidence
<1>2. /\ new.extracted = Append(c.extracted, found)
      /\ new.retries = c.retries /\ new.state = c.state
      /\ new.missing = c.missing
  BY DEF WithEvidence, Context
<1> HIDE DEF new
<1>3. /\ Len(new.extracted) = Len(c.extracted) + 1
      /\ Len(c.extracted) \in Nat
      /\ new.extracted[Len(c.extracted) + 1] = found
      /\ \A i \in 1 .. Len(c.extracted) : new.extracted[i] = c.extracted[i]
  BY <1>1, <1>2
<1>4. HasEvidence(new, d)
  <2>1. Len(c.extracted) + 1 \in 1 .. Len(new.extracted)
    BY <1>3
  <2> QED BY <1>3, <2>1 DEF HasEvidence
<1>5. ASSUME NEW e \in Docs, HasEvidence(c, e)
      PROVE  HasEvidence(new, e)
  <2>1. PICK i \in 1 .. Len(c.extracted) :
          c.extracted[i].doc = e /\ c.extracted[i].trusted
    BY <1>5 DEF HasEvidence
  <2>2. i \in 1 .. Len(new.extracted)
    BY <1>3
  <2> QED BY <1>3, <2>1, <2>2 DEF HasEvidence
<1>6. new.extracted # << >>
  BY <1>3
<1> QED BY <1>2, <1>4, <1>5, <1>6 DEF new

(* The guards behind each decision of the policy. *)
LEMMA PolicyGuards ==
  ASSUME NEW rec \in Recommendation, NEW risk, NEW anyData \in BOOLEAN,
         NEW missing \in BOOLEAN, NEW retries \in Nat
  PROVE  LET d == EnforcePolicy(rec, risk, anyData, missing, retries) IN
         /\ d = "APPROVE" =>
              /\ rec = [ action |-> "APPROVE", trusted |-> TRUE ]
              /\ risk # "CRITICAL" /\ anyData /\ ~missing
              /\ retries < MaxToolRetries
         /\ d = "REJECT_OR_BLOCK" => ~missing /\ retries < MaxToolRetries
         /\ d = "REQUEST_MORE_INFORMATION" =>
              missing \/ ~anyData \/ retries < MaxToolRetries
BY DEF EnforcePolicy, Recommendation
-----------------------------------------------------------------------------
(***************************************************************************)
(* The inductive invariant, one step per action                            *)
(***************************************************************************)
(* The context of a handler at work is one of the good rows, and open. *)
LEMMA OpenContextAtWork ==
  ASSUME IInv, pc \in Running
  PROVE  /\ ctx \in Context /\ ctx.state \notin SettledState
         /\ ctx.state \in PastValidation => application = "valid"
         /\ ctx.missing => application = "missing"
<1>1. ctx \in Context
  BY ContextAtWork DEF IInv, TypeInv
<1>2. GoodRow(application, ctx) /\ ctx.state \notin SettledState
  BY DEF IInv, RowsInv, StateInv
<1> QED BY <1>1, <1>2 DEF GoodRow

(* A context changed in place, with the rows left alone. *)
LEMMA ChangeKeepsRows ==
  ASSUME IInv, pc \in Running, UNCHANGED << application, db, pending >>,
         ctx'.state = ctx.state, ctx'.missing = ctx.missing
  PROVE  RowsInv' /\ ctx'.state \notin SettledState
<1>1. GoodRow(application, ctx') /\ ctx'.state \notin SettledState
  BY OpenContextAtWork, OpenRowIsGood
<1> QED BY <1>1 DEF IInv, RowsInv

LEMMA InitInvariant == Init => IInv
<1> SUFFICES ASSUME Init PROVE IInv
  OBVIOUS
<1>1. TypeInv
  BY InitTypes
<1>2. StateInv /\ RetryInv
  BY DEF Init, StateInv, RetryInv, Running, AtDocuments
<1>3. RowsInv
  BY NoneIsGood DEF Init, RowsInv
<1> QED BY <1>1, <1>2, <1>3 DEF IInv, TypeInv

LEMMA StepInvariant == IInv /\ [Next]_vars => IInv'
<1> SUFFICES ASSUME IInv, [Next]_vars PROVE IInv'
  OBVIOUS
<1>0. TypeInv'
  BY StepTypes DEF IInv, TypeInv
<1> SUFFICES StateInv' /\ RetryInv' /\ RowsInv'
  BY <1>0 DEF IInv, TypeInv
<1> USE DEF Running, AtDocuments
<1>1. CASE Submit
  <2>1. pc' \in { "idle", "queued" } /\ ctx' = ctx /\ application' = application
    BY <1>1 DEF Submit, local
  <2>2. GoodRow(application, NewContext)
    BY OpenRowIsGood DEF NewContext, SettledState, PastValidation
  <2>3. RowsInv'
    BY <1>1, <2>1, <2>2, NoneIsGood DEF Submit, Save, SaveFails, IInv, RowsInv
  <2> QED BY <2>1, <2>3 DEF StateInv, RetryInv
<1>2. CASE StartRun \/ RecoverRun
  <2>1. /\ ctx' = db /\ UNCHANGED << application, db, pending >>
        /\ \/ pc' = "returned"
           \/ pc' = "validate" /\ db.state = "RECEIVED"
           \/ pc' = "verify" /\ db.state \notin SettledState
    BY <1>2
    DEF StartRun, RecoverRun, EntryPoint, Resumable, RecoveryTerminal, SettledState
  <2>2. RowsInv'
    BY <2>1 DEF IInv, RowsInv
  <2> QED BY <2>1, <2>2 DEF StateInv, RetryInv, SettledState
<1>3. CASE StartValidation
  <2>1. /\ ctx \in Context /\ ctx.state \notin SettledState
        /\ ctx.state \in PastValidation => application = "valid"
        /\ ctx.missing => application = "missing"
    BY <1>3, OpenContextAtWork DEF StartValidation
  <2>2. RowsInv'
    BY <1>3, <2>1, TransitionKeepsRows
    DEF StartValidation, IInv, WorkflowState, SettledState
  <2>3. pc' = "raised" \/ (pc' = "validated" /\ ctx'.state = "VALIDATING")
    BY <1>3, <2>1, TransitionOutcomes DEF StartValidation, Context
  <2> QED BY <2>2, <2>3 DEF StateInv, RetryInv, SettledState
<1>4. CASE Validate
  <2>1. /\ ctx \in Context /\ ctx.state \notin SettledState
        /\ ctx.state \in PastValidation => application = "valid"
        /\ ctx.missing => application = "missing"
    BY <1>4, OpenContextAtWork DEF Validate
  <2>2. CASE application = "valid"
    <3>1. Transition(ctx, "VERIFYING", "verify", "raised")
      BY <1>4, <2>2 DEF Validate
    <3>2. RowsInv'
      BY <1>4, <2>1, <2>2, <3>1, TransitionKeepsRows
      DEF Validate, IInv, WorkflowState, SettledState
    <3>3. pc' = "raised" \/ (pc' = "verify" /\ ctx'.state = "VERIFYING")
      BY <2>1, <3>1, TransitionOutcomes DEF Context
    <3> QED BY <3>2, <3>3 DEF StateInv, RetryInv, SettledState
  <2>3. CASE application = "missing"
    <3> DEFINE c == [ ctx EXCEPT !.missing = TRUE ]
    <3>1. Transition(c, "MISSING_INFORMATION", "missing", "raised")
      BY <1>4, <2>3 DEF Validate
    <3>2. c \in Context /\ c.state = ctx.state
      BY <2>1, ContextUpdates DEF Context
    <3> HIDE DEF c
    <3>3. RowsInv'
      BY <1>4, <2>1, <2>3, <3>1, <3>2, TransitionKeepsRows
      DEF Validate, IInv, WorkflowState, SettledState
    <3>4. pc' = "raised" \/ (pc' = "missing" /\ ctx'.state = "MISSING_INFORMATION")
      BY <3>1, <3>2, TransitionOutcomes DEF Context
    <3> QED BY <1>4, <2>3, <3>3, <3>4 DEF Validate, StateInv, RetryInv, SettledState
  <2>4. CASE application = "invalid"
    <3>1. Transition(ctx, "FAILED", "returned", "raised")
      BY <1>4, <2>4 DEF Validate
    <3>2. GoodRow(application, [ ctx EXCEPT !.state = "FAILED" ])
      BY <2>1, <2>4 DEF GoodRow, Context, PastValidation
    <3>3. RowsInv'
      BY <1>4, <2>1, <3>1, <3>2, TransitionKeepsRows DEF Validate, IInv, WorkflowState
    <3>4. pc' \in { "raised", "returned" }
      BY <3>1, TransitionOutcomes
    <3> QED BY <3>3, <3>4 DEF StateInv, RetryInv
  <2> QED BY <2>2, <2>3, <2>4 DEF IInv, TypeOK
<1>5. CASE RequestMissingFields
  <2>1. /\ ctx \in Context /\ ctx.state \notin SettledState
        /\ ctx.state \in PastValidation => application = "valid"
        /\ ctx.missing => application = "missing"
    BY <1>5, OpenContextAtWork DEF RequestMissingFields
  <2>2. application = "missing"
    BY <1>5 DEF RequestMissingFields, IInv, StateInv
  <2>3. GoodRow(application, [ ctx EXCEPT !.state = "MORE_INFORMATION_REQUIRED" ])
    BY <2>1, <2>2 DEF GoodRow, Context, PastValidation
  <2>4. RowsInv'
    BY <1>5, <2>1, <2>3, TransitionKeepsRows DEF RequestMissingFields, IInv, WorkflowState
  <2>5. pc' \in { "raised", "returned" }
    BY <1>5, TransitionOutcomes DEF RequestMissingFields
  <2> QED BY <2>4, <2>5 DEF StateInv, RetryInv
<1>6. CASE StartVerification
  <2>1. pc' = "document" /\ doc' = 1 /\ ctx' = ctx
        /\ UNCHANGED << application, db, pending >>
    BY <1>6 DEF StartVerification
  <2>2. RowsInv' /\ ctx'.state \notin SettledState
    BY <1>6, <2>1, ChangeKeepsRows DEF StartVerification
  <2> QED BY <2>1, <2>2 DEF StateInv, RetryInv, Docs
<1>7. CASE ReuseDocument \/ ExtractConfident
  <2>1. /\ pc \in AtDocuments /\ pc' = "document" /\ doc \in Docs /\ doc' = doc + 1
        /\ ctx' = WithEvidence(ctx, doc) /\ ctx \in Context
        /\ UNCHANGED << application, db, pending >>
    BY <1>7, OpenContextAtWork
    DEF ReuseDocument, ExtractConfident, IInv, TypeOK, ControlInv, AtOneDocument
  <2>2. /\ HasEvidence(ctx', doc)
        /\ \A e \in Docs : HasEvidence(ctx, e) => HasEvidence(ctx', e)
        /\ ctx'.retries = ctx.retries /\ ctx'.state = ctx.state
        /\ ctx'.missing = ctx.missing
    BY <2>1, EvidenceGrows
  <2>3. RowsInv' /\ ctx'.state \notin SettledState
    BY <2>1, <2>2, ChangeKeepsRows
  <2>4. \A d \in Docs : d < doc + 1 => d < doc \/ d = doc
    BY <2>1 DEF Docs
  <2>5. \A d \in Docs : d < doc' => Covered(ctx', d)
    BY <2>1, <2>2, <2>4 DEF IInv, RetryInv, Covered
  <2> QED BY <2>1, <2>3, <2>5 DEF StateInv, RetryInv
<1>8. CASE StartExtraction \/ ExtractRaises
  <2>1. /\ pc \in AtDocuments /\ ctx' = ctx /\ doc' = doc /\ ctx \in Context
        /\ UNCHANGED << application, db, pending >>
        /\ \/ pc' = "attempt" /\ attempt' = 0
           \/ pc = "attempt" /\ pc' = "caught" /\ attempt' = attempt
    BY <1>8, OpenContextAtWork DEF StartExtraction, ExtractRaises, local
  <2>2. RowsInv' /\ ctx'.state \notin SettledState
    BY <2>1, ChangeKeepsRows
  <2>3. attempt' <= ctx'.retries
    BY <2>1 DEF Context, IInv, RetryInv
  <2> QED BY <2>1, <2>2, <2>3 DEF IInv, StateInv, RetryInv
<1>9. CASE ExtractWeak \/ HandleError
  <2> DEFINE c == CountRetry(ctx)
  <2>1. /\ ctx \in Context /\ ctx.state \notin SettledState
        /\ ctx.state \in PastValidation => application = "valid"
        /\ ctx.missing => application = "missing"
    BY <1>9, OpenContextAtWork DEF ExtractWeak, HandleError
  <2>2. /\ c \in Context /\ c.retries = ctx.retries + 1
        /\ c.state = ctx.state /\ c.missing = ctx.missing
        /\ c.extracted = ctx.extracted
    BY <2>1, ContextUpdates DEF Context, CountRetry
  <2>3. \A d \in Docs : d < doc => Covered(c, d)
    BY <1>9, <2>1, <2>2
    DEF ExtractWeak, HandleError, IInv, RetryInv, Covered, HasEvidence, Context
  <2>4. attempt <= ctx.retries /\ attempt \in Nat /\ ctx.retries \in Nat
    BY <1>9, <2>1 DEF ExtractWeak, HandleError, IInv, RetryInv, TypeOK, Context
  <2>5. doc' = doc /\ application' = application
    BY <1>9 DEF ExtractWeak, HandleError
  <2> HIDE DEF c
  <2>6. CASE \E next \in { "retry", "recaught" }, handler \in { "caught", "raised" } :
               /\ Transition(c, "TOOL_RETRYING", next, handler)
               /\ attempt' = attempt
    <3>1. PICK next \in { "retry", "recaught" }, handler \in { "caught", "raised" } :
               /\ Transition(c, "TOOL_RETRYING", next, handler)
               /\ attempt' = attempt
      BY <2>6
    <3>2. RowsInv'
      BY <2>1, <2>2, <2>5, <3>1, TransitionKeepsRows
      DEF IInv, WorkflowState, SettledState
    <3>3. /\ ctx'.extracted = c.extracted /\ ctx'.retries = c.retries
          /\ \/ pc' = handler /\ ctx'.state \in { c.state, "TOOL_RETRYING" }
             \/ pc' = next /\ ctx'.state = "TOOL_RETRYING"
      BY <2>2, <3>1, TransitionOutcomes DEF Context
    <3>4. \A d \in Docs : d < doc' => Covered(ctx', d)
      BY <2>3, <2>5, <3>3 DEF Covered, HasEvidence
    <3>5. attempt' < ctx'.retries /\ attempt' <= ctx'.retries
      BY <2>2, <2>4, <3>1, <3>3
    <3>6. ctx'.state \notin SettledState
      BY <2>1, <2>2, <3>3 DEF SettledState
    <3> QED BY <3>1, <3>2, <3>3, <3>4, <3>5, <3>6 DEF StateInv, RetryInv
  <2>7. CASE /\ ctx' = c /\ attempt' = attempt + 1 /\ pc' = "attempt"
             /\ UNCHANGED << db, pending >>
    <3>1. RowsInv' /\ ctx'.state \notin SettledState
      BY <1>9, <2>2, <2>5, <2>7, ChangeKeepsRows DEF ExtractWeak, HandleError
    <3>2. attempt' <= ctx'.retries
      BY <2>2, <2>4, <2>7
    <3> QED BY <2>3, <2>5, <2>7, <3>1, <3>2 DEF StateInv, RetryInv
  <2> QED
    BY <1>9, <2>6, <2>7 DEF ExtractWeak, HandleError, c
<1>10. CASE RetryExtraction \/ RetryAfterError
  <2>1. /\ ctx \in Context /\ ctx.state \notin SettledState
        /\ ctx.state \in PastValidation => application = "valid"
        /\ ctx.missing => application = "missing"
    BY <1>10, OpenContextAtWork DEF RetryExtraction, RetryAfterError
  <2>2. PICK handler \in { "caught", "raised" } :
          Transition(ctx, "VERIFYING", "attempt", handler)
    BY <1>10 DEF RetryExtraction, RetryAfterError
  <2>3. /\ doc' = doc /\ application' = application
        /\ ctx.state = "TOOL_RETRYING" /\ attempt < ctx.retries
        /\ attempt \in Nat /\ ctx.retries \in Nat
        /\ attempt' = IF pc' = "attempt" THEN attempt + 1 ELSE attempt
    BY <1>10, <2>1
    DEF RetryExtraction, RetryAfterError, IInv, StateInv, RetryInv, TypeOK, Context
  <2>4. RowsInv'
    BY <2>1, <2>2, <2>3, TransitionKeepsRows DEF IInv, WorkflowState, SettledState
  <2>5. /\ ctx'.extracted = ctx.extracted /\ ctx'.retries = ctx.retries
        /\ pc' \in { handler, "attempt" }
        /\ ctx'.state \in { "TOOL_RETRYING", "VERIFYING" }
    BY <2>1, <2>2, <2>3, TransitionOutcomes DEF Context
  <2>6. \A d \in Docs : d < doc' => Covered(ctx', d)
    BY <1>10, <2>3, <2>5
    DEF RetryExtraction, RetryAfterError, IInv, RetryInv, Covered, HasEvidence
  <2>7. attempt' <= ctx'.retries
    BY <2>3, <2>5
  <2> QED BY <2>4, <2>5, <2>6, <2>7 DEF StateInv, RetryInv, SettledState
<1>11. CASE GiveUpDocument
  <2>1. /\ pc = "attempt" /\ pc' = "document" /\ doc \in Docs /\ doc' = doc + 1
        /\ attempt = MaxToolRetries /\ ctx' = ctx /\ ctx \in Context
        /\ UNCHANGED << application, db, pending >>
    BY <1>11, OpenContextAtWork
    DEF GiveUpDocument, IInv, ControlInv, AtOneDocument
  <2>2. RowsInv' /\ ctx'.state \notin SettledState
    BY <2>1, ChangeKeepsRows
  <2>3. \A d \in Docs : d < doc + 1 => d < doc \/ d = doc
    BY <2>1 DEF Docs
  <2>4. ctx.retries >= MaxToolRetries
    BY <2>1 DEF IInv, RetryInv, Context
  <2>5. \A d \in Docs : d < doc' => Covered(ctx', d)
    BY <2>1, <2>3, <2>4 DEF IInv, RetryInv, Covered
  <2> QED BY <2>1, <2>2, <2>5 DEF StateInv, RetryInv
<1>12. CASE AllDocumentsFailed
  <2>1. /\ ctx \in Context /\ ctx.state \notin SettledState
        /\ ctx.state \in PastValidation => application = "valid"
        /\ ctx.missing => application = "missing"
    BY <1>12, OpenContextAtWork DEF AllDocumentsFailed
  <2>2. RowsInv'
    BY <1>12, <2>1, TransitionKeepsRows
    DEF AllDocumentsFailed, IInv, WorkflowState, SettledState
  <2>3. pc' = "raised" \/ (pc' = "escalate" /\ ctx'.state = "TOOL_FAILED")
    BY <1>12, <2>1, TransitionOutcomes DEF AllDocumentsFailed, Context
  <2> QED BY <2>2, <2>3 DEF StateInv, RetryInv, SettledState
<1>13. CASE CreateEscalation
  <2>1. /\ pc \in Running /\ pc' = "notified" /\ ctx \in Context
        /\ ctx' = [ ctx EXCEPT !.decision = "ESCALATE_TO_HUMAN" ]
        /\ UNCHANGED << application, db, pending >>
    BY <1>13, OpenContextAtWork DEF CreateEscalation
  <2>2. /\ ctx'.decision = "ESCALATE_TO_HUMAN"
        /\ ctx'.state = ctx.state /\ ctx'.missing = ctx.missing
    BY <2>1 DEF Context
  <2>3. RowsInv' /\ ctx'.state \notin SettledState
    BY <2>1, <2>2, ChangeKeepsRows
  <2> QED BY <2>1, <2>2, <2>3 DEF StateInv, RetryInv
<1>14. CASE EscalateToHuman
  <2>1. /\ ctx \in Context /\ ctx.state \notin SettledState
        /\ ctx.state \in PastValidation => application = "valid"
        /\ ctx.missing => application = "missing"
        /\ ctx.decision = "ESCALATE_TO_HUMAN"
    BY <1>14, OpenContextAtWork DEF EscalateToHuman, IInv, StateInv
  <2> DEFINE final == [ ctx EXCEPT !.state = "ESCALATED_TO_HUMAN" ]
  <2>2. final.state = "ESCALATED_TO_HUMAN" /\ final.missing = ctx.missing
        /\ final.decision = "ESCALATE_TO_HUMAN"
    BY <2>1 DEF Context
  <2>3. CanTransition(ctx.state, "ESCALATED_TO_HUMAN") => ctx.state \in PastValidation
    BY StaysPastValidation DEF PastValidation
  <2>4. ASSUME CanTransition(ctx.state, "ESCALATED_TO_HUMAN")
        PROVE  GoodRow(application, final)
    <3> HIDE DEF final
    <3> QED BY <2>1, <2>2, <2>3, <2>4 DEF GoodRow
  <2>5. RowsInv'
    BY <1>14, <2>1, <2>4, TransitionKeepsRows DEF EscalateToHuman, IInv, WorkflowState
  <2>6. pc' \in { "raised", "returned" }
    BY <1>14, TransitionOutcomes DEF EscalateToHuman
  <2> QED BY <2>5, <2>6 DEF StateInv, RetryInv
<1>15. CASE CompareInformation
  <2>1. /\ ctx \in Context /\ ctx.state \notin SettledState
        /\ ctx.state \in PastValidation => application = "valid"
        /\ ctx.missing => application = "missing"
    BY <1>15, OpenContextAtWork DEF CompareInformation
  <2>2. PICK m \in Nat :
          \/ Transition([ [ ctx EXCEPT !.mismatches = m ]
                            EXCEPT !.decision = "ESCALATE_TO_HUMAN" ],
                        "LOW_CONFIDENCE", "returned", "raised")
          \/ Transition([ ctx EXCEPT !.mismatches = m ], "ANALYZING_RISK",
                        "analyze", "raised")
    BY <1>15 DEF CompareInformation
  <2>3. application' = application /\ doc' = doc /\ doc = NumDocs + 1
        /\ (ctx.extracted # << >> \/ NumDocs = 0)
    BY <1>15 DEF CompareInformation
  <2>4. CASE Transition([ [ ctx EXCEPT !.mismatches = m ]
                            EXCEPT !.decision = "ESCALATE_TO_HUMAN" ],
                        "LOW_CONFIDENCE", "returned", "raised")
    <3> DEFINE c == [ [ ctx EXCEPT !.mismatches = m ]
                        EXCEPT !.decision = "ESCALATE_TO_HUMAN" ]
    <3>1. c \in Context /\ c.state = ctx.state /\ c.missing = ctx.missing
      BY <2>1, ContextUpdates DEF Context, FinalDecision
    <3>2. Transition(c, "LOW_CONFIDENCE", "returned", "raised")
      BY <2>4
    <3> HIDE DEF c
    <3>3. RowsInv'
      BY <2>1, <2>3, <3>1, <3>2, TransitionKeepsRows
      DEF IInv, WorkflowState, SettledState
    <3>4. pc' \in { "raised", "returned" }
      BY <3>2, TransitionOutcomes
    <3> QED BY <3>3, <3>4 DEF StateInv, RetryInv
  <2>5. CASE Transition([ ctx EXCEPT !.mismatches = m ], "ANALYZING_RISK",
                        "analyze", "raised")
    <3> DEFINE c == [ ctx EXCEPT !.mismatches = m ]
    <3>1. /\ c \in Context /\ c.state = ctx.state /\ c.missing = ctx.missing
          /\ c.extracted = ctx.extracted /\ c.retries = ctx.retries
      BY <2>1, ContextUpdates DEF Context
    <3>2. Transition(c, "ANALYZING_RISK", "analyze", "raised")
      BY <2>5
    <3> HIDE DEF c
    <3>3. RowsInv'
      BY <2>1, <2>3, <3>1, <3>2, TransitionKeepsRows
      DEF IInv, WorkflowState, SettledState
    <3>4. \/ pc' = "raised"
          \/ /\ pc' = "analyze" /\ ctx'.state = "ANALYZING_RISK"
             /\ ctx'.extracted = ctx.extracted /\ ctx'.retries = ctx.retries
      BY <3>1, <3>2, TransitionOutcomes DEF Context
    <3>5. \A d \in Docs : Covered(ctx, d)
      <4>1. \A d \in Docs : d < doc
        BY <2>3 DEF Docs
      <4> QED BY <1>15, <4>1 DEF CompareInformation, IInv, RetryInv
    <3> QED
      BY <2>3, <3>3, <3>4, <3>5
      DEF StateInv, RetryInv, SettledState, Covered, HasEvidence
  <2> QED BY <2>2, <2>4, <2>5
<1>16. CASE Analyze
  <2>1. /\ ctx \in Context /\ ctx.state \notin SettledState
        /\ ctx.state \in PastValidation => application = "valid"
        /\ ctx.missing => application = "missing"
    BY <1>16, OpenContextAtWork DEF Analyze
  <2>2. PICK r \in RiskLevel, rec \in Recommendation :
          Transition([ ctx EXCEPT !.risk = r, !.rec = rec ], "DECIDING",
                     "decide", "raised")
    BY <1>16, PolicyTypes DEF Analyze
  <2> DEFINE c == [ ctx EXCEPT !.risk = r, !.rec = rec ]
  <2>3. /\ c \in Context /\ c.state = ctx.state /\ c.missing = ctx.missing
        /\ c.extracted = ctx.extracted /\ c.retries = ctx.retries
    BY <2>1, ContextUpdates DEF Context
  <2>4. Transition(c, "DECIDING", "decide", "raised")
    BY <2>2
  <2> HIDE DEF c
  <2>5. application' = application
    BY <1>16 DEF Analyze
  <2>6. RowsInv'
    BY <2>1, <2>3, <2>4, <2>5, TransitionKeepsRows DEF IInv, WorkflowState, SettledState
  <2>7. \/ pc' = "raised"
        \/ /\ pc' = "decide" /\ ctx'.state = "DECIDING"
           /\ ctx'.extracted = ctx.extracted /\ ctx'.retries = ctx.retries
    BY <2>3, <2>4, TransitionOutcomes DEF Context
  <2>8. /\ \A d \in Docs : Covered(ctx, d)
        /\ ctx.extracted # << >> \/ NumDocs = 0
    BY <1>16 DEF Analyze, IInv, RetryInv
  <2> QED
    BY <2>6, <2>7, <2>8
    DEF StateInv, RetryInv, SettledState, Covered, HasEvidence
<1>17. CASE Decide
  <2>1. /\ ctx \in Context /\ ctx.state \notin SettledState
        /\ ctx.state \in PastValidation => application = "valid"
        /\ ctx.missing => application = "missing"
        /\ ctx.state = "DECIDING" /\ ctx.rec \in Recommendation
        /\ ctx.risk \in RiskLevel /\ ctx.retries \in Nat /\ ctx.missing \in BOOLEAN
    BY <1>17, OpenContextAtWork DEF Decide, IInv, StateInv, ControlInv, Context
  <2>2. application = "valid" /\ ~ctx.missing
    BY <2>1 DEF PastValidation
  <2> DEFINE d == EnforcePolicy(ctx.rec, ctx.risk, ctx.extracted # << >>,
                                ctx.missing, ctx.retries)
             c == [ ctx EXCEPT !.decision = d ]
             final == [ c EXCEPT !.state = DecidedState[d] ]
  <2>3. d \in FinalDecision
    BY <2>1, PolicyTypes
  <2>4. /\ d = "APPROVE" =>
             /\ ctx.rec = [ action |-> "APPROVE", trusted |-> TRUE ]
             /\ ctx.risk # "CRITICAL" /\ ctx.extracted # << >>
             /\ ctx.retries < MaxToolRetries
        /\ d = "REJECT_OR_BLOCK" => ctx.retries < MaxToolRetries
        /\ d = "REQUEST_MORE_INFORMATION" =>
             ctx.extracted = << >> \/ ctx.retries < MaxToolRetries
    BY <2>1, <2>2, PolicyGuards
  <2>5. Transition(c, DecidedState[d], "returned", "raised")
        /\ application' = application
    BY <1>17 DEF Decide
  <2> HIDE DEF d
  <2>6. /\ c \in Context /\ c.state = "DECIDING" /\ c.missing = ctx.missing
    BY <2>1, <2>3, ContextUpdates DEF Context
  <2>7. /\ final.state = DecidedState[d] /\ final.decision = d
        /\ final.missing = ctx.missing /\ final.extracted = ctx.extracted
        /\ final.retries = ctx.retries /\ final.risk = ctx.risk
        /\ final.rec = ctx.rec
    BY <2>1 DEF Context
  <2>8. DecidedState[d] \in WorkflowState
    BY <2>3, PolicyTypes
  <2>9. /\ DecidedState[d] = "APPROVED" => d = "APPROVE"
        /\ DecidedState[d] = "REJECTED" => d = "REJECT_OR_BLOCK"
        /\ DecidedState[d] = "MORE_INFORMATION_REQUIRED" =>
             d = "REQUEST_MORE_INFORMATION"
        /\ DecidedState[d] = "ESCALATED" => d = "ESCALATE_TO_HUMAN"
        /\ DecidedState[d] # "ESCALATED_TO_HUMAN"
    BY <2>3 DEF DecidedState, FinalDecision
  <2>10. /\ \A e \in Docs : Covered(ctx, e)
         /\ ctx.extracted # << >> \/ NumDocs = 0
    BY <1>17 DEF Decide, IInv, RetryInv
  <2>11. ctx.retries < MaxToolRetries => \A e \in Docs : HasEvidence(ctx, e)
    BY <2>1, <2>10 DEF Covered
  <2>12. ctx.extracted = << >> => \A e \in Docs : HasEvidence(ctx, e)
    BY <2>10 DEF Docs
  <2>13. DecidedState[d] \in { "APPROVED", "REJECTED", "MORE_INFORMATION_REQUIRED" }
           => \A e \in Docs : HasEvidence(ctx, e)
    BY <2>4, <2>9, <2>11, <2>12
  <2>14. GoodRow(application, final)
    <3> HIDE DEF final, c
    <3>1. \A e \in Docs : HasEvidence(ctx, e) => HasEvidence(final, e)
      BY <2>7 DEF HasEvidence
    <3> QED
      BY <2>1, <2>2, <2>4, <2>7, <2>9, <2>13, <3>1 DEF GoodRow, RiskLevel
  <2>15. RowsInv'
    <3> HIDE DEF c
    <3> QED
      BY <2>1, <2>2, <2>5, <2>6, <2>8, <2>14, TransitionKeepsRows
      DEF IInv, SettledState
  <2>16. pc' \in { "raised", "returned" }
    BY <2>5, TransitionOutcomes
  <2> QED BY <2>15, <2>16 DEF StateInv, RetryInv
<1>18. CASE EndRun \/ Crash \/ ReadFails \/ Restart
  <2>1. /\ pc' \in { "idle", "down", "raised", "requeued" }
        /\ ctx' \in { ctx, None } /\ pending' \in { pending, None }
        /\ db' = db /\ application' = application
    BY <1>18 DEF EndRun, Crash, ReadFails, Restart, local
  <2>2. RowsInv'
    BY <2>1, NoneIsGood DEF IInv, RowsInv
  <2> QED BY <2>1, <2>2 DEF StateInv, RetryInv
<1>19. CASE CommitPending
  <2>1. RowsInv'
    BY <1>19, NoneIsGood DEF CommitPending, local, IInv, RowsInv
  <2> QED
    BY <1>19, <2>1 DEF CommitPending, local, IInv, StateInv, RetryInv, Docs
<1>20. CASE UNCHANGED vars
  BY <1>20 DEF vars, IInv, StateInv, RetryInv, RowsInv
<1> QED
  BY <1>1, <1>2, <1>3, <1>4, <1>5, <1>6, <1>7, <1>8, <1>9, <1>10, <1>11,
     <1>12, <1>13, <1>14, <1>15, <1>16, <1>17, <1>18, <1>19, <1>20
  DEF Next, EngineStep

THEOREM Invariance == Spec => []IInv
BY InitInvariant, StepInvariant, PTL DEF Spec
-----------------------------------------------------------------------------
(***************************************************************************)
(* What the invariant gives                                                *)
(***************************************************************************)
(* Whatever fails, and however many runs it takes, an application is       *)
(* approved, rejected or sent back by the policy only with evidence for    *)
(* every document (engine.py 126-203, 230-327, 404-406).                   *)
THEOREM EvidenceBeforeDecision == Spec => []DecidedOnCompleteEvidence
<1>1. IInv => DecidedOnCompleteEvidence
  BY DEF IInv, RowsInv, GoodRow, DecidedOnCompleteEvidence
<1> QED BY <1>1, Invariance, PTL

(* An approved row has every guard of the policy in it, whichever write    *)
(* made it durable (engine.py 381-425).                                    *)
THEOREM ApprovalEarned == Spec => []ApprovalIsEarned
<1>1. IInv => ApprovalIsEarned
  <2> SUFFICES ASSUME IInv, db.state = "APPROVED" PROVE ApprovalIsEarned
    BY DEF ApprovalIsEarned
  <2>1. GoodRow(application, db)
    BY DEF IInv, RowsInv
  <2>2. db \in Context
    BY SpecialContexts DEF IInv, TypeOK
  <2>3. application = "valid" /\ ~db.missing
    BY <2>1, <2>2 DEF GoodRow, PastValidation, Context
  <2> QED BY <2>1, <2>3 DEF GoodRow, ApprovalIsEarned
<1> QED BY <1>1, Invariance, PTL

(* The decision in a row is the one its state stands for (engine.py        *)
(* 164-176, 367-379, 427-436).                                             *)
THEOREM DecisionInRow == Spec => []DecisionMatchesState
<1>1. IInv => DecisionMatchesState
  BY DEF IInv, RowsInv, GoodRow, DecisionMatchesState, DecidedState, FinalDecision
<1> QED BY <1>1, Invariance, PTL

(* No run and no sequence of runs takes an application with missing or     *)
(* invalid fields past validation (engine.py 68-76, main.py 55-60).        *)
THEOREM ValidationHolds == Spec => []NeverPastValidation
<1>1. IInv => NeverPastValidation
  BY DEF IInv, RowsInv, GoodRow, NeverPastValidation
<1> QED BY <1>1, Invariance, PTL
=============================================================================
