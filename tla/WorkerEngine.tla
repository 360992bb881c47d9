--------------------------- MODULE WorkerEngine ---------------------------
(***************************************************************************)
(* One onboarding application, from the request that submits it to the     *)
(* row its workflow leaves in SQLite.                                      *)
(*                                                                         *)
(* The engine (app/worker/engine.py) works on a context held in memory     *)
(* and writes the whole of it at every transition.  What survives a crash  *)
(* is the row only, and a run that is started again starts from the row.   *)
(* The model has one step per write, because between two writes nothing    *)
(* the rest of the system can see changes: each step below takes a         *)
(* handler from one durable write to the next.                             *)
(*                                                                         *)
(* The writes can fail (WorkflowMemory.save raises PersistenceError), and  *)
(* a write that failed in commit() stays in the transaction of the one     *)
(* shared connection until the next commit on it: `pending' is that write. *)
(* Every fault (a failed write or read, a lost audit event, a crash) is    *)
(* counted in `faults' and bounded by MaxFaults.                           *)
(***************************************************************************)
EXTENDS Policy, Sequences

CONSTANTS
  NumDocs,       (* how many documents the application declares            *)
  Mismatches,    (* numbers of differing fields compare_information finds  *)
  MaxFaults      (* bound on the faults of one behaviour                   *)

ASSUME NumDocsAssumption == NumDocs \in Nat
ASSUME MismatchesAssumption == Mismatches \subseteq Nat
ASSUME MaxFaultsAssumption == MaxFaults \in Nat

VARIABLES
  application,   (* what validate_application will say of the request      *)
  db,            (* the committed workflow_contexts row                    *)
  pending,       (* an uncommitted row left in the shared transaction      *)
  ctx,           (* the WorkflowContext of the running engine              *)
  pc,            (* where the handler of this application is               *)
  doc,           (* the document _verify_documents is at                   *)
  attempt,       (* the attempt _extract_with_retry is at, from 0          *)
  reusable,      (* the documents found already processed, as read once    *)
  trail,         (* the states with a STATE_TRANSITION audit event         *)
  handovers,     (* how often create_escalation was called                 *)
  faults

local == << ctx, doc, attempt, reusable >>
vars  == << application, db, pending, ctx, pc, doc, attempt, reusable,
            trail, handovers, faults >>

Docs == 1 .. NumDocs

Evidence == [ doc : Docs, trusted : BOOLEAN ]

NoDecision       == "no decision"
NoRisk           == "no risk assessment"
NoRecommendation == [ action |-> NoDecision, trusted |-> FALSE ]

(* WorkflowContext, without the fields nothing below depends on. *)
Context ==
  [ state      : WorkflowState,
    decision   : FinalDecision \cup { NoDecision },
    missing    : BOOLEAN,
    extracted  : Seq(Evidence),
    retries    : Nat,
    mismatches : Nat,
    risk       : RiskLevel \cup { NoRisk },
    rec        : Recommendation \cup { NoRecommendation } ]

NewContext ==
  [ state      |-> "RECEIVED",
    decision   |-> NoDecision,
    missing    |-> FALSE,
    extracted  |-> << >>,
    retries    |-> 0,
    mismatches |-> 0,
    risk       |-> NoRisk,
    rec        |-> NoRecommendation ]

(* No row, no context, no uncommitted write: a context in no state. *)
None == [ NewContext EXCEPT !.state = "none" ]

TypeOK ==
  /\ application \in { "valid", "missing", "invalid" }
  /\ { db, pending, ctx } \subseteq Context \cup { None }
  /\ pc \in { "unsubmitted", "queued", "requeued", "validate", "validated",
              "missing", "verify", "document", "attempt", "retry", "caught",
              "recaught", "escalate", "notified", "analyze", "decide", "returned",
              "raised", "idle", "down" }
  /\ doc \in 1 .. NumDocs + 1
  /\ attempt \in 0 .. MaxToolRetries
  /\ reusable \subseteq Docs
  /\ trail \subseteq WorkflowState
  /\ handovers \in Nat
  /\ faults \in 0 .. MaxFaults

Init ==
  /\ application \in { "valid", "missing", "invalid" }
  /\ db = None /\ pending = None /\ ctx = None
  /\ pc = "unsubmitted"
  /\ doc = 1 /\ attempt = 0 /\ reusable = {}
  /\ trail = {} /\ handovers = 0 /\ faults = 0
-----------------------------------------------------------------------------
(***************************************************************************)
(* Persistence                                                             *)
(***************************************************************************)
Fault == faults < MaxFaults /\ faults' = faults + 1

(* save: the row is replaced, and with it whatever was left uncommitted.   *)
Save(c) == db' = c /\ pending' = None /\ UNCHANGED faults

(* save raising PersistenceError: in execute(), which adds nothing to the   *)
(* open transaction; in commit(), which leaves the write in it; or for an   *)
(* error on which SQLite itself rolls the transaction back.                 *)
SaveFails(c) ==
  /\ Fault
  /\ pending' \in { pending, c, None }
  /\ UNCHANGED db

(* The STATE_TRANSITION event of a completed transition; losing it is      *)
(* logged and goes no further.                                             *)
RecordTransition(s) == trail' = trail \cup { s }

(* Mutant: the event of a transition is recorded whether or not the save    *)
(* that follows it succeeds.                                               *)
TransitionAuditedFirst(c, s, next, handler) ==
  LET new == [ c EXCEPT !.state = s ] IN
  IF CanTransition(c.state, s)
  THEN /\ ctx' = new /\ RecordTransition(s)
       /\ \/ Save(new) /\ pc' = next
          \/ SaveFails(new) /\ pc' = handler
  ELSE /\ ctx' = c /\ pc' = handler
       /\ UNCHANGED << db, pending, trail, faults >>

(* _transition: the table decides, the context changes before the write,   *)
(* and control goes to `next', or, after a ValueError or a                 *)
(* PersistenceError, to `handler' with the context as it then is.          *)
Transition(c, s, next, handler) ==
  LET new == [ c EXCEPT !.state = s ] IN
  IF CanTransition(c.state, s)
  THEN /\ ctx' = new
       /\ \/ Save(new) /\ RecordTransition(s) /\ pc' = next
          \/ /\ db' = new /\ pending' = None /\ Fault
             /\ UNCHANGED trail /\ pc' = next
          \/ SaveFails(new) /\ UNCHANGED trail /\ pc' = handler
  ELSE /\ ctx' = c /\ pc' = handler
       /\ UNCHANGED << db, pending, trail, faults >>

(* A later commit on the shared connection (another application's save, or *)
(* any audit record) makes the write that was left behind durable.         *)
CommitPending ==
  /\ pc # "down" /\ pending # None
  /\ db' = pending /\ pending' = None
  /\ UNCHANGED << application, local, pc, trail, handovers, faults >>
-----------------------------------------------------------------------------
(***************************************************************************)
(* Starting a run                                                          *)
(***************************************************************************)
(* submit_application: the row is written, then the INPUT_RECEIVED event,  *)
(* then the task is scheduled.  A failed write is a 503; a failed audit    *)
(* record raises too, so the row is there and no task is.                  *)
Submit ==
  /\ pc = "unsubmitted"
  /\ \/ Save(NewContext) /\ pc' = "queued"
     \/ db' = NewContext /\ Fault /\ pc' = "idle" /\ UNCHANGED pending
     \/ SaveFails(NewContext) /\ pc' = "idle"
  /\ UNCHANGED << application, local, trail, handovers >>

(* resume_application begins by validating only what is still RECEIVED.    *)
EntryPoint(c) == IF c.state = "RECEIVED" THEN "validate" ELSE "verify"

(* _process_application_background: the states it agrees to start from.    *)
Resumable == { "RECEIVED", "VERIFYING", "TOOL_RETRYING" }

StartRun ==
  /\ pc = "queued"
  /\ ctx' = db
  /\ pc' = IF db.state \in Resumable THEN EntryPoint(db) ELSE "returned"
  /\ UNCHANGED << application, db, pending, doc, attempt, reusable, trail,
                  handovers, faults >>

(* _recover_application: anything but a terminal row is resumed. *)
RecoveryTerminal == SettledState \cup { "MISSING_INFORMATION" }

RecoverRun ==
  /\ pc = "requeued"
  /\ ctx' = db
  /\ pc' = IF db.state \notin RecoveryTerminal THEN EntryPoint(db) ELSE "returned"
  /\ UNCHANGED << application, db, pending, doc, attempt, reusable, trail,
                  handovers, faults >>

(* A failed SELECT ends the run in the task's own exception handler. *)
ReadFails ==
  /\ pc \in { "queued", "requeued", "verify" }
  /\ Fault
  /\ pc' = "raised"
  /\ UNCHANGED << application, db, pending, local, trail, handovers >>
-----------------------------------------------------------------------------
(***************************************************************************)
(* _validate                                                               *)
(***************************************************************************)
StartValidation ==
  /\ pc = "validate"
  /\ Transition(ctx, "VALIDATING", "validated", "raised")
  /\ UNCHANGED << application, doc, attempt, reusable, handovers >>

Validate ==
  /\ pc = "validated"
  /\ \/ /\ application = "valid"
        /\ Transition(ctx, "VERIFYING", "verify", "raised")
     \/ /\ application = "missing"
        /\ Transition([ ctx EXCEPT !.missing = TRUE ], "MISSING_INFORMATION",
                      "missing", "raised")
     \/ /\ application = "invalid"
        /\ Transition(ctx, "FAILED", "returned", "raised")
  /\ UNCHANGED << application, doc, attempt, reusable, handovers >>

RequestMissingFields ==
  /\ pc = "missing"
  /\ Transition(ctx, "MORE_INFORMATION_REQUIRED", "returned", "raised")
  /\ UNCHANGED << application, doc, attempt, reusable, handovers >>
-----------------------------------------------------------------------------
(***************************************************************************)
(* _verify_documents and _extract_with_retry                               *)
(***************************************************************************)
(* Mutant: evidence is filed under the next document. *)
WithEvidenceOffByOne(c, d) ==
  [ c EXCEPT !.extracted = Append(@, [ doc |-> d + 1, trusted |-> TRUE ]) ]

WithEvidence(c, d) ==
  [ c EXCEPT !.extracted = Append(@, [ doc |-> d, trusted |-> TRUE ]) ]

CountRetry(c) == [ c EXCEPT !.retries = @ + 1 ]

(* Mutant: a resumed run starts its evidence afresh. *)
StartVerificationAfresh ==
  /\ pc = "verify"
  /\ reusable' \in SUBSET Docs
  /\ ctx' = [ ctx EXCEPT !.extracted = << >> ]
  /\ doc' = 1
  /\ pc' = "document"
  /\ UNCHANGED << application, db, pending, attempt, trail, handovers, faults >>

(* The documents table is read once, before the first document; `reusable' *)
(* are the completed documents at or above the confidence threshold.       *)
StartVerification ==
  /\ pc = "verify"
  /\ reusable' \in SUBSET Docs
  /\ doc' = 1
  /\ pc' = "document"
  /\ UNCHANGED << application, db, pending, ctx, attempt, trail, handovers,
                  faults >>

ReuseDocument ==
  /\ pc = "document" /\ doc \in reusable
  /\ ctx' = WithEvidence(ctx, doc)
  /\ doc' = doc + 1
  /\ UNCHANGED << application, db, pending, pc, attempt, reusable, trail,
                  handovers, faults >>

StartExtraction ==
  /\ pc = "document" /\ doc \in Docs \ reusable
  /\ attempt' = 0
  /\ pc' = "attempt"
  /\ UNCHANGED << application, db, pending, ctx, doc, reusable, trail,
                  handovers, faults >>

ExtractConfident ==
  /\ pc = "attempt" /\ attempt < MaxToolRetries
  /\ ctx' = WithEvidence(ctx, doc)
  /\ doc' = doc + 1
  /\ pc' = "document"
  /\ UNCHANGED << application, db, pending, attempt, reusable, trail,
                  handovers, faults >>

(* Below the threshold: counted, then VERIFYING -> TOOL_RETRYING ->        *)
(* VERIFYING.  Both transitions are inside the try block.                  *)
ExtractWeak ==
  /\ pc = "attempt" /\ attempt < MaxToolRetries
  /\ Transition(CountRetry(ctx), "TOOL_RETRYING", "retry", "caught")
  /\ UNCHANGED << application, doc, attempt, reusable, handovers >>

(* Mutant: the next attempt is made without going back to VERIFYING. *)
RetryInPlace ==
  /\ pc = "retry"
  /\ pc' = "attempt" /\ attempt' = attempt + 1
  /\ UNCHANGED << application, db, pending, ctx, doc, reusable, trail,
                  handovers, faults >>

RetryExtraction ==
  /\ pc = "retry"
  /\ Transition(ctx, "VERIFYING", "attempt", "caught")
  /\ attempt' = IF pc' = "attempt" THEN attempt + 1 ELSE attempt
  /\ UNCHANGED << application, doc, reusable, handovers >>

ExtractRaises ==
  /\ pc = "attempt" /\ attempt < MaxToolRetries
  /\ pc' = "caught"
  /\ UNCHANGED << application, db, pending, local, trail, handovers, faults >>

(* Mutant: on the last attempt the handler tries again without counting. *)
HandleErrorUncounted ==
  /\ pc = "caught"
  /\ \/ /\ attempt < MaxToolRetries - 1
        /\ Transition(CountRetry(ctx), "TOOL_RETRYING", "recaught", "raised")
     \/ /\ attempt = MaxToolRetries - 1
        /\ pc' = "attempt"
        /\ UNCHANGED << db, pending, ctx, trail, faults >>
  /\ UNCHANGED << application, doc, attempt, reusable, handovers >>

(* except Exception: also where a PersistenceError or a ValueError of the  *)
(* two transitions above ends up.  The last attempt makes no transition.   *)
HandleError ==
  /\ pc = "caught"
  /\ \/ /\ attempt < MaxToolRetries - 1
        /\ Transition(CountRetry(ctx), "TOOL_RETRYING", "recaught", "raised")
        /\ UNCHANGED attempt
     \/ /\ attempt = MaxToolRetries - 1
        /\ ctx' = CountRetry(ctx)
        /\ attempt' = attempt + 1
        /\ pc' = "attempt"
        /\ UNCHANGED << db, pending, trail, faults >>
  /\ UNCHANGED << application, doc, reusable, handovers >>

RetryAfterError ==
  /\ pc = "recaught"
  /\ Transition(ctx, "VERIFYING", "attempt", "raised")
  /\ attempt' = IF pc' = "attempt" THEN attempt + 1 ELSE attempt
  /\ UNCHANGED << application, doc, reusable, handovers >>

GiveUpDocument ==
  /\ pc = "attempt" /\ attempt = MaxToolRetries
  /\ doc' = doc + 1
  /\ pc' = "document"
  /\ UNCHANGED << application, db, pending, ctx, attempt, reusable, trail,
                  handovers, faults >>

(* Mutant: the human is notified before TOOL_FAILED is durable. *)
EscalateBeforeToolFailed ==
  /\ pc = "document" /\ doc = NumDocs + 1
  /\ ctx.extracted = << >> /\ NumDocs > 0
  /\ handovers' = handovers + 1
  /\ Transition([ ctx EXCEPT !.decision = "ESCALATE_TO_HUMAN" ], "TOOL_FAILED",
                "notified", "raised")
  /\ UNCHANGED << application, doc, attempt, reusable >>

AllDocumentsFailed ==
  /\ pc = "document" /\ doc = NumDocs + 1
  /\ ctx.extracted = << >> /\ NumDocs > 0
  /\ Transition(ctx, "TOOL_FAILED", "escalate", "raised")
  /\ UNCHANGED << application, doc, attempt, reusable, handovers >>

(* create_escalation: the webhook is tried once and its failure logged.    *)
CreateEscalation ==
  /\ pc = "escalate"
  /\ handovers' = handovers + 1
  /\ ctx' = [ ctx EXCEPT !.decision = "ESCALATE_TO_HUMAN" ]
  /\ pc' = "notified"
  /\ UNCHANGED << application, db, pending, doc, attempt, reusable, trail,
                  faults >>

EscalateToHuman ==
  /\ pc = "notified"
  /\ Transition(ctx, "ESCALATED_TO_HUMAN", "returned", "raised")
  /\ UNCHANGED << application, doc, attempt, reusable, handovers >>

(* An evidence list can only match or differ; without one, the comparison  *)
(* reports a match.                                                        *)
CompareInformation ==
  /\ pc = "document" /\ doc = NumDocs + 1
  /\ ctx.extracted # << >> \/ NumDocs = 0
  /\ \E m \in IF ctx.extracted = << >> THEN { 0 } ELSE Mismatches :
       LET compared == [ ctx EXCEPT !.mismatches = m ]
           lowConfidence == \E i \in 1 .. Len(ctx.extracted) :
                               ~ctx.extracted[i].trusted
       IN  IF lowConfidence /\ ctx.retries >= MaxToolRetries
           THEN Transition([ compared EXCEPT !.decision = "ESCALATE_TO_HUMAN" ],
                           "LOW_CONFIDENCE", "returned", "raised")
           ELSE Transition(compared, "ANALYZING_RISK", "analyze", "raised")
  /\ UNCHANGED << application, doc, attempt, reusable, handovers >>
-----------------------------------------------------------------------------
(***************************************************************************)
(* _analyze_and_decide                                                     *)
(***************************************************************************)
FindingsOf(c, identified) ==
  [ mismatches |-> c.mismatches,
    weak       |-> 0,
    anyData    |-> c.extracted # << >>,
    identified |-> identified ]

(* The recommendation is a language model's, hence any, or the rules'. *)
Analyze ==
  /\ pc = "analyze"
  /\ \E identified \in IF ctx.extracted = << >> THEN { FALSE } ELSE BOOLEAN :
     LET f    == FindingsOf(ctx, identified)
         risk == AssessRisk(f)
     IN \E rec \in Recommendation
                     \cup { RuleBasedRecommendation(ctx.missing, risk, f, FALSE) } :
          Transition([ ctx EXCEPT !.risk = risk, !.rec = rec ],
                     "DECIDING", "decide", "raised")
  /\ UNCHANGED << application, doc, attempt, reusable, handovers >>

DecidedState ==
  [ APPROVE                  |-> "APPROVED",
    REQUEST_MORE_INFORMATION |-> "MORE_INFORMATION_REQUIRED",
    ESCALATE_TO_HUMAN        |-> "ESCALATED",
    REJECT_OR_BLOCK          |-> "REJECTED" ]

(* Mutant: final_decision is set after the transition is saved. *)
DecideAfterSave ==
  /\ pc = "decide"
  /\ LET decision == EnforcePolicy(ctx.rec, ctx.risk, ctx.extracted # << >>,
                                   ctx.missing, ctx.retries)
     IN  Transition(ctx, DecidedState[decision], "returned", "raised")
  /\ UNCHANGED << application, doc, attempt, reusable, handovers >>

Decide ==
  /\ pc = "decide"
  /\ LET decision == EnforcePolicy(ctx.rec, ctx.risk, ctx.extracted # << >>,
                                   ctx.missing, ctx.retries)
     IN  Transition([ ctx EXCEPT !.decision = decision ],
                    DecidedState[decision], "returned", "raised")
  /\ UNCHANGED << application, doc, attempt, reusable, handovers >>
-----------------------------------------------------------------------------
(***************************************************************************)
(* The end of a run, crashes and recovery                                  *)
(***************************************************************************)
(* The task is over and its context is dropped; an exception was logged.   *)
EndRun ==
  /\ pc \in { "returned", "raised" }
  /\ ctx' = None /\ doc' = 1 /\ attempt' = 0 /\ reusable' = {}
  /\ pc' = "idle"
  /\ UNCHANGED << application, db, pending, trail, handovers, faults >>

(* The process dies, or a shutdown cancels the task: memory and the open   *)
(* transaction are gone.                                                   *)
Crash ==
  /\ pc \notin { "unsubmitted", "down" }
  /\ Fault
  /\ ctx' = None /\ pending' = None
  /\ doc' = 1 /\ attempt' = 0 /\ reusable' = {}
  /\ pc' = "down"
  /\ UNCHANGED << application, db, trail, handovers >>

(* _recover_stuck_work: the states it re-queues.  An exception in the scan *)
(* is logged, and the process serves requests with nothing re-queued.      *)
Recoverable == { "RECEIVED", "VALIDATING", "VERIFYING", "TOOL_RETRYING" }

Restart ==
  /\ pc = "down"
  /\ \/ /\ pc' = IF db.state \in Recoverable THEN "requeued" ELSE "idle"
        /\ UNCHANGED faults
     \/ Fault /\ pc' = "idle"
  /\ UNCHANGED << application, db, pending, local, trail, handovers >>

EngineStep ==
  \/ Submit \/ StartRun \/ RecoverRun
  \/ StartValidation \/ Validate \/ RequestMissingFields
  \/ StartVerification \/ ReuseDocument \/ StartExtraction
  \/ ExtractConfident \/ ExtractWeak \/ RetryExtraction
  \/ ExtractRaises \/ HandleError \/ RetryAfterError \/ GiveUpDocument
  \/ AllDocumentsFailed \/ CreateEscalation \/ EscalateToHuman
  \/ CompareInformation
  \/ Analyze \/ Decide \/ EndRun

Next == EngineStep \/ ReadFails \/ CommitPending \/ Crash \/ Restart

(* The event loop keeps running a task that is ready, and a process that   *)
(* went down is started again.                                             *)
Fairness == WF_vars(EngineStep) /\ WF_vars(Restart)

Spec == Init /\ [][Next]_vars /\ Fairness
-----------------------------------------------------------------------------
(***************************************************************************)
(* What the engine promises                                                *)
(***************************************************************************)
HasEvidence(c, d) ==
  \E i \in 1 .. Len(c.extracted) :
     c.extracted[i].doc = d /\ c.extracted[i].trusted

(* An application is approved, rejected or sent back by the policy only    *)
(* with trusted evidence for every document it declared: a document given  *)
(* up on, in this run or, through the saved retry count, in an earlier     *)
(* one, always ends in an escalation (engine.py 126-203, 230-327, 404-406).*)
DecidedOnCompleteEvidence ==
  (application = "valid" /\ db.state \in
     { "APPROVED", "REJECTED", "MORE_INFORMATION_REQUIRED" })
     => \A d \in Docs : HasEvidence(db, d)

(* Approval has every guard of the policy behind it, in the row itself:    *)
(* accepted fields, evidence, a risk below CRITICAL, retries left          *)
(* (engine.py 381-425).                                                    *)
ApprovalIsEarned ==
  db.state = "APPROVED" =>
    /\ application = "valid" /\ ~db.missing
    /\ db.extracted # << >> /\ db.retries < MaxToolRetries
    /\ db.risk \in { "LOW", "MEDIUM", "HIGH" }
    /\ db.rec = [ action |-> "APPROVE", trusted |-> TRUE ]

(* The row of an engine decision carries that decision, whichever write    *)
(* made it durable (engine.py 174-176, 367-379, 427-436).                  *)
DecisionMatchesState ==
  /\ \A d \in FinalDecision \ { "REQUEST_MORE_INFORMATION" } :
       db.state = DecidedState[d] => db.decision = d
  /\ db.state = "ESCALATED_TO_HUMAN" => db.decision = "ESCALATE_TO_HUMAN"

(* An application whose fields are missing or invalid never gets past      *)
(* validation, although recovery sends a VALIDATING row straight to the    *)
(* documents: only the transition table stops it there                     *)
(* (engine.py 68-76, main.py 55-60, states.py 68-103).                     *)
NeverPastValidation ==
  db.state \in PastValidation => application = "valid"

(* The audit trail is never ahead of the row: if it has the event of a     *)
(* final transition, that state is durable (engine.py 438-472).            *)
AuditNeverAhead ==
  \A s \in trail \cap SettledState : db.state = s

(* One application is handed to a human by create_escalation at most once  *)
(* over all its runs, and never recorded as handed over before it was      *)
(* (engine.py 164-176).                                                    *)
HandedOverOnce ==
  /\ handovers <= 1
  /\ db.state = "ESCALATED_TO_HUMAN" => handovers = 1

(* Without a fault, a run that is over leaves the application settled: no  *)
(* choice of outcomes, retries or documents makes the engine raise.        *)
OnlyFaultsStrand ==
  (pc \in { "raised", "idle" } /\ faults = 0) => db.state \in SettledState

(* What was durable of a settled application never changes; and no write,  *)
(* late or retried, takes evidence or counted retries out of the row.      *)
RowOnlyGrows ==
  [][ /\ db.state \in SettledState => db' = db
      /\ Len(db.extracted) <= Len(db'.extracted)
      /\ db.retries <= db'.retries
      /\ \A d \in Docs : HasEvidence(db, d) => HasEvidence(db', d) ]_db

(* Under the event loop's fairness every run that was started or re-queued *)
(* is over at some point, unless the process dies under it: retries are    *)
(* bounded and no pair of states sends the handler around for ever         *)
(* (engine.py 59-87, 235-327).                                             *)
RunsEnd == pc \notin { "unsubmitted", "idle", "down" } ~> pc \in { "idle", "down" }
-----------------------------------------------------------------------------
(***************************************************************************)
(* The row, seen as the life of an application                             *)
(***************************************************************************)
Phase == IF db = None THEN "absent"
         ELSE IF db.state \in SettledState THEN "settled" ELSE "open"

Lifecycle == INSTANCE ApplicationLifecycle WITH
  Documents <- Docs,
  request   <- application,
  phase     <- Phase,
  outcome   <- IF db.state \in SettledState THEN db.state ELSE "none",
  evidence  <- { d \in Docs : HasEvidence(db, d) },
  notified  <- handovers > 0

(* The engine keeps what is promised about an application, crashes and     *)
(* late writes included (engine.py, main.py 42-172, store.py 41-92).       *)
ImplementsLifecycle == Lifecycle!Spec
=============================================================================
