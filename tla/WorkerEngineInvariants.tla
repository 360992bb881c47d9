---------------------- MODULE WorkerEngineInvariants ----------------------
(***************************************************************************)
(* The inductive invariant behind the safety properties of WorkerEngine:   *)
(* what is true of the handler at each place it can be, and of each of the *)
(* three copies of the context (committed, uncommitted, in memory).        *)
(***************************************************************************)
EXTENDS WorkerEngine

(* The places where the engine is at work on a context. *)
AtDocuments == { "document", "attempt", "retry", "caught", "recaught" }
AtOneDocument == AtDocuments \ { "document" }
Running == AtDocuments \cup
  { "validate", "validated", "missing", "verify", "escalate", "notified",
    "analyze", "decide" }

(* A run has a context, and the loops stay within their bounds. *)
ControlInv ==
  /\ pc \in Running => ctx # None
  /\ pc \in { "queued", "requeued" } => db # None
  /\ pc \in AtOneDocument => doc \in Docs
  /\ pc \in { "retry", "caught", "recaught" } => attempt < MaxToolRetries
  /\ pc = "decide" => ctx.rec \in Recommendation /\ ctx.risk \in RiskLevel

(* The state the context is in where a transition is about to be made. *)
StateInv ==
  /\ pc \in Running => ctx.state \notin SettledState
  /\ pc = "validate" => ctx.state = "RECEIVED"
  /\ pc = "validated" => ctx.state = "VALIDATING"
  /\ pc = "missing" => application = "missing"
  /\ pc \in { "retry", "recaught" } => ctx.state = "TOOL_RETRYING"
  /\ pc = "analyze" => ctx.state = "ANALYZING_RISK"
  /\ pc = "decide" => ctx.state = "DECIDING"
  /\ pc = "notified" => ctx.decision = "ESCALATE_TO_HUMAN"

(* Every attempt used up has been counted, so a document left without      *)
(* evidence means that the retry limit is reached.                         *)
Covered(c, d) == HasEvidence(c, d) \/ c.retries >= MaxToolRetries

RetryInv ==
  /\ pc \in { "attempt", "caught" } => attempt <= ctx.retries
  /\ pc \in { "retry", "recaught" } => attempt < ctx.retries
  /\ pc \in AtDocuments => \A d \in Docs : d < doc => Covered(ctx, d)
  /\ pc \in { "analyze", "decide" } =>
       /\ \A d \in Docs : Covered(ctx, d)
       /\ ctx.extracted # << >> \/ NumDocs = 0

(* What the state of a context says about the rest of it, and about the    *)
(* application it is of.                                                   *)
GoodRow(app, c) ==
  /\ c.state \in PastValidation => app = "valid"
  /\ c.missing => app = "missing"
  /\ (app = "valid" /\ c.state \in
        { "APPROVED", "REJECTED", "MORE_INFORMATION_REQUIRED" })
       => \A d \in Docs : HasEvidence(c, d)
  /\ c.state = "APPROVED" =>
       /\ c.decision = "APPROVE" /\ c.extracted # << >>
       /\ c.retries < MaxToolRetries
       /\ c.risk \in { "LOW", "MEDIUM", "HIGH" }
       /\ c.rec = [ action |-> "APPROVE", trusted |-> TRUE ]
  /\ c.state = "REJECTED" => c.decision = "REJECT_OR_BLOCK"
  /\ c.state \in { "ESCALATED", "ESCALATED_TO_HUMAN" }
       => c.decision = "ESCALATE_TO_HUMAN"

RowsInv == \A c \in { db, pending, ctx } : GoodRow(application, c)

IInv == TypeOK /\ ControlInv /\ StateInv /\ RetryInv /\ RowsInv
-----------------------------------------------------------------------------
(* A context that goes on from another one has all it had.                 *)
Extends(old, new) ==
  /\ Len(old.extracted) <= Len(new.extracted) /\ old.retries <= new.retries
  /\ \A d \in Docs : HasEvidence(old, d) => HasEvidence(new, d)

(* While a run is to come or at work nothing is settled; once the row is,  *)
(* there is no write left that could change it.                            *)
OpenInv ==
  /\ pc \in Running \cup { "queued", "requeued" } =>
       db # None /\ db.state \notin SettledState /\ pending.state \notin SettledState
  /\ pc \in { "queued", "requeued" } => pending = None /\ db.state \in Recoverable
  /\ db.state \in SettledState => pending = None
  /\ db = None => /\ pc \in { "unsubmitted", "idle", "down" }
                  /\ pending \in { None, NewContext }
  /\ pc = "unsubmitted" => db = None /\ pending = None
  /\ pc = "down" => pending = None

(* The committed row, the uncommitted one and the context, in this order.  *)
GrowthInv ==
  /\ pending # None => Extends(db, pending)
  /\ pc \in Running => Extends(db, ctx) /\ Extends(pending, ctx)

(* Nothing is found before validation, nothing stays of what is found in a *)
(* document of an invalid application, and a settled row has nothing that  *)
(* the row before it had not.                                              *)
FoundInv ==
  /\ \A c \in { db, pending } :
       c.extracted # << >> => application = "valid" /\ c.state # "RECEIVED"
  /\ pc \in { "validate", "validated", "missing", "escalate", "notified" } =>
       ctx.extracted = << >>
  /\ pc \in { "analyze", "decide" } => ctx.extracted = db.extracted /\ pending = None
  /\ pending.state \in SettledState => pending.extracted = db.extracted

(* A human is told between two writes, which nothing but that run makes.   *)
HandoverInv ==
  /\ handovers \in { 0, 1 }
  /\ pc \in Running => handovers = (IF pc = "notified" THEN 1 ELSE 0)
  /\ pc \in { "escalate", "notified" } =>
       ctx.state = "TOOL_FAILED" /\ db.state = "TOOL_FAILED" /\ pending = None
  /\ handovers = 1 => /\ db.state \in { "TOOL_FAILED", "ESCALATED_TO_HUMAN" }
                      /\ pending.state \in { "none", "ESCALATED_TO_HUMAN" }

(* What a settled row says is an outcome that fits, durable or not yet.    *)
FitsInv ==
  \A c \in { db, pending } : c.state \in SettledState =>
    Lifecycle!Fits(c.state, application, { d \in Docs : HasEvidence(c, d) }, handovers > 0)

LifeInv ==
  /\ OpenInv /\ GrowthInv /\ FoundInv /\ HandoverInv /\ FitsInv /\ AuditNeverAhead

(* Without a fault the context is in the state its place requires, so that *)
(* every transition is one of the table, and nothing untrusted is found.   *)
FaultlessInv ==
  faults = 0 =>
    /\ pc \notin { "raised", "requeued", "down" } /\ pending = None
    /\ pc = "queued" => db = NewContext
    /\ pc = "missing" => ctx.state = "MISSING_INFORMATION"
    /\ pc \in { "verify", "document", "attempt", "caught" } => ctx.state = "VERIFYING"
    /\ pc \in { "returned", "idle" } => db.state \in SettledState
    /\ pc \in Running => \A i \in 1 .. Len(ctx.extracted) : ctx.extracted[i].trusted
=============================================================================
