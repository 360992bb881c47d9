-------------------------- MODULE LifecycleProofs --------------------------
(***************************************************************************)
(* The engine implements ApplicationLifecycle, for any number of           *)
(* documents, retries and faults; and what it promises about the audit     *)
(* trail, the hand-over to a human and what a row keeps.                   *)
(*                                                                         *)
(* LifeInv of WorkerEngineInvariants is proved on top of IInv, together    *)
(* with what a step may do to the committed row (RowStep).  Most steps are *)
(* of one of four kinds: in memory only, a transition of an open           *)
(* application, one that settles it, or the end of a run.                  *)
(***************************************************************************)
EXTENDS WorkerEngineProofs

(* All that happens to the committed row and the hand-over in one step.    *)
RowStep ==
  /\ UNCHANGED application
  /\ \/ UNCHANGED << db, handovers >>
     \/ db = None /\ db' = NewContext /\ UNCHANGED handovers
     \/ /\ db # None /\ db.state \notin SettledState
        /\ db' # None /\ Extends(db, db') /\ UNCHANGED handovers
        /\ db'.state \in SettledState => db'.extracted = db.extracted
     \/ /\ handovers = 0 /\ handovers' = 1 /\ UNCHANGED db
        /\ db # None /\ db.state \notin SettledState /\ application = "valid"
-----------------------------------------------------------------------------
(* The fields of a context, and of none.                                   *)
LEMMA ContextFields ==
  ASSUME NEW c \in MaybeContext
  PROVE  /\ c.extracted \in Seq(Evidence) /\ Len(c.extracted) \in Nat
         /\ c.retries \in Nat
         /\ c.state = "none" <=> c = None
         /\ c.state \in WorkflowState \cup { "none" }
<1>1. CASE c \in Context
  BY <1>1, SpecialContexts DEF Context, WorkflowState
<1>2. CASE c = None
  BY <1>2, SpecialContexts DEF None, NewContext
<1> QED BY <1>1, <1>2 DEF MaybeContext

(* What keeps the evidence, and the retries or more, extends.              *)
LEMMA SameEvidenceExtends ==
  ASSUME NEW old \in MaybeContext, NEW new \in MaybeContext,
         new.extracted = old.extracted, old.retries <= new.retries
  PROVE  Extends(old, new)
BY ContextFields DEF Extends, HasEvidence

LEMMA ExtendsItself == ASSUME NEW c \in MaybeContext PROVE Extends(c, c)
BY ContextFields, SameEvidenceExtends

LEMMA ExtendsTransitive ==
  ASSUME NEW a \in MaybeContext, NEW b \in MaybeContext, NEW c \in MaybeContext,
         Extends(a, b), Extends(b, c)
  PROVE  Extends(a, c)
BY ContextFields DEF Extends

LEMMA ExtendsNone == ASSUME NEW c \in MaybeContext PROVE Extends(None, c)
<1>1. None.extracted = << >> /\ None.retries = 0
  BY DEF None, NewContext
<1>2. \A d \in Docs : ~HasEvidence(None, d)
  BY <1>1 DEF HasEvidence
<1> QED BY <1>1, <1>2, ContextFields DEF Extends

(* The changes a run makes to its context extend it.                       *)
LEMMA ChangesExtend ==
  ASSUME NEW c \in Context
  PROVE  /\ Extends(c, CountRetry(c)) /\ CountRetry(c) \in Context
         /\ CountRetry(c).extracted = c.extracted /\ CountRetry(c).state = c.state
         /\ \A d \in Docs : Extends(c, WithEvidence(c, d)) /\ WithEvidence(c, d) \in Context
<1>1. /\ CountRetry(c) \in Context /\ CountRetry(c).extracted = c.extracted
      /\ CountRetry(c).state = c.state /\ CountRetry(c).retries = c.retries + 1
  BY ContextUpdates DEF CountRetry, Context
<1>2. Extends(c, CountRetry(c))
  BY <1>1, ContextFields, SameEvidenceExtends DEF MaybeContext
<1>3. ASSUME NEW d \in Docs
      PROVE  Extends(c, WithEvidence(c, d)) /\ WithEvidence(c, d) \in Context
  <2>1. WithEvidence(c, d).retries = c.retries
        /\ \A e \in Docs : HasEvidence(c, e) => HasEvidence(WithEvidence(c, d), e)
    BY EvidenceGrows
  <2>2. WithEvidence(c, d).extracted = Append(c.extracted, [ doc |-> d, trusted |-> TRUE ])
    BY DEF WithEvidence, Context
  <2>3. c.extracted \in Seq(Evidence) /\ [ doc |-> d, trusted |-> TRUE ] \in Evidence
    BY DEF Context, Evidence
  <2>4. Len(WithEvidence(c, d).extracted) = Len(c.extracted) + 1 /\ Len(c.extracted) \in Nat
    BY <2>2, <2>3
  <2>5. c.retries \in Nat /\ WithEvidence(c, d) \in Context
    BY ContextUpdates DEF Context
  <2> QED BY <2>1, <2>4, <2>5 DEF Extends
<1> QED BY <1>1, <1>2, <1>3

(* A context with a new state keeps the rest.                              *)
LEMMA NewState ==
  ASSUME NEW c \in Context, NEW s \in WorkflowState
  PROVE  LET new == [ c EXCEPT !.state = s ] IN
         /\ new \in Context /\ new # None /\ new.state = s
         /\ new.extracted = c.extracted /\ new.retries = c.retries
         /\ Extends(c, new)
<1> DEFINE new == [ c EXCEPT !.state = s ]
<1>1. /\ new \in Context /\ new # None /\ new.state = s
      /\ new.extracted = c.extracted /\ new.retries = c.retries
  <2>1. new \in Context
    BY ContextUpdates
  <2>2. /\ new.state = s /\ new.extracted = c.extracted /\ new.retries = c.retries
    BY DEF Context
  <2> HIDE DEF new
  <2> QED BY <2>1, <2>2, SpecialContexts
<1> HIDE DEF new
<1>2. Extends(c, new)
  BY <1>1, ContextFields, SameEvidenceExtends DEF MaybeContext
<1> QED BY <1>1, <1>2 DEF new

(* The outcomes of a transition of a run, with what it does to the trail.  *)
LEMMA TransitionAtWork ==
  ASSUME IInv, LifeInv, pc \in Running, NEW c \in Context, NEW s \in WorkflowState,
         NEW next, NEW handler, Transition(c, s, next, handler), Extends(ctx, c),
         NEW new, new = [ c EXCEPT !.state = s ]
  PROVE  /\ db \in MaybeContext /\ pending \in MaybeContext /\ ctx' \in Context
         /\ new \in Context /\ new # None /\ new.state = s /\ new.extracted = c.extracted
         /\ Extends(db, new) /\ Extends(db', ctx') /\ Extends(pending', ctx')
         /\ pending' # None => Extends(db', pending')
         /\ \/ /\ CanTransition(c.state, s) /\ db' = new /\ ctx' = new
               /\ pending' = None /\ pc' = next /\ trail' \in { trail, trail \cup { s } }
            \/ /\ CanTransition(c.state, s) /\ db' = db /\ trail' = trail
               /\ pending' \in { pending, new, None } /\ pc' = handler
            \/ /\ db' = db /\ pending' = pending /\ trail' = trail /\ pc' = handler
<1>1. db \in MaybeContext /\ pending \in MaybeContext /\ ctx \in Context
  BY ContextAtWork DEF IInv, TypeInv, TypeOK, MaybeContext
<1>2. /\ new \in Context /\ new # None /\ new.state = s /\ new.extracted = c.extracted
      /\ Extends(c, new)
  BY NewState
<1>3. Extends(db, ctx) /\ Extends(pending, ctx) /\ (pending # None => Extends(db, pending))
  BY DEF LifeInv, GrowthInv
<1>4. Extends(db, c) /\ Extends(pending, c)
  BY <1>1, <1>3, ExtendsTransitive DEF MaybeContext
<1>5. Extends(db, new) /\ Extends(pending, new)
  BY <1>1, <1>2, <1>4, ExtendsTransitive DEF MaybeContext
<1>6. Extends(new, new) /\ Extends(None, new) /\ Extends(None, c)
  BY <1>2, ExtendsItself, ExtendsNone DEF MaybeContext
<1>7. \/ /\ CanTransition(c.state, s) /\ db' = new /\ ctx' = new
         /\ pending' = None /\ pc' = next /\ trail' \in { trail, trail \cup { s } }
      \/ /\ CanTransition(c.state, s) /\ db' = db /\ ctx' = new /\ trail' = trail
         /\ pending' \in { pending, new, None } /\ pc' = handler
      \/ /\ db' = db /\ pending' = pending /\ ctx' = c /\ trail' = trail /\ pc' = handler
  BY DEF Transition, Save, SaveFails, RecordTransition
<1> QED BY <1>1, <1>2, <1>3, <1>4, <1>5, <1>6, <1>7
-----------------------------------------------------------------------------
(* A transition of an application that stays open.                         *)
LEMMA OpenTransition ==
  ASSUME IInv, LifeInv, pc \in Running \ { "notified" },
         NEW c \in Context, NEW s \in WorkflowState \ (SettledState \cup { "RECEIVED" }),
         NEW next \in { "validated", "missing", "verify", "retry", "attempt", "recaught",
                        "escalate", "analyze", "decide", "returned" },
         NEW handler \in { "raised", "caught" },
         Transition(c, s, next, handler), Extends(ctx, c), c.extracted = ctx.extracted,
         UNCHANGED << application, handovers >>,
         next \in { "validated", "missing", "escalate" } => ctx.extracted = << >>,
         next = "escalate" => s = "TOOL_FAILED",
         ctx.extracted # << >> /\ CanTransition(c.state, s) => application = "valid"
  PROVE  LifeInv' /\ RowStep
<1> DEFINE new == [ c EXCEPT !.state = s ]
<1>1. /\ db \in MaybeContext /\ pending \in MaybeContext /\ ctx' \in Context
      /\ new \in Context /\ new # None /\ new.state = s /\ new.extracted = c.extracted
      /\ Extends(db, new) /\ Extends(db', ctx') /\ Extends(pending', ctx')
      /\ pending' # None => Extends(db', pending')
      /\ \/ /\ CanTransition(c.state, s) /\ db' = new /\ ctx' = new
            /\ pending' = None /\ pc' = next /\ trail' \in { trail, trail \cup { s } }
         \/ /\ CanTransition(c.state, s) /\ db' = db /\ trail' = trail
            /\ pending' \in { pending, new, None } /\ pc' = handler
         \/ /\ db' = db /\ pending' = pending /\ trail' = trail /\ pc' = handler
  BY TransitionAtWork
<1> HIDE DEF new
<1>2. /\ db # None /\ db.state \notin SettledState /\ pending.state \notin SettledState
      /\ handovers = 0
  BY DEF LifeInv, OpenInv, HandoverInv
<1>3. /\ None.state \notin SettledState /\ None.state # "RECEIVED" /\ None.extracted = << >>
      /\ s \notin SettledState /\ s # "RECEIVED"
  BY SpecialContexts DEF SettledState
<1>4. db' # None /\ db'.state \notin SettledState /\ pending'.state \notin SettledState
  BY <1>1, <1>2, <1>3
<1>5. pc' \notin { "queued", "requeued", "unsubmitted", "down", "idle" }
  BY <1>1
<1>6. OpenInv'
  BY <1>4, <1>5 DEF OpenInv
<1>7. GrowthInv'
  BY <1>1 DEF GrowthInv
<1>8. FoundInv'
  <2>1. \A e \in { db', pending' } :
          e.extracted # << >> => application = "valid" /\ e.state # "RECEIVED"
    BY <1>1, <1>3 DEF LifeInv, FoundInv
  <2>2. pc' \in { "validated", "missing", "escalate" } => ctx'.extracted = << >>
    BY <1>1
  <2>3. pc' \in { "analyze", "decide" } => ctx'.extracted = db'.extracted /\ pending' = None
    BY <1>1
  <2>4. pc' \notin { "validate", "notified" }
    BY <1>1
  <2> QED BY <1>4, <2>1, <2>2, <2>3, <2>4 DEF FoundInv
<1>9. HandoverInv'
  <2>1. pc' # "notified"
    BY <1>1
  <2>2. pc' = "escalate" =>
          ctx'.state = "TOOL_FAILED" /\ db'.state = "TOOL_FAILED" /\ pending' = None
    BY <1>1
  <2> QED BY <1>2, <2>1, <2>2 DEF HandoverInv
<1>10. FitsInv'
  BY <1>4 DEF FitsInv
<1>11. AuditNeverAhead'
  <2>1. trail \cap SettledState = {}
    BY <1>2 DEF LifeInv, AuditNeverAhead
  <2> QED BY <1>1, <1>3, <2>1 DEF AuditNeverAhead
<1>12. RowStep
  BY <1>1, <1>2, <1>4 DEF RowStep
<1> QED BY <1>6, <1>7, <1>8, <1>9, <1>10, <1>11, <1>12 DEF LifeInv

(* A transition that settles the application.                              *)
LEMMA SettlingTransition ==
  ASSUME IInv, LifeInv, pc \in Running, NEW c \in Context, NEW s \in SettledState,
         Transition(c, s, "returned", "raised"), Extends(ctx, c),
         c.extracted = ctx.extracted, db.extracted = ctx.extracted,
         UNCHANGED << application, handovers >>,
         pc = "notified" => s = "ESCALATED_TO_HUMAN",
         CanTransition(c.state, s) =>
           Lifecycle!Fits(s, application, { d \in Docs : HasEvidence(c, d) }, handovers > 0)
  PROVE  LifeInv' /\ RowStep
<1> DEFINE new == [ c EXCEPT !.state = s ]
<1>0. s \in WorkflowState /\ s # "RECEIVED"
  BY DEF SettledState, WorkflowState
<1>1. /\ db \in MaybeContext /\ pending \in MaybeContext /\ ctx' \in Context
      /\ new \in Context /\ new # None /\ new.state = s /\ new.extracted = c.extracted
      /\ Extends(db, new) /\ Extends(db', ctx') /\ Extends(pending', ctx')
      /\ pending' # None => Extends(db', pending')
      /\ \/ /\ CanTransition(c.state, s) /\ db' = new /\ ctx' = new
            /\ pending' = None /\ pc' = "returned" /\ trail' \in { trail, trail \cup { s } }
         \/ /\ CanTransition(c.state, s) /\ db' = db /\ trail' = trail
            /\ pending' \in { pending, new, None } /\ pc' = "raised"
         \/ /\ db' = db /\ pending' = pending /\ trail' = trail /\ pc' = "raised"
  BY <1>0, TransitionAtWork
<1> HIDE DEF new
<1>2. /\ db # None /\ db.state \notin SettledState /\ pending.state \notin SettledState
      /\ handovers = (IF pc = "notified" THEN 1 ELSE 0)
  BY DEF LifeInv, OpenInv, HandoverInv
<1>3. None.state = "none" /\ "none" \notin SettledState /\ None.extracted = << >>
  BY SpecialContexts DEF SettledState
<1>4. db' # None /\ (db'.state \in SettledState => db' = new /\ pending' = None)
  BY <1>1, <1>2
<1>5. OpenInv'
  BY <1>1, <1>4 DEF OpenInv, Running, AtDocuments
<1>6. GrowthInv'
  BY <1>1 DEF GrowthInv
<1>7. FoundInv'
  <2>1. \A e \in { db', pending' } :
          e.extracted # << >> => application = "valid" /\ e.state # "RECEIVED"
    BY <1>0, <1>1, <1>3 DEF LifeInv, FoundInv
  <2>2. pending'.state \in SettledState => pending'.extracted = db'.extracted
    BY <1>1, <1>2, <1>3
  <2> QED BY <1>1, <2>1, <2>2 DEF FoundInv
<1>8. HandoverInv'
  BY <1>1, <1>2, <1>3 DEF LifeInv, HandoverInv, Running, AtDocuments
<1>9. FitsInv'
  <2>1. \A d \in Docs : HasEvidence(new, d) <=> HasEvidence(c, d)
    BY <1>1 DEF HasEvidence
  <2>2. { d \in Docs : HasEvidence(new, d) } = { d \in Docs : HasEvidence(c, d) }
    BY <2>1
  <2>3. \A e \in { db', pending' } : e.state \in SettledState =>
          e = new /\ CanTransition(c.state, s)
    BY <1>1, <1>2, <1>3
  <2> QED BY <1>1, <2>2, <2>3 DEF FitsInv
<1>10. AuditNeverAhead'
  <2>1. trail \cap SettledState = {}
    BY <1>2 DEF LifeInv, AuditNeverAhead
  <2> QED BY <1>1, <2>1 DEF AuditNeverAhead
<1>11. RowStep
  BY <1>1, <1>2, <1>4 DEF RowStep
<1> QED BY <1>5, <1>6, <1>7, <1>8, <1>9, <1>10, <1>11 DEF LifeInv

(* A step in memory of a run among the documents.                          *)
LEMMA InMemory ==
  ASSUME IInv, LifeInv, pc \in Running \ { "notified" }, pc' \in AtDocuments,
         UNCHANGED << application, db, pending, trail, handovers >>,
         ctx' \in Context, Extends(ctx, ctx')
  PROVE  LifeInv' /\ RowStep
<1>1. db \in MaybeContext /\ pending \in MaybeContext /\ ctx \in Context
  BY ContextAtWork DEF IInv, TypeInv, TypeOK, MaybeContext
<1>2. Extends(db, ctx') /\ Extends(pending, ctx')
  BY <1>1, ExtendsTransitive DEF LifeInv, GrowthInv, MaybeContext
<1>3. pc' \in Running /\ pc' \notin { "unsubmitted", "down", "idle", "queued", "requeued",
        "validate", "validated", "missing", "escalate", "notified", "analyze", "decide" }
  BY DEF Running, AtDocuments
<1>4. OpenInv'
  BY <1>3 DEF LifeInv, OpenInv
<1>5. GrowthInv'
  BY <1>2 DEF LifeInv, GrowthInv
<1>6. FoundInv'
  BY <1>3 DEF LifeInv, FoundInv
<1>7. HandoverInv'
  BY <1>3 DEF LifeInv, HandoverInv
<1>8. FitsInv'
  BY DEF LifeInv, FitsInv
<1>9. AuditNeverAhead' /\ RowStep
  BY DEF LifeInv, AuditNeverAhead, RowStep
<1> QED BY <1>4, <1>5, <1>6, <1>7, <1>8, <1>9 DEF LifeInv

(* A run that is over, or did not begin, and leaves the rows as they are.  *)
LEMMA Leaving ==
  ASSUME LifeInv, UNCHANGED << application, db, pending, trail, handovers >>,
         \/ pc' = "idle"
         \/ pc' \in { "returned", "raised" } /\ db # None
  PROVE  LifeInv' /\ RowStep
<1>1. pc' \notin Running \cup { "queued", "requeued", "unsubmitted", "down" }
  BY DEF Running, AtDocuments
<1>2. OpenInv'
  BY <1>1 DEF LifeInv, OpenInv
<1>3. GrowthInv' /\ FoundInv' /\ HandoverInv'
  BY <1>1 DEF LifeInv, GrowthInv, FoundInv, HandoverInv, Running, AtDocuments
<1>4. FitsInv' /\ AuditNeverAhead' /\ RowStep
  BY DEF LifeInv, FitsInv, AuditNeverAhead, RowStep
<1> QED BY <1>2, <1>3, <1>4 DEF LifeInv

(* A run that starts from the committed row.                               *)
LEMMA Starting ==
  ASSUME IInv, LifeInv, pc \in { "queued", "requeued" }, pc' = EntryPoint(db), ctx' = db,
         UNCHANGED << application, db, pending, trail, handovers >>
  PROVE  LifeInv' /\ RowStep
<1>1. /\ db # None /\ db \in MaybeContext /\ pending = None
      /\ db.state \in Recoverable /\ db.state \notin SettledState
  BY DEF LifeInv, OpenInv, IInv, TypeOK, MaybeContext
<1>2. handovers = 0
  BY <1>1 DEF LifeInv, HandoverInv, Recoverable
<1>3. (pc' = "validate" /\ db.state = "RECEIVED") \/ pc' = "verify"
  BY DEF EntryPoint
<1>4. OpenInv'
  BY <1>1, <1>3, SpecialContexts DEF OpenInv, SettledState
<1>5. GrowthInv'
  BY <1>1, ExtendsItself, ExtendsNone DEF GrowthInv
<1>6. FoundInv'
  BY <1>3 DEF LifeInv, FoundInv
<1>7. HandoverInv'
  BY <1>2, <1>3 DEF HandoverInv
<1>8. FitsInv' /\ AuditNeverAhead' /\ RowStep
  BY DEF LifeInv, FitsInv, AuditNeverAhead, RowStep
<1> QED BY <1>4, <1>5, <1>6, <1>7, <1>8 DEF LifeInv
-----------------------------------------------------------------------------
LEMMA InitLife == Init => LifeInv
<1> SUFFICES ASSUME Init PROVE LifeInv
  OBVIOUS
<1>1. None.state = "none" /\ None.extracted = << >> /\ "none" \notin SettledState
  BY SpecialContexts DEF SettledState
<1>2. OpenInv /\ GrowthInv /\ FoundInv /\ HandoverInv
  BY <1>1 DEF Init, OpenInv, GrowthInv, FoundInv, HandoverInv, Running, AtDocuments
<1>3. FitsInv /\ AuditNeverAhead
  BY <1>1 DEF Init, FitsInv, AuditNeverAhead
<1> QED BY <1>2, <1>3 DEF LifeInv

(* The request is written, at once, later, or not at all.                  *)
LEMMA SubmitLife ==
  ASSUME IInv, LifeInv, Submit
  PROVE  LifeInv' /\ RowStep
<1>1. /\ db = None /\ pending = None /\ pc = "unsubmitted"
      /\ UNCHANGED << application, ctx, trail, handovers >>
      /\ db' \in { None, NewContext } /\ pending' \in { None, NewContext }
      /\ pc' = "queued" => db' = NewContext /\ pending' = None
      /\ pc' \in { "queued", "idle" }
  BY DEF Submit, Save, SaveFails, local, LifeInv, OpenInv
<1>2. handovers = 0
  BY <1>1, SpecialContexts DEF LifeInv, HandoverInv
<1>3. /\ None.state = "none" /\ None.extracted = << >> /\ NewContext # None
      /\ NewContext.state = "RECEIVED" /\ NewContext.extracted = << >>
      /\ NewContext \in MaybeContext /\ None \in MaybeContext
      /\ "RECEIVED" \notin SettledState /\ "none" \notin SettledState
  BY SpecialContexts DEF NewContext, SettledState, MaybeContext
<1>4. OpenInv'
  BY <1>1, <1>3 DEF OpenInv, Recoverable, Running, AtDocuments
<1>5. GrowthInv'
  BY <1>1, <1>3, ExtendsItself, ExtendsNone DEF GrowthInv, Running, AtDocuments
<1>6. FoundInv' /\ HandoverInv'
  BY <1>1, <1>2, <1>3 DEF FoundInv, HandoverInv, Running, AtDocuments
<1>7. FitsInv'
  BY <1>1, <1>3 DEF FitsInv
<1>8. AuditNeverAhead'
  <2>1. trail \cap SettledState = {}
    BY <1>1, <1>3 DEF LifeInv, AuditNeverAhead
  <2> QED BY <1>1, <2>1 DEF AuditNeverAhead
<1>9. RowStep
  BY <1>1 DEF RowStep
<1> QED BY <1>4, <1>5, <1>6, <1>7, <1>8, <1>9 DEF LifeInv

(* The human is told: nothing else changes but the context.                *)
LEMMA CreateEscalationLife ==
  ASSUME IInv, LifeInv, CreateEscalation
  PROVE  LifeInv' /\ RowStep
<1>1. /\ pc = "escalate" /\ pc' = "notified" /\ handovers' = handovers + 1
      /\ UNCHANGED << application, db, pending, trail >>
      /\ ctx' = [ ctx EXCEPT !.decision = "ESCALATE_TO_HUMAN" ]
  BY DEF CreateEscalation
<1>2. /\ ctx \in Context /\ db \in MaybeContext /\ pending \in MaybeContext
      /\ ctx.state \in PastValidation => application = "valid"
  BY <1>1, OpenContextAtWork DEF IInv, TypeOK, MaybeContext, Running
<1>3. /\ handovers = 0 /\ ctx.state = "TOOL_FAILED" /\ db.state = "TOOL_FAILED"
      /\ pending = None /\ ctx.extracted = << >>
      /\ Extends(db, ctx) /\ db # None
  BY <1>1 DEF LifeInv, HandoverInv, FoundInv, GrowthInv, OpenInv, Running
<1>4. /\ ctx'.state = ctx.state /\ ctx'.extracted = ctx.extracted
      /\ ctx'.retries = ctx.retries /\ ctx' \in Context
  <2>1. ctx' \in Context
    BY <1>1, <1>2, ContextUpdates DEF FinalDecision
  <2>2. /\ ctx'.state = ctx.state /\ ctx'.extracted = ctx.extracted
        /\ ctx'.retries = ctx.retries
    BY <1>1, <1>2 DEF Context
  <2> QED BY <2>1, <2>2
<1>5. Extends(ctx, ctx')
  BY <1>2, <1>4, ContextFields, SameEvidenceExtends DEF MaybeContext
<1>6. Extends(db, ctx')
  BY <1>2, <1>3, <1>4, <1>5, ExtendsTransitive DEF MaybeContext
<1>7. None.state = "none" /\ db.state \notin SettledState /\ None.state \notin SettledState
  BY <1>3, SpecialContexts DEF SettledState
<1>8. OpenInv'
  BY <1>1, <1>3, <1>7 DEF OpenInv
<1>9. GrowthInv'
  BY <1>1, <1>3, <1>4, <1>6, ExtendsNone DEF GrowthInv, MaybeContext
<1>10. FoundInv'
  BY <1>1, <1>3, <1>4, <1>7 DEF LifeInv, FoundInv
<1>11. HandoverInv'
  BY <1>1, <1>3, <1>4, <1>7 DEF HandoverInv
<1>12. FitsInv' /\ AuditNeverAhead'
  BY <1>1, <1>3, <1>7 DEF LifeInv, FitsInv, AuditNeverAhead
<1>13. RowStep
  BY <1>1, <1>2, <1>3, <1>7 DEF RowStep, PastValidation
<1> QED BY <1>8, <1>9, <1>10, <1>11, <1>12, <1>13 DEF LifeInv

(* A write that was left behind becomes durable.                           *)
LEMMA CommitPendingLife ==
  ASSUME IInv, LifeInv, CommitPending
  PROVE  LifeInv' /\ RowStep
<1>1. /\ pc # "down" /\ pending # None /\ db' = pending /\ pending' = None
      /\ UNCHANGED << application, ctx, pc, trail, handovers >>
  BY DEF CommitPending, local
<1>2. db \in MaybeContext /\ pending \in MaybeContext
  BY DEF IInv, TypeOK, MaybeContext
<1>3. Extends(db, pending)
  BY <1>1 DEF LifeInv, GrowthInv
<1>4. db.state \notin SettledState /\ None.state = "none" /\ "none" \notin SettledState
      /\ None.extracted = << >>
  BY <1>1, SpecialContexts DEF LifeInv, OpenInv, SettledState
<1>5. db = None => pending = NewContext
  BY <1>1 DEF LifeInv, OpenInv
<1>6. OpenInv'
  BY <1>1, <1>4 DEF LifeInv, OpenInv
<1>7. GrowthInv'
  BY <1>1, <1>2, ExtendsNone, ContextAtWork
  DEF LifeInv, GrowthInv, IInv, TypeInv, MaybeContext
<1>8. FoundInv'
  <2>1. pc \notin { "analyze", "decide" }
    BY <1>1 DEF LifeInv, FoundInv
  <2> QED BY <1>1, <1>4, <2>1 DEF LifeInv, FoundInv
<1>9. HandoverInv'
  <2>1. pending.state # "none"
    BY <1>1, <1>2, ContextFields
  <2> QED BY <1>1, <1>4, <2>1 DEF LifeInv, HandoverInv
<1>10. FitsInv'
  BY <1>1, <1>4 DEF LifeInv, FitsInv
<1>11. AuditNeverAhead'
  BY <1>1, <1>4 DEF LifeInv, AuditNeverAhead
<1>12. RowStep
  BY <1>1, <1>3, <1>4, <1>5 DEF RowStep, LifeInv, FoundInv
<1> QED BY <1>6, <1>7, <1>8, <1>9, <1>10, <1>11, <1>12 DEF LifeInv

(* A crash leaves the committed row, from which a run goes on or does not. *)
LEMMA CrashLife ==
  ASSUME IInv, LifeInv, Crash \/ Restart
  PROVE  LifeInv' /\ RowStep
<1>1. /\ UNCHANGED << application, db, trail, handovers >>
      /\ pending' = None
      /\ \/ pc' = "down"
         \/ pc' = "idle"
         \/ pc' = "requeued" /\ db.state \in Recoverable
  BY DEF Crash, Restart, local, LifeInv, OpenInv
<1>2. /\ None.state = "none" /\ None.extracted = << >> /\ "none" \notin SettledState
      /\ "none" \notin Recoverable /\ Recoverable \cap SettledState = {}
  BY SpecialContexts DEF SettledState, Recoverable
<1>3. pc' \notin Running
  BY <1>1 DEF Running, AtDocuments
<1>4. OpenInv'
  BY <1>1, <1>2, <1>3 DEF OpenInv
<1>5. GrowthInv' /\ FoundInv' /\ HandoverInv'
  BY <1>1, <1>2, <1>3 DEF LifeInv, GrowthInv, FoundInv, HandoverInv, Running, AtDocuments
<1>6. FitsInv' /\ AuditNeverAhead' /\ RowStep
  BY <1>1, <1>2 DEF LifeInv, FitsInv, AuditNeverAhead, RowStep
<1> QED BY <1>4, <1>5, <1>6 DEF LifeInv

(* The first transition, and those on the result of the validation.        *)
LEMMA ValidationLife ==
  ASSUME IInv, LifeInv, StartValidation \/ Validate \/ RequestMissingFields
  PROVE  LifeInv' /\ RowStep
<1>1. /\ pc \in Running \ { "notified" } /\ ctx \in Context /\ ctx.extracted = << >>
      /\ Extends(ctx, ctx) /\ handovers = 0
      /\ UNCHANGED << application, handovers >>
  <2>1. pc \in { "validate", "validated", "missing" }
    BY DEF StartValidation, Validate, RequestMissingFields
  <2>2. pc \in Running \ { "notified" }
    BY <2>1 DEF Running
  <2> QED BY <2>1, <2>2, OpenContextAtWork, ExtendsItself
          DEF LifeInv, FoundInv, HandoverInv, MaybeContext,
              StartValidation, Validate, RequestMissingFields
<1>2. db.extracted = << >>
  <2>1. db \in MaybeContext /\ Len(db.extracted) <= Len(ctx.extracted)
    BY <1>1 DEF LifeInv, GrowthInv, Extends, IInv, TypeOK, MaybeContext
  <2>2. db.extracted \in Seq(Evidence)
    BY <2>1, ContextFields
  <2> QED BY <1>1, <2>1, <2>2
<1>3. { d \in Docs : HasEvidence(ctx, d) } = {}
  BY <1>1 DEF HasEvidence
<1>4. CASE StartValidation
  BY <1>1, <1>4, OpenTransition DEF StartValidation, WorkflowState, SettledState
<1>5. CASE application = "valid" /\ Transition(ctx, "VERIFYING", "verify", "raised")
  BY <1>1, <1>5, OpenTransition DEF WorkflowState, SettledState
<1>6. CASE application = "missing"
           /\ Transition([ ctx EXCEPT !.missing = TRUE ], "MISSING_INFORMATION",
                         "missing", "raised")
  <2> DEFINE c == [ ctx EXCEPT !.missing = TRUE ]
  <2>1. c \in Context
    BY <1>1, ContextUpdates
  <2>2. c.extracted = ctx.extracted /\ c.retries = ctx.retries
    BY <1>1 DEF Context
  <2> HIDE DEF c
  <2>3. Extends(ctx, c)
    BY <1>1, <2>1, <2>2, ContextFields, SameEvidenceExtends DEF MaybeContext
  <2>4. Transition(c, "MISSING_INFORMATION", "missing", "raised")
    BY <1>6 DEF c
  <2> QED BY <1>1, <2>1, <2>2, <2>3, <2>4, OpenTransition DEF WorkflowState, SettledState
<1>7. CASE pc = "validated" /\ application = "invalid" /\ Transition(ctx, "FAILED", "returned", "raised")
  <2>1. Lifecycle!Fits("FAILED", application, {}, handovers > 0)
    BY <1>7 DEF Lifecycle!Fits
  <2> QED BY <1>1, <1>2, <1>3, <1>7, <2>1, SettlingTransition DEF SettledState
<1>8. CASE RequestMissingFields
  <2>1. application = "missing" /\ pc = "missing"
    BY <1>8 DEF RequestMissingFields, IInv, StateInv
  <2>2. Lifecycle!Fits("MORE_INFORMATION_REQUIRED", application, {}, handovers > 0)
    BY <2>1 DEF Lifecycle!Fits
  <2> QED BY <1>1, <1>2, <1>3, <1>8, <2>1, <2>2, SettlingTransition
          DEF RequestMissingFields, SettledState
<1> QED BY <1>4, <1>5, <1>6, <1>7, <1>8 DEF Validate

(* What the loops over documents and attempts do in memory.                *)
LEMMA LoopLife ==
  ASSUME IInv, IInv', LifeInv,
         \/ StartVerification \/ ReuseDocument \/ StartExtraction \/ ExtractConfident
         \/ ExtractRaises \/ GiveUpDocument
         \/ /\ HandleError /\ attempt = MaxToolRetries - 1
  PROVE  LifeInv' /\ RowStep
<1>1. /\ pc \in Running \ { "notified" } /\ pc' \in AtDocuments
      /\ UNCHANGED << application, db, pending, trail, handovers >>
      /\ \/ ctx' = ctx
         \/ doc \in Docs /\ ctx' = WithEvidence(ctx, doc)
         \/ ctx' = CountRetry(ctx)
  <2>1. StartVerification \/ StartExtraction \/ ExtractRaises \/ GiveUpDocument =>
          /\ pc \in { "verify", "document", "attempt" }
          /\ pc' \in { "document", "attempt", "caught" } /\ ctx' = ctx
          /\ UNCHANGED << application, db, pending, trail, handovers >>
    BY DEF StartVerification, StartExtraction, ExtractRaises, GiveUpDocument, local
  <2>2. ReuseDocument \/ ExtractConfident =>
          /\ pc \in { "document", "attempt" } /\ pc' = "document"
          /\ doc \in Docs /\ ctx' = WithEvidence(ctx, doc)
          /\ UNCHANGED << application, db, pending, trail, handovers >>
    BY DEF ReuseDocument, ExtractConfident, IInv, TypeOK, ControlInv, AtOneDocument, AtDocuments
  <2>3. HandleError /\ attempt = MaxToolRetries - 1 =>
          /\ pc = "caught" /\ pc' = "attempt" /\ ctx' = CountRetry(ctx)
          /\ UNCHANGED << application, db, pending, trail, handovers >>
    BY DEF HandleError, IInv, TypeOK
  <2> QED BY <2>1, <2>2, <2>3 DEF Running, AtDocuments
<1>2. ctx \in Context
  BY <1>1, ContextAtWork DEF IInv, TypeInv
<1>3. ctx' \in Context /\ Extends(ctx, ctx')
  BY <1>1, <1>2, ChangesExtend, ExtendsItself DEF MaybeContext
<1> QED BY <1>1, <1>3, InMemory

(* The transitions of a retry, and the failure of all documents.           *)
LEMMA RetryLife ==
  ASSUME IInv, LifeInv,
         \/ ExtractWeak \/ RetryExtraction \/ RetryAfterError \/ AllDocumentsFailed
         \/ /\ HandleError /\ attempt # MaxToolRetries - 1
  PROVE  LifeInv' /\ RowStep
<1>1. \E c \in { ctx, CountRetry(ctx) }, s \in { "TOOL_RETRYING", "VERIFYING", "TOOL_FAILED" },
         next \in { "retry", "attempt", "recaught", "escalate" },
         handler \in { "raised", "caught" } :
        /\ pc \in AtDocuments /\ Transition(c, s, next, handler)
        /\ UNCHANGED << application, handovers >>
        /\ next = "escalate" => s = "TOOL_FAILED" /\ ctx.extracted = << >>
        /\ s = "VERIFYING" => ctx.state = "TOOL_RETRYING"
  <2>1. CASE ExtractWeak
    BY <2>1 DEF ExtractWeak, AtDocuments
  <2>2. CASE RetryExtraction
    BY <2>2 DEF RetryExtraction, AtDocuments, IInv, StateInv
  <2>3. CASE RetryAfterError
    BY <2>3 DEF RetryAfterError, AtDocuments, IInv, StateInv
  <2>4. CASE AllDocumentsFailed
    BY <2>4 DEF AllDocumentsFailed, AtDocuments
  <2>5. CASE HandleError /\ attempt # MaxToolRetries - 1
    BY <2>5 DEF HandleError, AtDocuments
  <2> QED BY <2>1, <2>2, <2>3, <2>4, <2>5
<1>2. PICK c \in { ctx, CountRetry(ctx) }, s \in { "TOOL_RETRYING", "VERIFYING", "TOOL_FAILED" },
         next \in { "retry", "attempt", "recaught", "escalate" },
         handler \in { "raised", "caught" } :
        /\ pc \in AtDocuments /\ Transition(c, s, next, handler)
        /\ UNCHANGED << application, handovers >>
        /\ next = "escalate" => s = "TOOL_FAILED" /\ ctx.extracted = << >>
        /\ s = "VERIFYING" => ctx.state = "TOOL_RETRYING"
  BY <1>1
<1>3. pc \in Running \ { "notified" }
  BY <1>2 DEF Running, AtDocuments
<1>4. ctx \in Context /\ (ctx.state \in PastValidation => application = "valid")
  BY <1>3, OpenContextAtWork
<1>5. c \in Context /\ Extends(ctx, c) /\ c.extracted = ctx.extracted /\ c.state = ctx.state
  BY <1>2, <1>4, ChangesExtend, ExtendsItself DEF MaybeContext
<1>6. CanTransition(c.state, s) => application = "valid"
  <2>1. s \in { "TOOL_RETRYING", "TOOL_FAILED" } /\ CanTransition(c.state, s) =>
          c.state \in PastValidation
    BY DEF CanTransition, ValidTransitions, PastValidation
  <2>2. s = "VERIFYING" => ctx.state \in PastValidation
    BY <1>2 DEF PastValidation
  <2> QED BY <1>2, <1>4, <1>5, <2>1, <2>2
<1>7. s \in WorkflowState \ (SettledState \cup { "RECEIVED" })
  BY DEF WorkflowState, SettledState
<1> QED BY <1>2, <1>3, <1>5, <1>6, <1>7, OpenTransition

(* The comparison, and the analysis on its result.                         *)
LEMMA AnalysisLife ==
  ASSUME IInv, LifeInv, CompareInformation \/ Analyze
  PROVE  LifeInv' /\ RowStep
<1>1. /\ pc \in Running \ { "notified" } /\ ctx \in Context
      /\ ctx.state \in PastValidation => application = "valid"
      /\ UNCHANGED << application, handovers >>
  <2>1. pc \in { "document", "analyze" } /\ UNCHANGED << application, handovers >>
    BY DEF CompareInformation, Analyze
  <2>2. pc \in Running \ { "notified" }
    BY <2>1 DEF Running, AtDocuments
  <2> QED BY <2>1, <2>2, OpenContextAtWork
<1>2. ASSUME NEW c \in Context, c.extracted = ctx.extracted, c.retries = ctx.retries,
             c.state = ctx.state,
             NEW s \in { "LOW_CONFIDENCE", "ANALYZING_RISK", "DECIDING" },
             NEW next \in { "returned", "analyze", "decide" },
             Transition(c, s, next, "raised")
      PROVE  LifeInv' /\ RowStep
  <2>1. Extends(ctx, c)
    BY <1>1, <1>2, ContextFields, SameEvidenceExtends DEF MaybeContext
  <2>2. CanTransition(c.state, s) => c.state \in PastValidation
    BY DEF CanTransition, ValidTransitions, PastValidation
  <2>3. s \in WorkflowState \ (SettledState \cup { "RECEIVED" })
    BY DEF WorkflowState, SettledState
  <2> QED BY <1>1, <1>2, <2>1, <2>2, <2>3, OpenTransition
<1>3. CASE CompareInformation
  <2>1. PICK m \in IF ctx.extracted = << >> THEN { 0 } ELSE Mismatches :
          \/ Transition([ [ ctx EXCEPT !.mismatches = m ] EXCEPT !.decision = "ESCALATE_TO_HUMAN" ],
                        "LOW_CONFIDENCE", "returned", "raised")
          \/ Transition([ ctx EXCEPT !.mismatches = m ], "ANALYZING_RISK", "analyze", "raised")
    BY <1>3 DEF CompareInformation
  <2>2. m \in Nat
    BY MismatchesAssumption
  <2> DEFINE c == [ ctx EXCEPT !.mismatches = m ]
             d == [ c EXCEPT !.decision = "ESCALATE_TO_HUMAN" ]
  <2>3. c \in Context /\ c.extracted = ctx.extracted /\ c.retries = ctx.retries
        /\ c.state = ctx.state
    <3>1. c \in Context
      BY <1>1, <2>2, ContextUpdates
    <3>2. c.extracted = ctx.extracted /\ c.retries = ctx.retries /\ c.state = ctx.state
      BY <1>1 DEF Context
    <3> QED BY <3>1, <3>2
  <2> HIDE DEF c
  <2>4. d \in Context /\ d.extracted = c.extracted /\ d.retries = c.retries
        /\ d.state = c.state
    <3>1. d \in Context
      BY <2>3, ContextUpdates DEF FinalDecision
    <3>2. d.extracted = c.extracted /\ d.retries = c.retries /\ d.state = c.state
      BY <2>3 DEF Context
    <3> QED BY <3>1, <3>2
  <2>5. \/ Transition(d, "LOW_CONFIDENCE", "returned", "raised")
        \/ Transition(c, "ANALYZING_RISK", "analyze", "raised")
    BY <2>1 DEF c, d
  <2> HIDE DEF d
  <2> QED BY <1>2, <2>3, <2>4, <2>5
<1>4. CASE Analyze
  <2>1. PICK risk \in RiskLevel, rec \in Recommendation :
          Transition([ ctx EXCEPT !.risk = risk, !.rec = rec ], "DECIDING", "decide", "raised")
    BY <1>4, PolicyTypes DEF Analyze
  <2> DEFINE c == [ ctx EXCEPT !.risk = risk, !.rec = rec ]
  <2>2. c \in Context
    BY <1>1, ContextUpdates
  <2>3. c.extracted = ctx.extracted /\ c.retries = ctx.retries /\ c.state = ctx.state
    BY <1>1 DEF Context
  <2>4. Transition(c, "DECIDING", "decide", "raised")
    BY <2>1
  <2> HIDE DEF c
  <2> QED BY <1>2, <2>2, <2>3, <2>4
<1> QED BY <1>3, <1>4

(* The decision, on evidence for every document or for a human.            *)
LEMMA DecideLife ==
  ASSUME IInv, IInv', LifeInv, Decide
  PROVE  LifeInv' /\ RowStep
<1>1. /\ pc = "decide" /\ pc \in Running /\ ctx \in Context /\ ctx.state = "DECIDING"
      /\ application = "valid" /\ UNCHANGED << application, handovers >>
      /\ db.extracted = ctx.extracted
  <2>1. pc = "decide" /\ pc \in Running /\ UNCHANGED << application, handovers >>
    BY DEF Decide, Running
  <2>2. ctx.state = "DECIDING" /\ db.extracted = ctx.extracted
    BY <2>1 DEF IInv, StateInv, LifeInv, FoundInv
  <2> QED BY <2>1, <2>2, OpenContextAtWork DEF PastValidation
<1> DEFINE decision == EnforcePolicy(ctx.rec, ctx.risk, ctx.extracted # << >>,
                                     ctx.missing, ctx.retries)
           c == [ ctx EXCEPT !.decision = decision ]
           s == DecidedState[decision]
<1>2. decision \in FinalDecision
  BY <1>1, PolicyTypes DEF IInv, ControlInv
<1>3. Transition(c, s, "returned", "raised")
  BY DEF Decide
<1> HIDE DEF decision
<1>4. /\ c \in Context /\ c.extracted = ctx.extracted /\ c.retries = ctx.retries
      /\ c.state = ctx.state
  <2>1. c \in Context
    BY <1>1, <1>2, ContextUpdates
  <2>2. c.extracted = ctx.extracted /\ c.retries = ctx.retries /\ c.state = ctx.state
    BY <1>1 DEF Context
  <2> QED BY <2>1, <2>2
<1>5. s \in { "APPROVED", "MORE_INFORMATION_REQUIRED", "ESCALATED", "REJECTED" }
  BY <1>2 DEF FinalDecision, DecidedState
<1> HIDE DEF c, s
<1>6. Extends(ctx, c)
  BY <1>1, <1>4, ContextFields, SameEvidenceExtends DEF MaybeContext
<1>7. CanTransition(c.state, s)
  BY <1>1, <1>4, <1>5 DEF CanTransition, ValidTransitions
<1>8. s # "ESCALATED" => { d \in Docs : HasEvidence(c, d) } = Docs
  <2> DEFINE new == [ c EXCEPT !.state = s ]
  <2>1. ctx' = new
    BY <1>3, <1>7, TransitionOutcomes
  <2>2. new.state = s /\ new.extracted = c.extracted
    BY <1>4 DEF Context
  <2> HIDE DEF new
  <2>3. GoodRow(application, new)
    BY <1>1, <2>1 DEF IInv, RowsInv
  <2>4. s # "ESCALATED" => \A d \in Docs : HasEvidence(new, d)
    BY <1>1, <1>5, <2>2, <2>3 DEF GoodRow
  <2> QED BY <2>2, <2>4 DEF HasEvidence
<1>9. Lifecycle!Fits(s, application, { d \in Docs : HasEvidence(c, d) }, handovers > 0)
  BY <1>1, <1>5, <1>8 DEF Lifecycle!Fits
<1>10. s \in SettledState
  BY <1>5 DEF SettledState
<1> QED BY <1>1, <1>3, <1>4, <1>6, <1>9, <1>10, SettlingTransition

(* The row follows what the human was told.                                *)
LEMMA EscalateToHumanLife ==
  ASSUME IInv, LifeInv, EscalateToHuman
  PROVE  LifeInv' /\ RowStep
<1>1. /\ pc = "notified" /\ pc \in Running
      /\ Transition(ctx, "ESCALATED_TO_HUMAN", "returned", "raised")
      /\ UNCHANGED << application, handovers >>
  BY DEF EscalateToHuman, Running
<1>2. /\ ctx \in Context /\ application = "valid" /\ handovers = 1
      /\ ctx.extracted = << >> /\ Extends(db, ctx) /\ db \in MaybeContext
  <2>1. ctx.state = "TOOL_FAILED" /\ handovers = 1 /\ ctx.extracted = << >> /\ Extends(db, ctx)
    BY <1>1 DEF LifeInv, HandoverInv, FoundInv, GrowthInv
  <2> QED BY <1>1, <2>1, OpenContextAtWork
          DEF PastValidation, IInv, TypeOK, MaybeContext
<1>3. db.extracted = << >>
  <2>1. db.extracted \in Seq(Evidence) /\ Len(db.extracted) <= 0
    BY <1>2, ContextFields DEF Extends
  <2> QED BY <2>1
<1>4. { d \in Docs : HasEvidence(ctx, d) } = {}
  BY <1>2 DEF HasEvidence
<1>5. Lifecycle!Fits("ESCALATED_TO_HUMAN", application, {}, handovers > 0)
  BY <1>2 DEF Lifecycle!Fits
<1>6. Extends(ctx, ctx)
  BY <1>2, ExtendsItself DEF MaybeContext
<1> QED BY <1>1, <1>2, <1>3, <1>4, <1>5, <1>6, SettlingTransition DEF SettledState
-----------------------------------------------------------------------------
LEMMA StepLife ==
  ASSUME IInv, IInv', LifeInv, [Next]_vars
  PROVE  LifeInv' /\ RowStep
<1>1. CASE Submit
  BY <1>1, SubmitLife
<1>2. CASE StartRun \/ RecoverRun
  <2>1. /\ pc \in { "queued", "requeued" } /\ ctx' = db
        /\ pc' \in { EntryPoint(db), "returned" }
        /\ UNCHANGED << application, db, pending, trail, handovers >>
    BY <1>2 DEF StartRun, RecoverRun
  <2>2. db # None
    BY <2>1 DEF LifeInv, OpenInv
  <2> QED BY <2>1, <2>2, Starting, Leaving
<1>3. CASE StartValidation \/ Validate \/ RequestMissingFields
  BY <1>3, ValidationLife
<1>4. CASE \/ StartVerification \/ ReuseDocument \/ StartExtraction \/ ExtractConfident
           \/ ExtractRaises \/ GiveUpDocument
  BY <1>4, LoopLife
<1>5. CASE HandleError
  BY <1>5, LoopLife, RetryLife
<1>6. CASE ExtractWeak \/ RetryExtraction \/ RetryAfterError \/ AllDocumentsFailed
  BY <1>6, RetryLife
<1>7. CASE CreateEscalation
  BY <1>7, CreateEscalationLife
<1>8. CASE EscalateToHuman
  BY <1>8, EscalateToHumanLife
<1>9. CASE CompareInformation \/ Analyze
  BY <1>9, AnalysisLife
<1>10. CASE Decide
  BY <1>10, DecideLife
<1>11. CASE EndRun
  BY <1>11, Leaving DEF EndRun
<1>12. CASE ReadFails
  <2>1. db # None
    BY <1>12 DEF ReadFails, LifeInv, OpenInv, Running
  <2> QED BY <1>12, <2>1, Leaving DEF ReadFails
<1>13. CASE CommitPending
  BY <1>13, CommitPendingLife
<1>14. CASE Crash \/ Restart
  BY <1>14, CrashLife
<1>15. CASE UNCHANGED vars
  <2>1. UNCHANGED << application, db, pending, ctx, pc, trail, handovers >>
    BY <1>15 DEF vars
  <2>2. OpenInv' /\ GrowthInv' /\ FoundInv'
    BY <2>1 DEF LifeInv, OpenInv, GrowthInv, FoundInv
  <2>3. HandoverInv' /\ FitsInv' /\ AuditNeverAhead' /\ RowStep
    BY <2>1 DEF LifeInv, HandoverInv, FitsInv, AuditNeverAhead, RowStep
  <2> QED BY <2>2, <2>3 DEF LifeInv
<1> QED BY <1>1, <1>2, <1>3, <1>4, <1>5, <1>6, <1>7, <1>8, <1>9, <1>10, <1>11, <1>12,
           <1>13, <1>14, <1>15
        DEF Next, EngineStep

(* What is settled is over, rows only grow, and outcomes fit, always.      *)
THEOREM LifeInvariance == Spec => [](IInv /\ LifeInv)
<1>1. IInv /\ LifeInv /\ IInv' /\ [Next]_vars => LifeInv'
  BY StepLife
<1> QED BY <1>1, InitLife, Invariance, PTL DEF Spec

(* Every step of the engine is, to the row, one of RowStep.                *)
THEOREM RowSteps == Spec => [][RowStep]_vars
<1>1. IInv /\ LifeInv /\ IInv' /\ [Next]_vars => RowStep
  BY StepLife
<1> QED BY <1>1, LifeInvariance, PTL DEF Spec
-----------------------------------------------------------------------------
(* The event of a final transition is in the trail only if that state is   *)
(* durable (engine.py 438-472).                                            *)
THEOREM AuditNotAhead == Spec => []AuditNeverAhead
<1>1. LifeInv => AuditNeverAhead
  BY DEF LifeInv
<1> QED BY <1>1, LifeInvariance, PTL

(* A human is told once, and before the row says so (engine.py 164-176).   *)
THEOREM HandoverOnce == Spec => []HandedOverOnce
<1>1. LifeInv => HandedOverOnce
  <2> SUFFICES ASSUME LifeInv PROVE HandedOverOnce
    OBVIOUS
  <2>1. handovers \in { 0, 1 }
    BY DEF LifeInv, HandoverInv
  <2>2. db.state = "ESCALATED_TO_HUMAN" => handovers > 0
    BY DEF LifeInv, FitsInv, SettledState, Lifecycle!Fits
  <2> QED BY <2>1, <2>2 DEF HandedOverOnce
<1> QED BY <1>1, LifeInvariance, PTL

(* Nothing takes evidence or counted retries out of the row, and a settled *)
(* row stays as it is (engine.py 438-472, store.py 41-92).                 *)
THEOREM RowKeepsAll == Spec => RowOnlyGrows
<1>1. IInv /\ RowStep => [ /\ db.state \in SettledState => db' = db
                           /\ Len(db.extracted) <= Len(db'.extracted)
                           /\ db.retries <= db'.retries
                           /\ \A d \in Docs : HasEvidence(db, d) => HasEvidence(db', d) ]_db
  <2> SUFFICES ASSUME IInv, RowStep, db' # db
               PROVE  /\ db.state \notin SettledState
                      /\ Extends(db, db')
    BY DEF Extends
  <2>1. CASE db = None /\ db' = NewContext
    <3>1. NewContext \in MaybeContext /\ None.state \notin SettledState
      BY SpecialContexts DEF MaybeContext, SettledState
    <3> QED BY <2>1, <3>1, ExtendsNone
  <2>2. CASE db.state \notin SettledState /\ Extends(db, db')
    BY <2>2
  <2> QED BY <2>1, <2>2 DEF RowStep
<1>2. UNCHANGED vars => UNCHANGED db
  BY DEF vars
<1> QED BY <1>1, <1>2, LifeInvariance, RowSteps, PTL DEF RowOnlyGrows

(* What the mapping makes of a row.                                        *)
LEMMA EvidenceOfNone ==
  /\ None.state = "none" /\ "none" \notin SettledState
  /\ { d \in Docs : HasEvidence(None, d) } = {}
  /\ NewContext # None /\ NewContext.state \notin SettledState
  /\ { d \in Docs : HasEvidence(NewContext, d) } = {}
<1>1. None.extracted = << >> /\ NewContext.extracted = << >> /\ NewContext.state = "RECEIVED"
  BY SpecialContexts DEF NewContext
<1>2. \A d \in Docs : ~HasEvidence(None, d) /\ ~HasEvidence(NewContext, d)
  BY <1>1 DEF HasEvidence
<1> QED BY <1>1, <1>2, SpecialContexts DEF SettledState

LEMMA InitLifecycle == Init => Lifecycle!Init
<1> SUFFICES ASSUME Init PROVE Lifecycle!Init
  OBVIOUS
<1> QED BY EvidenceOfNone DEF Init, Lifecycle!Init, Phase

(* One step of the row is one step of the lifecycle, or none.              *)
LEMMA StepLifecycle ==
  ASSUME IInv, LifeInv, LifeInv', IInv', RowStep
  PROVE  [Lifecycle!Next]_(Lifecycle!lifecycleVars)
<1> DEFINE ev == { d \in Docs : HasEvidence(db, d) }
           new == { d \in Docs : HasEvidence(db', d) }
           outcome == IF db.state \in SettledState THEN db.state ELSE "none"
           after == IF db'.state \in SettledState THEN db'.state ELSE "none"
<1>1. CASE UNCHANGED << db, handovers >>
  BY <1>1 DEF RowStep, Lifecycle!lifecycleVars, Phase
<1>2. CASE db = None /\ db' = NewContext /\ UNCHANGED handovers
  BY <1>2, EvidenceOfNone DEF RowStep, Lifecycle!Next, Lifecycle!Accept, Phase
<1>3. CASE /\ db # None /\ db.state \notin SettledState
           /\ db' # None /\ Extends(db, db') /\ UNCHANGED handovers
           /\ db'.state \notin SettledState
  <2>1. Phase = "open" /\ Phase' = "open" /\ outcome = "none" /\ after = "none"
    BY <1>3 DEF Phase
  <2>2. ev \subseteq new /\ new \subseteq Docs
    BY <1>3 DEF Extends
  <2>3. application = "valid" \/ new = ev
    <3>1. application = "valid" \/ db'.extracted = << >>
      BY DEF LifeInv, FoundInv, RowStep
    <3>2. db'.extracted = << >> => new = {}
      BY DEF HasEvidence
    <3> QED BY <2>2, <3>1, <3>2
  <2>4. UNCHANGED << application, handovers >>
    BY <1>3 DEF RowStep
  <2>5. CASE new = ev
    BY <2>1, <2>4, <2>5 DEF Lifecycle!lifecycleVars
  <2>6. CASE application = "valid"
    <3>1. new = ev \cup new
      BY <2>2
    <3> QED BY <2>1, <2>2, <2>4, <2>6, <3>1 DEF Lifecycle!Next, Lifecycle!Learn
  <2> QED BY <2>3, <2>5, <2>6
<1>4. CASE /\ db # None /\ db.state \notin SettledState
           /\ db' # None /\ db'.extracted = db.extracted /\ UNCHANGED handovers
           /\ db'.state \in SettledState
  <2>1. Phase = "open" /\ Phase' = "settled" /\ outcome = "none" /\ after = db'.state
    BY <1>4 DEF Phase
  <2>2. new = ev
    BY <1>4 DEF HasEvidence
  <2>3. UNCHANGED << application, handovers >>
    BY <1>4 DEF RowStep
  <2>4. Lifecycle!Fits(after, application, ev, handovers > 0)
    BY <1>4, <2>1, <2>2, <2>3 DEF LifeInv, FitsInv
  <2>5. after \in Lifecycle!Outcomes
    BY <1>4, <2>1 DEF Lifecycle!Outcomes, SettledState
  <2> QED BY <2>1, <2>2, <2>3, <2>4, <2>5 DEF Lifecycle!Next, Lifecycle!Settle
<1>5. CASE /\ handovers = 0 /\ handovers' = 1 /\ UNCHANGED db
           /\ db # None /\ db.state \notin SettledState /\ application = "valid"
  <2>1. Phase = "open" /\ Phase' = "open" /\ UNCHANGED application
    BY <1>5 DEF Phase, RowStep
  <2> QED BY <1>5, <2>1 DEF Lifecycle!Next, Lifecycle!NotifyHuman
<1> QED BY <1>1, <1>2, <1>3, <1>4, <1>5 DEF RowStep

(* The engine keeps what is promised about an application, whatever        *)
(* crashes, fails or is committed late (engine.py, main.py 42-172,         *)
(* store.py 41-92).                                                        *)
THEOREM EngineImplementsLifecycle == Spec => ImplementsLifecycle
<1>1. IInv /\ LifeInv /\ IInv' /\ LifeInv' /\ RowStep
        => [Lifecycle!Next]_(Lifecycle!lifecycleVars)
  BY StepLifecycle
<1>2. UNCHANGED vars => UNCHANGED Lifecycle!lifecycleVars
  BY DEF vars, Lifecycle!lifecycleVars, Phase
<1> QED BY <1>1, <1>2, InitLifecycle, LifeInvariance, RowSteps, PTL
        DEF ImplementsLifecycle, Lifecycle!Spec, Spec
-----------------------------------------------------------------------------
(* Without a fault a transition of the table is made, saved and final.     *)
LEMMA FaultlessTransition ==
  ASSUME IInv, faults' = 0, NEW c \in Context, NEW s \in WorkflowState,
         NEW next, NEW handler, Transition(c, s, next, handler),
         faults = 0 => CanTransition(c.state, s)
  PROVE  /\ faults = 0 /\ pc' = next /\ pending' = None /\ db' = ctx'
         /\ ctx'.state = s /\ ctx'.extracted = c.extracted
<1>1. faults \in Nat
  BY MaxFaultsAssumption DEF IInv, TypeOK
<1>2. faults = 0
  BY <1>1 DEF Transition, Save, SaveFails, Fault
<1>3. /\ [ c EXCEPT !.state = s ].state = s
      /\ [ c EXCEPT !.state = s ].extracted = c.extracted
  BY DEF Context
<1>4. ~Fault
  BY <1>1 DEF Fault
<1>5. /\ pc' = next /\ pending' = None
      /\ db' = [ c EXCEPT !.state = s ] /\ ctx' = [ c EXCEPT !.state = s ]
  BY <1>2, <1>4 DEF Transition, Save, SaveFails
<1> QED BY <1>2, <1>3, <1>5

(* Such a transition leaves the handler where the next one is of the table.*)
LEMMA FaultlessMove ==
  ASSUME IInv, FaultlessInv, faults' = 0, pc \in Running,
         NEW c \in Context, c.extracted = ctx.extracted,
         NEW s \in WorkflowState,
         NEW next \in { "validated", "missing", "verify", "retry", "attempt", "recaught",
                        "escalate", "analyze", "decide", "returned" },
         NEW handler, Transition(c, s, next, handler),
         faults = 0 => CanTransition(c.state, s),
         next = "missing" => s = "MISSING_INFORMATION",
         next \in { "verify", "attempt" } => s = "VERIFYING",
         next = "returned" => s \in SettledState
  PROVE  FaultlessInv'
<1>1. /\ faults = 0 /\ pc' = next /\ pending' = None /\ db' = ctx'
      /\ ctx'.state = s /\ ctx'.extracted = ctx.extracted
  BY FaultlessTransition
<1>2. \A i \in 1 .. Len(ctx'.extracted) : ctx'.extracted[i].trusted
  BY <1>1 DEF FaultlessInv
<1> QED BY <1>1, <1>2 DEF FaultlessInv

(* What the faultless handler does with the documents.                     *)
LEMMA FaultlessDocuments ==
  ASSUME IInv, LifeInv, FaultlessInv, faults' = 0,
         \/ StartVerification \/ ReuseDocument \/ StartExtraction \/ ExtractConfident
         \/ ExtractWeak \/ RetryExtraction \/ ExtractRaises \/ HandleError
         \/ RetryAfterError \/ GiveUpDocument
  PROVE  FaultlessInv'
<1>1. pc \in Running /\ ctx \in Context
  <2>1. pc \in Running
    BY DEF StartVerification, ReuseDocument, StartExtraction, ExtractConfident,
           ExtractWeak, RetryExtraction, ExtractRaises, HandleError, RetryAfterError,
           GiveUpDocument, Running, AtDocuments
  <2> QED BY <2>1, OpenContextAtWork
<1>2. CountRetry(ctx) \in Context /\ CountRetry(ctx).extracted = ctx.extracted
      /\ CountRetry(ctx).state = ctx.state
  BY <1>1, ChangesExtend
<1>3. "TOOL_RETRYING" \in WorkflowState /\ "VERIFYING" \in WorkflowState
  BY DEF WorkflowState
<1>4. CASE StartVerification \/ StartExtraction \/ ExtractRaises \/ GiveUpDocument
  BY <1>1, <1>4 DEF StartVerification, StartExtraction, ExtractRaises, GiveUpDocument,
                    FaultlessInv, Running, AtDocuments, local
<1>5. CASE ReuseDocument \/ ExtractConfident
  <2>1. /\ ctx' = WithEvidence(ctx, doc) /\ pc' = "document" /\ faults = 0
        /\ pc \in { "document", "attempt" } /\ UNCHANGED << db, pending >>
    BY <1>5 DEF ReuseDocument, ExtractConfident
  <2>2. ctx'.state = ctx.state
        /\ ctx'.extracted = Append(ctx.extracted, [ doc |-> doc, trusted |-> TRUE ])
    BY <1>1, <2>1 DEF WithEvidence, Context
  <2>3. ctx.extracted \in Seq(Evidence)
    BY <1>1 DEF Context
  <2>4. \A i \in 1 .. Len(ctx.extracted) : ctx.extracted[i].trusted
    BY <1>1, <2>1 DEF FaultlessInv
  <2>5. \A i \in 1 .. Len(ctx'.extracted) : ctx'.extracted[i].trusted
    <3> DEFINE e == [ doc |-> doc, trusted |-> TRUE ]
    <3>1. e.trusted
      OBVIOUS
    <3> HIDE DEF e
    <3>2. Len(Append(ctx.extracted, e)) = Len(ctx.extracted) + 1
          /\ Len(ctx.extracted) \in Nat
          /\ \A i \in 1 .. Len(ctx.extracted) : Append(ctx.extracted, e)[i] = ctx.extracted[i]
          /\ Append(ctx.extracted, e)[Len(ctx.extracted) + 1] = e
      BY <2>3
    <3>3. ctx'.extracted = Append(ctx.extracted, e)
      BY <2>2 DEF e
    <3>4. ASSUME NEW i \in 1 .. Len(ctx'.extracted)
          PROVE  ctx'.extracted[i].trusted
      <4>1. CASE i \in 1 .. Len(ctx.extracted)
        BY <2>4, <3>2, <3>3, <4>1
      <4>2. CASE i = Len(ctx.extracted) + 1
        BY <3>1, <3>2, <3>3, <4>2
      <4> QED BY <3>2, <3>3, <4>1, <4>2
    <3> QED BY <3>4
  <2>6. pending = None /\ ctx'.state = "VERIFYING"
    BY <2>1, <2>2 DEF FaultlessInv
  <2> QED BY <2>1, <2>5, <2>6 DEF FaultlessInv
<1>6. CASE ExtractWeak
  <2>1. faults = 0 => CanTransition(CountRetry(ctx).state, "TOOL_RETRYING")
    BY <1>2, <1>6 DEF ExtractWeak, FaultlessInv, CanTransition, ValidTransitions
  <2> QED BY <1>1, <1>2, <1>3, <1>6, <2>1, FaultlessMove DEF ExtractWeak
<1>7. CASE RetryExtraction \/ RetryAfterError
  <2>1. CanTransition(ctx.state, "VERIFYING")
    BY <1>7 DEF RetryExtraction, RetryAfterError, IInv, StateInv, CanTransition,
                ValidTransitions
  <2> QED BY <1>1, <1>3, <1>7, <2>1, FaultlessMove DEF RetryExtraction, RetryAfterError
<1>8. CASE HandleError
  <2>1. CASE Transition(CountRetry(ctx), "TOOL_RETRYING", "recaught", "raised")
    <3>1. faults = 0 => CanTransition(CountRetry(ctx).state, "TOOL_RETRYING")
      BY <1>2, <1>8 DEF HandleError, FaultlessInv, CanTransition, ValidTransitions
    <3> QED BY <1>1, <1>2, <1>3, <2>1, <3>1, FaultlessMove
  <2>2. CASE /\ pc = "caught" /\ ctx' = CountRetry(ctx) /\ pc' = "attempt"
             /\ UNCHANGED << db, pending, faults >>
    BY <1>1, <1>2, <2>2 DEF FaultlessInv
  <2> QED BY <1>8, <2>1, <2>2 DEF HandleError
<1> QED BY <1>4, <1>5, <1>6, <1>7, <1>8

(* What it does before and after them.                                     *)
LEMMA FaultlessTransitions ==
  ASSUME IInv, LifeInv, FaultlessInv, faults' = 0,
         \/ StartValidation \/ Validate \/ RequestMissingFields
         \/ AllDocumentsFailed \/ EscalateToHuman \/ CompareInformation
         \/ Analyze \/ Decide
  PROVE  FaultlessInv'
<1>1. pc \in Running /\ ctx \in Context
  <2>1. pc \in Running
    BY DEF StartValidation, Validate, RequestMissingFields, AllDocumentsFailed,
           EscalateToHuman, CompareInformation, Analyze, Decide, Running, AtDocuments
  <2> QED BY <2>1, OpenContextAtWork
<1>2. { "VALIDATING", "VERIFYING", "MISSING_INFORMATION", "FAILED", "TOOL_FAILED",
        "MORE_INFORMATION_REQUIRED", "ESCALATED_TO_HUMAN", "LOW_CONFIDENCE",
        "ANALYZING_RISK", "DECIDING" } \subseteq WorkflowState
      /\ { "FAILED", "MORE_INFORMATION_REQUIRED", "ESCALATED_TO_HUMAN" } \subseteq SettledState
  BY DEF WorkflowState, SettledState
<1>3. CASE StartValidation
  <2>1. CanTransition(ctx.state, "VALIDATING")
    BY <1>3 DEF StartValidation, IInv, StateInv, CanTransition, ValidTransitions
  <2> QED BY <1>1, <1>2, <1>3, <2>1, FaultlessMove DEF StartValidation
<1>4. CASE Validate
  <2>1. ctx.state = "VALIDATING"
    BY <1>4 DEF Validate, IInv, StateInv
  <2>2. CASE Transition(ctx, "VERIFYING", "verify", "raised")
    <3>1. CanTransition(ctx.state, "VERIFYING")
      BY <2>1 DEF CanTransition, ValidTransitions
    <3> QED BY <1>1, <1>2, <2>2, <3>1, FaultlessMove
  <2>3. CASE Transition([ ctx EXCEPT !.missing = TRUE ], "MISSING_INFORMATION",
                        "missing", "raised")
    <3> DEFINE c == [ ctx EXCEPT !.missing = TRUE ]
    <3>1. c \in Context
      BY <1>1, ContextUpdates
    <3>2. c.extracted = ctx.extracted /\ c.state = ctx.state
      BY <1>1 DEF Context
    <3>3. Transition(c, "MISSING_INFORMATION", "missing", "raised")
      BY <2>3
    <3> HIDE DEF c
    <3>4. CanTransition(c.state, "MISSING_INFORMATION")
      BY <2>1, <3>2 DEF CanTransition, ValidTransitions
    <3> QED BY <1>1, <1>2, <3>1, <3>2, <3>3, <3>4, FaultlessMove
  <2>4. CASE Transition(ctx, "FAILED", "returned", "raised")
    <3>1. CanTransition(ctx.state, "FAILED")
      BY <2>1 DEF CanTransition, ValidTransitions
    <3> QED BY <1>1, <1>2, <2>4, <3>1, FaultlessMove
  <2> QED BY <1>4, <2>2, <2>3, <2>4 DEF Validate
<1>5. CASE RequestMissingFields
  <2>1. faults = 0 => CanTransition(ctx.state, "MORE_INFORMATION_REQUIRED")
    BY <1>5 DEF RequestMissingFields, FaultlessInv, CanTransition, ValidTransitions
  <2> QED BY <1>1, <1>2, <1>5, <2>1, FaultlessMove DEF RequestMissingFields
<1>6. CASE AllDocumentsFailed
  <2>1. faults = 0 => CanTransition(ctx.state, "TOOL_FAILED")
    BY <1>6 DEF AllDocumentsFailed, FaultlessInv, CanTransition, ValidTransitions
  <2> QED BY <1>1, <1>2, <1>6, <2>1, FaultlessMove DEF AllDocumentsFailed
<1>7. CASE EscalateToHuman
  <2>1. ctx.state = "TOOL_FAILED"
    BY <1>7 DEF EscalateToHuman, LifeInv, HandoverInv
  <2>2. CanTransition(ctx.state, "ESCALATED_TO_HUMAN")
    BY <2>1 DEF CanTransition, ValidTransitions
  <2> QED BY <1>1, <1>2, <1>7, <2>2, FaultlessMove DEF EscalateToHuman
<1>8. CASE CompareInformation
  <2>1. PICK m \in Mismatches \cup { 0 } :
          LET compared == [ ctx EXCEPT !.mismatches = m ]
              lowConfidence == \E i \in 1 .. Len(ctx.extracted) :
                                  ~ctx.extracted[i].trusted
          IN  IF lowConfidence /\ ctx.retries >= MaxToolRetries
              THEN Transition([ compared EXCEPT !.decision = "ESCALATE_TO_HUMAN" ],
                              "LOW_CONFIDENCE", "returned", "raised")
              ELSE Transition(compared, "ANALYZING_RISK", "analyze", "raised")
    BY <1>8 DEF CompareInformation
  <2>2. faults = 0
    BY <2>1, MaxFaultsAssumption DEF Transition, Save, SaveFails, Fault, IInv, TypeOK
  <2>3. \A i \in 1 .. Len(ctx.extracted) : ctx.extracted[i].trusted
    BY <1>1, <2>2 DEF FaultlessInv
  <2> DEFINE c == [ ctx EXCEPT !.mismatches = m ]
  <2>4. Transition(c, "ANALYZING_RISK", "analyze", "raised")
    BY <2>1, <2>3
  <2>5. c \in Context /\ c.extracted = ctx.extracted /\ c.state = ctx.state
    <3>1. m \in Nat
      BY MismatchesAssumption
    <3> QED BY <1>1, <3>1, ContextUpdates DEF Context
  <2> HIDE DEF c
  <2>6. ctx.state = "VERIFYING"
    BY <1>8, <2>2 DEF CompareInformation, FaultlessInv
  <2>7. CanTransition(c.state, "ANALYZING_RISK")
    BY <2>5, <2>6 DEF CanTransition, ValidTransitions
  <2> QED BY <1>1, <1>2, <2>4, <2>5, <2>7, FaultlessMove
<1>9. CASE Analyze
  <2>1. PICK risk \in RiskLevel, rec \in Recommendation :
          Transition([ ctx EXCEPT !.risk = risk, !.rec = rec ], "DECIDING", "decide", "raised")
    BY <1>9, PolicyTypes DEF Analyze
  <2> DEFINE c == [ ctx EXCEPT !.risk = risk, !.rec = rec ]
  <2>2. c \in Context /\ c.extracted = ctx.extracted /\ c.state = ctx.state
    BY <1>1, ContextUpdates DEF Context
  <2>3. Transition(c, "DECIDING", "decide", "raised")
    BY <2>1
  <2> HIDE DEF c
  <2>4. CanTransition(c.state, "DECIDING")
    BY <1>9, <2>2 DEF Analyze, IInv, StateInv, CanTransition, ValidTransitions
  <2> QED BY <1>1, <1>2, <2>2, <2>3, <2>4, FaultlessMove
<1>10. CASE Decide
  <2>1. PICK decision \in FinalDecision :
          Transition([ ctx EXCEPT !.decision = decision ], DecidedState[decision],
                     "returned", "raised")
    <3>1. ctx.rec \in Recommendation
      BY <1>10 DEF Decide, IInv, ControlInv
    <3> QED BY <1>10, <3>1, PolicyTypes DEF Decide
  <2>2. /\ DecidedState[decision] \in SettledState
        /\ DecidedState[decision] \in WorkflowState
        /\ CanTransition("DECIDING", DecidedState[decision])
    BY DEF DecidedState, FinalDecision, SettledState, WorkflowState, CanTransition,
           ValidTransitions
  <2> DEFINE c == [ ctx EXCEPT !.decision = decision ]
  <2>3. c \in Context /\ c.extracted = ctx.extracted /\ c.state = ctx.state
    BY <1>1, ContextUpdates DEF Context
  <2>4. Transition(c, DecidedState[decision], "returned", "raised")
    BY <2>1
  <2> HIDE DEF c
  <2>5. CanTransition(c.state, DecidedState[decision])
    BY <1>10, <2>2, <2>3 DEF Decide, IInv, StateInv
  <2> QED BY <1>1, <2>2, <2>3, <2>4, <2>5, FaultlessMove
<1> QED BY <1>3, <1>4, <1>5, <1>6, <1>7, <1>8, <1>9, <1>10

LEMMA StepFaultless ==
  ASSUME IInv, LifeInv, FaultlessInv, [Next]_vars
  PROVE  FaultlessInv'
<1> SUFFICES ASSUME faults' = 0 PROVE FaultlessInv'
  BY DEF FaultlessInv
<1>1. faults \in Nat /\ None.state = "none" /\ NewContext.state = "RECEIVED"
      /\ NewContext.extracted = << >>
  BY SpecialContexts, MaxFaultsAssumption DEF IInv, TypeOK, NewContext
<1>2. CASE Submit
  BY <1>1, <1>2 DEF Submit, Save, SaveFails, Fault, LifeInv, OpenInv, FaultlessInv, Running,
                    AtDocuments
<1>3. CASE StartRun
  <2>1. faults = 0 /\ db = NewContext /\ pending = None
    BY <1>3 DEF StartRun, FaultlessInv
  <2>2. pc' = "validate" /\ ctx' = NewContext
    BY <1>1, <1>3, <2>1 DEF StartRun, EntryPoint, Resumable
  <2> QED BY <1>1, <1>3, <2>1, <2>2 DEF StartRun, FaultlessInv
<1>4. CASE RecoverRun
  BY <1>4 DEF RecoverRun, FaultlessInv
<1>5. CASE StartValidation \/ Validate \/ RequestMissingFields \/ AllDocumentsFailed
           \/ EscalateToHuman \/ CompareInformation \/ Analyze \/ Decide
  BY <1>5, FaultlessTransitions
<1>6. CASE StartVerification \/ ReuseDocument \/ StartExtraction \/ ExtractConfident
           \/ ExtractWeak \/ RetryExtraction \/ ExtractRaises \/ HandleError
           \/ RetryAfterError \/ GiveUpDocument
  BY <1>6, FaultlessDocuments
<1>7. CASE CreateEscalation
  <2>1. ctx \in Context
    BY <1>7, OpenContextAtWork DEF CreateEscalation, Running
  <2>2. ctx'.extracted = ctx.extracted
    BY <1>7, <2>1 DEF CreateEscalation, Context
  <2> QED BY <1>7, <2>2 DEF CreateEscalation, FaultlessInv, Running
<1>8. CASE EndRun
  BY <1>8 DEF EndRun, FaultlessInv, Running, AtDocuments
<1>9. CASE ReadFails \/ Crash
  BY <1>1, <1>9 DEF ReadFails, Crash, Fault
<1>10. CASE CommitPending \/ Restart
  BY <1>1, <1>10 DEF CommitPending, Restart, Fault, FaultlessInv
<1>11. CASE UNCHANGED vars
  BY <1>11 DEF vars, local, FaultlessInv
<1> QED BY <1>2, <1>3, <1>4, <1>5, <1>6, <1>7, <1>8, <1>9, <1>10, <1>11
        DEF Next, EngineStep

(* Without a fault no run ends before its application is settled: no       *)
(* choice of fields, outcomes or documents makes the engine raise          *)
(* (engine.py 59-436).                                                     *)
THEOREM FaultsStrand == Spec => []OnlyFaultsStrand
<1>1. Init => FaultlessInv
  BY DEF Init, FaultlessInv, Running, AtDocuments
<1>2. IInv /\ LifeInv /\ FaultlessInv /\ [Next]_vars => FaultlessInv'
  BY StepFaultless
<1>3. FaultlessInv => OnlyFaultsStrand
  BY DEF FaultlessInv, OnlyFaultsStrand
<1> QED BY <1>1, <1>2, <1>3, LifeInvariance, PTL DEF Spec
=============================================================================
