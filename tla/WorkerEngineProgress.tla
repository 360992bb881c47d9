------------------------ MODULE WorkerEngineProgress ------------------------
(***************************************************************************)
(* How long a run can be.  Every step of the engine, of a failing write or *)
(* of a late commit brings the run nearer to its end, for any number of    *)
(* documents, any retry limit and any faults: what RunsEnd needs besides   *)
(* the fairness of the event loop.                                         *)
(***************************************************************************)
EXTENDS WorkerEngineProofs

USE NumDocsAssumption, MaxToolRetriesAssumption

(* An attempt takes four steps at most: it is weak, going back fails, the  *)
(* failure is handled, and going back succeeds.  The first attempt takes   *)
(* one step to begin, and the document one to be given up.                 *)
StepsPerDocument == 4 * MaxToolRetries + 2

StepsForDocuments(n) == n * StepsPerDocument

(* What the run still has to do, with document d at attempt a: first the   *)
(* places behind the loops, then those in them, then those before them.    *)
AfterDocument(d) == StepsForDocuments(NumDocs - d) + 5

AttemptsFrom(a) == 4 * (MaxToolRetries - a)

StepsAt(place, d, a) ==
  CASE place = "down"                                -> 0
    [] place = "idle"                                -> 1
    [] place \in { "returned", "raised" }            -> 2
    [] place \in { "decide", "notified", "missing" } -> 3
    [] place \in { "analyze", "escalate" }           -> 4
    [] place = "document"  -> StepsForDocuments(NumDocs + 1 - d) + 5
    [] place = "recaught"  -> AfterDocument(d) + AttemptsFrom(a) - 2
    [] place = "caught"    -> AfterDocument(d) + AttemptsFrom(a) - 1
    [] place = "retry"     -> AfterDocument(d) + AttemptsFrom(a)
    [] place = "attempt"   -> AfterDocument(d) + AttemptsFrom(a) + 1
    [] place = "verify"    -> StepsForDocuments(NumDocs) + 6
    [] place = "validated" -> StepsForDocuments(NumDocs) + 7
    [] place = "validate"  -> StepsForDocuments(NumDocs) + 8
    [] place \in { "queued", "requeued" } -> StepsForDocuments(NumDocs) + 9
    [] place = "unsubmitted" -> StepsForDocuments(NumDocs) + 10

StepsLeft == StepsAt(pc, doc, attempt)

(* With the commits by others of a write that was left behind: one such    *)
(* write comes of each step at most.                                       *)
Left == 2 * StepsLeft + (IF pending = None THEN 0 ELSE 1)

RunBound == 2 * (StepsForDocuments(NumDocs) + 10) + 1

LeftBounded == Left \in 0 .. RunBound

(* Whatever fails and whatever is read, every step but the restart of the  *)
(* process brings the run nearer to its end: no pair of states sends the   *)
(* handler around, and no retry is without its count                       *)
(* (engine.py 59-87, 126-203, 230-327).                                    *)
RunGetsOn == [][ Left' < Left \/ Restart ]_vars
-----------------------------------------------------------------------------
(* The steps of some documents, and of one more.                           *)
LEMMA DocumentSteps ==
  /\ StepsPerDocument \in Nat
  /\ \A n \in Nat :
       /\ StepsForDocuments(n) \in Nat
       /\ StepsForDocuments(n + 1) = StepsForDocuments(n) + StepsPerDocument
  /\ \A m, n \in Nat : m <= n => StepsForDocuments(m) <= StepsForDocuments(n)
<1>1. StepsPerDocument \in Nat
  BY DEF StepsPerDocument
<1>2. ASSUME NEW p \in Nat, NEW n \in Nat
      PROVE  n * p \in Nat /\ (n + 1) * p = n * p + p
  BY <1>2
<1>3. ASSUME NEW p \in Nat, NEW m \in Nat, NEW n \in Nat, m <= n
      PROVE  m * p <= n * p
  BY <1>3
<1>. QED  BY <1>1, <1>2, <1>3 DEF StepsForDocuments

(* What is left does not depend on the documents anywhere else, and is     *)
(* less at every place further on.                                         *)
LEMMA StepsElsewhere ==
  ASSUME NEW d, NEW a
  PROVE  LET all == StepsForDocuments(NumDocs) IN
         /\ all \in Nat
         /\ StepsAt("down", d, a) = 0 /\ StepsAt("idle", d, a) = 1
         /\ \A p \in { "returned", "raised" } : StepsAt(p, d, a) = 2
         /\ \A p \in { "decide", "notified", "missing" } : StepsAt(p, d, a) = 3
         /\ \A p \in { "analyze", "escalate" } : StepsAt(p, d, a) = 4
         /\ StepsAt("document", NumDocs + 1, a) = 5
         /\ StepsAt("document", 1, a) = all + 5
         /\ StepsAt("verify", d, a) = all + 6
         /\ StepsAt("validated", d, a) = all + 7
         /\ StepsAt("validate", d, a) = all + 8
         /\ \A p \in { "queued", "requeued" } : StepsAt(p, d, a) = all + 9
         /\ StepsAt("unsubmitted", d, a) = all + 10
<1>1. StepsForDocuments(NumDocs) \in Nat
  BY DocumentSteps
<1>2. StepsAt("document", NumDocs + 1, a) = 5
  <2>1. NumDocs + 1 - (NumDocs + 1) = 0
    OBVIOUS
  <2>2. StepsForDocuments(0) = 0
    <3>1. \A p \in Nat : 0 * p = 0
      OBVIOUS
    <3>. QED  BY <3>1, DocumentSteps DEF StepsForDocuments
  <2>. QED  BY <2>1, <2>2 DEF StepsAt
<1>3. StepsAt("document", 1, a) = StepsForDocuments(NumDocs) + 5
  <2>1. NumDocs + 1 - 1 = NumDocs
    OBVIOUS
  <2>. QED  BY <2>1 DEF StepsAt
<1>. QED  BY <1>1, <1>2, <1>3 DEF StepsAt

(* What is left is a number of steps at every place.                       *)
LEMMA StepsAtPlaces ==
  ASSUME NEW place \in Places, NEW d \in 1 .. NumDocs + 1, NEW a \in 0 .. MaxToolRetries,
         place \in AtOneDocument => d \in 1 .. NumDocs,
         place \in { "retry", "caught", "recaught" } => a < MaxToolRetries
  PROVE  StepsAt(place, d, a) \in 0 .. StepsForDocuments(NumDocs) + 10
<1>1. StepsForDocuments(NumDocs) \in Nat
  BY DocumentSteps
<1>2. CASE place = "document"
  <2>1. NumDocs + 1 - d \in Nat /\ NumDocs + 1 - d <= NumDocs
    OBVIOUS
  <2>2. /\ StepsForDocuments(NumDocs + 1 - d) \in Nat
        /\ StepsForDocuments(NumDocs + 1 - d) <= StepsForDocuments(NumDocs)
    BY <2>1, DocumentSteps
  <2>3. StepsAt(place, d, a) = StepsForDocuments(NumDocs + 1 - d) + 5
    BY <1>2 DEF StepsAt
  <2>. QED  BY <1>1, <2>2, <2>3
<1>3. CASE place \in AtOneDocument
  <2>1. /\ NumDocs - d \in Nat /\ (NumDocs - d) + 1 <= NumDocs
        /\ (NumDocs - d) + 1 \in Nat
    BY <1>3
  <2>2. /\ StepsForDocuments(NumDocs - d) \in Nat
        /\ StepsForDocuments(NumDocs - d) + StepsPerDocument <=
             StepsForDocuments(NumDocs)
    BY <2>1, DocumentSteps
  <2>3. /\ AttemptsFrom(a) \in 0 .. 4 * MaxToolRetries
        /\ a < MaxToolRetries => AttemptsFrom(a) >= 4
    BY DEF AttemptsFrom
  <2>4. /\ AfterDocument(d) \in Nat
        /\ AfterDocument(d) + 4 * MaxToolRetries + 2 <= StepsForDocuments(NumDocs) + 5
    BY <1>1, <2>2 DEF AfterDocument, StepsPerDocument
  <2>5. /\ place = "recaught" => StepsAt(place, d, a) = AfterDocument(d) + AttemptsFrom(a) - 2
        /\ place = "caught" => StepsAt(place, d, a) = AfterDocument(d) + AttemptsFrom(a) - 1
        /\ place = "retry" => StepsAt(place, d, a) = AfterDocument(d) + AttemptsFrom(a)
        /\ place = "attempt" => StepsAt(place, d, a) = AfterDocument(d) + AttemptsFrom(a) + 1
    BY DEF StepsAt
  <2>6. place \in { "recaught", "caught", "retry", "attempt" }
    BY <1>3 DEF AtOneDocument, AtDocuments
  <2>. QED  BY <1>1, <2>3, <2>4, <2>5, <2>6
<1>4. CASE place \notin AtDocuments
  BY <1>1, <1>4, StepsElsewhere DEF AtDocuments, Places
<1>. QED  BY <1>2, <1>3, <1>4 DEF AtOneDocument

(* So it is in a run.                                                      *)
LEMMA StepsBounded ==
  /\ TypeInv => StepsLeft \in 0 .. StepsForDocuments(NumDocs) + 10
  /\ TypeInv' => StepsLeft' \in 0 .. StepsForDocuments(NumDocs) + 10
<1>1. ASSUME TypeInv PROVE StepsLeft \in 0 .. StepsForDocuments(NumDocs) + 10
  <2>1. /\ doc \in 1 .. NumDocs + 1 /\ attempt \in 0 .. MaxToolRetries /\ pc \in Places
        /\ pc \in AtOneDocument => doc \in 1 .. NumDocs
        /\ pc \in { "retry", "caught", "recaught" } => attempt < MaxToolRetries
    BY <1>1 DEF TypeInv, TypeOK, ControlInv, Docs, Places
  <2>. QED  BY <2>1, StepsAtPlaces DEF StepsLeft
<1>2. ASSUME TypeInv' PROVE StepsLeft' \in 0 .. StepsForDocuments(NumDocs) + 10
  <2>1. /\ doc' \in 1 .. NumDocs + 1 /\ attempt' \in 0 .. MaxToolRetries /\ pc' \in Places
        /\ pc' \in AtOneDocument => doc' \in 1 .. NumDocs
        /\ pc' \in { "retry", "caught", "recaught" } => attempt' < MaxToolRetries
    BY <1>2 DEF TypeInv, TypeOK, ControlInv, Docs, Places
  <2>. QED  BY <2>1, StepsAtPlaces DEF StepsLeft
<1>. QED  BY <1>1, <1>2

(* A step of the run outweighs the write it may leave behind.              *)
LEMMA StepsOutweigh ==
  ASSUME TypeInv, TypeInv', StepsLeft' < StepsLeft
  PROVE  Left' < Left
<1>1. StepsForDocuments(NumDocs) \in Nat
  BY DocumentSteps
<1>2. StepsLeft \in Nat /\ StepsLeft' \in Nat
  BY <1>1, StepsBounded
<1>3. \A m, n \in Nat : \A i, j \in { 0, 1 } : m < n => 2 * m + i < 2 * n + j
  OBVIOUS
<1>4. \E i, j \in { 0, 1 } : Left = 2 * StepsLeft + j /\ Left' = 2 * StepsLeft' + i
  BY DEF Left
<1>. QED  BY <1>2, <1>3, <1>4

(* What is left at one document: an attempt more, a document more, or the  *)
(* end of the run.                                                         *)
LEMMA StepsAtDocument ==
  ASSUME NEW d \in 1 .. NumDocs, NEW a \in 0 .. MaxToolRetries
  PROVE  /\ StepsAt("document", d + 1, a) < StepsAt("document", d, a)
         /\ StepsAt("attempt", d, 0) < StepsAt("document", d, a)
         /\ StepsAt("document", d + 1, a) < StepsAt("attempt", d, a)
         /\ \A p \in { "retry", "caught" } : StepsAt(p, d, a) < StepsAt("attempt", d, a)
         /\ a < MaxToolRetries =>
              /\ StepsAt("caught", d, a) < StepsAt("retry", d, a)
              /\ StepsAt("recaught", d, a) < StepsAt("caught", d, a)
              /\ \A p \in { "retry", "caught", "recaught" } :
                   2 < StepsAt(p, d, a) /\ StepsAt("attempt", d, a + 1) < StepsAt(p, d, a)
<1>. DEFINE A == StepsForDocuments(NumDocs - d)
<1>1. /\ A \in Nat
      /\ StepsForDocuments(NumDocs + 1 - d) = A + 4 * MaxToolRetries + 2
      /\ NumDocs + 1 - (d + 1) = NumDocs - d
  <2>1. /\ NumDocs - d \in Nat /\ NumDocs + 1 - d = (NumDocs - d) + 1
        /\ NumDocs + 1 - (d + 1) = NumDocs - d
    OBVIOUS
  <2>2. StepsForDocuments((NumDocs - d) + 1) = A + StepsPerDocument /\ A \in Nat
    BY <2>1, DocumentSteps
  <2>. QED  BY <2>1, <2>2 DEF StepsPerDocument
<1>2. /\ \A e : StepsAt("document", d + 1, e) = A + 5
      /\ \A e : StepsAt("document", d, e) = A + 4 * MaxToolRetries + 2 + 5
      /\ \A e : /\ StepsAt("attempt", d, e) = A + 5 + 4 * (MaxToolRetries - e) + 1
                /\ StepsAt("retry", d, e) = A + 5 + 4 * (MaxToolRetries - e)
                /\ StepsAt("caught", d, e) = A + 5 + 4 * (MaxToolRetries - e) - 1
                /\ StepsAt("recaught", d, e) = A + 5 + 4 * (MaxToolRetries - e) - 2
  BY <1>1 DEF StepsAt, AfterDocument, AttemptsFrom
<1>. HIDE DEF A
<1>. QED  BY <1>1, <1>2
-----------------------------------------------------------------------------
(* The steps of the engine, and the read that fails, lower what is left.   *)
LEMMA RunStepsLower ==
  ASSUME TypeInv, TypeInv', EngineStep \/ ReadFails
  PROVE  StepsLeft' < StepsLeft
<1>1. /\ doc \in 1 .. NumDocs + 1 /\ attempt \in 0 .. MaxToolRetries
      /\ pc \in AtOneDocument => doc \in 1 .. NumDocs
      /\ pc \in { "retry", "caught", "recaught" } => attempt < MaxToolRetries
  BY DEF TypeInv, TypeOK, ControlInv, Docs
<1>2. \A c, s, next, handler : Transition(c, s, next, handler) => pc' \in { next, handler }
  BY TransitionOutcomes
<1>. USE DEF StepsLeft
<1>3. CASE Submit \/ StartRun \/ RecoverRun \/ ReadFails
  BY <1>3, StepsElsewhere DEF Submit, StartRun, RecoverRun, EntryPoint, ReadFails
<1>4. CASE StartValidation \/ Validate \/ RequestMissingFields
  BY <1>2, <1>4, StepsElsewhere DEF StartValidation, Validate, RequestMissingFields
<1>5. CASE StartVerification
  BY <1>5, StepsElsewhere DEF StartVerification
<1>6. CASE ReuseDocument
  <2>1. doc \in 1 .. NumDocs /\ pc = "document" /\ pc' = "document" /\ doc' = doc + 1
        /\ attempt' = attempt
    BY <1>6 DEF ReuseDocument, TypeInv, TypeOK, Docs
  <2>. QED  BY <1>1, <2>1, StepsAtDocument, StepsAtPlaces
<1>7. CASE StartExtraction
  <2>1. doc \in 1 .. NumDocs /\ pc = "document" /\ pc' = "attempt" /\ doc' = doc /\ attempt' = 0
    BY <1>7 DEF StartExtraction, Docs
  <2>. QED  BY <1>1, <2>1, StepsAtDocument
<1>8. CASE ExtractConfident \/ GiveUpDocument
  <2>1. /\ doc \in 1 .. NumDocs /\ pc = "attempt" /\ pc' = "document"
        /\ doc' = doc + 1 /\ attempt' = attempt
    BY <1>1, <1>8 DEF ExtractConfident, GiveUpDocument, AtOneDocument, AtDocuments
  <2>. QED  BY <1>1, <2>1, StepsAtDocument
<1>9. CASE ExtractWeak \/ ExtractRaises
  <2>1. /\ doc \in 1 .. NumDocs /\ pc = "attempt" /\ pc' \in { "retry", "caught" }
        /\ doc' = doc /\ attempt' = attempt
    BY <1>1, <1>2, <1>9 DEF ExtractWeak, ExtractRaises, local, AtOneDocument, AtDocuments
  <2>. QED  BY <1>1, <2>1, StepsAtDocument
<1>10. CASE RetryExtraction
  <2>1. /\ doc \in 1 .. NumDocs /\ pc = "retry" /\ pc' \in { "attempt", "caught" }
        /\ doc' = doc /\ attempt < MaxToolRetries
        /\ attempt' = IF pc' = "attempt" THEN attempt + 1 ELSE attempt
    BY <1>1, <1>2, <1>10 DEF RetryExtraction, AtOneDocument, AtDocuments
  <2>. QED  BY <1>1, <2>1, StepsAtDocument
<1>11. CASE HandleError
  <2>1. /\ doc \in 1 .. NumDocs /\ pc = "caught" /\ doc' = doc /\ attempt < MaxToolRetries
        /\ \/ pc' \in { "recaught", "raised" } /\ attempt' = attempt
           \/ pc' = "attempt" /\ attempt' = attempt + 1
    BY <1>1, <1>2, <1>11 DEF HandleError, AtOneDocument, AtDocuments
  <2>. QED  BY <1>1, <2>1, StepsAtDocument, StepsElsewhere
<1>12. CASE RetryAfterError
  <2>1. /\ doc \in 1 .. NumDocs /\ pc = "recaught" /\ pc' \in { "attempt", "raised" }
        /\ doc' = doc /\ attempt < MaxToolRetries
        /\ attempt' = IF pc' = "attempt" THEN attempt + 1 ELSE attempt
    BY <1>1, <1>2, <1>12 DEF RetryAfterError, AtOneDocument, AtDocuments
  <2>. QED  BY <1>1, <2>1, StepsAtDocument, StepsElsewhere
<1>13. CASE AllDocumentsFailed \/ CompareInformation
  <2>1. /\ pc = "document" /\ doc = NumDocs + 1
        /\ pc' \in { "escalate", "returned", "analyze", "raised" }
    BY <1>2, <1>13 DEF AllDocumentsFailed, CompareInformation
  <2>. QED  BY <2>1, StepsElsewhere
<1>14. CASE CreateEscalation \/ EscalateToHuman \/ Analyze \/ Decide \/ EndRun
  <2>1. \/ pc = "escalate" /\ pc' = "notified"
        \/ pc = "notified" /\ pc' \in { "returned", "raised" }
        \/ pc = "analyze" /\ pc' \in { "decide", "raised" }
        \/ pc = "decide" /\ pc' \in { "returned", "raised" }
        \/ pc \in { "returned", "raised" } /\ pc' = "idle"
    BY <1>2, <1>14 DEF CreateEscalation, EscalateToHuman, Analyze, Decide, EndRun
  <2>. QED  BY <2>1, StepsElsewhere
<1>. QED  BY <1>3, <1>4, <1>5, <1>6, <1>7, <1>8, <1>9, <1>10, <1>11, <1>12, <1>13,
             <1>14 DEF EngineStep

(* A crash leaves nothing to do, and nothing behind.                       *)
LEMMA CrashLowers ==
  ASSUME TypeInv, TypeInv', Crash
  PROVE  StepsLeft' < StepsLeft
<1>1. /\ pc \in Places \ { "unsubmitted", "down" } /\ pc' = "down"
      /\ doc \in 1 .. NumDocs + 1 /\ attempt \in 0 .. MaxToolRetries
      /\ pc \in AtOneDocument => doc \in 1 .. NumDocs
      /\ pc \in { "retry", "caught", "recaught" } => attempt < MaxToolRetries
  BY DEF Crash, TypeInv, TypeOK, ControlInv, Docs, Places
<1>2. StepsLeft' = 0
  BY <1>1, StepsElsewhere DEF StepsLeft
<1>3. 0 < StepsLeft
  <2>1. CASE pc = "document"
    <3>1. NumDocs + 1 - doc \in Nat
      BY <1>1
    <3>2. StepsForDocuments(NumDocs + 1 - doc) \in Nat
      BY <3>1, DocumentSteps
    <3>. QED  BY <2>1, <3>2 DEF StepsLeft, StepsAt
  <2>2. CASE pc \in AtOneDocument
    <3>1. pc \in { "attempt", "retry", "caught", "recaught" } /\ doc \in 1 .. NumDocs
      BY <1>1, <2>2 DEF AtOneDocument, AtDocuments
    <3>2. CASE pc = "attempt"
      <4>1. StepsForDocuments(NumDocs - doc) \in Nat
        BY <3>1, DocumentSteps
      <4>2. AfterDocument(doc) \in Nat /\ AttemptsFrom(attempt) \in Nat
        BY <1>1, <4>1 DEF AfterDocument, AttemptsFrom
      <4>3. StepsLeft = AfterDocument(doc) + AttemptsFrom(attempt) + 1
        BY <3>2 DEF StepsLeft, StepsAt
      <4>. QED  BY <4>2, <4>3
    <3>3. CASE pc # "attempt"
      <4>1. 2 < StepsLeft
        BY <1>1, <3>1, <3>3, StepsAtDocument DEF StepsLeft
      <4>2. StepsForDocuments(NumDocs) \in Nat /\ StepsLeft \in Nat
        BY DocumentSteps, StepsBounded
      <4>. QED  BY <4>1, <4>2
    <3>. QED  BY <3>2, <3>3
  <2>3. CASE pc \notin AtDocuments
    BY <1>1, <2>3, StepsElsewhere DEF StepsLeft, Places, AtDocuments
  <2>. QED  BY <2>1, <2>2, <2>3 DEF AtOneDocument
<1>. QED  BY <1>2, <1>3
-----------------------------------------------------------------------------
(* Every step but a restart lowers what is left, the commit by others of a *)
(* write that was left behind too.                                         *)
LEMMA StepLowers ==
  ASSUME TypeInv, TypeInv', Next, ~Restart
  PROVE  Left' < Left
<1>1. CASE EngineStep \/ ReadFails
  BY <1>1, RunStepsLower, StepsOutweigh
<1>2. CASE Crash
  BY <1>2, CrashLowers, StepsOutweigh
<1>3. CASE CommitPending
  <2>1. StepsLeft' = StepsLeft /\ pending # None /\ pending' = None
    BY <1>3 DEF CommitPending, local, StepsLeft
  <2>2. StepsForDocuments(NumDocs) \in Nat /\ StepsLeft \in Nat
    BY DocumentSteps, StepsBounded
  <2>. QED  BY <2>1, <2>2 DEF Left
<1>. QED  BY <1>1, <1>2, <1>3 DEF Next

(* Whatever fails, no step but the restart of the process leaves the run   *)
(* as far from its end as it was (engine.py 59-87, 126-203, 230-327).      *)
THEOREM RunsGetOn == Spec => RunGetsOn
<1>1. TypeInv /\ TypeInv' /\ [Next]_vars => [ Left' < Left \/ Restart ]_vars
  BY StepLowers
<1>2. IInv => TypeInv
  BY DEF IInv, TypeInv
<1>. QED  BY <1>1, <1>2, Invariance, PTL DEF Spec, RunGetsOn

(* Between two starts of the process there are at most RunBound steps, for *)
(* any outcomes and failures, and any number of documents.                 *)
THEOREM RunsAreBounded == Spec => []LeftBounded
<1>1. TypeInv => LeftBounded
  <2>1. StepsForDocuments(NumDocs) \in Nat
    BY DocumentSteps
  <2>. SUFFICES ASSUME TypeInv PROVE LeftBounded
    OBVIOUS
  <2>2. StepsLeft \in 0 .. StepsForDocuments(NumDocs) + 10
    BY StepsBounded
  <2>3. \E i \in { 0, 1 } : Left = 2 * StepsLeft + i
    BY DEF Left
  <2>. QED  BY <2>1, <2>2, <2>3 DEF LeftBounded, RunBound
<1>2. IInv => TypeInv
  BY DEF IInv, TypeInv
<1>. QED  BY <1>1, <1>2, Invariance, PTL
=============================================================================
