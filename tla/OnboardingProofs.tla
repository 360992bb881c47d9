-------------------------- MODULE OnboardingProofs --------------------------
(***************************************************************************)
(* What the users of the service can rely on holds for any number of       *)
(* applications, uploads and faults, whoever is there and whatever may be  *)
(* found in a document.                                                    *)
(*                                                                         *)
(* Most of the invariant is about the rows.  So the steps are first put    *)
(* into kinds: what one does to an application (AppMove) and what it does  *)
(* to the two databases (DatabaseMove).  Every part of the invariant is    *)
(* then proved over these kinds, and over the single actions only where    *)
(* it is about the page, an upload or the review.                          *)
(***************************************************************************)
EXTENDS OnboardingInvariants, FiniteSetTheorems, TLAPS

(* What a step does to one application.                                    *)
RowsWithin(a, more) == Rows(a)' \subseteq Rows(a) \cup more

Keeps(a) == origin'[a] = origin[a] /\ found'[a] = found[a]

Stays(a) ==
  /\ Keeps(a) /\ pc'[a] = pc[a] /\ answered'[a] = answered[a]
  /\ RowsWithin(a, {})

Inserts(a) ==
  /\ pc[a] = "free" /\ origin'[a] \in { "page", "client" }
  /\ found'[a] = found[a]
  /\ RowsWithin(a, { RowOf("RECEIVED", NoRisk, NoDecision) })
  /\ \/ /\ pc'[a] = "inserted" /\ answered'[a] = answered[a]
        /\ view'.row[a] # NoRow
     \/ pc'[a] = "over" /\ answered'[a] = "error" /\ faults' # faults

IsAnswered(a) ==
  /\ Keeps(a) /\ RowsWithin(a, {})
  /\ \/ /\ pc[a] = "inserted" /\ pc'[a] = "written"
        /\ answered'[a] = answered[a] /\ disk' = view
     \/ pc[a] = "written" /\ pc'[a] = "queued" /\ answered'[a] = "accepted"
     \/ /\ pc[a] \in { "inserted", "written" } /\ pc'[a] = "over"
        /\ answered'[a] = "error" /\ faults' # faults

EndsEarly(a) ==
  /\ pc[a] = "queued" /\ pc'[a] \in { "concluded", "over" }
  /\ Keeps(a) /\ answered'[a] = answered[a]
  /\ \E r \in EarlyEnds(a) : RowsWithin(a, { r })

IsAssessed(a) ==
  /\ pc[a] = "queued" /\ pc'[a] \in { "assessed", "over" }
  /\ origin'[a] = origin[a] /\ answered'[a] = answered[a]
  /\ found'[a] \in FindingsOf(a)
  /\ RowsWithin(a, { RowOf("DECIDING", AssessRisk(found'[a]), NoDecision) })

GoesOn(a) ==
  /\ \/ pc[a] = "assessed" /\ pc'[a] \in { "deciding", "over" }
     \/ pc[a] = "concluded" /\ pc'[a] = "over"
  /\ Keeps(a) /\ answered'[a] = answered[a]
  /\ RowsWithin(a, {})

DecisionOn(a, rec) ==
  EnforcePolicy(rec, AssessRisk(found[a]), found[a].anyData, FALSE, 0)

Decided(a, rec) ==
  RowOf(StateOf(DecisionOn(a, rec)), AssessRisk(found[a]), DecisionOn(a, rec))

IsDecided(a) ==
  /\ pc[a] = "deciding" /\ pc'[a] \in { "concluded", "over" }
  /\ origin'[a] = origin[a] /\ answered'[a] = answered[a]
  /\ found'[a] = NothingFound
  /\ \E rec \in Recommendation : RowsWithin(a, { Decided(a, rec) })

StartsAgain(a) ==
  /\ "crash" \in faults' /\ faults' # faults
  /\ Keeps(a)
  /\ disk'.row[a] = disk.row[a] /\ view'.row[a] = disk.row[a]
  /\ \/ pc[a] = "free" /\ pc'[a] = "free"
     \/ pc[a] # "free" /\ disk.row[a].state = "RECEIVED" /\ pc'[a] = "queued"
     \/ pc[a] # "free" /\ pc'[a] = "over"
  /\ answered'[a] = IF origin[a] \in { "page", "client" } /\ answered[a] = "nothing"
                    THEN "error" ELSE answered[a]

AppMove(a) ==
  \/ Stays(a) \/ Inserts(a) \/ IsAnswered(a) \/ EndsEarly(a)
  \/ IsAssessed(a) \/ GoesOn(a) \/ IsDecided(a) \/ StartsAgain(a)

(* What a step does to the two databases.                                  *)
DatabaseStays == UNCHANGED database

CommitsAll == disk' = view /\ UNCHANGED view

WritesRow(a) ==
  /\ UNCHANGED disk /\ a \in App
  /\ \E r \in Row :
       /\ view' = WithRow(a, r)
       /\ r # NoRow /\ Progress(view.row[a]) <= Progress(r)

WritesDocument ==
  /\ UNCHANGED disk
  /\ \E u \in Upload :
       upload[u].at # "free" /\ view' = [ view EXCEPT !.docs = @ \cup { u } ]

Restores ==
  /\ UNCHANGED disk /\ view' = disk
  /\ "rollback" \in faults' \/ CrashAndRecover

DatabaseMove ==
  /\ faults \subseteq faults'
  /\ \/ DatabaseStays \/ CommitsAll \/ WritesDocument \/ Restores
     \/ \E a \in App : WritesRow(a)

(* What the page does besides submitting its form.                         *)
PageGoesOn ==
  \/ CreationAnswered \/ \E u \in Upload : UploadAnswered(u)
  \/ RetryFailed \/ RetryAgain \/ ContinueWithoutDocs \/ NewApplication
-----------------------------------------------------------------------------
(***************************************************************************)
(* The rules, the rows and the databases                                   *)
(***************************************************************************)
(* A risk assessment is one of the four levels.                            *)
LEMMA AssessRiskType == \A f : AssessRisk(f) \in RiskLevel
  BY DEF AssessRisk, RiskLevel

LEMMA NothingFoundType == NothingFound \in Findings
  BY DEF NothingFound, Findings

(* The last word is a decision, and no approval of what is CRITICAL.       *)
LEMMA PolicyFacts ==
  ASSUME NEW rec \in Recommendation, NEW risk \in RiskLevel, NEW anyData \in BOOLEAN
  PROVE  LET d == EnforcePolicy(rec, risk, anyData, FALSE, 0)
         IN  d \in FinalDecision /\ (d = "APPROVE" => risk # "CRITICAL")
<1>1. rec.action \in FinalDecision /\ rec.trusted \in BOOLEAN
  BY DEF Recommendation
<1>. QED  BY <1>1 DEF EnforcePolicy, FinalDecision, RiskLevel

(* The fields of a row, and of none.                                       *)
LEMMA RowFields ==
  /\ \A s, k, d : /\ RowOf(s, k, d).state = s /\ RowOf(s, k, d).risk = k
                  /\ RowOf(s, k, d).decision = d
  /\ NoRow.state = "none" /\ NoRow.risk = NoRisk /\ NoRow.decision = NoDecision
  BY DEF RowOf, NoRow

(* A row made of a state, a risk and a decision is a row.                  *)
LEMMA RowType ==
  ASSUME NEW s \in SettledState \cup { "RECEIVED", "DECIDING", "none" },
         NEW k \in RiskLevel \cup { NoRisk },
         NEW d \in FinalDecision \cup { NoDecision }
  PROVE  RowOf(s, k, d) \in Row
  BY DEF RowOf, Row

(* A good row with the state of none is none.                              *)
LEMMA NoRowByState ==
  ASSUME NEW r \in Row, GoodRow(r)
  PROVE  r.state = "none" <=> r = NoRow
<1>1. NoRow.state = "none"
  BY RowFields
<1>2. r.state = "none" => r.risk = NoRisk /\ r.decision = NoDecision
  BY DEF GoodRow, Unassessed
<1>3. r = RowOf(r.state, r.risk, r.decision)
  BY DEF Row, RowOf
<1>. QED  BY <1>1, <1>2, <1>3 DEF NoRow

(* Progress is a number, and nothing has less than none.                   *)
LEMMA ProgressFacts ==
  ASSUME NEW r \in Row
  PROVE  /\ Progress(r) \in 0 .. 3
         /\ Progress(r) = 0 <=> r.state = "none"
         /\ Unassessed(r) => Progress(r) <= 1
         /\ r.state = "DECIDING" => Progress(r) = 2
         /\ Settled(r) => Progress(r) = 3
<1>1. \/ r.state \in { "none", "RECEIVED", "DECIDING" }
      \/ r.state \in SettledState
  BY DEF Row
<1>2. r.state = "none" => Progress(r) = 0
  BY DEF Progress, SettledState
<1>3. r.state = "RECEIVED" => Progress(r) = 1
  BY DEF Progress, SettledState
<1>4. r.state = "DECIDING" => Progress(r) = 2
  BY DEF Progress, SettledState
<1>5. r.state \in SettledState => Progress(r) = 3
  BY DEF Progress, SettledState
<1>6. Progress(r) \in 0 .. 3
  BY <1>1, <1>2, <1>3, <1>4, <1>5
<1>7. Progress(r) = 0 <=> r.state = "none"
  BY <1>1, <1>2, <1>3, <1>4, <1>5
<1>8. Unassessed(r) => Progress(r) <= 1
  BY <1>2, <1>3 DEF Unassessed
<1>9. Settled(r) => Progress(r) = 3
  BY <1>5 DEF Settled
<1>. QED  BY <1>4, <1>6, <1>7, <1>8, <1>9

(* What a database has, and the effect of a write on it.                   *)
LEMMA DatabaseFields ==
  ASSUME NEW d \in Database
  PROVE  /\ d.row \in [ App -> Row ] /\ d.docs \subseteq Upload
         /\ \A a \in App : d.row[a] \in Row
  BY DEF Database

LEMMA WriteRow ==
  ASSUME view \in Database, NEW a \in App, NEW r \in Row
  PROVE  /\ WithRow(a, r) \in Database
         /\ WithRow(a, r).docs = view.docs
         /\ WithRow(a, r).row[a] = r
         /\ \A b \in App : b # a => WithRow(a, r).row[b] = view.row[b]
  BY DEF Database, WithRow

LEMMA WriteDocument ==
  ASSUME view \in Database, WritesDocument
  PROVE  /\ disk' = disk /\ view'.row = view.row /\ view' \in Database
         /\ view.docs \subseteq view'.docs
         /\ \A u \in view'.docs : u \in view.docs \/ upload[u].at # "free"
<1>1. PICK u \in Upload :
        upload[u].at # "free" /\ view' = [ view EXCEPT !.docs = @ \cup { u } ]
  BY DEF WritesDocument
<1>2. view'.row = view.row /\ view'.docs = view.docs \cup { u }
  BY <1>1 DEF Database
<1>3. view' \in Database
  BY <1>1 DEF Database
<1>. QED  BY <1>1, <1>2, <1>3 DEF WritesDocument

(* The kinds of faults are four, and every fault is one more.              *)
LEMMA FourKinds == IsFiniteSet({ "error", "rollback", "crash", "answer" })
<1>. DEFINE K1 == {} \cup { "error" }
            K2 == K1 \cup { "rollback" }
            K3 == K2 \cup { "crash" }
<1>1. IsFiniteSet(K1)
  BY FS_EmptySet, FS_AddElement
<1>2. IsFiniteSet(K2)
  BY <1>1, FS_AddElement
<1>3. IsFiniteSet(K3)
  BY <1>2, FS_AddElement
<1>4. IsFiniteSet(K3 \cup { "answer" })
  BY <1>3, FS_AddElement
<1>5. K3 \cup { "answer" } = { "error", "rollback", "crash", "answer" }
  OBVIOUS
<1>. QED  BY <1>4, <1>5

LEMMA FaultsCounted ==
  ASSUME TypeOK
  PROVE  IsFiniteSet(faults) /\ Cardinality(faults) \in Nat
<1>1. faults \in SUBSET { "error", "rollback", "crash", "answer" }
  BY DEF TypeOK
<1>2. IsFiniteSet(faults)
  BY <1>1, FourKinds, FS_Subset
<1>. QED  BY <1>2, FS_CardinalityType

LEMMA FaultCount ==
  ASSUME TypeOK, NEW kind, Fault(kind)
  PROVE  Cardinality(faults') = Cardinality(faults) + 1
<1>1. kind \notin faults /\ faults' = faults \cup { kind }
  BY DEF Fault
<1>. QED  BY <1>1, FaultsCounted, FS_AddElement
-----------------------------------------------------------------------------
(***************************************************************************)
(* The kinds of steps                                                      *)
(***************************************************************************)
(* The rows after a COMMIT, an exception, a restart or a write.            *)
LEMMA RowsAfter ==
  ASSUME TypeOK
  PROVE  /\ Commit \/ Raises \/ (UNCHANGED database) => \A a \in App : RowsWithin(a, {})
         /\ \A a \in App : \A r \in Row : Execute(WithRow(a, r)) =>
              /\ RowsWithin(a, { r })
              /\ \A b \in App \ { a } : RowsWithin(b, {})
         /\ WritesDocument => \A a \in App : RowsWithin(a, {})
         /\ \A a \in App : \A more : RowsWithin(a, {}) => RowsWithin(a, more)
<1>1. Commit \/ Raises \/ (UNCHANGED database) => \A a \in App : RowsWithin(a, {})
  BY DEF Commit, Raises, database, RowsWithin, Rows
<1>2. ASSUME NEW a \in App, NEW r \in Row, Execute(WithRow(a, r))
      PROVE  /\ RowsWithin(a, { r })
             /\ \A b \in App \ { a } : RowsWithin(b, {})
  <2>1. view' = WithRow(a, r) /\ disk' = disk
    BY <1>2 DEF Execute
  <2>2. view'.row[a] = r /\ \A b \in App \ { a } : view'.row[b] = view.row[b]
    BY <2>1, WriteRow DEF TypeOK
  <2>. QED  BY <2>1, <2>2 DEF RowsWithin, Rows
<1>3. WritesDocument => \A a \in App : RowsWithin(a, {})
  <2>1. WritesDocument => view'.row = view.row /\ disk' = disk
    BY WriteDocument DEF TypeOK
  <2>. QED  BY <2>1 DEF RowsWithin, Rows
<1>4. \A a \in App : \A more : RowsWithin(a, {}) => RowsWithin(a, more)
  BY DEF RowsWithin
<1>. QED  BY <1>1, <1>2, <1>3, <1>4

(* What an application is made of does not change with a step that is      *)
(* about another.                                                          *)
LEMMA OthersStay ==
  ASSUME TypeOK, NEW a \in App,
         \/ UNCHANGED origin
         \/ \E x : origin' = [ origin EXCEPT ![a] = x ],
         \/ UNCHANGED pc
         \/ \E x : pc' = [ pc EXCEPT ![a] = x ],
         \/ UNCHANGED found
         \/ \E x : found' = [ found EXCEPT ![a] = x ],
         \/ UNCHANGED answered
         \/ \E x : answered' = [ answered EXCEPT ![a] = x ],
         \A b \in App \ { a } : RowsWithin(b, {})
  PROVE  \A b \in App \ { a } : AppMove(b)
<1>. SUFFICES ASSUME NEW b \in App \ { a } PROVE Stays(b)
  BY DEF AppMove
<1>1. /\ origin'[b] = origin[b] /\ pc'[b] = pc[b]
      /\ found'[b] = found[b] /\ answered'[b] = answered[b]
  BY DEF TypeOK
<1>. QED  BY <1>1 DEF Stays, Keeps

(* Nor with a step that is about none.                                     *)
LEMMA AllStay ==
  ASSUME UNCHANGED << origin, pc, found, answered >>,
         \A a \in App : RowsWithin(a, {})
  PROVE  \A a \in App : AppMove(a)
  BY DEF AppMove, Stays, Keeps

(* The places of the applications.                                         *)
PlaceTypes ==
  /\ origin \in [ App -> { "nobody", "before", "page", "client" } ]
  /\ pc \in [ App -> { "free", "inserted", "written", "queued", "assessed",
                       "deciding", "concluded", "over" } ]
  /\ found \in [ App -> Findings ]
  /\ answered \in [ App -> { "nothing", "accepted", "error" } ]

LEMMA Placed == TypeOK => PlaceTypes
  BY DEF TypeOK, PlaceTypes

(* The rows of a submission and of a task.                                 *)
LEMMA TaskRows ==
  ASSUME TypeOK, NEW a \in App
  PROVE  /\ RowOf("RECEIVED", NoRisk, NoDecision) \in Row
         /\ \A f : RowOf("DECIDING", AssessRisk(f), NoDecision) \in Row
         /\ EarlyEnds(a) \subseteq Row
         /\ \A rec \in Recommendation :
              /\ DecisionOn(a, rec) \in FinalDecision
              /\ StateOf(DecisionOn(a, rec)) \in SettledState
              /\ Decided(a, rec) \in Row
<1>1. RowOf("RECEIVED", NoRisk, NoDecision) \in Row
  BY RowType
<1>2. \A f : RowOf("DECIDING", AssessRisk(f), NoDecision) \in Row
  BY RowType, AssessRiskType
<1>3. EarlyEnds(a) \subseteq Row
  <2>1. RowOf("MORE_INFORMATION_REQUIRED", NoRisk, NoDecision) \in Row
    BY RowType DEF SettledState
  <2>2. RowOf("ESCALATED_TO_HUMAN", NoRisk, "ESCALATE_TO_HUMAN") \in Row
    BY RowType DEF SettledState, FinalDecision
  <2>. QED  BY <2>1, <2>2 DEF EarlyEnds
<1>4. ASSUME NEW rec \in Recommendation
      PROVE  /\ DecisionOn(a, rec) \in FinalDecision
             /\ StateOf(DecisionOn(a, rec)) \in SettledState
             /\ Decided(a, rec) \in Row
  <2>1. found[a] \in Findings /\ found[a].anyData \in BOOLEAN
    BY DEF TypeOK, Findings
  <2>2. DecisionOn(a, rec) \in FinalDecision
    BY <2>1, PolicyFacts, AssessRiskType DEF DecisionOn
  <2>3. \A d \in FinalDecision : StateOf(d) \in SettledState
    BY DEF FinalDecision, StateOf, SettledState
  <2>4. StateOf(DecisionOn(a, rec)) \in SettledState
    BY <2>2, <2>3
  <2>5. Decided(a, rec) \in Row
    BY <2>2, <2>4, RowType, AssessRiskType DEF Decided
  <2>. QED  BY <2>2, <2>4, <2>5
<1>. QED  BY <1>1, <1>2, <1>3, <1>4

LEMMA InsertMove ==
  ASSUME TypeOK, NEW a \in App, NEW who \in { "page", "client" },
         Insert(a, who), UNCHANGED found
  PROVE  \A b \in App : AppMove(b)
<1>. DEFINE r == RowOf("RECEIVED", NoRisk, NoDecision)
<1>1. r \in Row
  BY TaskRows
<1>2. pc[a] = "free" /\ origin' = [ origin EXCEPT ![a] = who ]
  BY DEF Insert, NextApp
<1>3. CASE /\ Execute(WithRow(a, r)) /\ UNCHANGED answered
           /\ pc' = [ pc EXCEPT ![a] = "inserted" ]
  <2>1. RowsWithin(a, { r }) /\ \A b \in App \ { a } : RowsWithin(b, {})
    BY <1>1, <1>3, RowsAfter
  <2>2. \A b \in App \ { a } : AppMove(b)
    BY <1>2, <1>3, <2>1, OthersStay
  <2>3. view'.row[a] = r /\ r # NoRow
    BY <1>1, <1>3, WriteRow, RowFields DEF Execute, TypeOK
  <2>4. Inserts(a)
    BY <1>2, <1>3, <2>1, <2>3 DEF Inserts, TypeOK
  <2>. QED  BY <2>2, <2>4 DEF AppMove
<1>4. CASE /\ Raises /\ pc' = [ pc EXCEPT ![a] = "over" ]
           /\ answered' = [ answered EXCEPT ![a] = "error" ]
  <2>1. \A b \in App : \A more : RowsWithin(b, more)
    BY <1>4, RowsAfter
  <2>2. \A b \in App \ { a } : AppMove(b)
    BY <1>2, <1>4, <2>1, OthersStay
  <2>3. faults' # faults
    BY <1>4 DEF Raises, Fault
  <2>4. Inserts(a)
    BY <1>2, <1>4, <2>1, <2>3 DEF Inserts, TypeOK
  <2>. QED  BY <2>2, <2>4 DEF AppMove
<1>. QED  BY <1>3, <1>4 DEF Insert

LEMMA SubmissionMove ==
  ASSUME TypeOK, NEW a \in App, CommitSubmission(a) \/ AcceptSubmission(a)
  PROVE  \A b \in App : AppMove(b)
<1>1. UNCHANGED << origin, found >> /\ (Commit \/ Raises)
  BY DEF CommitSubmission, AcceptSubmission, Refuse
<1>2. \A b \in App : RowsWithin(b, {})
  BY <1>1, RowsAfter
<1>3. /\ UNCHANGED pc \/ \E x : pc' = [ pc EXCEPT ![a] = x ]
      /\ UNCHANGED answered \/ \E x : answered' = [ answered EXCEPT ![a] = x ]
  BY DEF CommitSubmission, AcceptSubmission, Refuse
<1>4. \A b \in App \ { a } : AppMove(b)
  BY <1>1, <1>2, <1>3, OthersStay
<1>5. /\ Raises => faults' # faults
      /\ Commit => disk' = view
  BY DEF Raises, Fault, Commit
<1>6. IsAnswered(a)
  BY <1>1, <1>2, <1>5
     DEF CommitSubmission, AcceptSubmission, Refuse, IsAnswered, Keeps, TypeOK
<1>. QED  BY <1>4, <1>6 DEF AppMove

(* A statement of a task: the row, or none, and the place that follows.    *)
LEMMA TaskWriteMove ==
  ASSUME TypeOK, NEW a \in App, NEW r \in Row, NEW next, TaskWrites(a, r, next)
  PROVE  /\ RowsWithin(a, { r }) /\ \A b \in App \ { a } : RowsWithin(b, {})
         /\ \E x \in { next, "over" } : pc' = [ pc EXCEPT ![a] = x ]
         /\ pc'[a] \in { next, "over" }
<1>1. CASE Execute(WithRow(a, r)) /\ pc' = [ pc EXCEPT ![a] = next ]
  BY <1>1, RowsAfter, Placed DEF PlaceTypes
<1>2. CASE Raises /\ pc' = [ pc EXCEPT ![a] = "over" ]
  BY <1>2, RowsAfter, Placed DEF PlaceTypes
<1>. QED  BY <1>1, <1>2 DEF TaskWrites

LEMMA RunMove ==
  ASSUME TypeOK, NEW a \in App, Run(a)
  PROVE  \A b \in App : AppMove(b)
<1>1. pc[a] = "queued" /\ UNCHANGED << origin, answered >>
  BY DEF Run
<1>2. CASE pc' = [ pc EXCEPT ![a] = "over" ] /\ UNCHANGED << database, found, faults >>
  <2>1. \A b \in App : \A more : RowsWithin(b, more)
    BY <1>2, RowsAfter
  <2>2. \A b \in App \ { a } : AppMove(b)
    BY <1>1, <1>2, <2>1, OthersStay
  <2>3. EndsEarly(a)
    BY <1>1, <1>2, <2>1, Placed DEF EndsEarly, Keeps, PlaceTypes, EarlyEnds
  <2>. QED  BY <2>2, <2>3 DEF AppMove
<1>3. ASSUME NEW r \in EarlyEnds(a), TaskWrites(a, r, "concluded"), UNCHANGED found
      PROVE  \A b \in App : AppMove(b)
  <2>1. r \in Row
    BY TaskRows
  <2>2. /\ RowsWithin(a, { r }) /\ \A b \in App \ { a } : RowsWithin(b, {})
        /\ \E x : pc' = [ pc EXCEPT ![a] = x ]
        /\ pc'[a] \in { "concluded", "over" }
    BY <1>3, <2>1, TaskWriteMove
  <2>3. \A b \in App \ { a } : AppMove(b)
    BY <1>1, <1>3, <2>2, OthersStay
  <2>4. EndsEarly(a)
    BY <1>1, <1>3, <2>2 DEF EndsEarly, Keeps
  <2>. QED  BY <2>3, <2>4 DEF AppMove
<1>4. ASSUME NEW f \in FindingsOf(a), found' = [ found EXCEPT ![a] = f ],
             TaskWrites(a, RowOf("DECIDING", AssessRisk(f), NoDecision), "assessed")
      PROVE  \A b \in App : AppMove(b)
  <2>. DEFINE r == RowOf("DECIDING", AssessRisk(f), NoDecision)
  <2>1. r \in Row
    BY TaskRows
  <2>2. /\ RowsWithin(a, { r }) /\ \A b \in App \ { a } : RowsWithin(b, {})
        /\ \E x : pc' = [ pc EXCEPT ![a] = x ]
        /\ pc'[a] \in { "assessed", "over" }
    BY <1>4, <2>1, TaskWriteMove
  <2>3. \A b \in App \ { a } : AppMove(b)
    BY <1>1, <1>4, <2>2, OthersStay
  <2>4. found'[a] = f
    BY <1>4 DEF TypeOK
  <2>5. IsAssessed(a)
    BY <1>1, <2>2, <2>4 DEF IsAssessed
  <2>. QED  BY <2>3, <2>5 DEF AppMove
<1>. QED  BY <1>2, <1>3, <1>4 DEF Run

LEMMA CommitTransitionMove ==
  ASSUME TypeOK, NEW a \in App, CommitTransition(a)
  PROVE  \A b \in App : AppMove(b)
<1>1. UNCHANGED << origin, found, answered >> /\ (Commit \/ Raises)
  BY DEF CommitTransition
<1>2. \A b \in App : RowsWithin(b, {})
  BY <1>1, RowsAfter
<1>3. \E x : pc' = [ pc EXCEPT ![a] = x ]
  BY DEF CommitTransition
<1>4. \A b \in App \ { a } : AppMove(b)
  BY <1>1, <1>2, <1>3, OthersStay
<1>5. GoesOn(a)
  BY <1>1, <1>2 DEF CommitTransition, GoesOn, Keeps, TypeOK
<1>. QED  BY <1>4, <1>5 DEF AppMove

LEMMA ConcludeMove ==
  ASSUME TypeOK, NEW a \in App, Conclude(a)
  PROVE  \A b \in App : AppMove(b)
<1>1. /\ pc[a] = "deciding" /\ UNCHANGED << origin, answered >>
      /\ found' = [ found EXCEPT ![a] = NothingFound ]
  BY DEF Conclude
<1>2. PICK rec \in Recommendation : TaskWrites(a, Decided(a, rec), "concluded")
  BY DEF Conclude, Decided, DecisionOn
<1>3. Decided(a, rec) \in Row
  BY TaskRows
<1>4. /\ RowsWithin(a, { Decided(a, rec) })
      /\ \A b \in App \ { a } : RowsWithin(b, {})
      /\ \E x : pc' = [ pc EXCEPT ![a] = x ]
      /\ pc'[a] \in { "concluded", "over" }
  BY <1>2, <1>3, TaskWriteMove
<1>5. \A b \in App \ { a } : AppMove(b)
  BY <1>1, <1>4, OthersStay
<1>6. found'[a] = NothingFound
  BY <1>1 DEF TypeOK
<1>7. IsDecided(a)
  BY <1>1, <1>4, <1>6 DEF IsDecided
<1>. QED  BY <1>5, <1>7 DEF AppMove

LEMMA RestartMove ==
  ASSUME TypeOK, CrashAndRecover
  PROVE  \A a \in App : AppMove(a)
<1>. SUFFICES ASSUME NEW a \in App PROVE StartsAgain(a)
  BY DEF AppMove
<1>1. "crash" \in faults' /\ faults' # faults /\ view' = disk /\ disk' = disk /\ Keeps(a)
  BY DEF CrashAndRecover, Fault, Keeps
<1>2. pc'[a] = IF pc[a] = "free" THEN "free"
               ELSE IF disk.row[a].state = "RECEIVED" THEN "queued" ELSE "over"
  BY DEF CrashAndRecover, Recoverable
<1>3. answered'[a] =
        IF origin[a] \in { "page", "client" } /\ answered[a] = "nothing"
        THEN "error" ELSE answered[a]
  BY DEF CrashAndRecover
<1>. QED  BY <1>1, <1>2, <1>3 DEF StartsAgain

LEMMA PageMoves ==
  PageGoesOn =>
    /\ UNCHANGED << cast, view, disk, origin, pc, found, answered, walk, review >>
    /\ UNCHANGED faults \/ Fault("answer")
  BY DEF PageGoesOn, CreationAnswered, UploadAnswered, RetryFailed, RetryAgain,
     ContinueWithoutDocs, NewApplication, Fails, server, database

LEMMA DocumentWritten ==
  ASSUME NEW u \in Upload, InsertDocument(u)
  PROVE  WritesDocument \/ Raises
  BY DEF InsertDocument, UploadStep, Execute, WritesDocument

(* Every step is of one of the eight kinds for every application.          *)
LEMMA StepMoves ==
  ASSUME TypeOK, [Next]_vars
  PROVE  \A a \in App : AppMove(a)
<1>1. ASSUME NEW a \in App, SubmitByClient(a) \/ SubmitForm(a)
      PROVE  \A b \in App : AppMove(b)
  <2>1. UNCHANGED found /\ \E who \in { "page", "client" } : Insert(a, who)
    BY <1>1 DEF SubmitByClient, SubmitForm
  <2>. QED  BY <2>1, InsertMove
<1>2. ASSUME NEW a \in App, AskForReview(a) PROVE \A b \in App : AppMove(b)
  BY <1>2, RowsAfter, AllStay DEF AskForReview, server
<1>3. ASSUME NEW u \in Upload, StoreFile(u) PROVE \A b \in App : AppMove(b)
  BY <1>3, RowsAfter, AllStay DEF StoreFile
<1>4. ASSUME NEW u \in Upload, InsertDocument(u) PROVE \A b \in App : AppMove(b)
  <2>1. WritesDocument \/ Raises
    BY <1>4, DocumentWritten
  <2>. QED  BY <1>4, <2>1, RowsAfter, AllStay DEF InsertDocument
<1>5. ASSUME NEW u \in Upload, CommitDocument(u) PROVE \A b \in App : AppMove(b)
  BY <1>5, RowsAfter, AllStay DEF CommitDocument
<1>6. CASE PageGoesOn
  BY <1>6, PageMoves, RowsAfter, AllStay DEF database
<1>7. CASE CountApplications \/ ReadPage
  BY <1>7, RowsAfter, AllStay DEF CountApplications, ReadPage, server
<1>8. CASE RecordAccess \/ CommitByOthers
  BY <1>8, RowsAfter, AllStay DEF RecordAccess, CommitByOthers
<1>9. CASE UNCHANGED vars
  BY <1>9, RowsAfter, AllStay DEF vars
<1>. QED
  BY <1>1, <1>2, <1>3, <1>4, <1>5, <1>6, <1>7, <1>8, <1>9, SubmissionMove,
     RunMove, CommitTransitionMove, ConcludeMove, RestartMove DEF Next, PageGoesOn
-----------------------------------------------------------------------------
(***************************************************************************)
(* The rows                                                                *)
(***************************************************************************)
(* What a submission or a task writes is a good row.                       *)
LEMMA NewRows ==
  ASSUME TypeOK, NEW a \in App
  PROVE  /\ LET r == RowOf("RECEIVED", NoRisk, NoDecision)
            IN  GoodRow(r) /\ Unassessed(r)
         /\ \A f : LET r == RowOf("DECIDING", AssessRisk(f), NoDecision)
                   IN  GoodRow(r) /\ ~Settled(r) /\ r.risk = AssessRisk(f)
         /\ \A r \in EarlyEnds(a) : GoodRow(r) /\ Settled(r) /\ r.risk = NoRisk
         /\ \A rec \in Recommendation :
              /\ GoodRow(Decided(a, rec)) /\ Settled(Decided(a, rec))
              /\ Decided(a, rec).risk = AssessRisk(found[a])
<1>1. LET r == RowOf("RECEIVED", NoRisk, NoDecision)
      IN  GoodRow(r) /\ Unassessed(r)
  BY RowFields DEF GoodRow, Unassessed, NoDecision
<1>2. ASSUME NEW f
      PROVE  LET r == RowOf("DECIDING", AssessRisk(f), NoDecision)
             IN  GoodRow(r) /\ ~Settled(r) /\ r.risk = AssessRisk(f)
  BY RowFields DEF GoodRow, Unassessed, Settled, SettledState, NoDecision
<1>3. ASSUME NEW r \in EarlyEnds(a)
      PROVE  GoodRow(r) /\ Settled(r) /\ r.risk = NoRisk
  BY RowFields DEF EarlyEnds, GoodRow, Unassessed, Settled, SettledState, NoDecision
<1>4. ASSUME NEW rec \in Recommendation
      PROVE  /\ GoodRow(Decided(a, rec)) /\ Settled(Decided(a, rec))
             /\ Decided(a, rec).risk = AssessRisk(found[a])
  <2>. DEFINE d == DecisionOn(a, rec)
              k == AssessRisk(found[a])
  <2>1. k \in RiskLevel /\ found[a].anyData \in BOOLEAN
    BY AssessRiskType DEF TypeOK, Findings
  <2>2. d \in FinalDecision /\ (d = "APPROVE" => k # "CRITICAL")
    BY <2>1, PolicyFacts DEF DecisionOn
  <2>3. /\ Decided(a, rec).state = StateOf(d) /\ Decided(a, rec).risk = k
        /\ Decided(a, rec).decision = d
    BY RowFields DEF Decided
  <2>4. /\ StateOf(d) \in SettledState
        /\ StateOf(d) \notin { "none", "RECEIVED" }
        /\ d = "ESCALATE_TO_HUMAN" => StateOf(d) = "ESCALATED"
        /\ StateOf(d) = "APPROVED" => d = "APPROVE"
    BY <2>2 DEF FinalDecision, StateOf, SettledState
  <2>5. GoodRow(Decided(a, rec)) /\ Settled(Decided(a, rec))
    BY <2>1, <2>2, <2>3, <2>4 DEF GoodRow, Unassessed, Settled
  <2>. QED  BY <2>3, <2>5
<1>. QED  BY <1>1, <1>2, <1>3, <1>4

(* A row of the state "none" is none, in either database.                  *)
LEMMA RowsHere ==
  ASSUME TypeOK, RowsInv, NEW a \in App
  PROVE  /\ \A r \in Rows(a) :
              r \in Row /\ GoodRow(r) /\ (Progress(r) = 0 <=> r = NoRow)
         /\ view.row[a] \in Rows(a) /\ disk.row[a] \in Rows(a)
<1>1. \A r \in Rows(a) : r \in Row /\ GoodRow(r)
  BY DatabaseFields DEF TypeOK, Rows, RowsInv, RowOfTask
<1>. QED  BY <1>1, ProgressFacts, NoRowByState DEF Rows

LEMMA InitRows == Init => RowsInv
<1>. SUFFICES ASSUME Init, NEW a \in App
              PROVE  TaskOf(a) /\ \A r \in Rows(a) : RowOfTask(a, r)
  BY DEF RowsInv
<1>. DEFINE old == RowOf("APPROVED", "LOW", "APPROVE")
<1>1. GoodRow(old)
  BY RowFields DEF GoodRow, Unassessed, Settled, SettledState, RiskLevel
<1>2. GoodRow(NoRow)
  BY RowFields DEF GoodRow, Unassessed, NoDecision
<1>3. \/ /\ pc[a] = "over" /\ origin[a] = "before"
         /\ Rows(a) = { old }
      \/ /\ pc[a] = "free" /\ origin[a] = "nobody"
         /\ Rows(a) = { NoRow }
  <2>1. CASE "past" \in cast /\ a = 1
    BY <2>1 DEF Init, Rows
  <2>2. CASE ~("past" \in cast /\ a = 1)
    BY <2>2 DEF Init, Rows
  <2>. QED  BY <2>1, <2>2
<1>4. found[a] = NothingFound /\ answered[a] = "nothing"
  BY DEF Init
<1>. QED  BY <1>1, <1>2, <1>3, <1>4 DEF TaskOf, RowOfTask, Unassessed

LEMMA StepRows ==
  ASSUME TypeOK, RowsInv, [Next]_vars
  PROVE  RowsInv'
<1>. SUFFICES ASSUME NEW a \in App
              PROVE  TaskOf(a)' /\ \A r \in Rows(a)' : RowOfTask(a, r)'
  BY DEF RowsInv
<1>1. AppMove(a)
  BY StepMoves
<1>2. TaskOf(a) /\ \A r \in Rows(a) : RowOfTask(a, r)
  BY DEF RowsInv
<1>3. CASE Stays(a)
  BY <1>2, <1>3 DEF Stays, Keeps, RowsWithin, TaskOf, RowOfTask, GoodRow
<1>4. CASE Inserts(a)
  <2>1. GoodRow(NoRow) /\ Unassessed(NoRow)
    BY RowFields DEF GoodRow, Unassessed, NoDecision
  <2>2. \A r \in Rows(a)' : GoodRow(r) /\ Unassessed(r)
    BY <1>2, <1>4, <2>1, NewRows DEF Inserts, RowsWithin, RowOfTask
  <2>. QED  BY <1>2, <1>4, <2>2 DEF Inserts, TaskOf, RowOfTask
<1>5. CASE IsAnswered(a)
  BY <1>2, <1>5 DEF IsAnswered, Keeps, RowsWithin, TaskOf, RowOfTask
<1>6. CASE EndsEarly(a)
  BY <1>2, <1>6, NewRows DEF EndsEarly, Keeps, RowsWithin, TaskOf, RowOfTask
<1>7. CASE IsAssessed(a)
  BY <1>2, <1>7, NewRows DEF IsAssessed, RowsWithin, TaskOf, RowOfTask
<1>8. CASE GoesOn(a)
  BY <1>2, <1>8 DEF GoesOn, Keeps, RowsWithin, TaskOf, RowOfTask
<1>9. CASE IsDecided(a)
  BY <1>2, <1>9, NewRows DEF IsDecided, RowsWithin, TaskOf, RowOfTask
<1>10. CASE StartsAgain(a)
  BY <1>2, <1>10 DEF StartsAgain, Keeps, Rows, TaskOf, RowOfTask, Unassessed
<1>. QED
  BY <1>1, <1>3, <1>4, <1>5, <1>6, <1>7, <1>8, <1>9, <1>10 DEF AppMove

(* An exception leaves the databases, or restores the view.                *)
LEMMA RaisesMoves == Raises => DatabaseMove
  BY DEF Raises, Fault, DatabaseMove, DatabaseStays, Restores, database

(* Every write takes an application further.                               *)
LEMMA InsertWrites ==
  ASSUME TypeOK, RowsInv, NEW a \in App, NEW who, Insert(a, who)
  PROVE  DatabaseMove
<1>. DEFINE r == RowOf("RECEIVED", NoRisk, NoDecision)
<1>1. r \in Row /\ r # NoRow
  BY TaskRows, RowFields
<1>2. pc[a] = "free"
  BY DEF Insert, NextApp
<1>3. view.row[a] = NoRow /\ view.row[a] \in Row
  BY <1>2, RowsHere DEF RowsInv, RowOfTask
<1>4. Progress(view.row[a]) <= Progress(r)
  BY <1>1, <1>3, ProgressFacts, RowFields
<1>5. Execute(WithRow(a, r)) => DatabaseMove
  BY <1>1, <1>4 DEF Execute, DatabaseMove, WritesRow
<1>. QED  BY <1>5, RaisesMoves DEF Insert

LEMMA TaskWritesMove ==
  ASSUME TypeOK, RowsInv, NEW a \in App, NEW r \in Row, NEW next,
         \/ r.state = "DECIDING" /\ Unassessed(view.row[a])
         \/ Settled(r),
         TaskWrites(a, r, next)
  PROVE  DatabaseMove
<1>1. r # NoRow
  BY RowFields DEF Settled, SettledState
<1>2. view.row[a] \in Row
  BY RowsHere
<1>3. /\ Progress(view.row[a]) \in 0 .. 3
      /\ Unassessed(view.row[a]) => Progress(view.row[a]) <= 1
      /\ r.state = "DECIDING" => Progress(r) = 2
      /\ Settled(r) => Progress(r) = 3
  BY <1>2, ProgressFacts
<1>4. Progress(view.row[a]) <= Progress(r)
  BY <1>3
<1>5. Execute(WithRow(a, r)) => DatabaseMove
  BY <1>1, <1>4 DEF Execute, DatabaseMove, WritesRow
<1>. QED  BY <1>5, RaisesMoves DEF TaskWrites

LEMMA RunWrites ==
  ASSUME TypeOK, RowsInv, NEW a \in App, Run(a)
  PROVE  DatabaseMove
<1>1. Unassessed(view.row[a])
  BY RowsHere DEF Run, RowsInv, RowOfTask
<1>2. CASE UNCHANGED << database, found, faults >>
  BY <1>2 DEF DatabaseMove, DatabaseStays
<1>3. ASSUME NEW r \in EarlyEnds(a), TaskWrites(a, r, "concluded")
      PROVE  DatabaseMove
  BY <1>3, TaskRows, NewRows, TaskWritesMove
<1>4. ASSUME NEW f,
             TaskWrites(a, RowOf("DECIDING", AssessRisk(f), NoDecision), "assessed")
      PROVE  DatabaseMove
  BY <1>1, <1>4, TaskRows, RowFields, TaskWritesMove
<1>. QED  BY <1>2, <1>3, <1>4 DEF Run

LEMMA ConcludeWrites ==
  ASSUME TypeOK, RowsInv, NEW a \in App, Conclude(a)
  PROVE  DatabaseMove
<1>1. PICK rec \in Recommendation : TaskWrites(a, Decided(a, rec), "concluded")
  BY DEF Conclude, Decided, DecisionOn
<1>. QED  BY <1>1, TaskRows, NewRows, TaskWritesMove

(* Every step moves the databases in one of the five ways.                 *)
LEMMA StepDatabase ==
  ASSUME TypeOK, RowsInv, [Next]_vars
  PROVE  DatabaseMove
<1>1. ASSUME NEW a \in App, SubmitByClient(a) \/ SubmitForm(a)
      PROVE  DatabaseMove
  BY <1>1, InsertWrites DEF SubmitByClient, SubmitForm
<1>2. Commit => DatabaseMove
  BY DEF Commit, DatabaseMove, CommitsAll
<1>3. ASSUME NEW a \in App,
             CommitSubmission(a) \/ AcceptSubmission(a) \/ CommitTransition(a)
      PROVE  DatabaseMove
  BY <1>2, <1>3, RaisesMoves
     DEF CommitSubmission, AcceptSubmission, CommitTransition, Refuse
<1>4. ASSUME NEW a \in App, AskForReview(a) PROVE DatabaseMove
  BY <1>4 DEF AskForReview, server, DatabaseMove, DatabaseStays
<1>5. ASSUME NEW u \in Upload, StoreFile(u) PROVE DatabaseMove
  BY <1>5 DEF StoreFile, DatabaseMove, DatabaseStays
<1>6. ASSUME NEW u \in Upload, InsertDocument(u) PROVE DatabaseMove
  BY <1>6, RaisesMoves DEF InsertDocument, UploadStep, Execute, DatabaseMove,
     WritesDocument
<1>7. ASSUME NEW u \in Upload, CommitDocument(u) PROVE DatabaseMove
  BY <1>2, <1>7, RaisesMoves DEF CommitDocument
<1>8. CASE PageGoesOn
  BY <1>8, PageMoves DEF Fault, DatabaseMove, DatabaseStays, database
<1>9. CASE CountApplications \/ ReadPage
  BY <1>9 DEF CountApplications, ReadPage, server, DatabaseMove, DatabaseStays
<1>10. CASE RecordAccess \/ CommitByOthers
  BY <1>2, <1>10, RaisesMoves DEF RecordAccess, CommitByOthers
<1>11. CASE CrashAndRecover
  BY <1>11 DEF CrashAndRecover, Fault, DatabaseMove, Restores
<1>12. CASE UNCHANGED vars
  BY <1>12 DEF vars, DatabaseMove, DatabaseStays
<1>. QED
  BY <1>1, <1>3, <1>4, <1>5, <1>6, <1>7, <1>8, <1>9, <1>10, <1>11, <1>12,
     RunWrites, ConcludeWrites DEF Next, PageGoesOn

(* A task concludes once, and assesses the risk once; one that starts      *)
(* again has what is on disk, and that is not concluded.                   *)
LEMMA InitConclusion == Init => ConclusionInv
<1>. SUFFICES ASSUME Init, NEW a \in App, NEW r \in Rows(a), NEW s \in Rows(a)
              PROVE  ConclusionOf(a, r) /\ Agree(r, s)
  BY DEF ConclusionInv
<1>1. r = s
  BY DEF Init, Rows
<1>2. pc[a] = "over" \/ (pc[a] = "free" /\ r = NoRow)
  BY DEF Init, Rows
<1>. QED
  BY <1>1, <1>2, RowFields
     DEF ConclusionOf, Agree, Settled, SettledState

LEMMA StepConclusion ==
  ASSUME TypeOK, RowsInv, ConclusionInv, [Next]_vars
  PROVE  ConclusionInv'
<1>. SUFFICES ASSUME NEW a \in App, NEW r \in Rows(a)', NEW s \in Rows(a)'
              PROVE  ConclusionOf(a, r)' /\ Agree(r, s)
  BY DEF ConclusionInv, Agree
<1>1. AppMove(a)
  BY StepMoves
<1>2. \A p, q \in Rows(a) : ConclusionOf(a, p) /\ Agree(p, q)
  BY DEF ConclusionInv
<1>3. \A p \in Rows(a) : RowOfTask(a, p)
  BY DEF RowsInv
<1>4. \A p \in Rows(a) : Unassessed(p) => p.risk = NoRisk /\ ~Settled(p)
  BY <1>3 DEF RowOfTask, GoodRow, Unassessed, Settled, SettledState
<1>5. \A k \in RiskLevel : k # NoRisk
  BY DEF RiskLevel, NoRisk
<1>6. CASE Stays(a) \/ GoesOn(a) \/ IsAnswered(a)
  <2>1. RowsWithin(a, {}) /\ Keeps(a)
    BY <1>6 DEF Stays, GoesOn, IsAnswered
  <2>2. r \in Rows(a) /\ s \in Rows(a)
    BY <2>1 DEF RowsWithin
  <2>3. ConclusionOf(a, r) /\ ConclusionOf(a, s) /\ Agree(r, s)
    BY <1>2, <2>2
  <2>4. Settled(r) => pc'[a] \in { "concluded", "over" }
    BY <1>6, <2>3 DEF ConclusionOf, Stays, GoesOn, IsAnswered
  <2>5. pc'[a] \in { "assessed", "deciding" } => pc[a] \in { "assessed", "deciding" }
    BY <1>6 DEF Stays, GoesOn, IsAnswered
  <2>. QED  BY <2>1, <2>3, <2>4, <2>5 DEF ConclusionOf, Keeps
<1>7. CASE Inserts(a)
  <2>1. \A p \in Rows(a)' : Unassessed(p) /\ p.risk = NoRisk /\ ~Settled(p)
    BY <1>3, <1>7, RowFields
       DEF Inserts, RowsWithin, RowOfTask, Unassessed, Settled, SettledState
  <2>. QED  BY <1>7, <2>1 DEF Inserts, ConclusionOf, Agree
<1>8. CASE EndsEarly(a)
  <2>1. PICK new \in EarlyEnds(a) : RowsWithin(a, { new })
    BY <1>8 DEF EndsEarly
  <2>2. \A p \in Rows(a) : p.risk = NoRisk /\ ~Settled(p)
    BY <1>3, <1>4, <1>8 DEF EndsEarly, RowOfTask
  <2>3. new.risk = NoRisk
    BY NewRows
  <2>. QED
    BY <1>8, <2>1, <2>2, <2>3 DEF EndsEarly, RowsWithin, ConclusionOf, Agree
<1>9. CASE IsAssessed(a)
  <2>. DEFINE new == RowOf("DECIDING", AssessRisk(found'[a]), NoDecision)
  <2>1. RowsWithin(a, { new })
    BY <1>9 DEF IsAssessed
  <2>2. \A p \in Rows(a) : p.risk = NoRisk /\ ~Settled(p)
    BY <1>3, <1>4, <1>9 DEF IsAssessed, RowOfTask
  <2>3. new.risk = AssessRisk(found'[a]) /\ ~Settled(new)
    BY NewRows
  <2>. HIDE DEF new
  <2>. QED
    BY <2>1, <2>2, <2>3 DEF RowsWithin, ConclusionOf, Agree
<1>10. CASE IsDecided(a)
  <2>1. PICK rec \in Recommendation : RowsWithin(a, { Decided(a, rec) })
    BY <1>10 DEF IsDecided
  <2>. DEFINE new == Decided(a, rec)
  <2>2. \A p \in Rows(a) : p.risk \in { NoRisk, AssessRisk(found[a]) } /\ ~Settled(p)
    BY <1>2, <1>10 DEF IsDecided, ConclusionOf
  <2>3. new.risk = AssessRisk(found[a])
    BY NewRows
  <2>. HIDE DEF new
  <2>. QED
    BY <1>10, <2>1, <2>2, <2>3 DEF new, IsDecided, RowsWithin, ConclusionOf, Agree
<1>11. CASE StartsAgain(a)
  <2>1. r = disk.row[a] /\ s = disk.row[a] /\ disk.row[a] \in Rows(a)
    BY <1>11 DEF StartsAgain, Rows
  <2>2. pc'[a] \in { "free", "queued" } => ~Settled(r)
    <3>1. pc[a] = "free" => r = NoRow
      BY <1>3, <2>1 DEF RowOfTask
    <3>2. ~Settled(NoRow)
      BY RowFields DEF Settled, SettledState
    <3>. QED  BY <1>11, <2>1, <3>1, <3>2 DEF StartsAgain, Settled, SettledState
  <2>3. pc'[a] \in { "free", "queued", "over" }
    BY <1>11 DEF StartsAgain
  <2>. QED  BY <2>1, <2>2, <2>3 DEF ConclusionOf, Agree
<1>. QED  BY <1>1, <1>6, <1>7, <1>8, <1>9, <1>10, <1>11 DEF AppMove
-----------------------------------------------------------------------------
(***************************************************************************)
(* Types                                                                   *)
(***************************************************************************)
(* There are finitely many applications.                                   *)
LEMMA FiniteHere == IsFiniteSet(App) /\ Cardinality(App) = NumApps
  BY NumAppsAssumption, FS_Interval DEF App

(* The list has no more applications than there can be.                    *)
LEMMA ListedFinite ==
  ASSUME NEW db
  PROVE  /\ Stored(db) \subseteq App /\ IsFiniteSet(Stored(db))
         /\ Cardinality(Stored(db)) \in 0 .. NumApps
<1>1. Stored(db) \in SUBSET App
  BY DEF Stored
<1>2. IsFiniteSet(Stored(db)) /\ Cardinality(Stored(db)) <= NumApps
  BY <1>1, FiniteHere, FS_Subset
<1>3. Cardinality(Stored(db)) \in Nat
  BY <1>2, FS_CardinalityType
<1>. QED  BY <1>1, <1>2, <1>3, NumAppsAssumption

PageType ==
  [ flow     : { "form", "submitting", "partial_failure", "success" },
    app      : App \cup { Nobody },
    doc      : { "none", "ready", "uploading", "processed", "failed" },
    creating : App \cup { Nobody },
    carries  : BOOLEAN,
    forms    : 1 .. MaxForms,
    clicks   : SUBSET { "again", "leave", "anew" } ]

UploadType ==
  [ Upload -> [ at  : { "free", "asked", "stored", "inserted", "accepted", "error" },
                app : App \cup { Nobody },
                by  : { "nobody", "submit", "retry" } ] ]

LEMMA InitType == Init => TypeOK
<1>. SUFFICES ASSUME Init PROVE TypeOK
  OBVIOUS
<1>1. NoRow \in Row /\ RowOf("APPROVED", "LOW", "APPROVE") \in Row
  BY RowType DEF NoRow, SettledState, RiskLevel, FinalDecision
<1>2. view \in Database /\ disk \in Database
  BY <1>1 DEF Init, Database
<1>3. /\ cast \in Casts
      /\ origin \in [ App -> { "nobody", "before", "page", "client" } ]
      /\ pc \in [ App -> { "free", "inserted", "written", "queued", "assessed",
                           "deciding", "concluded", "over" } ]
      /\ found \in [ App -> Findings ]
      /\ answered \in [ App -> { "nothing", "accepted", "error" } ]
      /\ upload \in UploadType
      /\ faults = {}
  BY NothingFoundType DEF Init, UploadType
<1>4. page \in PageType
  BY MaxFormsAssumption DEF Init, PageType
<1>5. walk \in [ at : { "off", "count", "page", "end" },
                 total : 0 .. NumApps, offset : 0 .. NumApps - 1,
                 seen : SUBSET App, there : SUBSET App ]
  BY NumAppsAssumption DEF Init
<1>6. review \in [ of : App \cup { Nobody }, call : 0 .. 5, asked : BOOLEAN,
                   first : Row, risk : RiskLevel \cup { NoRisk },
                   recorded : BOOLEAN ]
  BY <1>1 DEF Init
<1>. QED  BY <1>2, <1>3, <1>4, <1>5, <1>6 DEF TypeOK, PageType, UploadType

(* The databases stay databases.                                           *)
LEMMA TypeOfDatabases ==
  ASSUME TypeOK, RowsInv, [Next]_vars
  PROVE  view' \in Database /\ disk' \in Database
<1>1. view \in Database /\ disk \in Database
  BY DEF TypeOK
<1>2. CASE DatabaseStays \/ CommitsAll \/ Restores
  BY <1>1, <1>2 DEF DatabaseStays, CommitsAll, Restores, database
<1>3. CASE \E a \in App : WritesRow(a)
  BY <1>1, <1>3, WriteRow DEF WritesRow
<1>4. CASE WritesDocument
  BY <1>1, <1>4, WriteDocument
<1>. QED  BY <1>2, <1>3, <1>4, StepDatabase DEF DatabaseMove

(* So do the places of the applications.                                   *)
LEMMA TypeOfPlaces ==
  ASSUME TypeOK, [Next]_vars
  PROVE  PlaceTypes'
<1>. USE DEF PlaceTypes
<1>1. PlaceTypes
  BY DEF TypeOK
<1>2. ASSUME NEW a \in App, SubmitByClient(a) \/ SubmitForm(a)
      PROVE  PlaceTypes'
  BY <1>1, <1>2 DEF SubmitByClient, SubmitForm, Insert
<1>3. ASSUME NEW a \in App, CommitSubmission(a) \/ AcceptSubmission(a)
      PROVE  PlaceTypes'
  BY <1>1, <1>3 DEF CommitSubmission, AcceptSubmission, Refuse
<1>4. ASSUME NEW a \in App, Run(a) PROVE PlaceTypes'
  <2>1. UNCHANGED << origin, answered >>
    BY <1>4 DEF Run
  <2>2. pc' \in [ App -> { "free", "inserted", "written", "queued", "assessed",
                           "deciding", "concluded", "over" } ]
    BY <1>1, <1>4 DEF Run, TaskWrites
  <2>3. FindingsOf(a) \subseteq Findings
    BY NothingFoundType, ClientFindingsAssumption DEF FindingsOf
  <2>4. found' \in [ App -> Findings ]
    BY <1>1, <1>4, <2>3 DEF Run
  <2>. QED  BY <1>1, <2>1, <2>2, <2>4
<1>5. ASSUME NEW a \in App, CommitTransition(a) PROVE PlaceTypes'
  BY <1>1, <1>5 DEF CommitTransition
<1>6. ASSUME NEW a \in App, Conclude(a) PROVE PlaceTypes'
  <2>1. /\ UNCHANGED << origin, answered >>
        /\ found' = [ found EXCEPT ![a] = NothingFound ]
    BY <1>6 DEF Conclude
  <2>2. \E next \in { "concluded", "over" } : pc' = [ pc EXCEPT ![a] = next ]
    BY <1>6 DEF Conclude, TaskWrites
  <2>. QED  BY <1>1, <2>1, <2>2, NothingFoundType
<1>7. ASSUME CrashAndRecover PROVE PlaceTypes'
  BY <1>1, <1>7 DEF CrashAndRecover
<1>8. ASSUME NEW a \in App, AskForReview(a) PROVE PlaceTypes'
  BY <1>1, <1>8 DEF AskForReview, server
<1>9. ASSUME NEW u \in Upload, StoreFile(u) \/ InsertDocument(u) \/ CommitDocument(u)
      PROVE  PlaceTypes'
  BY <1>1, <1>9 DEF StoreFile, InsertDocument, CommitDocument
<1>10. CASE PageGoesOn
  BY <1>1, <1>10, PageMoves
<1>11. CASE CountApplications \/ ReadPage \/ RecordAccess \/ CommitByOthers
  BY <1>1, <1>11 DEF CountApplications, ReadPage, RecordAccess, CommitByOthers, server
<1>12. CASE UNCHANGED vars
  BY <1>1, <1>12 DEF vars
<1>. QED
  BY <1>2, <1>3, <1>4, <1>5, <1>6, <1>7, <1>8, <1>9, <1>10, <1>11, <1>12
     DEF Next, PageGoesOn

(* What a step does to the page, the uploads, the list and the review; all *)
(* others leave them alone.                                                *)
LEMMA OnlyThese ==
  ASSUME [Next]_vars
  PROVE  /\ \/ UNCHANGED page
            \/ \E a \in App : SubmitForm(a)
            \/ PageGoesOn
         /\ \/ UNCHANGED upload
            \/ \E u \in Upload :
                 \/ StoreFile(u) \/ InsertDocument(u) \/ CommitDocument(u)
                 \/ UploadAnswered(u)
            \/ CreationAnswered \/ RetryFailed \/ CrashAndRecover
         /\ UNCHANGED walk \/ CountApplications \/ ReadPage \/ CrashAndRecover
         /\ \/ UNCHANGED review
            \/ \E a \in App : AskForReview(a)
            \/ RecordAccess \/ CrashAndRecover
<1>1. ASSUME NEW a \in App, SubmitByClient(a) \/ SubmitForm(a)
      PROVE  UNCHANGED << upload, walk, review >> /\ (UNCHANGED page \/ SubmitForm(a))
  BY <1>1 DEF SubmitByClient, SubmitForm
<1>2. ASSUME NEW a \in App,
             CommitSubmission(a) \/ AcceptSubmission(a) \/ Run(a)
             \/ CommitTransition(a) \/ Conclude(a)
      PROVE  UNCHANGED << page, upload, walk, review >>
  BY <1>2 DEF CommitSubmission, AcceptSubmission, Run, CommitTransition, Conclude
<1>3. ASSUME NEW a \in App, AskForReview(a) PROVE UNCHANGED << page, upload, walk >>
  BY <1>3 DEF AskForReview
<1>4. ASSUME NEW u \in Upload, StoreFile(u) \/ InsertDocument(u) \/ CommitDocument(u)
      PROVE  UNCHANGED << page, walk, review >>
  BY <1>4 DEF StoreFile, InsertDocument, CommitDocument
<1>5. PageGoesOn => UNCHANGED << walk, review >>
  BY PageMoves
<1>6. RetryAgain \/ ContinueWithoutDocs \/ NewApplication => UNCHANGED upload
  BY DEF RetryAgain, ContinueWithoutDocs, NewApplication
<1>7. CountApplications \/ ReadPage => UNCHANGED << page, upload, review >>
  BY DEF CountApplications, ReadPage
<1>8. RecordAccess => UNCHANGED << page, upload, walk >>
  BY DEF RecordAccess
<1>9. CommitByOthers => UNCHANGED << page, upload, walk, review >>
  BY DEF CommitByOthers
<1>10. CrashAndRecover => UNCHANGED page
  BY DEF CrashAndRecover
<1>11. CASE UNCHANGED vars
  BY <1>11 DEF vars
<1>12. CASE Next
  BY <1>1, <1>2, <1>3, <1>4, <1>5, <1>6, <1>7, <1>8, <1>9, <1>10, <1>12
     DEF Next, PageGoesOn
<1>. QED  BY <1>11, <1>12

LEMMA TypeOfPage ==
  ASSUME TypeOK, [Next]_vars
  PROVE  page' \in PageType
<1>. USE DEF PageType
<1>1. page \in PageType
  BY DEF TypeOK
<1>2. ASSUME NEW a \in App, SubmitForm(a) PROVE page' \in PageType
  BY <1>1, <1>2 DEF SubmitForm
<1>3. CASE CreationAnswered
  <2>1. page.creating \in App \cup { Nobody }
    BY <1>1
  <2>2. \/ page' = [ page EXCEPT !.creating = Nobody, !.app = page.creating,
                                !.flow = "success" ]
        \/ page' = [ page EXCEPT !.creating = Nobody, !.app = page.creating ]
        \/ page' = [ page EXCEPT !.creating = Nobody, !.flow = "form" ]
    BY <1>3 DEF CreationAnswered
  <2>3. CASE page' = [ page EXCEPT !.creating = Nobody, !.app = page.creating,
                                   !.flow = "success" ]
    BY <1>1, <2>1, <2>3
  <2>4. CASE page' = [ page EXCEPT !.creating = Nobody, !.app = page.creating ]
    BY <1>1, <2>1, <2>4
  <2>5. CASE page' = [ page EXCEPT !.creating = Nobody, !.flow = "form" ]
    BY <1>1, <2>5
  <2>. QED  BY <2>2, <2>3, <2>4, <2>5
<1>4. ASSUME NEW u \in Upload, UploadAnswered(u) PROVE page' \in PageType
  <2>1. \/ page' = [ page EXCEPT !.doc = "processed", !.flow = "success" ]
        \/ page' = [ page EXCEPT !.doc = "failed", !.flow = "partial_failure" ]
        \/ page' = [ page EXCEPT !.doc = "failed", !.flow = @ ]
    BY <1>4 DEF UploadAnswered
  <2>2. CASE page' = [ page EXCEPT !.doc = "processed", !.flow = "success" ]
    BY <1>1, <2>2
  <2>3. CASE page' = [ page EXCEPT !.doc = "failed", !.flow = "partial_failure" ]
    BY <1>1, <2>3
  <2>4. CASE page' = [ page EXCEPT !.doc = "failed", !.flow = @ ]
    BY <1>1, <2>4
  <2>. QED  BY <2>1, <2>2, <2>3, <2>4
<1>5. CASE RetryFailed
  BY <1>1, <1>5 DEF RetryFailed
<1>6. CASE RetryAgain \/ ContinueWithoutDocs
  <2>1. PICK what \in { "again", "leave" } :
          page' = [ page EXCEPT !.flow = "success", !.clicks = @ \cup { what } ]
    BY <1>6 DEF RetryAgain, ContinueWithoutDocs, Click
  <2>2. page.clicks \cup { what } \in SUBSET { "again", "leave", "anew" }
    BY <1>1, <2>1
  <2>. QED  BY <1>1, <2>1, <2>2
<1>7. CASE NewApplication
  <2>1. PICK clicks \in { {}, { "anew" } } :
          page' = [ page EXCEPT !.flow = "form", !.app = Nobody, !.doc = "none",
                      !.forms = @ + 1, !.clicks = clicks ]
    BY <1>7 DEF NewApplication
  <2>2. page.forms + 1 \in 1 .. MaxForms
    BY <1>1, <1>7, MaxFormsAssumption DEF NewApplication
  <2>3. clicks \in SUBSET { "again", "leave", "anew" }
    BY <2>1
  <2>. QED  BY <1>1, <2>1, <2>2, <2>3
<1>. QED
  BY <1>1, <1>2, <1>3, <1>4, <1>5, <1>6, <1>7, OnlyThese DEF PageGoesOn

LEMMA TypeOfUpload ==
  ASSUME TypeOK, [Next]_vars
  PROVE  upload' \in UploadType
<1>. USE DEF UploadType
<1>1. upload \in UploadType
  BY DEF TypeOK
<1>2. ASSUME NEW u \in Upload, StoreFile(u) \/ InsertDocument(u) \/ CommitDocument(u)
      PROVE  upload' \in UploadType
  BY <1>1, <1>2 DEF StoreFile, InsertDocument, CommitDocument, UploadStep
<1>3. ASSUME NEW u \in Upload, NEW a \in App \cup { Nobody },
             NEW by \in { "submit", "retry" }, StartUpload(u, a, by)
      PROVE  upload' \in UploadType
  BY <1>1, <1>3 DEF StartUpload
<1>4. CASE CreationAnswered \/ RetryFailed
  <2>1. page.creating \in App \cup { Nobody } /\ page.app \in App \cup { Nobody }
    BY DEF TypeOK
  <2>. QED  BY <1>1, <1>3, <1>4, <2>1 DEF CreationAnswered, RetryFailed
<1>5. ASSUME NEW u \in Upload, UploadAnswered(u) PROVE upload' \in UploadType
  BY <1>1, <1>5 DEF UploadAnswered
<1>6. CASE CrashAndRecover
  BY <1>1, <1>6 DEF CrashAndRecover
<1>. QED  BY <1>1, <1>2, <1>4, <1>5, <1>6, OnlyThese

WalkType ==
  [ at : { "off", "count", "page", "end" },
    total : 0 .. NumApps, offset : 0 .. NumApps - 1,
    seen : SUBSET App, there : SUBSET App ]

LEMMA TypeOfWalk ==
  ASSUME TypeOK, [Next]_vars
  PROVE  walk' \in WalkType
<1>. USE DEF WalkType
<1>1. walk \in WalkType
  BY DEF TypeOK
<1>2. CASE CountApplications
  BY <1>1, <1>2, ListedFinite DEF CountApplications
<1>3. CASE ReadPage
  <2>1. PageAt(walk.offset) \subseteq App
    BY ListedFinite DEF PageAt
  <2>2. HasNext(walk.offset, walk.total) => walk.offset + 1 \in 0 .. NumApps - 1
    BY <1>1, NumAppsAssumption DEF HasNext
  <2>. QED  BY <1>1, <1>3, <2>1, <2>2 DEF ReadPage
<1>4. CASE CrashAndRecover
  BY <1>1, <1>4, NumAppsAssumption DEF CrashAndRecover
<1>. QED  BY <1>1, <1>2, <1>3, <1>4, OnlyThese

ReviewType ==
  [ of : App \cup { Nobody }, call : 0 .. 5, asked : BOOLEAN,
    first : Row, risk : RiskLevel \cup { NoRisk }, recorded : BOOLEAN ]

LEMMA TypeOfReview ==
  ASSUME TypeOK, [Next]_vars
  PROVE  review' \in ReviewType
<1>. USE DEF ReviewType
<1>1. review \in ReviewType
  BY DEF TypeOK
<1>2. ASSUME NEW a \in App, AskForReview(a) PROVE review' \in ReviewType
  <2>1. StatusOf(a) \in Row /\ RiskOf(a) \in RiskLevel \cup { NoRisk }
    BY DatabaseFields DEF TypeOK, StatusOf, RiskOf, Row
  <2>2. review.call + 1 \in 0 .. 5
    BY <1>1, <1>2 DEF AskForReview
  <2>. QED  BY <1>1, <1>2, <2>1, <2>2 DEF AskForReview
<1>3. CASE RecordAccess
  BY <1>1, <1>3 DEF RecordAccess
<1>4. CASE CrashAndRecover
  <2>1. NoRow \in Row
    BY RowType DEF NoRow
  <2>. QED  BY <1>1, <1>4, <2>1 DEF CrashAndRecover
<1>. QED  BY <1>1, <1>2, <1>3, <1>4, OnlyThese

(* The kinds of faults, and who is there.                                  *)
LEMMA TypeOfFaults ==
  ASSUME TypeOK, [Next]_vars
  PROVE  faults' \subseteq { "error", "rollback", "crash", "answer" } /\ cast' = cast
<1>1. faults \subseteq { "error", "rollback", "crash", "answer" }
  BY DEF TypeOK
<1>2. /\ Raises => faults' \subseteq { "error", "rollback", "crash", "answer" }
      /\ Commit => faults' = faults
      /\ \A db : Execute(db) => faults' = faults
  BY <1>1 DEF Raises, Fault, Commit, Execute
<1>3. ASSUME NEW a \in App,
             SubmitByClient(a) \/ SubmitForm(a) \/ CommitSubmission(a)
             \/ AcceptSubmission(a) \/ Run(a) \/ CommitTransition(a) \/ Conclude(a)
      PROVE  faults' \subseteq { "error", "rollback", "crash", "answer" } /\ cast' = cast
  <2>1. Raises \/ Commit \/ (\E db : Execute(db)) \/ UNCHANGED faults
    BY <1>3 DEF SubmitByClient, SubmitForm, Insert, CommitSubmission,
       AcceptSubmission, Refuse, Run, TaskWrites, CommitTransition, Conclude
  <2>2. cast' = cast
    BY <1>3 DEF SubmitByClient, SubmitForm, CommitSubmission, AcceptSubmission,
       Run, CommitTransition, Conclude
  <2>. QED  BY <1>1, <1>2, <2>1, <2>2
<1>4. ASSUME NEW a \in App, AskForReview(a)
      PROVE  faults' = faults /\ cast' = cast
  BY <1>4 DEF AskForReview, server
<1>5. ASSUME NEW u \in Upload, StoreFile(u) \/ InsertDocument(u) \/ CommitDocument(u)
      PROVE  faults' \subseteq { "error", "rollback", "crash", "answer" } /\ cast' = cast
  <2>1. Raises \/ Commit \/ (\E db : Execute(db)) \/ UNCHANGED faults
    BY <1>5 DEF StoreFile, InsertDocument, CommitDocument
  <2>2. cast' = cast
    BY <1>5 DEF StoreFile, InsertDocument, CommitDocument
  <2>. QED  BY <1>1, <1>2, <2>1, <2>2
<1>6. CASE PageGoesOn
  BY <1>1, <1>6, PageMoves DEF Fault
<1>7. CASE CountApplications \/ ReadPage \/ RecordAccess \/ CommitByOthers
  BY <1>1, <1>2, <1>7 DEF CountApplications, ReadPage, RecordAccess, CommitByOthers, server
<1>8. CASE CrashAndRecover
  BY <1>1, <1>8 DEF CrashAndRecover, Fault
<1>9. CASE UNCHANGED vars
  <2>1. faults' = faults /\ cast' = cast
    BY <1>9 DEF vars
  <2>. QED  BY <1>1, <2>1
<1>. QED  BY <1>1, <1>3, <1>4, <1>5, <1>6, <1>7, <1>8, <1>9 DEF Next, PageGoesOn

LEMMA StepType ==
  ASSUME TypeOK, RowsInv, [Next]_vars
  PROVE  TypeOK'
<1>1. view' \in Database /\ disk' \in Database
  BY TypeOfDatabases
<1>2. PlaceTypes' /\ page' \in PageType /\ upload' \in UploadType
      /\ walk' \in WalkType /\ review' \in ReviewType
  BY TypeOfPlaces, TypeOfPage, TypeOfUpload, TypeOfWalk, TypeOfReview
<1>3. faults' \subseteq { "error", "rollback", "crash", "answer" } /\ cast' \in Casts
  BY TypeOfFaults DEF TypeOK
<1>. QED
  BY <1>1, <1>2, <1>3
     DEF TypeOK, PlaceTypes, PageType, UploadType, WalkType, ReviewType
-----------------------------------------------------------------------------
(***************************************************************************)
(* What does not get lost                                                  *)
(***************************************************************************)
(* An upload that was begun stays one, of its application.                 *)
LEMMA UploadsGoOn ==
  ASSUME TypeOK, [Next]_vars, NEW v \in Upload, upload[v].at # "free"
  PROVE  upload'[v].at # "free" /\ upload'[v].app = upload[v].app
<1>1. ASSUME NEW u \in Upload, StoreFile(u) \/ InsertDocument(u) \/ CommitDocument(u)
      PROVE  upload'[v].at # "free" /\ upload'[v].app = upload[v].app
  BY <1>1 DEF StoreFile, InsertDocument, CommitDocument, UploadStep, TypeOK
<1>2. ASSUME NEW u \in Upload, NEW a, NEW by, StartUpload(u, a, by)
      PROVE  upload'[v].at # "free" /\ upload'[v].app = upload[v].app
  BY <1>2 DEF StartUpload, TypeOK
<1>3. ASSUME NEW u \in Upload, UploadAnswered(u)
      PROVE  upload'[v].at # "free" /\ upload'[v].app = upload[v].app
  BY <1>3 DEF UploadAnswered, TypeOK
<1>4. CASE CrashAndRecover
  BY <1>4 DEF CrashAndRecover, TypeOK
<1>5. CASE UNCHANGED upload
  BY <1>5
<1>. QED
  BY <1>1, <1>2, <1>3, <1>4, <1>5, OnlyThese DEF CreationAnswered, RetryFailed

(* The disk is never ahead, and a document is of an upload.                *)
LEMMA InitAhead == Init => AheadInv
<1>. SUFFICES ASSUME Init PROVE AheadInv
  OBVIOUS
<1>1. disk = view /\ view.docs = {}
  BY DEF Init
<1>2. ASSUME NEW a \in App PROVE Progress(view.row[a]) \in Nat
  <2>1. view.row[a] \in { NoRow, RowOf("APPROVED", "LOW", "APPROVE") }
    BY DEF Init
  <2>2. NoRow \in Row /\ RowOf("APPROVED", "LOW", "APPROVE") \in Row
    BY RowType DEF NoRow, SettledState, RiskLevel, FinalDecision
  <2>. QED  BY <2>1, <2>2, ProgressFacts
<1>. QED  BY <1>1, <1>2 DEF AheadInv

LEMMA StepAhead ==
  ASSUME TypeOK, RowsInv, AheadInv, [Next]_vars
  PROVE  AheadInv'
<1>1. DatabaseMove
  BY StepDatabase
<1>2. \A a \in App : /\ Progress(view.row[a]) \in Nat /\ Progress(disk.row[a]) \in Nat
                     /\ Progress(disk.row[a]) <= Progress(view.row[a])
  BY RowsHere, ProgressFacts DEF AheadInv
<1>3. disk.docs \subseteq view.docs /\ \A u \in view.docs : upload[u].at # "free"
  BY DEF AheadInv
<1>4. /\ \A a \in App : Progress(disk'.row[a]) <= Progress(view'.row[a])
      /\ disk'.docs \subseteq view'.docs
      /\ \A u \in view'.docs : upload[u].at # "free"
  <2>1. CASE DatabaseStays \/ CommitsAll \/ Restores
    BY <1>2, <1>3, <2>1 DEF DatabaseStays, CommitsAll, Restores, database
  <2>2. CASE WritesDocument
    BY <1>2, <1>3, <2>2, WriteDocument DEF TypeOK
  <2>3. ASSUME NEW b \in App, WritesRow(b)
        PROVE  /\ \A a \in App : Progress(disk'.row[a]) <= Progress(view'.row[a])
               /\ disk'.docs \subseteq view'.docs
               /\ \A u \in view'.docs : upload[u].at # "free"
    <3>1. PICK r \in Row : view' = WithRow(b, r) /\ Progress(view.row[b]) <= Progress(r)
      BY <2>3 DEF WritesRow
    <3>2. /\ view'.docs = view.docs /\ view'.row[b] = r /\ disk' = disk
          /\ \A a \in App : a # b => view'.row[a] = view.row[a]
      BY <2>3, <3>1, WriteRow DEF WritesRow, TypeOK
    <3>3. Progress(r) \in Nat
      BY ProgressFacts
    <3>4. ASSUME NEW a \in App
          PROVE  Progress(disk'.row[a]) <= Progress(view'.row[a])
      <4>1. CASE a = b
        BY <1>2, <3>1, <3>2, <3>3, <4>1
      <4>2. CASE a # b
        BY <1>2, <3>2, <4>2
      <4>. QED  BY <4>1, <4>2
    <3>. QED  BY <1>3, <3>2, <3>4
  <2>. QED  BY <1>1, <2>1, <2>2, <2>3 DEF DatabaseMove
<1>5. view'.docs \subseteq Upload
  BY <1>1, DatabaseFields, TypeOfDatabases DEF TypeOK
<1>6. \A u \in view'.docs : upload'[u].at # "free"
  BY <1>4, <1>5, UploadsGoOn
<1>. QED  BY <1>4, <1>6 DEF AheadInv

(* What is on disk is never lost, and what is seen only by a restoration.  *)
LEMMA NothingLost ==
  ASSUME TypeOK, TypeOK', RowsInv, AheadInv, [Next]_vars
  PROVE  /\ \A a \in App :
              /\ Progress(disk.row[a]) <= Progress(disk'.row[a])
              /\ ~Restores => Progress(view.row[a]) <= Progress(view'.row[a])
         /\ disk.docs \subseteq disk'.docs
         /\ ~Restores => view.docs \subseteq view'.docs
<1>1. DatabaseMove
  BY StepDatabase
<1>2. \A a \in App : /\ Progress(view.row[a]) \in Nat /\ Progress(disk.row[a]) \in Nat
                     /\ Progress(disk.row[a]) <= Progress(view.row[a])
  BY RowsHere, ProgressFacts DEF AheadInv
<1>3. disk.docs \subseteq view.docs
  BY DEF AheadInv
<1>4. CASE DatabaseStays \/ CommitsAll \/ Restores
  BY <1>2, <1>3, <1>4 DEF DatabaseStays, CommitsAll, Restores, database
<1>5. CASE WritesDocument
  BY <1>2, <1>3, <1>5, WriteDocument DEF TypeOK
<1>6. ASSUME NEW b \in App, WritesRow(b)
      PROVE  /\ \A a \in App : Progress(view.row[a]) <= Progress(view'.row[a])
             /\ view'.docs = view.docs /\ disk' = disk
  <2>1. PICK r \in Row : view' = WithRow(b, r) /\ Progress(view.row[b]) <= Progress(r)
    BY <1>6 DEF WritesRow
  <2>2. /\ view'.docs = view.docs /\ view'.row[b] = r /\ disk' = disk
        /\ \A a \in App : a # b => view'.row[a] = view.row[a]
    BY <1>6, <2>1, WriteRow DEF WritesRow, TypeOK
  <2>3. ASSUME NEW a \in App PROVE Progress(view.row[a]) <= Progress(view'.row[a])
    <3>1. CASE a = b
      BY <2>1, <2>2, <3>1
    <3>2. CASE a # b
      BY <1>2, <2>2, <3>2
    <3>. QED  BY <3>1, <3>2
  <2>. QED  BY <2>2, <2>3
<1>. QED  BY <1>1, <1>2, <1>3, <1>4, <1>5, <1>6 DEF DatabaseMove

(* So an application that is there stays there.                            *)
LEMMA RowsStay ==
  ASSUME TypeOK, TypeOK', RowsInv, AheadInv, [Next]_vars, NEW a \in App
  PROVE  /\ disk.row[a] # NoRow => view.row[a] # NoRow
         /\ disk.row[a] # NoRow => disk'.row[a] # NoRow
         /\ ~Restores /\ view.row[a] # NoRow => view'.row[a] # NoRow
<1>1. /\ Progress(view.row[a]) \in Nat /\ Progress(disk.row[a]) \in Nat
      /\ view.row[a] # NoRow => Progress(view.row[a]) # 0
      /\ disk.row[a] # NoRow => Progress(disk.row[a]) # 0
      /\ Progress(disk.row[a]) <= Progress(view.row[a])
  BY RowsHere, ProgressFacts DEF AheadInv
<1>2. Progress(view'.row[a]) \in Nat /\ Progress(disk'.row[a]) \in Nat
  <2>1. view'.row[a] \in Row /\ disk'.row[a] \in Row
    BY DatabaseFields DEF TypeOK
  <2>. QED  BY <2>1, ProgressFacts
<1>3. NoRow \in Row /\ Progress(NoRow) = 0
  <2>1. NoRow \in Row
    BY RowType DEF NoRow
  <2>. QED  BY <2>1, ProgressFacts, RowFields
<1>4. /\ Progress(disk.row[a]) <= Progress(disk'.row[a])
      /\ ~Restores => Progress(view.row[a]) <= Progress(view'.row[a])
  BY NothingLost
<1>5. disk.row[a] # NoRow => view.row[a] # NoRow
  BY <1>1, <1>3
<1>6. disk.row[a] # NoRow => disk'.row[a] # NoRow
  BY <1>1, <1>2, <1>3, <1>4
<1>7. ~Restores /\ view.row[a] # NoRow => view'.row[a] # NoRow
  BY <1>1, <1>2, <1>3, <1>4
<1>. QED  BY <1>5, <1>6, <1>7

(* An answer stays, and an error is the answer only of a new fault.        *)
LEMMA AnswersStay ==
  ASSUME TypeOK, RowsInv, [Next]_vars, NEW a \in App
  PROVE  /\ answered[a] = "accepted" => answered'[a] = "accepted"
         /\ faults' = faults /\ answered'[a] = "error" => answered[a] = "error"
<1>1. AppMove(a)
  BY StepMoves
<1>2. pc[a] \in { "free", "inserted", "written" } => answered[a] = "nothing"
  BY DEF RowsInv, TaskOf
<1>. QED
  BY <1>1, <1>2
     DEF AppMove, Stays, Inserts, IsAnswered, EndsEarly, IsAssessed, GoesOn,
         IsDecided, StartsAgain
-----------------------------------------------------------------------------
(***************************************************************************)
(* The page                                                                *)
(***************************************************************************)
(* What is awaited, and of which application.                              *)
LEMMA AwaitedAfter ==
  ASSUME TypeOK, NEW u \in Upload
  PROVE  /\ StoreFile(u) \/ InsertDocument(u) \/ CommitDocument(u) \/ CrashAndRecover
           \/ (UNCHANGED upload) =>
              /\ Awaited' = Awaited
              /\ \A v \in Upload : upload'[v].app = upload[v].app
         /\ \A a : \A by \in { "submit", "retry" } : StartUpload(u, a, by) =>
              /\ Awaited' = Awaited \cup { u } /\ upload'[u].app = a
              /\ \A v \in Upload \ { u } : upload'[v].app = upload[v].app
         /\ UploadAnswered(u) =>
              /\ u \in Awaited /\ Awaited' = Awaited \ { u }
              /\ \A v \in Upload : upload'[v].app = upload[v].app
<1>1. upload \in UploadType
  BY DEF TypeOK, UploadType
<1>2. ASSUME \/ StoreFile(u) \/ InsertDocument(u) \/ CommitDocument(u)
             \/ CrashAndRecover \/ (UNCHANGED upload)
      PROVE  /\ Awaited' = Awaited
             /\ \A v \in Upload : upload'[v].app = upload[v].app
  <2>1. \A v \in Upload :
          upload'[v].by = upload[v].by /\ upload'[v].app = upload[v].app
    BY <1>1, <1>2 DEF StoreFile, InsertDocument, CommitDocument, UploadStep,
       CrashAndRecover, UploadType
  <2>. QED  BY <2>1 DEF Awaited
<1>3. ASSUME NEW a, NEW by \in { "submit", "retry" }, StartUpload(u, a, by)
      PROVE  /\ Awaited' = Awaited \cup { u } /\ upload'[u].app = a
             /\ \A v \in Upload \ { u } : upload'[v].app = upload[v].app
  <2>1. /\ upload'[u].by # "nobody" /\ upload'[u].app = a
        /\ \A v \in Upload \ { u } : upload'[v] = upload[v]
    BY <1>1, <1>3 DEF StartUpload, UploadType
  <2>. QED  BY <2>1 DEF Awaited
<1>4. ASSUME UploadAnswered(u)
      PROVE  /\ u \in Awaited /\ Awaited' = Awaited \ { u }
             /\ \A v \in Upload : upload'[v].app = upload[v].app
  <2>1. /\ upload[u].by # "nobody" /\ upload'[u].by = "nobody"
        /\ upload'[u].app = upload[u].app
        /\ \A v \in Upload \ { u } : upload'[v] = upload[v]
    BY <1>1, <1>4 DEF UploadAnswered, UploadType
  <2>. QED  BY <2>1 DEF Awaited
<1>. QED  BY <1>2, <1>3, <1>4

(* What each step of the page makes of it.                                 *)
LEMMA PageSubmits ==
  ASSUME TypeOK, NEW a \in App, SubmitForm(a)
  PROVE  /\ page.flow = "form" /\ page'.flow = "submitting"
         /\ page'.app = page.app /\ page'.creating = a
         /\ page'.doc = IF page'.carries THEN "ready" ELSE "none"
         /\ page'.forms = page.forms /\ page'.clicks = page.clicks
         /\ UNCHANGED upload
<1>1. page \in PageType
  BY DEF TypeOK, PageType
<1>. QED  BY <1>1 DEF SubmitForm, PageType

LEMMA PageHears ==
  ASSUME TypeOK, CreationAnswered
  PROVE  /\ page.creating \in App /\ page'.creating = Nobody
         /\ page'.doc = page.doc
         /\ page'.forms = page.forms /\ page'.clicks = page.clicks
         /\ \/ /\ answered[page.creating] = "accepted" /\ page'.app = page.creating
              /\ \/ ~page.carries /\ page'.flow = "success" /\ UNCHANGED upload
                 \/ /\ page.carries /\ page'.flow = page.flow
                    /\ \E u \in Upload : StartUpload(u, page.creating, "submit")
            \/ /\ Fails(answered[page.creating] = "error")
               /\ page'.app = page.app /\ page'.flow = "form" /\ UNCHANGED upload
<1>1. page \in PageType
  BY DEF TypeOK, PageType
<1>. QED  BY <1>1 DEF CreationAnswered, PageType, Nobody, App

LEMMA PageLearns ==
  ASSUME TypeOK, NEW u \in Upload, UploadAnswered(u)
  PROVE  /\ page'.app = page.app /\ page'.creating = page.creating
         /\ page'.carries = page.carries
         /\ page'.forms = page.forms /\ page'.clicks = page.clicks
         /\ \/ /\ upload[u].at = "accepted"
               /\ page'.doc = "processed" /\ page'.flow = "success"
            \/ /\ page'.doc = "failed"
               /\ page'.flow \in { "partial_failure", page.flow }
<1>1. page \in PageType
  BY DEF TypeOK, PageType
<1>. QED  BY <1>1 DEF UploadAnswered, PageType

LEMMA PageClicks ==
  ASSUME TypeOK, RetryFailed \/ RetryAgain \/ ContinueWithoutDocs
  PROVE  /\ page.flow = "partial_failure"
         /\ page'.app = page.app /\ page'.creating = page.creating
         /\ page'.carries = page.carries /\ page'.forms = page.forms
         /\ \/ /\ page.app # Nobody /\ page.doc = "failed" /\ page'.doc = "uploading"
               /\ page'.flow = page.flow /\ page'.clicks = page.clicks
               /\ \E u \in Upload : StartUpload(u, page.app, "retry")
            \/ /\ page'.doc = page.doc /\ page'.flow = "success"
               /\ page'.clicks # {} /\ page.clicks \subseteq page'.clicks
               /\ UNCHANGED upload
<1>1. page \in PageType
  BY DEF TypeOK, PageType
<1>2. CASE RetryFailed
  BY <1>1, <1>2 DEF RetryFailed, PageType
<1>3. ASSUME NEW what, Click(what), page.flow = "partial_failure", UNCHANGED upload
      PROVE  /\ page'.app = page.app /\ page'.creating = page.creating
             /\ page'.carries = page.carries /\ page'.forms = page.forms
             /\ page'.doc = page.doc /\ page'.flow = "success"
             /\ page'.clicks # {} /\ page.clicks \subseteq page'.clicks
  BY <1>1, <1>3 DEF Click, PageType
<1>. QED  BY <1>2, <1>3 DEF RetryAgain, ContinueWithoutDocs

LEMMA PageAnew ==
  ASSUME TypeOK, NewApplication
  PROVE  /\ page.creating = Nobody
         /\ page'.flow = "form" /\ page'.app = Nobody /\ page'.doc = "none"
         /\ page'.creating = Nobody /\ page'.carries = page.carries
         /\ page'.forms = page.forms + 1
         /\ "anew" \notin page'.clicks => Awaited = {}
         /\ UNCHANGED upload
<1>1. page \in PageType
  BY DEF TypeOK, PageType
<1>. QED  BY <1>1 DEF NewApplication, PageType, Awaited

LEMMA InitPage == Init => PageInv
<1>. SUFFICES ASSUME Init PROVE PageInv
  OBVIOUS
<1>1. Awaited = {}
  BY DEF Init, Awaited
<1>. QED  BY <1>1 DEF Init, PageInv, OwnFormInv

(* Whatever is awaited on a form that is its own is the one answer it      *)
(* needs.                                                                  *)
LEMMA StepOwnForm ==
  ASSUME TypeOK, PageInv, [Next]_vars, "anew" \notin page'.clicks
  PROVE  OwnFormInv'
<1>. USE DEF OwnFormInv
<1>1. "anew" \notin page.clicks => OwnFormInv
  BY DEF PageInv
<1>2. page.flow = "form" => page.creating = Nobody
  BY DEF PageInv
<1>3. Awaited \subseteq Upload
  BY DEF Awaited
<1>4. CASE UNCHANGED page /\ Awaited' = Awaited
           /\ \A v \in Upload : upload'[v].app = upload[v].app
  BY <1>1, <1>3, <1>4
<1>5. ASSUME NEW a \in App, SubmitForm(a) PROVE OwnFormInv'
  <2>1. Awaited = {}
    BY <1>1, <1>5, PageSubmits
  <2>2. Awaited' = {}
    BY <1>5, <2>1, PageSubmits DEF Awaited
  <2>. QED  BY <1>5, <2>2, PageSubmits
<1>6. CASE CreationAnswered
  <2>1. /\ Awaited = {} /\ page.flow # "form"
        /\ page.doc = IF page.carries THEN "ready" ELSE "none"
        /\ page.flow = "success" /\ page.clicks = {} => page.doc = "none"
    BY <1>1, <1>2, <1>6, PageHears DEF Nobody, App
  <2>2. CASE UNCHANGED upload
    <3>1. Awaited' = {}
      BY <2>1, <2>2 DEF Awaited
    <3>. QED  BY <1>6, <2>1, <3>1, PageHears DEF Nobody, App
  <2>3. ASSUME page.carries, NEW u \in Upload, StartUpload(u, page.creating, "submit"),
               page'.app = page.creating, page'.flow = page.flow
        PROVE  OwnFormInv'
    <3>1. Awaited' = { u } /\ upload'[u].app = page.creating
      BY <2>1, <2>3, AwaitedAfter
    <3>2. page.creating # Nobody /\ page'.creating = Nobody /\ page'.doc = page.doc
          /\ page'.clicks = page.clicks
      BY <1>6, PageHears DEF Nobody, App
    <3>. QED  BY <2>1, <2>3, <3>1, <3>2
  <2>. QED  BY <1>6, <2>2, <2>3, PageHears
<1>7. ASSUME NEW u \in Upload, UploadAnswered(u) PROVE OwnFormInv'
  <2>1. "anew" \notin page.clicks /\ u \in Awaited /\ Awaited' = Awaited \ { u }
    BY <1>7, AwaitedAfter, PageLearns
  <2>2. /\ Awaited' = {} /\ page.creating = Nobody /\ page.app # Nobody
        /\ page.doc \in { "ready", "uploading" }
        /\ ~(page.flow = "success" /\ page.clicks = {})
    BY <1>1, <2>1
  <2>. QED  BY <1>7, <2>2, PageLearns
<1>8. CASE RetryFailed \/ RetryAgain \/ ContinueWithoutDocs
  <2>1. /\ page.flow = "partial_failure" /\ "anew" \notin page.clicks
        /\ page'.app = page.app /\ page'.creating = page.creating
        /\ page'.carries = page.carries
    BY <1>8, PageClicks
  <2>2. CASE /\ page'.doc = page.doc /\ page'.flow = "success" /\ page'.clicks # {}
             /\ UNCHANGED upload
    <3>1. Awaited' = Awaited
      BY <2>2 DEF Awaited
    <3>. QED  BY <1>1, <2>1, <2>2, <3>1
  <2>3. ASSUME page.app # Nobody, page.doc = "failed", page'.doc = "uploading",
               page'.flow = page.flow,
               NEW u \in Upload, StartUpload(u, page.app, "retry")
        PROVE  OwnFormInv'
    <3>1. Awaited = {} /\ page.creating = Nobody
      BY <1>1, <2>1, <2>3
    <3>2. Awaited' = { u } /\ upload'[u].app = page.app
      BY <2>3, <3>1, AwaitedAfter
    <3>. QED  BY <2>1, <2>3, <3>1, <3>2
  <2>. QED  BY <1>8, <2>2, <2>3, PageClicks
<1>9. CASE NewApplication
  <2>1. Awaited' = {}
    BY <1>9, PageAnew DEF Awaited
  <2>. QED  BY <1>9, <2>1, PageAnew
<1>10. CASE UNCHANGED page /\ ~PageGoesOn
  <2>1. \/ UNCHANGED upload \/ CrashAndRecover
        \/ \E u \in Upload : StoreFile(u) \/ InsertDocument(u) \/ CommitDocument(u)
    BY <1>10, OnlyThese DEF PageGoesOn
  <2>2. Awaited' = Awaited /\ \A v \in Upload : upload'[v].app = upload[v].app
    <3>1. CASE UNCHANGED upload
      BY <3>1 DEF Awaited
    <3>2. CASE CrashAndRecover
      <4>1. \A v \in Upload :
              upload'[v].by = upload[v].by /\ upload'[v].app = upload[v].app
        BY <3>2 DEF CrashAndRecover, TypeOK
      <4>. QED  BY <4>1 DEF Awaited
    <3>3. CASE \E u \in Upload : StoreFile(u) \/ InsertDocument(u) \/ CommitDocument(u)
      BY <3>3, AwaitedAfter
    <3>. QED  BY <2>1, <3>1, <3>2, <3>3
  <2>. QED  BY <1>4, <1>10, <2>2
<1>. QED
  BY <1>5, <1>6, <1>7, <1>8, <1>9, <1>10, OnlyThese DEF PageGoesOn

LEMMA StepPage ==
  ASSUME TypeOK, RowsInv, PageInv, [Next]_vars
  PROVE  PageInv'
<1>1. /\ page.app # Nobody => answered[page.app] = "accepted"
      /\ page.flow = "form" => page.creating = Nobody
  BY DEF PageInv
<1>2. page.app \in App \cup { Nobody } /\ page.creating \in App \cup { Nobody }
  BY DEF TypeOK
<1>3. \A a \in App : answered[a] = "accepted" => answered'[a] = "accepted"
  BY AnswersStay
<1>4. \/ page'.app \in { page.app, Nobody }
      \/ page'.app \in App /\ answered[page'.app] = "accepted"
  BY PageSubmits, PageHears, PageLearns, PageClicks, PageAnew, OnlyThese DEF PageGoesOn
<1>5. page'.app # Nobody => answered'[page'.app] = "accepted"
  BY <1>1, <1>2, <1>3, <1>4
<1>6. page'.flow = "form" => page'.creating = Nobody
  BY <1>1, PageSubmits, PageHears, PageLearns, PageClicks, PageAnew, OnlyThese
     DEF PageGoesOn
<1>. QED  BY <1>5, <1>6, StepOwnForm DEF PageInv

(* What was answered is on disk.                                           *)
LEMMA InitDurable == Init => DurableInv
<1>. SUFFICES ASSUME Init PROVE DurableInv
  OBVIOUS
<1>1. \A a \in App : pc[a] \in { "free", "over" } /\ answered[a] = "nothing"
  BY DEF Init
<1>2. (\A u \in Upload : upload[u].at = "free") /\ page.doc = "none"
  BY DEF Init
<1>. QED  BY <1>1, <1>2 DEF DurableInv

LEMMA StepDurable ==
  ASSUME TypeOK, TypeOK', RowsInv, AheadInv, PageInv, DurableInv, [Next]_vars
  PROVE  DurableInv'
<1>. SUFFICES ASSUME "rollback" \notin faults' PROVE DurableInv'
  BY DEF DurableInv
<1>1. "rollback" \notin faults /\ (Restores => CrashAndRecover)
  BY StepDatabase DEF DatabaseMove, Restores
<1>2. ASSUME NEW a \in App
      PROVE  /\ pc'[a] = "inserted" => view'.row[a] # NoRow
             /\ pc'[a] = "written" \/ answered'[a] = "accepted" => disk'.row[a] # NoRow
  <2>1. /\ pc[a] = "inserted" => view.row[a] # NoRow
        /\ pc[a] = "written" \/ answered[a] = "accepted" => disk.row[a] # NoRow
    BY <1>1 DEF DurableInv
  <2>2. /\ disk.row[a] # NoRow => disk'.row[a] # NoRow
        /\ ~Restores /\ view.row[a] # NoRow => view'.row[a] # NoRow
    BY RowsStay
  <2>3. CASE CrashAndRecover
    <3>1. pc'[a] \notin { "inserted", "written" }
      BY <2>3 DEF CrashAndRecover
    <3>2. answered'[a] = "accepted" => answered[a] = "accepted"
      BY <2>3 DEF CrashAndRecover
    <3>. QED  BY <2>1, <2>2, <3>1, <3>2
  <2>4. CASE ~CrashAndRecover
    <3>1. view.row[a] # NoRow => view'.row[a] # NoRow
      BY <1>1, <2>2, <2>4
    <3>2. AppMove(a)
      BY StepMoves
    <3>3. CASE Inserts(a)
      <4>1. answered[a] = "nothing"
        BY <3>3 DEF Inserts, RowsInv, TaskOf
      <4>. QED  BY <3>3, <4>1 DEF Inserts
    <3>4. CASE IsAnswered(a)
      BY <2>1, <2>2, <3>4 DEF IsAnswered
    <3>5. CASE ~Inserts(a) /\ ~IsAnswered(a)
      <4>1. /\ pc'[a] \in { "inserted", "written" } => pc[a] = pc'[a]
            /\ answered'[a] = "accepted" => answered[a] = "accepted"
        BY <3>2, <3>5 DEF AppMove, Stays, EndsEarly, IsAssessed, GoesOn, IsDecided, StartsAgain
      <4>. QED  BY <2>1, <2>2, <3>1, <4>1
    <3>. QED  BY <3>3, <3>4, <3>5
  <2>. QED  BY <2>3, <2>4
<1>3. disk.docs \subseteq disk'.docs /\ (~Restores => view.docs \subseteq view'.docs)
  BY NothingLost
<1>4. ASSUME NEW v \in Upload
      PROVE  /\ upload'[v].at = "inserted" => v \in view'.docs
             /\ upload'[v].at = "accepted" => v \in disk'.docs
  <2>1. /\ upload[v].at = "inserted" => v \in view.docs
        /\ upload[v].at = "accepted" => v \in disk.docs
    BY <1>1 DEF DurableInv
  <2>2. CASE CrashAndRecover
    BY <1>3, <2>1, <2>2 DEF CrashAndRecover, TypeOK
  <2>3. CASE ~CrashAndRecover
    <3>. DEFINE Kept == upload'[v].at \in { "inserted", "accepted" } =>
                          \/ upload'[v].at = upload[v].at
                          \/ upload'[v].at = "inserted" /\ v \in view'.docs
                          \/ /\ upload[v].at = "inserted" /\ upload'[v].at = "accepted"
                             /\ disk' = view
    <3>1. ASSUME NEW u \in Upload, InsertDocument(u) PROVE Kept
      BY <3>1 DEF InsertDocument, UploadStep, Execute, TypeOK, Database
    <3>2. ASSUME NEW u \in Upload, CommitDocument(u) PROVE Kept
      BY <3>2 DEF CommitDocument, UploadStep, Commit, TypeOK
    <3>3. ASSUME NEW u \in Upload, StoreFile(u) PROVE Kept
      BY <3>3 DEF StoreFile, UploadStep, TypeOK
    <3>4. ASSUME NEW u \in Upload, UploadAnswered(u) PROVE Kept
      BY <3>4 DEF UploadAnswered, TypeOK
    <3>5. ASSUME NEW u \in Upload, NEW a, NEW by, StartUpload(u, a, by) PROVE Kept
      BY <3>5 DEF StartUpload, TypeOK
    <3>6. Kept
      BY <2>3, <3>1, <3>2, <3>3, <3>4, <3>5, OnlyThese DEF CreationAnswered, RetryFailed
    <3>. QED  BY <1>1, <1>3, <2>1, <2>3, <3>6
  <2>. QED  BY <2>2, <2>3
<1>5. page'.doc = "processed" =>
        \E u \in disk'.docs : "anew" \in page'.clicks \/ upload'[u].app = page'.app
  <2>. SUFFICES ASSUME page'.doc = "processed"
                PROVE  \E u \in disk'.docs :
                         "anew" \in page'.clicks \/ upload'[u].app = page'.app
    OBVIOUS
  <2>1. \A u \in disk.docs : u \in disk'.docs /\ upload'[u].app = upload[u].app
    <3>1. \A u \in disk.docs : u \in Upload /\ upload[u].at # "free"
      BY DatabaseFields DEF AheadInv, TypeOK
    <3>. QED  BY <1>3, <3>1, UploadsGoOn
  <2>2. ASSUME page.doc = "processed",
               \/ page'.app = page.app /\ page.clicks \subseteq page'.clicks
               \/ "anew" \in page'.clicks
        PROVE  \E u \in disk'.docs :
                 "anew" \in page'.clicks \/ upload'[u].app = page'.app
    <3>1. PICK u \in disk.docs : "anew" \in page.clicks \/ upload[u].app = page.app
      BY <1>1, <2>2 DEF DurableInv
    <3>. QED  BY <2>1, <2>2, <3>1
  <2>3. CASE UNCHANGED page
    BY <2>2, <2>3
  <2>4. CASE CreationAnswered
    <3>1. "anew" \notin page.clicks => page.doc # "processed"
      BY <2>4, PageHears DEF PageInv, OwnFormInv, Nobody, App
    <3>. QED  BY <2>2, <2>4, <3>1, PageHears
  <2>5. ASSUME NEW u \in Upload, UploadAnswered(u)
        PROVE  \E w \in disk'.docs :
                 "anew" \in page'.clicks \/ upload'[w].app = page'.app
    <3>1. upload[u].at = "accepted" /\ u \in disk.docs
      BY <1>1, <2>5, PageLearns DEF DurableInv
    <3>2. "anew" \notin page.clicks => upload[u].app = page.app
      BY <2>5, AwaitedAfter DEF PageInv, OwnFormInv
    <3>. QED  BY <2>1, <2>5, <3>1, <3>2, PageLearns
  <2>6. CASE RetryFailed \/ RetryAgain \/ ContinueWithoutDocs
    BY <2>2, <2>6, PageClicks
  <2>7. ~NewApplication /\ ~\E a \in App : SubmitForm(a)
    BY PageAnew, PageSubmits
  <2>. QED  BY <2>3, <2>4, <2>5, <2>6, <2>7, OnlyThese DEF PageGoesOn
<1>. QED  BY <1>2, <1>4, <1>5 DEF DurableInv

(* One form makes one application.                                         *)
LEMMA OfPageFinite == IsFiniteSet(OfPage) /\ Cardinality(OfPage) \in Nat
<1>1. OfPage \in SUBSET App
  BY DEF OfPage
<1>2. IsFiniteSet(OfPage)
  BY <1>1, FiniteHere, FS_Subset
<1>. QED  BY <1>2, FS_CardinalityType

(* A step adds one fault, or none.                                         *)
LEMMA StepFaults ==
  ASSUME [Next]_vars
  PROVE  faults' = faults \/ \E kind : Fault(kind)
<1>1. /\ Raises => \E kind : Fault(kind)
      /\ Commit => faults' = faults
      /\ \A db : Execute(db) => faults' = faults
  BY DEF Raises, Commit, Execute
<1>2. ASSUME NEW a \in App,
             SubmitByClient(a) \/ SubmitForm(a) \/ CommitSubmission(a)
             \/ AcceptSubmission(a) \/ Run(a) \/ CommitTransition(a) \/ Conclude(a)
      PROVE  Raises \/ Commit \/ (\E db : Execute(db)) \/ UNCHANGED faults
  BY <1>2 DEF SubmitByClient, SubmitForm, Insert, CommitSubmission,
     AcceptSubmission, Refuse, Run, TaskWrites, CommitTransition, Conclude
<1>3. ASSUME NEW a \in App, AskForReview(a) PROVE faults' = faults
  BY <1>3 DEF AskForReview
<1>4. ASSUME NEW u \in Upload, StoreFile(u) \/ InsertDocument(u) \/ CommitDocument(u)
      PROVE  Raises \/ Commit \/ (\E db : Execute(db)) \/ UNCHANGED faults
  BY <1>4 DEF StoreFile, InsertDocument, CommitDocument
<1>5. CASE PageGoesOn
  BY <1>5, PageMoves
<1>6. CASE CountApplications \/ ReadPage \/ RecordAccess \/ CommitByOthers
  BY <1>1, <1>6 DEF CountApplications, ReadPage, RecordAccess, CommitByOthers
<1>7. CASE CrashAndRecover
  BY <1>7 DEF CrashAndRecover
<1>8. CASE UNCHANGED vars
  BY <1>8 DEF vars
<1>. QED  BY <1>1, <1>2, <1>3, <1>4, <1>5, <1>6, <1>7, <1>8 DEF Next, PageGoesOn

LEMMA InitForm == Init => FormInv
<1>. SUFFICES ASSUME Init PROVE FormInv
  OBVIOUS
<1>1. OfPage = {} /\ faults = {}
  BY DEF Init, OfPage
<1>2. Cardinality(OfPage) = 0 /\ Cardinality(faults) = 0
  BY <1>1, FS_EmptySet
<1>3. page.forms = 1
  BY DEF Init
<1>. QED  BY <1>2, <1>3 DEF FormInv

(* Only a submission of the form adds to the applications of the page.     *)
LEMMA StepOfPage ==
  ASSUME TypeOK, RowsInv, [Next]_vars
  PROVE  OfPage' = OfPage \/ \E a \in App : SubmitForm(a) /\ OfPage' = OfPage \cup { a }
<1>1. ASSUME NEW a \in App, SubmitForm(a) PROVE OfPage' = OfPage \cup { a }
  BY <1>1 DEF SubmitForm, Insert, OfPage, TypeOK
<1>2. ASSUME NEW a \in App, SubmitByClient(a) PROVE OfPage' = OfPage
  <2>1. pc[a] = "free" /\ origin' = [ origin EXCEPT ![a] = "client" ]
    BY <1>2 DEF SubmitByClient, Insert, NextApp
  <2>2. origin[a] = "nobody"
    BY <2>1 DEF RowsInv, TaskOf
  <2>. QED  BY <2>1, <2>2 DEF OfPage, TypeOK
<1>3. CASE ~\E a \in App : SubmitForm(a) \/ SubmitByClient(a)
  <2>1. UNCHANGED origin
    BY <1>3, PageMoves DEF Next, PageGoesOn, vars, CommitSubmission, AcceptSubmission,
       Run, CommitTransition, Conclude, AskForReview, StoreFile, InsertDocument,
       CommitDocument, CountApplications, ReadPage, RecordAccess, CommitByOthers,
       CrashAndRecover, server
  <2>. QED  BY <2>1 DEF OfPage
<1>. QED  BY <1>1, <1>2, <1>3

LEMMA StepForm ==
  ASSUME TypeOK, TypeOK', RowsInv, PageInv, FormInv, [Next]_vars
  PROVE  FormInv'
<1>. DEFINE Allowed == page.forms + Cardinality(faults)
            Blamed  == \/ page.flow = "form"
                       \/ page.creating # Nobody /\ answered[page.creating] = "error"
<1>1. /\ Cardinality(faults) \in Nat /\ Cardinality(OfPage) \in Nat
      /\ page.forms \in Nat /\ page'.forms \in Nat
      /\ Cardinality(OfPage) <= Allowed
      /\ Blamed => Cardinality(OfPage) < Allowed
  BY FaultsCounted, OfPageFinite, MaxFormsAssumption DEF FormInv, TypeOK
<1>2. \/ faults' = faults
      \/ Cardinality(faults') = Cardinality(faults) + 1
  BY StepFaults, FaultCount
<1>3. page'.forms = page.forms \/ page'.forms = page.forms + 1
  BY PageSubmits, PageHears, PageLearns, PageClicks, PageAnew, OnlyThese
     DEF PageGoesOn
<1>4. ASSUME NEW a \in App, SubmitForm(a), OfPage' = OfPage \cup { a } PROVE FormInv'
  <2>1. /\ page.flow = "form" /\ pc[a] = "free"
        /\ page'.flow = "submitting" /\ page'.creating = a /\ page'.forms = page.forms
    BY <1>4, PageSubmits DEF SubmitForm, Insert, NextApp
  <2>2. /\ IsFiniteSet(OfPage \cup { a })
        /\ Cardinality(OfPage \cup { a }) =
             IF a \in OfPage THEN Cardinality(OfPage) ELSE Cardinality(OfPage) + 1
    BY OfPageFinite, FS_AddElement
  <2>3. Cardinality(OfPage') <= Cardinality(OfPage) + 1 /\ Cardinality(OfPage') \in Nat
    BY <1>1, <1>4, <2>2
  <2>4. Cardinality(OfPage) < Allowed
    BY <1>1, <2>1
  <2>5. answered[a] = "nothing"
    BY <2>1 DEF RowsInv, TaskOf
  <2>6. faults' = faults => answered'[a] # "error"
    BY <2>5, AnswersStay
  <2>. QED  BY <1>1, <1>2, <2>1, <2>3, <2>4, <2>6 DEF FormInv
<1>5. CASE OfPage' = OfPage /\ Cardinality(faults') = Cardinality(faults) + 1
  BY <1>1, <1>3, <1>5 DEF FormInv
<1>6. CASE OfPage' = OfPage /\ faults' = faults
  <2>. SUFFICES ASSUME Blamed', page'.forms = page.forms
                PROVE  Cardinality(OfPage) < Allowed
    BY <1>1, <1>3, <1>6 DEF FormInv
  <2>1. CASE \E a \in App : SubmitForm(a)
    <3>1. PICK a \in App : SubmitForm(a)
      BY <2>1
    <3>2. OfPage' = OfPage \cup { a }
      BY <3>1 DEF SubmitForm, Insert, OfPage, TypeOK
    <3>. QED  BY <1>1, <3>1, PageSubmits
  <2>2. CASE UNCHANGED page
    <3>1. page.creating \in App \cup { Nobody }
      BY DEF TypeOK
    <3>2. page.creating # Nobody /\ answered'[page.creating] = "error" =>
            answered[page.creating] = "error"
      BY <1>6, <3>1, AnswersStay
    <3>. QED  BY <1>1, <2>2, <3>2
  <2>3. CASE CreationAnswered
    <3>1. page'.flow # "form" \/ page'.flow = page.flow
          \/ Fails(answered[page.creating] = "error")
      BY <2>3, PageHears
    <3>2. Fails(answered[page.creating] = "error") => answered[page.creating] = "error"
      BY <1>6 DEF Fails, Fault
    <3>. QED  BY <1>1, <2>3, <3>1, <3>2, PageHears DEF Nobody, App
  <2>4. CASE \E u \in Upload : UploadAnswered(u)
    BY <1>1, <2>4, PageLearns, PageMoves DEF PageGoesOn
  <2>5. CASE RetryFailed \/ RetryAgain \/ ContinueWithoutDocs
    BY <1>1, <2>5, PageClicks, PageMoves DEF PageGoesOn
  <2>6. ~NewApplication
    BY <1>1, PageAnew
  <2>. QED  BY <2>1, <2>2, <2>3, <2>4, <2>5, <2>6, OnlyThese DEF PageGoesOn
<1>. QED  BY <1>2, <1>4, <1>5, <1>6, StepOfPage
-----------------------------------------------------------------------------
(***************************************************************************)
(* The review                                                              *)
(***************************************************************************)
LEMMA InitAnswer == Init => AnswerInv
  BY DEF Init, AnswerInv

(* What a step may make of the review.                                     *)
LEMMA ReviewAsks ==
  ASSUME TypeOK, NEW a \in App, AskForReview(a)
  PROVE  /\ review.call < 5 /\ review'.call = review.call + 1
         /\ review'.of = a /\ review'.asked = TRUE
         /\ review'.recorded = review.recorded
         /\ review.call = 0 => review'.first = view.row[a]
         /\ review.call > 0 => a = review.of /\ review'.first = review.first
         /\ review.call = 2 => review'.risk = view.row[a].risk
         /\ review.call # 2 => review'.risk = review.risk
         /\ UNCHANGED << view, disk, faults >>
<1>1. review \in ReviewType
  BY DEF TypeOK, ReviewType
<1>2. /\ review.call < 5
      /\ IF review.call = 0 THEN view.row[a] # NoRow ELSE a = review.of
      /\ review' = [ review EXCEPT
           !.of = a, !.call = @ + 1, !.asked = TRUE,
           !.first = IF review.call = 0 THEN StatusOf(a) ELSE @,
           !.risk = IF review.call = 2 THEN RiskOf(a) ELSE @ ]
  BY DEF AskForReview
<1>3. UNCHANGED << view, disk, faults >>
  BY DEF AskForReview, server, database
<1>. QED  BY <1>1, <1>2, <1>3 DEF ReviewType, StatusOf, RiskOf

LEMMA ReviewRecords ==
  ASSUME TypeOK, RecordAccess
  PROVE  /\ review.asked /\ review'.asked = FALSE
         /\ review'.call = review.call /\ review'.of = review.of
         /\ review'.first = review.first /\ review'.risk = review.risk
         /\ \/ Commit /\ review'.recorded = TRUE
            \/ Raises /\ review'.recorded = review.recorded
<1>1. review \in ReviewType
  BY DEF TypeOK, ReviewType
<1>. QED  BY <1>1 DEF RecordAccess, ReviewType

LEMMA ReviewRestarts ==
  ASSUME CrashAndRecover
  PROVE  \/ review' = review /\ review.call = 5 /\ ~review.asked
         \/ review'.call = 0 /\ review'.asked = FALSE /\ review'.recorded = FALSE
  BY DEF CrashAndRecover

(* What it was told first is on disk once it was recorded, and until then  *)
(* to be seen: only a restoration takes back what is seen.                 *)
LEMMA StepAnswer ==
  ASSUME TypeOK, TypeOK', RowsInv, AheadInv, AnswerInv, [Next]_vars
  PROVE  AnswerInv'
<1>1. /\ review.call \in 0 .. 5 /\ review.asked \in BOOLEAN
      /\ review.recorded \in BOOLEAN /\ review.first \in Row
  BY DEF TypeOK
<1>2. "rollback" \notin faults' =>
        "rollback" \notin faults /\ (Restores => CrashAndRecover)
  BY StepDatabase DEF DatabaseMove, Restores
<1>3. /\ review.call = 0 => ~review.asked /\ ~review.recorded
      /\ review.call > 0 => review.of \in App
  BY DEF AnswerInv
<1>4. \A a \in App :
        /\ Progress(view.row[a]) \in Nat /\ Progress(disk.row[a]) \in Nat
        /\ Progress(view'.row[a]) \in Nat /\ Progress(disk'.row[a]) \in Nat
        /\ Progress(disk.row[a]) <= Progress(view.row[a])
        /\ Progress(disk.row[a]) <= Progress(disk'.row[a])
        /\ ~Restores => Progress(view.row[a]) <= Progress(view'.row[a])
  <2>1. \A a \in App : /\ view.row[a] \in Row /\ disk.row[a] \in Row
                       /\ view'.row[a] \in Row /\ disk'.row[a] \in Row
    BY DatabaseFields DEF TypeOK
  <2>2. \A r \in Row : Progress(r) \in Nat
    BY ProgressFacts
  <2>. QED  BY <2>1, <2>2, NothingLost DEF AheadInv
<1>5. Progress(review.first) \in Nat
  BY <1>1, ProgressFacts
<1>6. CASE CrashAndRecover
  <2>1. CASE review' = review /\ review.call = 5 /\ ~review.asked
    BY <1>1, <1>2, <1>3, <1>4, <1>5, <2>1 DEF AnswerInv
  <2>2. CASE review'.call = 0 /\ review'.asked = FALSE /\ review'.recorded = FALSE
    BY <2>2 DEF AnswerInv
  <2>. QED  BY <1>6, <2>1, <2>2, ReviewRestarts
<1>7. CASE UNCHANGED review /\ ~CrashAndRecover
  BY <1>1, <1>2, <1>3, <1>4, <1>5, <1>7 DEF AnswerInv
<1>8. ASSUME NEW a \in App, AskForReview(a) PROVE AnswerInv'
  <2>1. /\ review'.call = review.call + 1 /\ review'.of = a
        /\ review'.recorded = review.recorded
        /\ review.call = 0 => review'.first = view.row[a]
        /\ review.call > 0 => a = review.of /\ review'.first = review.first
        /\ review.call < 5 /\ UNCHANGED << view, disk, faults >>
    BY <1>8, ReviewAsks
  <2>2. CASE review.call = 0
    BY <1>3, <1>4, <1>8, <2>1, <2>2 DEF AnswerInv
  <2>3. CASE review.call > 0
    BY <1>1, <1>3, <1>4, <1>5, <1>8, <2>1, <2>3 DEF AnswerInv
  <2>. QED  BY <1>1, <2>2, <2>3
<1>9. CASE RecordAccess /\ ~CrashAndRecover
  <2>1. /\ review.asked /\ review'.asked = FALSE
        /\ review'.call = review.call /\ review'.of = review.of
        /\ review'.first = review.first
        /\ \/ Commit /\ review'.recorded = TRUE
           \/ Raises /\ review'.recorded = review.recorded
    BY <1>9, ReviewRecords
  <2>2. CASE Commit /\ review'.recorded = TRUE
    <3>1. disk' = view /\ view' = view /\ faults' = faults
      BY <2>2 DEF Commit
    <3>. QED  BY <1>1, <1>3, <1>4, <1>5, <2>1, <2>2, <3>1 DEF AnswerInv
  <2>3. CASE Raises /\ review'.recorded = review.recorded
    BY <1>1, <1>2, <1>3, <1>4, <1>5, <1>9, <2>1, <2>3 DEF AnswerInv
  <2>. QED  BY <2>1, <2>2, <2>3
<1>. QED  BY <1>6, <1>7, <1>8, <1>9, OnlyThese

(* Without a crash no step of a task takes back what was told of it.       *)
LEMMA ToldStays ==
  ASSUME TypeOK, RowsInv, ConclusionInv, [Next]_vars, "crash" \notin faults',
         NEW a \in App
  PROVE  /\ \A first : ToldConclusion(a, first) => ToldConclusion(a, first)'
         /\ \A risk \in RiskLevel \cup { NoRisk } : ToldRisk(a, risk) => ToldRisk(a, risk)'
<1>1. AppMove(a) /\ ~StartsAgain(a)
  BY StepMoves DEF StartsAgain
<1>2. /\ \A p \in Rows(a) : ConclusionOf(a, p)
      /\ pc[a] \in { "free", "inserted", "written", "queued" } =>
           \A p \in Rows(a) : p.risk = NoRisk /\ ~Settled(p)
  <2>1. \A p \in Rows(a) : RowOfTask(a, p)
    BY DEF RowsInv
  <2>2. NoRow.risk = NoRisk /\ ~Settled(NoRow)
    BY RowFields DEF Settled, SettledState
  <2>. QED
    BY <2>1, <2>2
       DEF ConclusionInv, RowOfTask, GoodRow, Unassessed, Settled, SettledState
<1>3. ASSUME NEW first, ToldConclusion(a, first), Settled(first)
      PROVE  /\ pc'[a] \in { "concluded", "over" }
             /\ \A r \in Rows(a)' : Settled(r) => r = first
  <2>1. /\ pc[a] \in { "concluded", "over" }
        /\ \A r \in Rows(a) : Settled(r) => r = first
    BY <1>3 DEF ToldConclusion
  <2>2. Stays(a) \/ GoesOn(a)
    BY <1>1, <2>1 DEF AppMove, Inserts, IsAnswered, EndsEarly, IsAssessed, IsDecided
  <2>. QED  BY <2>1, <2>2 DEF Stays, GoesOn, RowsWithin
<1>4. ASSUME NEW risk \in RiskLevel, ToldRisk(a, risk), risk # NoRisk
      PROVE  /\ pc'[a] \in { "assessed", "deciding", "concluded", "over" }
             /\ \A r \in Rows(a)' : r.risk \in { NoRisk, risk }
             /\ pc'[a] \in { "assessed", "deciding" } => AssessRisk(found'[a]) = risk
  <2>1. /\ pc[a] \in { "assessed", "deciding", "concluded", "over" }
        /\ \A r \in Rows(a) : r.risk \in { NoRisk, risk }
        /\ pc[a] \in { "assessed", "deciding" } => AssessRisk(found[a]) = risk
    BY <1>4 DEF ToldRisk
  <2>2. CASE Stays(a) \/ GoesOn(a)
    BY <2>1, <2>2 DEF Stays, GoesOn, Keeps, RowsWithin
  <2>3. CASE IsDecided(a)
    <3>1. PICK rec \in Recommendation : RowsWithin(a, { Decided(a, rec) })
      BY <2>3 DEF IsDecided
    <3>2. Decided(a, rec).risk = risk
      BY <2>1, <2>3, NewRows DEF IsDecided
    <3>. QED  BY <2>1, <2>3, <3>1, <3>2 DEF IsDecided, RowsWithin
  <2>4. Stays(a) \/ GoesOn(a) \/ IsDecided(a)
    BY <1>1, <2>1 DEF AppMove, Inserts, IsAnswered, EndsEarly, IsAssessed
  <2>. QED  BY <2>2, <2>3, <2>4
<1>5. \A first : ToldConclusion(a, first) => ToldConclusion(a, first)'
  BY <1>3 DEF ToldConclusion
<1>6. \A risk \in RiskLevel \cup { NoRisk } : ToldRisk(a, risk) => ToldRisk(a, risk)'
  BY <1>4 DEF ToldRisk
<1>. QED  BY <1>5, <1>6

LEMMA InitReview == Init => ReviewInv
  BY DEF Init, ReviewInv

LEMMA StepReview ==
  ASSUME TypeOK, TypeOK', RowsInv, ConclusionInv, AnswerInv, ReviewInv, [Next]_vars
  PROVE  ReviewInv'
<1>. SUFFICES ASSUME "crash" \notin faults', review'.call > 0,
                     NEW a, a = review'.of, NEW first, first = review'.first,
                     NEW risk, risk = review'.risk
              PROVE  /\ GoodRow(first) /\ ToldConclusion(a, first)'
                     /\ review'.call > 2 => ToldRisk(a, risk)'
  BY DEF ReviewInv, ToldConclusion, ToldRisk, Rows, GoodRow, Unassessed, Settled
<1>1. "crash" \notin faults
  BY StepDatabase DEF DatabaseMove
<1>2. review.call \in 0 .. 5 /\ risk \in RiskLevel \cup { NoRisk }
  BY DEF TypeOK
<1>3. review.call > 0 =>
        /\ review.of \in App
        /\ GoodRow(review.first) /\ ToldConclusion(review.of, review.first)
        /\ review.call > 2 => ToldRisk(review.of, review.risk)
  BY <1>1 DEF ReviewInv, AnswerInv
<1>4. SUFFICES /\ a \in App /\ GoodRow(first) /\ ToldConclusion(a, first)
               /\ review'.call > 2 => ToldRisk(a, risk)
  BY <1>2, <1>4, ToldStays
<1>5. CASE review'.call = review.call /\ review'.of = review.of
           /\ review'.first = review.first /\ review'.risk = review.risk
  BY <1>3, <1>5
<1>6. ASSUME NEW b \in App, AskForReview(b)
      PROVE  /\ a \in App /\ GoodRow(first) /\ ToldConclusion(a, first)
             /\ review'.call > 2 => ToldRisk(a, risk)
  <2>1. /\ a = b /\ review'.call = review.call + 1
        /\ review.call = 0 => first = view.row[a]
        /\ review.call > 0 => a = review.of /\ first = review.first
        /\ review.call = 2 => risk = view.row[a].risk
        /\ review.call # 2 => risk = review.risk
    BY <1>6, ReviewAsks
  <2>2. /\ \A r, s \in Rows(a) : ConclusionOf(a, r) /\ Agree(r, s)
        /\ \A r \in Rows(a) : RowOfTask(a, r)
        /\ view.row[a] \in Rows(a)
    BY <1>1, <2>1 DEF ConclusionInv, RowsInv, Rows
  <2>3. review.call = 0 => GoodRow(first) /\ ToldConclusion(a, first)
    BY <2>1, <2>2 DEF RowOfTask, ToldConclusion, ConclusionOf, Agree
  <2>4. review.call = 2 => ToldRisk(a, risk)
    <3>1. pc[a] \in { "free", "inserted", "written", "queued" } =>
            view.row[a].risk = NoRisk
      BY <2>2, RowFields DEF RowOfTask, GoodRow
    <3>2. pc[a] \in { "free", "inserted", "written", "queued", "assessed",
                      "deciding", "concluded", "over" }
      BY <2>1 DEF TypeOK
    <3>. QED
      BY <2>1, <2>2, <3>1, <3>2 DEF ToldRisk, ConclusionOf, Agree
  <2>. QED  BY <1>2, <1>3, <1>6, <2>1, <2>3, <2>4
<1>7. CASE RecordAccess
  BY <1>5, <1>7, ReviewRecords
<1>8. ~CrashAndRecover
  BY DEF CrashAndRecover, Fault
<1>. QED  BY <1>5, <1>6, <1>7, <1>8, OnlyThese
-----------------------------------------------------------------------------
(***************************************************************************)
(* The theorems                                                            *)
(***************************************************************************)
(* The invariant holds in every reachable state, for any number of         *)
(* applications, uploads and faults.                                       *)
THEOREM Invariance == Spec => []IInv
<1>1. Init => IInv
  BY InitType, InitRows, InitAhead, InitDurable, InitPage, InitForm,
     InitConclusion, InitAnswer, InitReview DEF IInv
<1>2. IInv /\ [Next]_vars => IInv'
  <2>. SUFFICES ASSUME IInv, [Next]_vars PROVE IInv'
    OBVIOUS
  <2>1. /\ TypeOK /\ RowsInv /\ AheadInv /\ DurableInv /\ PageInv /\ FormInv
        /\ ConclusionInv /\ AnswerInv /\ ReviewInv
    BY DEF IInv
  <2>2. TypeOK'
    BY <2>1, StepType
  <2>3. RowsInv' /\ AheadInv'
    BY <2>1, StepRows, StepAhead
  <2>4. DurableInv' /\ PageInv' /\ FormInv'
    BY <2>1, <2>2, StepDurable, StepPage, StepForm
  <2>5. ConclusionInv' /\ AnswerInv' /\ ReviewInv'
    BY <2>1, <2>2, StepConclusion, StepAnswer, StepReview
  <2>. QED  BY <2>2, <2>3, <2>4, <2>5 DEF IInv
<1>. QED  BY <1>1, <1>2, PTL DEF Spec

(* The types.                                                              *)
THEOREM TypeCorrect == Spec => []TypeOK
<1>1. IInv => TypeOK
  BY DEF IInv
<1>. QED  BY <1>1, Invariance, PTL

(* What an MCP tool has answered no crash takes back: the rows only go     *)
(* on, and recording the access puts on disk what was read (server.py      *)
(* 73-91, logger.py 61-144).                                               *)
THEOREM AnswersDurable == Spec => []McpAnswerIsDurable
<1>1. IInv => McpAnswerIsDurable
  <2>. SUFFICES ASSUME IInv, review.recorded, "rollback" \notin faults
                PROVE  Progress(disk.row[review.of]) >= Progress(review.first)
    BY DEF McpAnswerIsDurable
  <2>1. review.call \in 0 .. 5 /\ review.first \in Row
    BY DEF IInv, TypeOK
  <2>2. review.call > 0 /\ review.of \in App
    BY <2>1 DEF IInv, AnswerInv
  <2>3. Progress(review.first) <= Progress(disk.row[review.of])
    BY <2>2 DEF IInv, AnswerInv
  <2>4. Progress(review.first) \in Nat /\ Progress(disk.row[review.of]) \in Nat
    BY <2>1, <2>2, RowsHere, ProgressFacts DEF IInv
  <2>. QED  BY <2>3, <2>4
<1>. QED  BY <1>1, Invariance, PTL

(* An application that is reported for human review, on the strength of    *)
(* its conclusion or of its risk, is not approved afterwards: without a    *)
(* crash there is one conclusion and one assessment                        *)
(* (openclaw_review_agent.py 80-143, engine.py 381-425).                   *)
THEOREM ReviewStands == Spec => []ReportedIsNotApproved
<1>1. IInv => ReportedIsNotApproved
  <2>. SUFFICES ASSUME IInv, Reported, HumanReviewRequired, "crash" \notin faults
                PROVE  view.row[review.of].state # "APPROVED"
    BY DEF ReportedIsNotApproved
  <2>1. review.call = 5 /\ review.risk # NoRisk /\ review.of \in App
    BY DEF Reported, IInv, AnswerInv
  <2>2. /\ GoodRow(review.first) /\ ToldConclusion(review.of, review.first)
        /\ ToldRisk(review.of, review.risk)
    BY <2>1 DEF IInv, ReviewInv
  <2>3. view.row[review.of] \in Rows(review.of) /\ GoodRow(view.row[review.of])
    BY <2>1, RowsHere DEF IInv
  <2>4. CASE review.first.state \in { "ESCALATED_TO_HUMAN", "ESCALATED" }
    BY <2>2, <2>3, <2>4 DEF ToldConclusion, Settled, SettledState
  <2>5. CASE review.first.decision = "ESCALATE_TO_HUMAN"
    BY <2>2, <2>4, <2>5 DEF GoodRow
  <2>6. CASE review.risk = "CRITICAL"
    <3>1. view.row[review.of].risk \in { NoRisk, "CRITICAL" }
      BY <2>1, <2>2, <2>3, <2>6 DEF ToldRisk
    <3>. QED  BY <2>3, <3>1 DEF GoodRow, RiskLevel, NoRisk
  <2>. QED  BY <2>4, <2>5, <2>6 DEF HumanReviewRequired
<1>. QED  BY <1>1, Invariance, PTL

(* However many forms are filled in, one form makes one application, and   *)
(* one more for a fault at most: an answer that was an error or did not    *)
(* arrive (NewApplicationPage.tsx 154-228, 763-785).                       *)
THEOREM OnePerForm == Spec => []OneApplicationPerForm
<1>1. IInv => OneApplicationPerForm
  <2>. SUFFICES ASSUME IInv PROVE OneApplicationPerForm
    OBVIOUS
  <2>1. Cardinality(OfPage) <= page.forms + Cardinality(faults) /\ Cardinality(faults) \in Nat
    BY FaultsCounted DEF IInv, FormInv
  <2>2. Cardinality(OfPage) \in Nat
    BY OfPageFinite
  <2>. QED  BY <2>1, <2>2 DEF OneApplicationPerForm, OfPage
<1>. QED  BY <1>1, Invariance, PTL

(* The page shows its success only if the application, and the document if *)
(* it has one, is on disk, but for the three clicks SuccessMeansStored     *)
(* sets apart and a rollback: whatever a form that is its own awaits is of *)
(* its own application (NewApplicationPage.tsx 154-266, 763-785, store.py  *)
(* 41-94, 339-361).                                                        *)
THEOREM StoredOnSuccess == Spec => []SuccessMeansStored
<1>1. IInv => SuccessMeansStored
  <2>. SUFFICES ASSUME IInv, page.flow = "success", "rollback" \notin faults
                PROVE  /\ page.app # Nobody => disk.row[page.app] # NoRow
                       /\ page.doc = "processed" => disk.docs # {}
                       /\ "anew" \notin page.clicks =>
                            /\ page.app # Nobody
                            /\ page.doc = "processed" =>
                                 \E u \in disk.docs : upload[u].app = page.app
                       /\ page.clicks = {} => page.doc \in { "none", "processed" }
    BY DEF SuccessMeansStored
  <2>1. page.app \in App \cup { Nobody }
    BY DEF IInv, TypeOK
  <2>2. page.app # Nobody => disk.row[page.app] # NoRow
    BY <2>1 DEF IInv, PageInv, DurableInv
  <2>3. page.doc = "processed" =>
          \E u \in disk.docs : "anew" \in page.clicks \/ upload[u].app = page.app
    BY DEF IInv, DurableInv
  <2>4. "anew" \notin page.clicks => OwnFormInv
    BY DEF IInv, PageInv
  <2>. QED  BY <2>2, <2>3, <2>4 DEF OwnFormInv
<1>. QED  BY <1>1, Invariance, PTL

(* Whatever fails, an application on disk never goes back, and what is     *)
(* concluded there is final: a task writes a conclusion once, and one that *)
(* starts again after a crash starts from a row that was not concluded     *)
(* (store.py 41-94, engine.py 101-160, main.py 75-118).                    *)
THEOREM CommittedRows == Spec => CommittedGoesOn
<1>1. ASSUME IInv, IInv', [Next]_vars, NEW a \in App
      PROVE  /\ Progress(disk.row[a]) <= Progress(disk'.row[a])
             /\ Settled(disk.row[a]) => disk'.row[a] = disk.row[a]
  <2>1. /\ TypeOK /\ TypeOK' /\ RowsInv /\ AheadInv /\ ConclusionInv
    BY <1>1 DEF IInv
  <2>2. Progress(disk.row[a]) <= Progress(disk'.row[a])
    BY <1>1, <2>1, NothingLost
  <2>. SUFFICES ASSUME Settled(disk.row[a]) PROVE disk'.row[a] = disk.row[a]
    BY <2>2
  <2>3. disk'.row[a] \in { disk.row[a], view.row[a] }
    BY <1>1, <2>1, StepDatabase
       DEF DatabaseMove, DatabaseStays, CommitsAll, WritesDocument, Restores, WritesRow, database
  <2>4. Settled(view.row[a]) \/ disk'.row[a] = disk.row[a]
    <3>1. /\ disk.row[a] \in Row /\ view.row[a] \in Row
          /\ Progress(disk.row[a]) <= Progress(view.row[a])
      BY <2>1, RowsHere DEF AheadInv
    <3>2. /\ Progress(disk.row[a]) = 3 /\ Progress(view.row[a]) \in 0 .. 3
          /\ Unassessed(view.row[a]) => Progress(view.row[a]) <= 1
          /\ view.row[a].state = "DECIDING" => Progress(view.row[a]) = 2
      BY <3>1, ProgressFacts
    <3>3. ~Unassessed(view.row[a]) /\ view.row[a].state # "DECIDING"
      BY <3>1, <3>2
    <3>. QED  BY <3>1, <3>3 DEF Row, Unassessed, Settled
  <2>5. Agree(disk.row[a], view.row[a])
    BY <2>1 DEF ConclusionInv, Rows
  <2>. QED  BY <2>3, <2>4, <2>5 DEF Agree
<1>2. IInv /\ IInv' /\ [Next]_vars =>
        [ \A a \in App :
            disk'.row[a] # disk.row[a] =>
              /\ ~Settled(disk.row[a])
              /\ Progress(disk.row[a]) <= Progress(disk'.row[a]) ]_disk
  BY <1>1
<1>. QED  BY <1>2, Invariance, PTL DEF Spec, CommittedGoesOn
=============================================================================
