-------------------------- MODULE OnboardingSystem --------------------------
(***************************************************************************)
(* Several applications on the one SQLite connection of the process, and   *)
(* those who use them at the same time: the page that submits a new        *)
(* application, another client, somebody who pages through the list, and   *)
(* an agent that reviews one application over MCP (app/memory/store.py,    *)
(* app/services/onboarding.py, app/api/routes.py, app/mcp/server.py,       *)
(* app/audit/logger.py, frontend/src/pages/NewApplicationPage.tsx and      *)
(* ApplicationsPage.tsx, poc/openclaw_review_agent.py).                    *)
(*                                                                         *)
(* The step is one statement.  An INSERT or UPDATE is in the view of the   *)
(* connection, which everybody reads, before any COMMIT, of whoever comes  *)
(* first, puts it on disk.  WorkerEngine has a single application in every *)
(* detail; here it is the writes that others can see or undo: the row is   *)
(* RECEIVED until the risk is assessed, then DECIDING, then settled.       *)
(***************************************************************************)
EXTENDS Policy

CONSTANTS
  NumApps,          (* applications there can be, in the order of created_at *)
  MaxUploads,       (* bound on the uploads of the page                    *)
  MaxForms,         (* bound on the forms the applicant fills in           *)
  ClientFindings,   (* what may be found in an application that comes with *)
                    (* documents                                           *)
  Casts,            (* who may be there together: "page", whose applicant  *)
                    (* may go on to fill in forms "anew", "client", "list" *)
                    (* and "review"; and "past", an application from before *)
  MaxFaults         (* bound on the kinds of faults of one behaviour       *)

ASSUME NumAppsAssumption == NumApps \in Nat \ {0}
ASSUME MaxUploadsAssumption == MaxUploads \in Nat
ASSUME MaxFormsAssumption == MaxForms \in Nat \ {0}
ASSUME ClientFindingsAssumption == ClientFindings \subseteq Findings
ASSUME CastsAssumption == Casts \subseteq
  SUBSET { "page", "anew", "client", "list", "review", "past" }
ASSUME MaxFaultsAssumption == MaxFaults \in Nat

VARIABLES
  cast,      (* who is there                                               *)
  view,      (* the database, as the connection sees it                    *)
  disk,      (* the database, as last committed                            *)
  origin,    (* who submitted an application                               *)
  pc,        (* where the handler or the task of an application is         *)
  found,     (* what the task has found, in memory                         *)
  answered,  (* how its submission was answered                            *)
  page,      (* NewApplicationPage                                         *)
  upload,    (* the uploads of the page: where the handler is, of which    *)
             (* application, and which handler of the page awaits it       *)
  walk,      (* somebody turning the pages of the list                     *)
  review,    (* the review of one application over MCP                     *)
  faults     (* the kinds of faults there were                             *)

database == << view, disk >>
server == << cast, database, origin, pc, found, answered >>
vars == << cast, database, origin, pc, found, answered, page, upload,
           walk, review, faults >>

App == 1 .. NumApps
Upload == 1 .. MaxUploads

Nobody == 0                       (* no application, and no upload         *)
NoRisk == "unassessed"
NoDecision == "undecided"

Row == [ state    : SettledState \cup { "RECEIVED", "DECIDING", "none" },
         risk     : RiskLevel \cup { NoRisk },
         decision : FinalDecision \cup { NoDecision } ]

RowOf(state, risk, decision) ==
  [ state |-> state, risk |-> risk, decision |-> decision ]

NoRow == RowOf("none", NoRisk, NoDecision)

Database == [ row : [ App -> Row ], docs : SUBSET Upload ]

Stored(db) == { a \in App : db.row[a] # NoRow }

TypeOK ==
  /\ cast \in Casts
  /\ view \in Database /\ disk \in Database
  /\ origin \in [ App -> { "nobody", "before", "page", "client" } ]
  /\ pc \in [ App -> { "free", "inserted", "written", "queued", "assessed",
                       "deciding", "concluded", "over" } ]
  /\ found \in [ App -> Findings ]
  /\ answered \in [ App -> { "nothing", "accepted", "error" } ]
  /\ page \in [ flow     : { "form", "submitting", "partial_failure", "success" },
                app      : App \cup { Nobody },      \* applicationId
                doc      : { "none", "ready", "uploading", "processed", "failed" },
                creating : App \cup { Nobody },      \* awaited by handleSubmitAll,
                carries  : BOOLEAN,                  \* with a document to upload
                forms    : 1 .. MaxForms,
                clicks   : SUBSET { "again", "leave", "anew" } ]
  /\ upload \in [ Upload -> [ at  : { "free", "asked", "stored", "inserted",
                                      "accepted", "error" },
                              app : App \cup { Nobody },
                              by  : { "nobody", "submit", "retry" } ] ]
  /\ walk \in [ at : { "off", "count", "page", "end" },
                total : 0 .. NumApps, offset : 0 .. NumApps - 1,
                seen : SUBSET App, there : SUBSET App ]
  /\ review \in [ of : App \cup { Nobody }, call : 0 .. 5, asked : BOOLEAN,
                  first : Row, risk : RiskLevel \cup { NoRisk },
                  recorded : BOOLEAN ]
  /\ faults \subseteq { "error", "rollback", "crash", "answer" }

(* Without documents there is nothing to compare. *)
NothingFound ==
  [ mismatches |-> 0, weak |-> 0, anyData |-> FALSE, identified |-> FALSE ]

(* The application from before is approved. *)
Init ==
  /\ cast \in Casts
  /\ LET old == IF "past" \in cast THEN { 1 } ELSE {}
     IN  /\ view = [ row  |-> [ a \in App |-> IF a \in old
                                              THEN RowOf("APPROVED", "LOW", "APPROVE")
                                              ELSE NoRow ],
                     docs |-> {} ]
         /\ origin = [ a \in App |-> IF a \in old THEN "before" ELSE "nobody" ]
         /\ pc = [ a \in App |-> IF a \in old THEN "over" ELSE "free" ]
  /\ disk = view
  /\ found = [ a \in App |-> NothingFound ]
  /\ answered = [ a \in App |-> "nothing" ]
  /\ page = [ flow |-> "form", app |-> Nobody, doc |-> "none", creating |-> Nobody,
              carries |-> FALSE, forms |-> 1, clicks |-> {} ]
  /\ upload = [ u \in Upload |-> [ at |-> "free", app |-> Nobody, by |-> "nobody" ] ]
  /\ walk = [ at |-> "off", total |-> 0, offset |-> 0, seen |-> {}, there |-> {} ]
  /\ review = [ of |-> Nobody, call |-> 0, asked |-> FALSE, first |-> NoRow,
                risk |-> NoRisk, recorded |-> FALSE ]
  /\ faults = {}
-----------------------------------------------------------------------------
(***************************************************************************)
(* The connection                                                          *)
(***************************************************************************)
Fault(kind) ==
  /\ kind \notin faults /\ Cardinality(faults) < MaxFaults
  /\ faults' = faults \cup { kind }

(* A statement; what it writes is seen at once, and not yet on disk. *)
Execute(db) == view' = db /\ UNCHANGED << disk, faults >>

(* A COMMIT is of everything anybody has written. *)
Commit == disk' = view /\ UNCHANGED << view, faults >>

(* A statement or a COMMIT raises: what is in the open transaction stays   *)
(* there, or SQLite has rolled it back, with what the others wrote.        *)
Raises ==
  /\ UNCHANGED disk
  /\ \/ Fault("error") /\ UNCHANGED view
     \/ Fault("rollback") /\ view' = disk

WithRow(a, r) == [ view EXCEPT !.row[a] = r ]

(* The COMMIT of an audit event of a task, or of the task of a document.   *)
CommitByOthers ==
  /\ view # disk /\ Commit
  /\ UNCHANGED << cast, origin, pc, found, answered, page, upload, walk, review >>
-----------------------------------------------------------------------------
(***************************************************************************)
(* submit_application                                                      *)
(***************************************************************************)
(* created_at and the statement come without a wait between them. *)
NextApp(a) == a \in App /\ pc[a] = "free" /\ \A b \in App : b < a => pc[b] # "free"

Insert(a, who) ==
  /\ NextApp(a)
  /\ origin' = [ origin EXCEPT ![a] = who ]
  /\ \/ /\ Execute(WithRow(a, RowOf("RECEIVED", NoRisk, NoDecision)))
        /\ pc' = [ pc EXCEPT ![a] = "inserted" ]
        /\ UNCHANGED answered
     \/ /\ Raises
        /\ pc' = [ pc EXCEPT ![a] = "over" ]
        /\ answered' = [ answered EXCEPT ![a] = "error" ]

SubmitByClient(a) ==
  /\ "client" \in cast /\ \A b \in App : origin[b] # "client"
  /\ Insert(a, "client")
  /\ UNCHANGED << cast, found, page, upload, walk, review >>

Refuse(a) ==
  /\ Raises
  /\ pc' = [ pc EXCEPT ![a] = "over" ]
  /\ answered' = [ answered EXCEPT ![a] = "error" ]

(* memory.save returns or raises PersistenceError, a 503. *)
CommitSubmission(a) ==
  /\ pc[a] = "inserted"
  /\ \/ Commit /\ pc' = [ pc EXCEPT ![a] = "written" ] /\ UNCHANGED answered
     \/ Refuse(a)
  /\ UNCHANGED << cast, origin, found, page, upload, walk, review >>

(* INPUT_RECEIVED, the task and the 202; without the event there is        *)
(* neither, although the row is there.                                     *)
AcceptSubmission(a) ==
  /\ pc[a] = "written"
  /\ \/ /\ Commit
        /\ pc' = [ pc EXCEPT ![a] = "queued" ]
        /\ answered' = [ answered EXCEPT ![a] = "accepted" ]
     \/ Refuse(a)
  /\ UNCHANGED << cast, origin, found, page, upload, walk, review >>
-----------------------------------------------------------------------------
(***************************************************************************)
(* The task of an application, as far as others see it                     *)
(***************************************************************************)
(* A run knows the documents an application declares, and the page uploads *)
(* its documents under ids of their own: for a run there are none.         *)
FindingsOf(a) == IF origin[a] = "page" THEN { NothingFound } ELSE ClientFindings

(* Where a run ends before the risk is assessed.  The first stands for     *)
(* FAILED, too; the decision of both is set after the last save.           *)
EarlyEnds(a) ==
  { RowOf("MORE_INFORMATION_REQUIRED", NoRisk, NoDecision) }
  \cup (IF origin[a] = "page" THEN {}
        ELSE { RowOf("ESCALATED_TO_HUMAN", NoRisk, "ESCALATE_TO_HUMAN") })

(* A statement of the task, which stops if it raises. *)
TaskWrites(a, r, next) ==
  \/ Execute(WithRow(a, r)) /\ pc' = [ pc EXCEPT ![a] = next ]
  \/ Raises /\ pc' = [ pc EXCEPT ![a] = "over" ]

Run(a) ==
  /\ pc[a] = "queued"
  /\ \/ /\ view.row[a] = NoRow
        /\ pc' = [ pc EXCEPT ![a] = "over" ]
        /\ UNCHANGED << database, found, faults >>
     \/ /\ view.row[a] # NoRow
        /\ \/ \E r \in EarlyEnds(a) : TaskWrites(a, r, "concluded") /\ UNCHANGED found
           \/ \E f \in FindingsOf(a) :
             /\ found' = [ found EXCEPT ![a] = f ]
             /\ TaskWrites(a, RowOf("DECIDING", AssessRisk(f), NoDecision), "assessed")
  /\ UNCHANGED << cast, origin, answered, page, upload, walk, review >>

(* memory.save of a transition. *)
CommitTransition(a) ==
  /\ pc[a] \in { "assessed", "concluded" }
  /\ \/ /\ Commit
        /\ pc' = [ pc EXCEPT ![a] = IF pc[a] = "assessed" THEN "deciding" ELSE "over" ]
     \/ Raises /\ pc' = [ pc EXCEPT ![a] = "over" ]
  /\ UNCHANGED << cast, origin, found, answered, page, upload, walk, review >>

StateOf(decision) ==
  CASE decision = "APPROVE"                  -> "APPROVED"
    [] decision = "REQUEST_MORE_INFORMATION" -> "MORE_INFORMATION_REQUIRED"
    [] decision = "ESCALATE_TO_HUMAN"        -> "ESCALATED"
    [] decision = "REJECT_OR_BLOCK"          -> "REJECTED"

(* Counted retries could only make an escalation of a decision, and the    *)
(* recommendation may be one already.                                      *)
Conclude(a) ==
  /\ pc[a] = "deciding"
  /\ \E rec \in Recommendation :
       LET risk == AssessRisk(found[a])
           decision == EnforcePolicy(rec, risk, found[a].anyData, FALSE, 0)
       IN  TaskWrites(a, RowOf(StateOf(decision), risk, decision), "concluded")
  /\ found' = [ found EXCEPT ![a] = NothingFound ]
  /\ UNCHANGED << cast, origin, answered, page, upload, walk, review >>
-----------------------------------------------------------------------------
(***************************************************************************)
(* upload_document                                                         *)
(***************************************************************************)
UploadStep(u, from, to) ==
  upload[u].at = from /\ upload' = [ upload EXCEPT ![u].at = to ]

(* The application has to exist, and the file is stored, or refused. *)
StoreFile(u) ==
  /\ \/ UploadStep(u, "asked", "stored") /\ view.row[upload[u].app] # NoRow
     \/ UploadStep(u, "asked", "error")
  /\ UNCHANGED << cast, database, origin, pc, found, answered, page, walk, review, faults >>

(* Mutant: the upload is answered before it is committed. *)
InsertDocumentAndAnswer(u) ==
  /\ \/ /\ UploadStep(u, "stored", "accepted")
        /\ Execute([ view EXCEPT !.docs = @ \cup { u } ])
     \/ Raises /\ UploadStep(u, "stored", "error")
  /\ UNCHANGED << cast, origin, pc, found, answered, page, walk, review >>

InsertDocument(u) ==
  /\ \/ /\ UploadStep(u, "stored", "inserted")
        /\ Execute([ view EXCEPT !.docs = @ \cup { u } ])
     \/ Raises /\ UploadStep(u, "stored", "error")
  /\ UNCHANGED << cast, origin, pc, found, answered, page, walk, review >>

(* The COMMIT, the task of the document, and the 202. *)
CommitDocument(u) ==
  /\ \/ Commit /\ UploadStep(u, "inserted", "accepted")
     \/ Raises /\ UploadStep(u, "inserted", "error")
  /\ UNCHANGED << cast, origin, pc, found, answered, page, walk, review >>
-----------------------------------------------------------------------------
(***************************************************************************)
(* NewApplicationPage                                                      *)
(***************************************************************************)
(* Mutant: the form can be submitted again while it is being submitted. *)
SubmitFormAgain(a) ==
  /\ "page" \in cast /\ page.flow \in { "form", "submitting" }
  /\ \E doc \in { "none", "ready" } :
       page' = [ page EXCEPT !.flow = "submitting", !.doc = doc,
                             !.creating = a, !.carries = doc # "none" ]
  /\ Insert(a, "page")
  /\ UNCHANGED << cast, found, upload, walk, review >>

(* The documents are chosen, and handleSubmitAll asks for the application; *)
(* in transit the request is nothing anybody could see.                    *)
SubmitForm(a) ==
  /\ "page" \in cast /\ page.flow = "form"
  /\ \E doc \in { "none", "ready" } :
       page' = [ page EXCEPT !.flow = "submitting", !.doc = doc,
                             !.creating = a, !.carries = doc # "none" ]
  /\ Insert(a, "page")
  /\ UNCHANGED << cast, found, upload, walk, review >>

StartUpload(u, a, by) ==
  /\ upload[u].at = "free" /\ \A v \in Upload : v < u => upload[v].at # "free"
  /\ upload' = [ upload EXCEPT ![u] = [ at |-> "asked", app |-> a, by |-> by ] ]

(* A request of the page: an error, or an answer that got lost. *)
Fails(error) ==
  \/ error /\ UNCHANGED faults
  \/ ~error /\ Fault("answer")

(* The answer of createApplication, or it got lost: then the form is shown *)
(* again, to be submitted once more.  The handler goes on with the         *)
(* documents there were when the form was submitted.                       *)
CreationAnswered ==
  LET a == page.creating
  IN  /\ a # Nobody /\ answered[a] # "nothing"
      /\ \/ /\ answered[a] = "accepted" /\ ~page.carries
            /\ page' = [ page EXCEPT !.creating = Nobody, !.app = a, !.flow = "success" ]
            /\ UNCHANGED << upload, faults >>
         \/ /\ answered[a] = "accepted" /\ page.carries
            /\ page' = [ page EXCEPT !.creating = Nobody, !.app = a ]
            /\ \E u \in Upload : StartUpload(u, a, "submit")
            /\ UNCHANGED faults
         \/ /\ Fails(answered[a] = "error")
            /\ page' = [ page EXCEPT !.creating = Nobody, !.flow = "form" ]
            /\ UNCHANGED upload
  /\ UNCHANGED << server, walk, review >>

(* The answer of uploadDocument, or it got lost.  The handler that awaits  *)
(* it puts its own documents in the place of those on the page, whatever   *)
(* became of the page meanwhile.                                           *)
UploadAnswered(u) ==
  /\ upload[u].by # "nobody" /\ upload[u].at \in { "accepted", "error" }
  /\ upload' = [ upload EXCEPT ![u].by = "nobody" ]
  /\ \/ /\ upload[u].at = "accepted" /\ UNCHANGED faults
        /\ page' = [ page EXCEPT !.doc = "processed", !.flow = "success" ]
     \/ /\ Fails(upload[u].at = "error")
        /\ page' = [ page EXCEPT !.doc = "failed",
                        !.flow = IF upload[u].by = "submit" THEN "partial_failure" ELSE @ ]
  /\ UNCHANGED << server, walk, review >>

Click(what) ==
  page' = [ page EXCEPT !.flow = "success", !.clicks = @ \cup { what } ]

(* handleRetryFailed *)
RetryFailed ==
  /\ page.flow = "partial_failure" /\ page.app # Nobody /\ page.doc = "failed"
  /\ page' = [ page EXCEPT !.doc = "uploading" ]
  /\ \E u \in Upload : StartUpload(u, page.app, "retry")
  /\ UNCHANGED << server, walk, review, faults >>

(* The button is not disabled: a second click finds no failed document     *)
(* while the first is being worked on, and shows the success of none.      *)
RetryAgain ==
  /\ page.flow = "partial_failure" /\ page.app # Nobody /\ page.doc # "failed"
  /\ Click("again")
  /\ UNCHANGED << server, upload, walk, review, faults >>

(* The document is left behind on purpose. *)
ContinueWithoutDocs ==
  /\ page.flow = "partial_failure"
  /\ Click("leave")
  /\ UNCHANGED << server, upload, walk, review, faults >>

(* An empty form; but what is still awaited will be applied to it.  The    *)
(* applicant does not start it before the answer of a creation.            *)
NewApplication ==
  /\ "anew" \in cast /\ page.forms < MaxForms
  /\ page.flow = "success" /\ page.creating = Nobody
  /\ page' = [ page EXCEPT !.flow = "form", !.app = Nobody, !.doc = "none",
                  !.forms = @ + 1,
                  !.clicks = IF \E u \in Upload : upload[u].by # "nobody"
                             THEN { "anew" } ELSE {} ]
  /\ UNCHANGED << server, upload, walk, review, faults >>
-----------------------------------------------------------------------------
(***************************************************************************)
(* The list of applications, a page of it one row long                     *)
(***************************************************************************)
(* Newest first, LIMIT 1 OFFSET n. *)
PageAt(n) ==
  { a \in Stored(view) : Cardinality({ b \in Stored(view) : b > a }) = n }

(* The first of the two reads of list_applications_paginated. *)
CountApplications ==
  /\ "list" \in cast /\ walk.at \in { "off", "count" }
  /\ walk' = [ walk EXCEPT !.at = "page", !.total = Cardinality(Stored(view)),
                           !.there = IF walk.at = "off" THEN Stored(view) ELSE @ ]
  /\ UNCHANGED << server, page, upload, review, faults >>

(* Mutant: one page too few. *)
HasNextButOne(offset, total) == offset + 2 < total

(* Mutant: one page too many. *)
HasNextInclusive(offset, total) == offset + 1 <= total

(* The button of the next page. *)
HasNext(offset, total) == offset + 1 < total

(* The second read, and the next page is asked for. *)
ReadPage ==
  /\ walk.at = "page"
  /\ walk' = [ walk EXCEPT
       !.seen = @ \cup PageAt(walk.offset),
       !.offset = IF HasNext(walk.offset, walk.total) THEN @ + 1 ELSE @,
       !.at = IF HasNext(walk.offset, walk.total) THEN "count" ELSE "end" ]
  /\ UNCHANGED << server, page, upload, review, faults >>
-----------------------------------------------------------------------------
(***************************************************************************)
(* The review of an application: status, documents, risk, summary, history *)
(***************************************************************************)
(* What get_application_status and get_risk_assessment answer. *)
StatusOf(a) == view.row[a]
RiskOf(a) == view.row[a].risk

(* A tool of the MCP server reads what it will answer. *)
AskForReview(a) ==
  /\ "review" \in cast /\ review.call < 5 /\ ~review.asked
  /\ IF review.call = 0 THEN view.row[a] # NoRow ELSE a = review.of
  /\ review' = [ review EXCEPT
       !.of = a, !.call = @ + 1, !.asked = TRUE,
       !.first = IF review.call = 0 THEN StatusOf(a) ELSE @,
       !.risk = IF review.call = 2 THEN RiskOf(a) ELSE @ ]
  /\ UNCHANGED << server, page, upload, walk, faults >>

(* Mutant: the event is left to the next COMMIT. *)
RecordAccessUncommitted ==
  /\ review.asked
  /\ review' = [ review EXCEPT !.asked = FALSE, !.recorded = TRUE ]
  /\ UNCHANGED << server, page, upload, walk, faults >>

(* And records the access, before it answers; that it could not is swallowed. *)
RecordAccess ==
  /\ review.asked
  /\ \/ Commit /\ review' = [ review EXCEPT !.asked = FALSE, !.recorded = TRUE ]
     \/ Raises /\ review' = [ review EXCEPT !.asked = FALSE ]
  /\ UNCHANGED << cast, origin, pc, found, answered, page, upload, walk >>

(* What the report says, if it has a risk to print. *)
Reported == review.call = 5 /\ ~review.asked /\ review.risk # NoRisk

HumanReviewRequired ==
  \/ review.first.state \in { "ESCALATED_TO_HUMAN", "ESCALATED" }
  \/ review.first.decision = "ESCALATE_TO_HUMAN"
  \/ review.risk = "CRITICAL"
-----------------------------------------------------------------------------
(* Mutant: whatever is on disk is run again.                               *)
RecoverableAny(r) == r.state # "none"

(* What is run again when the process starts.                              *)
Recoverable(r) == r.state = "RECEIVED"

(* The process dies and starts again: the transaction is gone, requests    *)
(* fail, a list or a review is asked for anew, and what is RECEIVED on     *)
(* disk is run again, also if its submission was refused.                  *)
CrashAndRecover ==
  /\ Fault("crash")
  /\ view' = disk
  /\ pc' = [ a \in App |-> IF pc[a] = "free" THEN "free"
                           ELSE IF Recoverable(disk.row[a]) THEN "queued"
                           ELSE "over" ]
  /\ answered' = [ a \in App |->
                     IF origin[a] \in { "page", "client" } /\ answered[a] = "nothing"
                     THEN "error" ELSE answered[a] ]
  /\ upload' = [ u \in Upload |->
                   IF upload[u].at \in { "asked", "stored", "inserted" }
                   THEN [ upload[u] EXCEPT !.at = "error" ] ELSE upload[u] ]
  /\ walk' = IF walk.at = "end" THEN walk
             ELSE [ at |-> "off", total |-> 0, offset |-> 0, seen |-> {}, there |-> {} ]
  /\ review' = IF review.call = 5 /\ ~review.asked THEN review
               ELSE [ of |-> Nobody, call |-> 0, asked |-> FALSE, first |-> NoRow,
                      risk |-> NoRisk, recorded |-> FALSE ]
  /\ UNCHANGED << cast, disk, origin, found, page >>

Next ==
  \/ \E a \in App :
       \/ SubmitByClient(a) \/ SubmitForm(a)
       \/ CommitSubmission(a) \/ AcceptSubmission(a)
       \/ Run(a) \/ CommitTransition(a) \/ Conclude(a)
       \/ AskForReview(a)
  \/ \E u \in Upload :
       \/ StoreFile(u) \/ InsertDocument(u) \/ CommitDocument(u)
       \/ UploadAnswered(u)
  \/ CreationAnswered \/ RetryFailed \/ RetryAgain
  \/ ContinueWithoutDocs \/ NewApplication
  \/ CountApplications \/ ReadPage \/ RecordAccess
  \/ CommitByOthers \/ CrashAndRecover

Spec == Init /\ [][Next]_vars
-----------------------------------------------------------------------------
(***************************************************************************)
(* What those who use the service can rely on                              *)
(***************************************************************************)
(* The page shows its success only if the application, and its document if *)
(* it has one, is on disk, whatever failed and was tried again before.     *)
(* Three clicks are set apart: the applicant has left the document; or has *)
(* clicked on Retry a second time, and then the document may be anywhere;  *)
(* or has begun a new form with an upload still awaited, whose answer then *)
(* shows the success of this form without an application.  Even then no    *)
(* application is shown and no document called uploaded that is not on     *)
(* disk.  Only a rollback by a statement of somebody else can make a later *)
(* COMMIT succeed with nothing to commit (NewApplicationPage.tsx 154-266,  *)
(* 763-785, store.py 41-94, 339-361).                                      *)
SuccessMeansStored ==
  page.flow = "success" /\ "rollback" \notin faults =>
    /\ page.app # Nobody => disk.row[page.app] # NoRow
    /\ page.doc = "processed" => disk.docs # {}
    /\ "anew" \notin page.clicks =>
         /\ page.app # Nobody
         /\ page.doc = "processed" => \E u \in disk.docs : upload[u].app = page.app
    /\ page.clicks = {} => page.doc \in { "none", "processed" }

(* One form makes one application, and another one only after an answer    *)
(* that was an error or did not arrive (NewApplicationPage.tsx 154-228,    *)
(* 763-785).                                                               *)
OneApplicationPerForm ==
  Cardinality({ a \in App : origin[a] = "page" }) <= page.forms + Cardinality(faults)

(* Who turns the pages of the list may miss applications, as the number of *)
(* pages and the page are two reads; but never more than came meanwhile,   *)
(* and only the oldest (store.py 134-231, ApplicationsPage.tsx 98-123).    *)
WalkMissesOldest ==
  walk.at = "end" /\ faults \cap { "rollback", "crash" } = {} =>
    LET missed == walk.there \ walk.seen
    IN  /\ Cardinality(missed) <= Cardinality(Stored(view) \ walk.there)
        /\ \A m \in missed, a \in walk.there \ missed : m < a

(* What an MCP tool has answered no crash takes back, though it may have   *)
(* read what nobody had committed yet: recording the access commits it     *)
(* (server.py 73-91, logger.py 61-144).                                    *)
Progress(r) ==
  CASE r.state = "none" -> 0 [] r.state = "RECEIVED" -> 1
    [] r.state = "DECIDING" -> 2 [] OTHER -> 3

McpAnswerIsDurable ==
  review.recorded /\ "rollback" \notin faults =>
    Progress(disk.row[review.of]) >= Progress(review.first)

(* An application that an agent reports for human review, from reads of    *)
(* different moments, is not approved afterwards, unless a crash made the  *)
(* engine start again (openclaw_review_agent.py 80-143, engine.py 381-425).*)
ReportedIsNotApproved ==
  Reported /\ HumanReviewRequired /\ "crash" \notin faults =>
    view.row[review.of].state # "APPROVED"
=============================================================================
