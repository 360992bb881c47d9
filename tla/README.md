# Verification of Saksham

Saksham takes onboarding applications (a business, its identifiers, its
documents), reads the documents, compares them with what was declared, scores
the risk, asks a language model or a set of rules for a recommendation, and
decides within a fixed policy: approve, ask for more information, hand over to
a human, or reject. It is one Python process on one asyncio event loop, with one
SQLite connection, a thread for OCR, and a React client.

This directory holds TLA+ models of that process, TLC configurations that check
small instances of them, and TLAPS proofs for instances of any size. Paths below
are relative to `src/`.

- [1. The system](#1-the-system): components, state, interactions, hazards
- [2. The models](#2-the-models): one section per component, with the
  correspondence to the code
- [3. The runs](#3-the-runs): what is checked, with which bounds, and why they
  are enough
- [4. The proofs](#4-the-proofs): what is proved, and along which argument
- [5. Where code and documents disagree](#5-where-code-and-documents-disagree)
- [6. What is not modelled](#6-what-is-not-modelled)
- [7. The plan](#7-the-plan)

`PROJECT.json` is the index: components, runs, the mutants that show each
property can fail, the lines of code behind each definition, hazards, theorems.

## 1. The system

### 1.1 Components

| Component | Code | State it keeps | Operations |
|---|---|---|---|
| Workflow states | `app/models/states.py` | none | `can_transition` over `VALID_TRANSITIONS` |
| Decision policy | `app/tools/risk.py`, `app/tools/llm_analysis.py`, `_enforce_policy` | none | score, recommend, enforce |
| Worker engine | `app/worker/engine.py` | a `WorkflowContext` in memory for the length of a run | `resume_application`, `_validate`, `_verify_documents`, `_extract_with_retry`, `_analyze_and_decide`, `_transition` |
| Submission | `app/services/onboarding.py`, `app/api/routes.py` | none | `submit_application`, `_process_application_background`, queries |
| Startup recovery | `app/main.py` | none | `_recover_stuck_work`, `_recover_application`, `_recover_document` |
| Workflow memory | `app/memory/store.py` | rows of `workflow_contexts` and `documents` | save, get, list, delete; save and update of a document |
| SQLite connection | `app/memory/database.py` | the one connection, with its open transaction | connect, close |
| Audit logger | `app/audit/logger.py` | rows of `audit_events` | record, read |
| Document pipeline | `app/api/routes.py`, `app/tools/document_processing.py`, `ocr.py`, `pdf_processing.py`, `field_extraction.py` | files, temporary directories, the document's row | upload, process, mark failed |
| Background worker | `app/worker/background.py` | the table of tasks, two semaphores, a lock | submit, run, done callback, shutdown |
| Verification tools | `app/tools/validation.py`, `extraction.py`, `comparison.py`, `risk.py`, `llm_analysis.py` | none | validate, extract, compare, score, recommend |
| Provenance | `app/audit/provenance.py` | two `ContextVar`s | label audit events |
| MCP server | `app/mcp/server.py` | none of its own | nine read-only tools, each of which records an audit event |
| Authentication, middleware | `app/auth.py`, `app/middleware.py` | none | checks of one request |
| Frontend | `frontend/src` | form, file list, fetch state of a page | submit, upload, retry, fetch, turn pages |
| Review agent | `poc/openclaw_review_agent.py` | none | a report from five MCP calls |

### 1.2 How they interact

`POST /applications` saves a row in `RECEIVED`, records an event, and hands a
coroutine to the background worker under the application's id. The coroutine
reads the row back and lets the engine run. The engine changes its context in
memory and writes the *whole* of it at every transition; after the write it
records a `STATE_TRANSITION` event in a commit of its own. Between two
transitions it reads the document table once, extracts, compares, scores. Nobody
else writes the row of an application while its task is registered.

`POST /applications/{id}/documents` stores a file, writes a `pending` row, and
hands a coroutine to the same background worker under the document's id. It
marks the row `processing`, reads the file in a thread, and writes the result.

The client creates an application first and uploads its documents after the answer.
These get ids of their own, which the application does not declare, so no run of
the engine ever reads them. The review agent asks five MCP tools one after the
other; each reads, records the access with a commit, and answers.

Applications and documents share two things only: the semaphores and the table
of the background worker, and the one connection. The second is the subtle one.
A write whose `commit()` failed is still in the connection's open transaction,
and the next `commit()`, of any other application or of an audit record, makes
it durable after its caller was told that it had failed.

At startup the process selects the rows that were left unfinished and hands them
to the background worker again; at shutdown it cancels what is registered.

### 1.3 What is hard

The hazards are listed in `PROJECT.json`, each at its line. They are of eight kinds.

- **A crash between two writes.** Which state was saved last decides whether
  and from where an application goes on. Evidence and retry counts of several
  runs end up in one row.
- **A write that fails half-way.** The context in memory is then ahead of the
  row (`_transition` does not take the state back), the exception may be caught
  by a retry loop that takes it for a failed extraction, and the uncommitted
  write may surface later.
- **The order of a write and a side effect.** Row, audit event, webhook of an
  escalation, temporary directory, `202` answer: each order of two of these is
  right in one direction only.
- **Boundaries.** The retry count against the policy's limit, percentages
  against thresholds that two files must agree on.
- **Tasks and callbacks.** A task ends one loop iteration before its callback
  runs; a cancelled task may not have begun, may wait for a slot, or may have
  just been given one; a task that comes while another has been woken waits
  although a slot is free.
- **A page with requests under way.** Buttons stay enabled while an upload is awaited, and
  its answer is applied to whatever the page has become meanwhile.
- **Readers of one connection.** What a statement wrote is seen by everybody
  before it is committed, is committed by anybody's `COMMIT`, and is taken back by a
  crash. A page of the list is two reads, a report of the agent is five.
- **Silence in the data.** A field a document does not mention, one the application
  leaves out, one that two documents give differently, a blank: each has to cost
  something, or the emptiest application is the safest.

### 1.4 What makes each component correct

- *Engine*: decisions rest on complete evidence and on every guard of the
  policy; the row and its decision agree; nothing invalid passes validation;
  evidence and counted retries are never lost; a human is told at most once, and
  before the row says so; every run ends; without a fault no application is
  stranded.
- *Documents*: an accepted upload is durable; a row is one whole result or
  none; finished is finished; reused evidence has fields in it; nothing is left on disk;
  one fault never leaves a document unfinished.
- *Background worker*: slots are conserved, and who waits is woken; the table forgets what ended;
  every coroutine is closed; a key runs once; tasks and the shutdown end.
- *Verification*: what is approved stands in the documents; a low risk has been
  verified, not merely left uncontradicted; the model cannot overrule the score; the
  order of the documents, and reading them again, change no comparison.
- *Connection, stores and those who use them*: what the page or MCP tells is on disk, except
  after a rollback caused by somebody else; what is on disk never goes back; one
  application per form; turning the pages misses nothing but the oldest, and no more than
  came meanwhile; what is reported for human review is not approved meanwhile.

## 2. The models

| Module | Role |
|---|---|
| `WorkflowStates` | states, decisions and the transition table |
| `Policy` | risk score, rule-based recommendation, policy, as operators |
| `WorkerEngine` | one application: submission, engine, crashes, recovery |
| `ApplicationLifecycle` | the abstract specification `WorkerEngine` implements |
| `WorkerEngineInvariants` | its inductive invariants |
| `WorkerEngineProofs`, `LifecycleProofs` | the proofs: decisions; the refinement, audit trail and hand-over |
| `WorkerEngineProgress` | how long a run can be |
| `DocumentProcessing` | one document: upload, pipeline, crashes, recovery |
| `DocumentProcessingProofs` | inductive invariant and proofs |
| `BackgroundWorker` | task table, semaphores, callbacks, shutdown |
| `BackgroundWorkerProofs` | inductive invariant and proofs |
| `FieldExtraction` | confidences of what is found in a text, as operators |
| `Verification` | the data behind one decision: declared, read, compared, scored |
| `VerificationProofs` | inductive invariant and proofs |
| `OnboardingSystem` | several applications, the connection, the page, the list, the review |
| `OnboardingInvariants` | its inductive invariants |
| `OnboardingProofs`, `OnboardingListProofs` | the proofs: rows, page and review; turning the pages of the list |
| `*Claims` | statements of the repository's documents that the code does not keep |
| `MC*` | the constants of the TLC instances |

`WorkerEngine` and `DocumentProcessing` stand for one application and one
document each. Two applications interact only through the semaphores, which
`BackgroundWorker` models, and through the connection's transaction. For one
application that is the action `CommitPending`: somebody else's commit at any moment.
`OnboardingSystem` has the others, and what they see. `Verification` computes what
`WorkerEngine` chooses: `Policy` and `FieldExtraction` are shared, so the
score, the rules, the policy and the confidences are the same definitions everywhere.

Definitions named in a comment as *Mutant* are not part of any specification:
each is a plausible mistake in the definition that follows it, used to show that a
property notices.

### 2.1 The step of the models

A step takes a handler from one durable write, or one wait that another actor can
use, to the next. What happens between two writes is in memory of one coroutine
and nobody can see it. A crash may come before or after any step. Every write
has four outcomes: durable; durable with a lost audit event; failed leaving
nothing; failed leaving itself in the open transaction (`SaveFails`,
`WriteFails`). SQLite rolling the transaction back is among the failures.

`OnboardingSystem` is finer, because there others look on: a step is one statement,
and a write is two, the `INSERT` or `UPDATE` and the `COMMIT`.

Each lost write, read or event and each crash is a *fault*, and a behaviour has
at most `MaxFaults`. The proofs hold for any `MaxFaults`.

### 2.2 `WorkerEngine`

| Variable | In the code |
|---|---|
| `application` | what `validate_application` will find in the request |
| `db` | the committed row of `workflow_contexts` |
| `pending` | the row as left in the connection's transaction by a failed commit |
| `ctx` | the `WorkflowContext` of the running engine |
| `pc` | where the handler is, named for what it does next |
| `doc`, `attempt` | the loop variables of `_verify_documents` and `_extract_with_retry` |
| `reusable` | the documents `persisted_map` finds completed and sure enough |
| `trail` | the states with a `STATE_TRANSITION` event |
| `handovers` | how often `create_escalation` was called |

`Transition(c, s, next, handler)` is `_transition`: the table is asked, the state
changes in memory, the row is written, the event recorded. Control goes to `next`,
or, with the context as it then is, to the exception handler that encloses the
call: the retry loop's own (`caught`), or the task's (`raised`). This last
parameter is what makes the difference between a failed write that ends a run and one
that the retry loop counts as a failed extraction.

The two ways to start a run do not agree in the code and do not in the model:
`StartRun` (`_process_application_background`) takes `Resumable` states,
`RecoverRun` (`_recover_application`) anything that is not terminal, and
`Restart` (`_recover_stuck_work`) re-queues a third set.

Data is abstracted to what the policy tells apart. An extraction is of a document
and is trusted or not; a comparison yields a number of differing fields; a
language model recommends anything, at a confidence above or below the
threshold. `weak` is 0 where the engine calls `assess_risk`, because evidence
below 0.6 never gets into the context and the score counts what is below 0.5.
`reusable` is any subset of the documents: a superset of what the deployed API
can produce, where the ids of uploaded documents never match those of the
request, and what the code and its tests are written for.

`ApplicationLifecycle` is what an applicant could be promised: an application is
absent, open, then settled once; evidence accumulates; a human is told at most
once; an outcome fits the request and the evidence. `ImplementsLifecycle` maps the
durable row to it, and is checked over crashes and failed writes.

### 2.3 `DocumentProcessing`

The upload handler, the background task and the recovery of one document, down
to the pages of a scanned PDF. `row` and `pending` are as above. `UpdateStatus`
is `update_document_status` with its partial updates: some columns always
replaced, the fields only if given, an error never taken back. `tempDirs` counts
directories on disk; a crash leaves what is there, a shutdown lets the thread
run to its `finally`.

A text is abstracted to how sure the OCR is and to how many of the eight fields
are found and how sure those are. `Overall`, in `FieldExtraction`, is
`_calculate_overall_confidence` in integer percent; the thresholds are at 50
(completed) and 60 (reused by the engine). A PDF without pages fails as a page
that cannot be rendered does.

### 2.4 `BackgroundWorker`

A task is scheduled, may wait for a slot, is given one, runs and ends; then its
done callback runs. The lock of a submission is never held across a wait, so a
submission is one step. The semaphores are asyncio's, as in Python 3.11: first come first
served, and a slot that is given back goes straight to the first that waits
(`WakeUpNext`). It does not run at once, and until it does `locked()` is true for
everybody who comes (`Locked`, `Woken`), with slots free or not: such a newcomer
queues, and is woken by the one before it when that one resumes (`Resume`). So somebody may
wait while a slot is free, but never without one that is woken and will wake the
next, which is what `SlotsAccounted` says. In newer versions of Python the one that
resumes wakes as many as there are free slots, not only the next; `SlotsAccounted` is then
kept for the same reason. A waiter that is cancelled keeps its place in the queue and is passed over (`Places`).
`CancelBeforeRun` has the three ways in which a cancellation can meet a task that is
not running yet; they differ in who closes the coroutine and who has the slot.
`Shutdown` takes its snapshot and `ShutdownReturns` waits for it, past the
timeout. No request comes in once the process stops: `lifespan` runs the
shutdown after the server stopped serving.

### 2.5 `Verification`

| Variable | In the code |
|---|---|
| `application`, `papers`, `given` | the request: its fields, the text of each document, and whether it comes as a file, as text or both |
| `evidence`, `saved` | `context.extracted_data`, in memory and in the row |
| `doc`, `attempt`, `retries` | the loops of `_verify_documents` and `_extract_with_retry`, and `retry_count` |
| `differing` | the fields of `ComparisonResult.inconsistencies` |
| `risk`, `advisor`, `decision` | what `assess_risk`, `get_ai_recommendation` and `_enforce_policy` made of it |

A value stands for the text `compare_information` is left with, stripped and in upper
case. Three things that are easy to merge are kept apart: `None` (`Absent`), a
blank (`Blank`: missing for validation, filled for the confidence of a model's
reading, a difference for the comparison), and a value that is no PAN, GST
number or email address (`Malformed`).

`Readings` is every way a document can be read, with its fallbacks: the pipeline, which
fails as a result and not as an exception; a model, whose answer may be
wrong, blank or no JSON; the four patterns. A paper says which fields stand in a text and for
which of them only the second, less sure way of the extractor applies.
`PapersAssumption` is a fact about the patterns of the code: that for a PAN, which
has no word boundary, matches inside every GST number.

`Differences` is the loop of `compare_information` over the fields, with its four
branches. They are one set because in all of them but "neither has it" the
declared and the found value are not equal. The document's value is that of
the first document that has one.

Writes do not fail here and a crash resumes the run with what was saved: the row
is written at the transitions of a retry, and the resumed run reads every document
again and appends. What a failed write does is `WorkerEngine`'s.

### 2.6 `OnboardingSystem`

| Variable | In the code |
|---|---|
| `view` | the database as the connection sees it, open transaction included |
| `disk` | the database as last committed |
| `origin`, `pc`, `found`, `answered` | of each application: who sent it, where its handler or task is, what the task has in memory, how the request was answered |
| `page`, `upload` | the state of `NewApplicationPage`, and the handlers of its uploads |
| `walk` | somebody turning the pages of `ApplicationsPage` |
| `review` | a `review_application` in progress |
| `cast` | who takes part in this behaviour |

`Execute` and `Commit` are the two awaits of every write. `Raises` is a statement or a commit
that fails, with the transaction left open, or rolled back by SQLite together with what
*others* had written and not yet committed. This refines `pending` of the two
modules above by a case they leave out: after such a rollback a `COMMIT` of the
innocent succeeds, with nothing to commit. `SuccessMeansStored` and
`McpAnswerIsDurable` except it, by name.

Of the engine's run there is what others can tell apart. `RECEIVED` stands for every state
up to the risk assessment, `DECIDING` for the rest, and
`MORE_INFORMATION_REQUIRED` as an early end also for `FAILED`: both have a row without
decision. Applications of the page declare no documents the engine could find
(`FindingsOf`). That this is not what the documents say is the finding
`uploads_are_available`; for it `OnboardingClaims` adds which uploaded documents have been
read, and which runs began with one of theirs in the table.

Requests in transit are merged with the first statement of their handler, as nobody
can see them. A page of the list has one row, so that every application starts a
page. A review asks for an application that exists; a `NOT_FOUND` ends it at once.

The submission page has one document per form. Its handlers are coroutines that go on
whatever becomes of the page: the one that awaits an upload (`by`) puts the
documents it began with back on the page when the answer comes (`UploadAnswered`). Its
buttons are actions of their own, and three of them lead to the success page or from
it with an upload possibly still awaited, which `clicks` remembers:

- `RetryAgain`, a second click on "Retry Failed Documents": the button is not disabled, the
  handler finds no failed document while the first click's upload is on its way,
  and shows the success page.
- `ContinueWithoutDocs`, the applicant leaves the document behind.
- `NewApplication`: an empty form, while the answer of a retry may still come. When it
  does, the new form shows the success of an application it does not have, with
  the document of the old one (`anew`).

### 2.7 Fairness

- `WorkerEngine`: weak fairness of the engine's own steps together, and of
  `Restart`. The loop runs a coroutine that is ready; extraction and the model
  call return or raise (both have timeouts or are local); a process that went
  down is started again. None for faults or for `CommitPending`.
- `DocumentProcessing`: the same for `TaskStep` and `Restart`. A refused upload and
  an exception in the thread need not happen.
- `BackgroundWorker`: weak fairness per task, and of `ShutdownReturns`. A task's
  step is enabled until it is taken, except while it waits for a slot, and then the
  queue's order gives it one. That every coroutine ends is what the two modules above
  show: `RunsEnd`, and the end of every document's handler.

- `Verification` and `OnboardingSystem` state safety only, and no fairness. That a
  run ends is shown where its failures are modelled; a page or an agent need not go on.

`CHECK_DEADLOCK FALSE` is in every configuration: a system in which every
application is settled and every task has ended stops, rightly.

## 3. The runs

Runs that pass:

| Run | Instance | Distinct states | Properties |
|---|---|---|---|
| `worker_engine` | 2 documents, 2 attempts each, 2 faults, 0 to 3 differing fields | 123,327 | 7 invariants and the type, `RowOnlyGrows`, `RunsEnd`, `ImplementsLifecycle` |
| `document_processing` | 2 pages, 2 faults, OCR at 50 or 90, fields at 60, 70, 95, one or eight of them | 2,622 | 5 invariants and the type, `NeverReopened`, `OneFaultIsSurvived` |
| `background_worker` | 3 documents, 1 application, two slots and one, 4 tasks | 369,325 | 5 invariants and the type, `TasksEnd`, `ShutdownEnds` |
| `verification` | 2 documents, 2 attempts, 1 crash; 5 applications, 6 papers, 3 answers of a model, 2 ways to declare, OCR at 20 or 95 | 804,529 | 4 invariants and the type, `FirstReadingStands` |
| `onboarding_system` | 3 applications, 2 forms, 2 uploads, 1 fault; 5 casts | 2,171,251 | 5 invariants and the type, `CommittedGoesOn` |

**`worker_engine`.** Two documents are the smallest number for which one can be
given up while another is not, and for which a retry count carries over. Two
attempts are the smallest number for which the last attempt, which makes no
transition, differs from the others. Two faults combine: a failed write with a
crash after it, a crash of a resumed run, a failed commit that surfaces while the next
write fails. The differing fields are the four cases the score and the rules tell
apart. What it shows: `DecidedOnCompleteEvidence` and `ApprovalIsEarned` (no
sequence of crashes and partial writes gets a decision past the policy),
`DecisionMatchesState`, `NeverPastValidation` (a crash in `VALIDATING` resumes *past*
validation, and only the table stops it), `AuditNeverAhead`, `HandedOverOnce` (the row
is `TOOL_FAILED` before the webhook, and that state is not re-queued),
`OnlyFaultsStrand`, `RowOnlyGrows`, `RunsEnd`.

**`document_processing`.** Two pages are needed for a mean of several readings and
for a page without text next to one with. The confidences put a result below 50, between
50 and 60, and above. Two faults let the update that marks a document failed
fail too. `OneFaultIsSurvived` says that one is not enough to leave an
accepted document unfinished: what the task did not finish, its handler marks or
the next start picks up; with two (a failed result and a failed mark) it stays
`processing` until the next restart.

**`background_worker`.** Three documents compete for two slots, next to an application, with
a slot of its own, that must not be affected. Two slots of one kind are what it takes
for a task to come, find one of them free, and yet wait behind another that has been
woken and has not resumed; with one slot that cannot happen. Four tasks allow a key
to be submitted again while its first task runs, after it ended, and between its end and
its callback.

**`verification`.** Two documents can agree, contradict each other, or one can say what the other
does not, and there is an order to change. Two attempts and one crash make
evidence that holds the same document twice, from different readers. The
applications are complete, minimal, without a GST number, with a blank PAN and
with a malformed GST number; the papers a full registration with and without GST number,
two identities, one recognised by labels only, and one that says nothing. An OCR of 20 is
enough for a full registration and for nothing else, so that the threshold of 60
separates them. What it shows: `ApprovedOnWhatStandsThere` (without a model, an approval
traces back to the papers, through readers, confidences, comparison, score, rules and
policy), `LowRiskIsVerified`, `ModelCannotOverrule` (a model recommends anything here),
`OrderIsIrrelevant`, `FirstReadingStands`. The first needs its condition: what a
model read is compared like anything else, and need not stand in any paper.

**`onboarding_system`.** A fault is a kind of fault, a statement that raises, a rollback, a
crash, or a lost answer, and one kind occurs once. The casts are an applicant who may
fill in a second form, the two who write together, and each reader with a writer: the list
with the page and an application from before, the list with a client, the review with a
client. Two uploads are a first one that fails and its retry, and two forms the smallest
number with which the answer of a retry comes to the wrong one. With all casts at once the
instance is out of reach, and a reader disturbs nobody but by a commit, which
`CommitByOthers` has in every cast. Three applications are the smallest number for
which the page of the list moves by one while one before it and one
after it exist, and for which a page submits again after each kind of fault.
`SuccessMeansStored` sets three clicks apart, by name, because the code shows its success
page after them whatever became of the document (section 5); for the second form even
without an application. What it still says of them is that no application is shown, and no
document called uploaded, that is not on disk. `CommittedGoesOn` has a restart after
each kind of row: what is concluded or assessed on disk is not run again. The findings
are none and three differing fields, the best and the worst for the policy;
what is between is `verification`'s. `WalkMissesOldest` is what can be promised of two reads:
the last page may be dropped, when the count is older than a new application, and with
it the oldest one; never another.

Runs that find a violation, one statement of the repository each: see section 5.

## 4. The proofs

TLAPS checks everything in these eight modules for every value of the constants:

| Module | About | Obligations |
|---|---|---|
| `WorkerEngineProofs` | what a decision rests on | 1067 |
| `LifecycleProofs` | the refinement, the audit trail, the hand-over, what a row keeps | 1287 |
| `WorkerEngineProgress` | how long a run can be | 287 |
| `DocumentProcessingProofs` | one document | 1038 |
| `BackgroundWorkerProofs` | tasks, slots, shutdown | 1456 |
| `VerificationProofs` | the data behind a decision | 856 |
| `OnboardingProofs` | several applications, the page, the review | 2077 |
| `OnboardingListProofs` | turning the pages of the list | 335 |

The assumptions are those the modules declare: `MaxToolRetries` is at least 1,
`MaxPages` and the two numbers of slots at least 1, confidences are percentages, the rest
are natural numbers; the keys of documents and of applications differ; `Absent` and `Blank` are
no values, and `PapersAssumption` (2.5) holds of the papers.

### 4.1 `WorkerEngineProofs`

`Invariance`: `Spec => []IInv`, with
`IInv == TypeOK /\ ControlInv /\ StateInv /\ RetryInv /\ RowsInv`
(`WorkerEngineInvariants`). Type correctness is proved first (`TypeInv`, which
needs `ControlInv` for the loop bounds), then the rest on top of it.

None of the safety properties is inductive. `DecidedOnCompleteEvidence` speaks of
the durable row; what keeps it true is an accounting in memory many steps
earlier. The chain is:

1. `RetryInv`: at attempt *n* of any document, at least *n* retries have been
   counted in the context, from whichever run. So a document that is given up
   (`attempt = MaxToolRetries`) leaves the count at the limit: every document
   behind the loop is *covered*, by evidence or by an exhausted count.
2. Covered is kept by everything later, because evidence and the count only grow.
3. In `decide` every document is covered, so if the count is below the limit, all have
   evidence; and at the limit `EnforcePolicy` decides nothing but an escalation
   (`PolicyGuards`), unless fields are missing, which `StateInv` and
   `RowsInv` exclude past validation.
4. `RowsInv` says the same, `GoodRow`, of three copies: the committed row, the one
   left in the transaction, the one in memory. A crash, a failed write or a late
   commit only moves one copy onto another.

Consequences: `TypeCorrect`, `EvidenceBeforeDecision`, `ApprovalEarned`,
`DecisionInRow`, `ValidationHolds`. They include an application without documents
(`NumDocs = 0`), as the web client submits it, which the TLC instance does not have.

### 4.2 `LifecycleProofs`

`LifeInvariance`: `Spec => [](IInv /\ LifeInv)`. `IInv` says what each copy of the
context may contain; what is missing is how the copies relate:

- `OpenInv`: while a run is queued or at work, nothing is settled, committed or not; and
  once the row is settled, no write is left in the transaction. This needs the sets of
  states in which a run is started, which are three different ones in the code.
- `GrowthInv`: the uncommitted row extends the committed one, and the context extends both.
- `FoundInv`: evidence is found after validation only, and the state that settles an
  application is written over a row that has all of it already. That is so because
  `analyze` and `decide` are reached only after a write that left nothing behind.
- `HandoverInv`: a human has been told exactly from `notified` on, and around that
  place the row is `TOOL_FAILED`, in which no restart picks it up.
- `FitsInv`: the outcome fits, in the committed and the uncommitted row.

Each step keeps these, and does to the row one of four things (`RowStep`, theorem `RowSteps`).
Most steps are of four kinds, with a lemma each: in memory only (`InMemory`), a transition
of an open application (`OpenTransition`), one that settles it (`SettlingTransition`),
the end of a run (`Leaving`).

Consequences: `AuditNotAhead`, `HandoverOnce`, `RowKeepsAll`, and
`EngineImplementsLifecycle`, the whole refinement: the abstract specification has
no fairness, and each kind of `RowStep` is an action of it or a stutter.

`FaultsStrand` has an invariant of its own, `FaultlessInv`: as long as no fault has
occurred, the context is in the state that the place of the handler requires, so that
every transition is an edge of the table, none raises, and no extraction below
the threshold is kept. `raised` is then out of reach, and a run can only end behind a
transition into a settled state.

`WorkerEngineProgress` has the same measure for a run, whose loops make it less obvious. A
document takes 4 *r* + 2 steps for *r* retries: an attempt is found weak, going back
fails, the handler marks the failure, and going back succeeds; one step begins the first attempt and one
gives the document up. That the handler is not sent around without an attempt being counted
is where `TypeInv` is needed (in `retry`, `caught` and `recaught` an attempt is left).
`RunsGetOn`: every step of the engine, of a crash and of a late commit lowers `Left`.
`RunsAreBounded`: `Left` is at most `RunBound`, which depends on the documents and retries
and not on the number of faults.

### 4.3 `DocumentProcessingProofs`

`Invariance`, with
`IInv == TypeOK /\ AcceptedIsDurable /\ RowsInv /\ ControlInv /\ PagesInv /\ PendingInv /\ CleanInv`.
The point of it is that a result is written over a clean slate. While a task works
on the document, the row is `processing`, carries no error, and nothing
of this document is uncommitted (`ControlInv`, `PendingInv`); so although `UpdateStatus` is
partial and never clears an error, the result replaces all that matters
(`ResultReplaces`). Only the update to `failed` can meet a finished or an
uncommitted row, and that one sets the error and both zeros itself. `PagesInv`
bounds the sum of readings by their number, so that their mean is a percentage
(`MeanRange`, by the division's defining inequality), and `CleanInv` counts one
directory exactly while pages are read.

Consequences: `TypeCorrect`, `AcceptedDurable`, `CompletedWhole`,
`FailedWorthless`, `ReusedFields`, `DirectoriesRemoved`, and the action property
`FinishedStays`.

`OneFaultStrandsNothing` is the safe part of the liveness property `OneFaultIsSurvived`: a
task that is over has left its document unfinished only if there were two faults. Its
invariant says that only a fault leads to the handler, to the end of the process or to
a recovery, and that a task that is over after one fault at most left nothing uncommitted.
The other part is that a task ends at all, and that is a measure: `Left`, twice the
steps the task can still make, and one for a write that somebody else has to commit.
Every step but a restart lowers it, also one that fails (`TasksGetOn`).

### 4.4 `BackgroundWorkerProofs`

`Invariance`, with `IInv` made of `TypeOK`, `TableInv`, `SlotsInv`, `StopInv` and three of
the properties themselves.

`SlotsInv` has for each kind of task two parts. `Queued`: who is in the queue
waits for this semaphore or was cancelled while it did, and is there once.
`Accounted`: free slots and tasks that hold one make up the capacity, by
cardinality, and if anybody waits who was not cancelled while a slot is free, somebody
has been woken and has not resumed. So the last of the woken may not resume, or be
cancelled, without waking another, and that is what the steps of `WakeUpNext` are
proved to do (`WakeUpSlots`). A step moves one task into or out of the set of holders (`FS_AddElement`,
`FS_RemoveElement`). That the queue has nobody twice is what makes a slot that is
given back go to a task without one; that a cancelled waiter is passed over is what keeps
it from being lost.

`StopInv` is about the first task of a key: as long as it is going it is in the table under
its key, and once the shutdown has begun it is cancelled. A submission finds it
there and is refused (`FirstIsAlone`), and the snapshot of the shutdown has it
(`NoFirstTaskLeft`). A second task of a key has no such invariant, which is
the finding `no_dangling_tasks`.

`SlotsInv` says of the queue that who is in it waits. The converse, `WaitersInv`, is what
a lost wakeup would break: who waits and was not cancelled is in the queue. It holds
because a slot that is given back goes to the first of the queue that was not
cancelled, and only those before it leave the queue with it (`WakeUpMoves`).
With `Accounted`, who waits is behind a holder of its own kind (`NobodyWaitsInVain`), so
tasks that wait never wait for one another. And no step raises the `Rank` of a task, its
place on the way from scheduled to ended, while each of its own lowers it (`TasksGetOn`).

Consequences: `TypeCorrect`, `SlotsAreAccounted`, `TableForgets`, `CoroutinesAreClosed`,
`FirstTaskIsAlone`, `ShutdownLeavesNoFirstTask`, `NoWaitIsInVain`, `TasksMoveOn`.

### 4.5 `VerificationProofs`

`Invariance`, with `IInv == CaseInv /\ EvidenceInv /\ SavedInv /\ ValidInv /\ VerdictInv`:
all evidence is trusted readings of declared documents; what is saved begins
what is known; a PAN was declared past validation; and the verdict is that of the
tools on this very evidence. The safety properties are then facts about operators,
for any evidence:

- a detail that is not among the `Differences` is in a document with that value, or in
  no document and not declared (`ApprovedStands`, `LowRiskVerified`); the rules
  approve only where nothing differs, and what a trusted reading without a model says
  stands in a paper;
- the thresholds of the score against those of the policy (`ModelBounded`);
- the value of a field is that of its first source; a permutation of documents that agree
  has the same values (`OrderDoesNotMatter`), and a longer evidence list the same
  first sources (`FirstReadingCounts`).

The type of the evidence needs that the mean of the confidences of any set of fields is a
percentage. That is an induction over the set, and is avoided: the sum is a sum of
counts of fields at each confidence, which are disjoint sets.

### 4.6 `OnboardingProofs` and `OnboardingListProofs`

`Invariance`: `Spec => []IInv` (`OnboardingInvariants`), with
`IInv == TypeOK /\ RowsInv /\ AheadInv /\ DurableInv /\ PageInv /\ FormInv /\ ConclusionInv /\ AnswerInv /\ ReviewInv`.

`Next` has many actions, and most of `IInv` is about rows only. So every step is first
put into two kinds: what it does to one application (`AppMove`: stay, insert,
answer, end early, assess, go on, decide, start again; `StepMoves`) and what it
does to the two databases (`DatabaseMove`: nothing, a commit, a row, a document,
or back to the disk; `StepDatabase`). The parts of the invariant about rows are proved over
these kinds; only those about the page, the uploads and the review go through the
actions.

What each part is there for:

- `RowsInv`: what a row, seen or on disk, may say at each place of its task.
- `AheadInv`: the disk is never ahead of what is seen, in rows and in documents, so a commit
  only moves it on.
- `DurableInv`: what is seen when a statement has been executed, what is on disk when the
  `COMMIT` has returned, and that nothing but a rollback takes it away in between.
  `PageInv` says what the page was told to be where it is; and `OwnFormInv`, in it, that
  a form which was not begun with an upload still awaited awaits one answer at most,
  of its own application, and shows it as under way. This is what a second click and a
  reset break, and why the property speaks of them. Together: `SuccessMeansStored`.
- `FormInv`: with the form on the screen there are fewer applications of the page than
  forms and faults together; while one is being submitted, at most as many. That is also so
  when the answer of an old retry takes the form away.
- `ConclusionInv`: the row on disk and the one to be seen do not contradict each other: once
  both are concluded they are equal, once both are assessed they have one risk. This
  needs no condition on faults: a crash leaves only one of them, and no task starts
  again on a concluded row.
- `AnswerInv` and `ReviewInv`: what the review was told first is still there, first
  to be seen and, once the access has been recorded, on disk; and, without
  a crash, it was told the one conclusion and the one risk there will be. With
  a crash that is not so: the new run may assess other findings.

`CommittedRows` is a property of steps, `CommittedGoesOn`: with any faults, rollbacks and
crashes included, a row on disk never goes back and a conclusion on disk is final.

`WalkInv` is about the list, from whose newest end applications push the others on
while somebody turns its pages. `WalkMissesOldest` alone says nothing before the walk
is over. What holds at every page: an application of the first page's time that is still
to be seen has at least `offset` newer ones in the list, as rows only move towards the end,
and is older than all that were seen. When the walk ends, as many pages
have been read as the total it was told, which was no less than what was there at first. And of any
set of applications of which each has *t* newer ones, the list has at least *t* more
than the set has (`NewerThanAll`, by its last member: `LastOf`, the minimum of a set of
numbers under a well-founded order). So as many as are missed have come.

Consequences: `TypeCorrect`, `AnswersDurable`, `ReviewStands`, `OnePerForm`,
`StoredOnSuccess`, `CommittedRows`, `OnlyOldestMissed`.

### 4.7 What is only model-checked

Every invariant and every action property of the passing runs, and the
refinement, is proved. Liveness (`RunsEnd`, `OneFaultIsSurvived`, `TasksEnd`,
`ShutdownEnds`) is out of the prover's reach, as is `ENABLED`; so would be induction
over what a recursive definition computes, and any module with a `RECURSIVE` operator, of
which these modules have none. The findings of section 5 are counterexamples, for which an
instance is enough.

The safe side of liveness is proved: a run and the task of a document only ever get nearer to
their ends (`RunsGetOn`, `TasksGetOn`), a task of the worker moves on with each of its steps
(`TasksMoveOn`), nobody waits for a slot that does not come (`NoWaitIsInVain`), and one fault leaves no
document unfinished (`OneFaultSurvived`). What is left to TLC is the step from there to `<>`:
that a step is enabled until the end, and that fairness takes it. These
properties belong to no run; they were model-checked without an error on the instances
of the runs, or ones of the same kind, before they were proved.

## 5. Where code and documents disagree

Each line is a run that TLC refutes; `PROJECT.json` quotes the sentences.

| Run | What happens |
|---|---|
| `resumes_from_any_state` (1 fault) | A crash in `MISSING_INFORMATION`, `TOOL_FAILED`, `ANALYZING_RISK` or `DECIDING` strands the application: not re-queued. One in `VALIDATING` or `TOOL_RETRYING` is re-queued into a transition the table forbids. |
| `row_follows_table` (1) | A save that fails inside the retry loop is counted as a failed extraction; the next save takes the row over an edge the table does not have. |
| `critical_is_escalated` (0) | A CRITICAL application that the model recommends to reject is rejected with no human in between; the rule overrides only an approval. |
| `audit_failure_is_harmless` (1) | An audit event lost after a document's result was written overwrites the completed document as failed. |
| `temp_files_are_cleaned` (0) | A PDF that fails to render after its temporary directory was made leaves it behind. |
| `uploads_are_available` (0) | Uploads are said to be pre-processed so that they are available when the application is processed (`WORKFLOW.md:50`, `:77`, `:934`-`:952`, `docs/ARCHITECTURE.md:41`). The run looks documents up by the ids of the request, which no upload has, so a document that stands completed in the table before the run begins is not found. |
| `no_dangling_tasks` | A key submitted again between the end of its task and that task's callback is unregistered by it; the shutdown does not see the new task. The application itself submits every key once, for which `FirstIsAlone` and `NoFirstTaskLeft` hold. |

Met while modelling, and not given a run of their own:

- `SYSTEM.md:335` says the in-memory state is rolled back after a failed save;
  it is not (the cause of `row_follows_table`).
- `LOW_CONFIDENCE` (`WORKFLOW.md:732`) is unreachable: only extractions at or above the
  threshold get into the context, so `lowConfidence` in `CompareInformation` is
  never true.
- A row that was sent back by validation has no `REQUEST_MORE_INFORMATION` in it
  (`WORKFLOW.md:670` says that it is set and the context persisted), and one that failed it no
  `REJECT_OR_BLOCK` (`WORKFLOW.md:679`): `final_decision` is set after the last save
  (`app/worker/engine.py:110-118`). `DecisionMatchesState` says what the rows do carry.
- `WORKFLOW.md:658` says that a resubmitted application re-enters `VALIDATING`; there is no
  operation that resubmits one.
- `WORKFLOW.md:568` says that a weak last attempt makes no transition; it makes
  both, and only an exception on the last attempt makes none.
- A lost `INPUT_RECEIVED` event answers the client with an error although the row
  exists (`app/services/onboarding.py:74`); the next restart processes it.
- Evidence of a document is appended again when a run is resumed; `RowOnlyGrows`
  shows that none is lost, and `FirstReadingStands` that a second reading changes no
  comparison.
- The MCP tool `validate_application` "checks" an application (`README.md:167`,
  `docs/MCP.md:63`), but calls no validation: it answers that the application is valid if
  the row has no missing fields (`app/mcp/server.py:280-303`). One that has not been
  validated yet, or was rejected for a malformed PAN, is valid.
- "All access produces `MCP_ACCESS` audit events" (`docs/ARCHITECTURE.md:57`): an
  event that cannot be written is logged at debug level, and the answer given
  (`app/mcp/server.py:90`).
- The MCP server is said not to modify the audit history (`app/mcp/server.py:3`); each
  tool adds an event, and its commit makes durable what others have not committed.
- `PersistenceError` is for the caller to know that state was not written
  (`app/memory/store.py:44`); after a failed commit it may be written by the next one.
- Documents that contradict each other are not noticed; the first one counts
  (`README.md:209` says so).
- A document that shows nothing but the PAN leaves at least three fields unverified for an
  applicant who declares phone, email and address: a CRITICAL risk.
- The review agent promises a report (`poc/openclaw_review_agent.py:5`); for an application
  without a risk assessment it formats `None` as a number and raises.
- A second click on "Retry Failed Documents" shows the success page before the upload of the
  first is known, and whether or not it is ever stored
  (`frontend/src/pages/NewApplicationPage.tsx:258`).
- "New Application" with a retry still awaited: its answer shows "Your application has been
  created successfully" (`frontend/src/pages/NewApplicationPage.tsx:711`) on the new form, with no
  application id and nothing submitted. `SuccessMeansStored` sets both of these apart.
- A submission that was refused because its row could not be committed may be
  on disk nevertheless, and is then processed after the next start.

## 6. What is not modelled

- Regular expressions, prompts, and the text of a model's answer: `Verification`
  starts from what a paper says and from a set of JSON objects.
- `delete`, `clear` and `save_document` of the stores, which the application never
  calls; reading audit events back; the sanitiser.
- Provenance labels, authentication, middleware and settings: no state beyond
  one request.
- The answers of the MCP tools the agent does not call: single reads of the same
  rows. The agent's report beyond whether it asks for human review.
- More than one document per form; a new application begun while the creation of the last is
  still awaited (`page.creating = Nobody` in `NewApplication`), which takes an upload answered
  for an older form in between; forms beyond `MaxForms`.
- Of the frontend, the other pages, filters, and turning pages backwards.
  `useApi` applies answers in the order in which they arrive; its pages ask for the
  ids in their own address and are left before they ask for others, and the
  list has a flag of its own per request, so that no late answer was found to do harm.
- OCR, PyMuPDF, aiosqlite, SQLite and asyncio themselves: modelled from how the code
  uses them.

## 7. The plan

Done, in this order, because the first decides what becomes of an application, the second
what evidence there is, the third whether either runs at all, the fourth what the
decision is made of, and the fifth what others make of all that: `WorkerEngine` with
`Policy` and `WorkflowStates`, its proofs; `DocumentProcessing`, its proofs;
`BackgroundWorker`, `Verification`, and their proofs; `OnboardingSystem`, which composes the connection,
the list, the submission page and the review.

Of the model nothing large is left. Liveness of `OnboardingSystem` would
repeat `RunsEnd`; a larger instance needs more than a few minutes.

The proofs have followed in the same order, `OnboardingProofs` and
`OnboardingListProofs` after the others, and then the measures of a run and of a task, with which
`RunsEnd`, `OneFaultIsSurvived` and `TasksEnd` rest on fairness and enabledness alone.
What could still be proved is smaller, as the measure of a shutdown for `ShutdownEnds`. Theorems are in eight modules; what follows goes into those.
