------------------------ MODULE OnboardingInvariants ------------------------
(***************************************************************************)
(* The inductive invariant behind the safety properties of                 *)
(* OnboardingSystem: how the two databases differ, what a row may say at   *)
(* each place of the task that writes it, and what those who look on can   *)
(* have seen of it.                                                        *)
(***************************************************************************)
EXTENDS OnboardingSystem

(* What the connection sees of an application, and what is on disk.        *)
Rows(a) == { view.row[a], disk.row[a] }

Settled(r) == r.state \in SettledState
Unassessed(r) == r.state \in { "none", "RECEIVED" }

(* The decision goes with the state, and the risk comes before it.         *)
GoodRow(r) ==
  /\ Unassessed(r) => r.risk = NoRisk /\ r.decision = NoDecision
  /\ ~Settled(r) => r.decision = NoDecision
  /\ r.decision = "ESCALATE_TO_HUMAN" => r.state \in { "ESCALATED", "ESCALATED_TO_HUMAN" }
  /\ r.state = "APPROVED" => r.risk \in RiskLevel \ { "CRITICAL" }

(* Until the risk is assessed there is at most the row of the submission.  *)
TaskOf(a) ==
  /\ pc[a] = "free" => origin[a] = "nobody" /\ found[a] = NothingFound
  /\ pc[a] \in { "free", "inserted", "written" } => answered[a] = "nothing"

RowOfTask(a, r) ==
  /\ GoodRow(r)
  /\ pc[a] = "free" => r = NoRow
  /\ pc[a] \in { "inserted", "written", "queued" } => Unassessed(r)

RowsInv ==
  \A a \in App : TaskOf(a) /\ \A r \in Rows(a) : RowOfTask(a, r)

(* The disk is never ahead of the view.                                    *)
AheadInv ==
  /\ \A a \in App : Progress(disk.row[a]) <= Progress(view.row[a])
  /\ disk.docs \subseteq view.docs
  /\ \A u \in view.docs : upload[u].at # "free"

(* What was answered is on disk, and what was written is to be seen,       *)
(* unless a rollback took it away.                                         *)
DurableInv ==
  "rollback" \notin faults =>
    /\ \A a \in App :
         /\ pc[a] = "inserted" => view.row[a] # NoRow
         /\ pc[a] = "written" \/ answered[a] = "accepted" => disk.row[a] # NoRow
    /\ \A u \in Upload :
         /\ upload[u].at = "inserted" => u \in view.docs
         /\ upload[u].at = "accepted" => u \in disk.docs
    /\ page.doc = "processed" =>
         \E u \in disk.docs : "anew" \in page.clicks \/ upload[u].app = page.app

(* What a form that was not begun with an upload still awaited shows and   *)
(* awaits: one answer at most, of its own application.                     *)
Awaited == { u \in Upload : upload[u].by # "nobody" }

OwnFormInv ==
  /\ \A u \in Awaited :
       upload[u].app = page.app /\ \A v \in Awaited : v = u
  /\ Awaited # {} =>
       /\ page.creating = Nobody /\ page.app # Nobody /\ page.flow # "form"
       /\ page.doc \in { "ready", "uploading" }
  /\ page.creating # Nobody => page.doc = IF page.carries THEN "ready" ELSE "none"
  /\ page.flow \in { "partial_failure", "success" } => page.app # Nobody
  /\ page.flow = "success" /\ page.clicks = {} => page.doc \in { "none", "processed" }

PageInv ==
  /\ page.app # Nobody => answered[page.app] = "accepted"
  /\ page.flow = "form" => page.creating = Nobody
  /\ "anew" \notin page.clicks => OwnFormInv

(* Every application of the page but the last one of a form is for a       *)
(* fault, and the last one too, once its form is there again.              *)
OfPage == { a \in App : origin[a] = "page" }

FormInv ==
  /\ Cardinality(OfPage) <= page.forms + Cardinality(faults)
  /\ \/ page.flow = "form"
     \/ page.creating # Nobody /\ answered[page.creating] = "error"
     => Cardinality(OfPage) < page.forms + Cardinality(faults)

(* A row is concluded only when its task is, and the two rows are of one   *)
(* conclusion and of one assessment: a crash leaves but one of them.       *)
ConclusionOf(a, r) ==
  /\ Settled(r) => pc[a] \in { "concluded", "over" }
  /\ pc[a] \in { "assessed", "deciding" } => r.risk \in { NoRisk, AssessRisk(found[a]) }

Agree(r, s) ==
  /\ Settled(r) /\ Settled(s) => r = s
  /\ r.risk # NoRisk /\ s.risk # NoRisk => r.risk = s.risk

ConclusionInv ==
  \A a \in App : \A r, s \in Rows(a) : ConclusionOf(a, r) /\ Agree(r, s)

(* What the review was told first is on disk once it was recorded, and     *)
(* until then to be seen.                                                  *)
AnswerInv ==
  /\ review.call = 0 => ~review.asked /\ ~review.recorded
  /\ review.call > 0 => review.of \in App
  /\ "rollback" \notin faults /\ review.call > 0 =>
       IF review.recorded
       THEN Progress(review.first) <= Progress(disk.row[review.of])
       ELSE review.call < 5 \/ review.asked =>
              Progress(review.first) <= Progress(view.row[review.of])

(* Without a crash, the conclusion and the risk it was told are the ones.  *)
ToldConclusion(a, first) ==
  Settled(first) =>
    /\ pc[a] \in { "concluded", "over" }
    /\ \A r \in Rows(a) : Settled(r) => r = first

ToldRisk(a, risk) ==
  risk # NoRisk =>
    /\ pc[a] \in { "assessed", "deciding", "concluded", "over" }
    /\ \A r \in Rows(a) : r.risk \in { NoRisk, risk }
    /\ pc[a] \in { "assessed", "deciding" } => AssessRisk(found[a]) = risk

ReviewInv ==
  "crash" \notin faults /\ review.call > 0 =>
    /\ GoodRow(review.first) /\ ToldConclusion(review.of, review.first)
    /\ review.call > 2 => ToldRisk(review.of, review.risk)

IInv ==
  /\ TypeOK /\ RowsInv /\ AheadInv /\ DurableInv /\ PageInv /\ FormInv
  /\ ConclusionInv /\ AnswerInv /\ ReviewInv

(* Whatever fails, an application on disk never goes back, and what is     *)
(* concluded there is final.                                               *)
CommittedGoesOn ==
  [][ \A a \in App :
        disk'.row[a] # disk.row[a] =>
          /\ ~Settled(disk.row[a])
          /\ Progress(disk.row[a]) <= Progress(disk'.row[a]) ]_disk
-----------------------------------------------------------------------------
(* How many applications of the list there are before one.                 *)
Newer(a) == { b \in Stored(view) : b > a }

(* Who turns the pages has seen what was there at first in the order of    *)
(* the list, and what is still to be seen has not been passed: rows only   *)
(* move towards the end.                                                   *)
Missed == walk.there \ walk.seen

WalkInv ==
  /\ walk.at = "off" => walk.seen = {} /\ walk.offset = 0
  /\ faults \cap { "rollback", "crash" } = {} /\ walk.at # "off" =>
       /\ walk.there \subseteq Stored(view)
       /\ \A m \in Missed, a \in walk.there \ Missed : m < a
       /\ walk.at # "end" => \A m \in Missed : walk.offset <= Cardinality(Newer(m))
       /\ walk.at = "page" => Cardinality(walk.there) <= walk.total
       /\ walk.at = "end" =>
            Cardinality(Missed) <= Cardinality(Stored(view) \ walk.there)
=============================================================================
