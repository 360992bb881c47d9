------------------------- MODULE OnboardingClaims -------------------------
(***************************************************************************)
(* What the repository's documents say of the uploads of a page and the    *)
(* code does not keep, with the one thing OnboardingSystem leaves out      *)
(* because nobody there looks at it: that an uploaded document was read.   *)
(***************************************************************************)
EXTENDS OnboardingSystem

VARIABLES
  processed,  (* the documents whose task has committed what it read, sure *)
              (* enough for the engine                                     *)
  informed    (* the applications whose run began with such a document of  *)
              (* theirs in the table                                       *)

claimVars == << vars, processed, informed >>

ProcessedOf(a) == { u \in processed : upload[u].app = a }

ClaimsInit == Init /\ processed = {} /\ informed = {}

(* The task of a document: its result, completed, and the COMMIT.          *)
ProcessDocument(u) ==
  /\ upload[u].at = "accepted" /\ u \in view.docs \ processed
  /\ Commit
  /\ processed' = processed \cup { u }
  /\ UNCHANGED << cast, origin, pc, found, answered, page, upload, walk,
                  review, informed >>

(* A run may wait for a slot, or be of a process that started again, so    *)
(* that the documents are there before it.                                 *)
BeginInformed(a) ==
  /\ Run(a) /\ ProcessedOf(a) # {}
  /\ informed' = informed \cup { a }
  /\ UNCHANGED processed

BeginUninformed ==
  /\ Next
  /\ \A a \in App : Run(a) => ProcessedOf(a) = {}
  /\ UNCHANGED << processed, informed >>

ClaimsNext ==
  \/ \E u \in Upload : ProcessDocument(u)
  \/ \E a \in App : BeginInformed(a)
  \/ BeginUninformed

ClaimsSpec == ClaimsInit /\ [][ClaimsNext]_claimVars

(* "It pre-processes documents so they are available when the application  *)
(* is submitted": a run that assesses an application while an uploaded     *)
(* document of it stands completed in the table has found something.  The  *)
(* run looks in the table for the documents the request declared, by the   *)
(* ids they were given then (onboarding.py 45-53), and an upload has an id *)
(* of its own, so it finds nothing (engine.py 133-160).                    *)
UploadsAreAvailable ==
  \A a \in informed : pc[a] = "assessed" => found[a].anyData
=============================================================================
