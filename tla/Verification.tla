--------------------------- MODULE Verification ---------------------------
(***************************************************************************)
(* The data behind one decision: what an applicant declares, what the      *)
(* documents say, how the tools read, compare and score the two, and what  *)
(* the recommendation and the policy make of that (app/tools/validation.py,*)
(* extraction.py, comparison.py, risk.py, llm_analysis.py).                *)
(*                                                                         *)
(* WorkerEngine has every transition, write and fault of a run, and takes  *)
(* what the tools return as a choice.  This module is the other half: the  *)
(* tools compute what they return, and of the run it keeps what the data   *)
(* depends on: the order of the documents, the bounded attempts, and a     *)
(* crash after which a run is resumed with the evidence it had saved.      *)
(* A value stands for the text compare_information is left with, stripped  *)
(* and in upper case.                                                      *)
(***************************************************************************)
EXTENDS FieldExtraction, Policy, Sequences

CONSTANTS
  NumDocs,          (* how many documents the application declares         *)
  Values,           (* what a field can say                                *)
  Malformed,        (* those that are no PAN, GST number or email address  *)
  Applications,     (* what applicants declare                             *)
  Papers,           (* what the texts of documents say                     *)
  Answers,          (* the JSON objects a language model may extract       *)
  Ways,             (* how a document is declared: as a file, as text,     *)
                    (* as both                                             *)
  OcrConfidences,   (* what OCR can report, in percent                     *)
  MaxCrashes        (* bound on the crashes of one behaviour               *)

(* A value that is there and empty. *)
Blank == "blank"

Comparable == { "pan_number", "gst_number", "phone", "email", "address" }

Declared == Comparable \cup { "applicant_name", "business_name" }

(* What a reader returns for every field. *)
Reading == [ Field -> Values \cup { Absent, Blank } ]

ASSUME NumDocsAssumption == NumDocs \in Nat
ASSUME ValuesAssumption == Absent \notin Values /\ Blank \notin Values
ASSUME MalformedAssumption == Malformed \subseteq Values
ASSUME ApplicationsAssumption ==
  Applications \subseteq [ Declared -> Values \cup { Absent, Blank } ]
ASSUME WaysAssumption == Ways \subseteq SUBSET { "file", "text" }
ASSUME AnswersAssumption == Answers \subseteq Reading
ASSUME OcrAssumption == OcrConfidences \subseteq 0 .. 100
ASSUME CrashesAssumption == MaxCrashes \in Nat

(* The PAN is the middle of a GST number, and the pattern of the one finds *)
(* it in the other: a text with a GST number in it has a PAN in it.        *)
ASSUME PapersAssumption ==
  /\ Papers \subseteq Paper(Values)
  /\ \A p \in Papers :
       p.value["gst_number"] # Absent /\ "gst_number" \notin p.second =>
         p.value["pan_number"] # Absent /\ "pan_number" \notin p.second

VARIABLES
  application,   (* what the applicant declares                            *)
  papers,        (* what each declared document says                       *)
  given,         (* how each was declared                                  *)
  pc,            (* the step the run is at                                 *)
  doc,           (* the document _verify_documents is at                   *)
  attempt,       (* the attempt _extract_with_retry is at, from 0          *)
  retries,       (* retry_count                                            *)
  evidence,      (* extracted_data, in memory                              *)
  saved,         (* extracted_data, in the row                             *)
  differing,     (* the inconsistencies compare_information reported       *)
  risk,
  advisor,       (* who made the recommendation                            *)
  decision,
  crashes

case == << application, papers, given >>
run  == << doc, attempt, retries, evidence, saved >>
verdict == << differing, risk, advisor, decision >>
vars == << case, pc, run, verdict, crashes >>

Docs == 1 .. NumDocs

Readers == { "pipeline", "model", "basic", "none" }

Evidence == [ fields : Reading, confidence : 0 .. 100, reader : Readers ]

NoRisk == "no risk assessment"
NoDecision == "no decision"

TypeOK ==
  /\ application \in Applications
  /\ papers \in [ Docs -> Papers ]
  /\ given \in [ Docs -> Ways ]
  /\ pc \in { "validate", "read", "assess", "over" }
  /\ doc \in 1 .. NumDocs + 1
  /\ attempt \in 0 .. MaxToolRetries
  /\ retries \in Nat
  /\ evidence \in Seq(Evidence) /\ saved \in Seq(Evidence)
  /\ differing \subseteq Comparable
  /\ risk \in RiskLevel \cup { NoRisk }
  /\ advisor \in { "nobody", "model", "rules" }
  /\ decision \in FinalDecision \cup { NoDecision }
  /\ crashes \in 0 .. MaxCrashes

Init ==
  /\ application \in Applications
  /\ papers \in [ Docs -> Papers ]
  /\ given \in [ Docs -> Ways ]
  /\ pc = "validate"
  /\ doc = 1 /\ attempt = 0 /\ retries = 0
  /\ evidence = << >> /\ saved = << >>
  /\ differing = {} /\ risk = NoRisk /\ advisor = "nobody"
  /\ decision = NoDecision
  /\ crashes = 0
-----------------------------------------------------------------------------
(***************************************************************************)
(* validate_application                                                    *)
(***************************************************************************)
Required == { "applicant_name", "business_name", "pan_number", "phone" }

MissingFields(app) == { f \in Required : app[f] \in { Absent, Blank } }

InvalidFields(app) ==
  { f \in { "pan_number", "gst_number", "email" } : app[f] \in Malformed }

Validate ==
  /\ pc = "validate"
  /\ \/ /\ MissingFields(application) # {}
        /\ decision' = "REQUEST_MORE_INFORMATION" /\ pc' = "over"
     \/ /\ MissingFields(application) = {} /\ InvalidFields(application) # {}
        /\ decision' = "REJECT_OR_BLOCK" /\ pc' = "over"
     \/ /\ MissingFields(application) = {} /\ InvalidFields(application) = {}
        /\ pc' = "read" /\ UNCHANGED decision
  /\ UNCHANGED << case, run, differing, risk, advisor, crashes >>
-----------------------------------------------------------------------------
(***************************************************************************)
(* extract_document_data                                                   *)
(***************************************************************************)
Nothing(reader) ==
  [ fields |-> [ f \in Field |-> Absent ], confidence |-> 0, reader |-> reader ]

(* process_document_file: the file is read, or the result is "failed". *)
PipelineReadings(p) ==
  { Nothing("pipeline") } \cup
  { [ fields     |-> p.value,
      confidence |-> Overall(ocr, MeanConfidence(p), Cardinality(FieldsFound(p))),
      reader     |-> "pipeline" ] : ocr \in OcrConfidences }

(* _calculate_extraction_confidence: what is not null counts as filled. *)
Important == { "name", "pan_number", "address", "phone" }

Quarters(found) == 25 * Cardinality(found)

(* _llm_extract: an answer that is no JSON is an empty one. *)
ModelReadings ==
  { Nothing("model") } \cup
  { [ fields     |-> a,
      confidence |-> Quarters({ f \in Important : a[f] # Absent }),
      reader     |-> "model" ] : a \in Answers }

(* _basic_extract: the four patterns alone. *)
BasicReading(p) ==
  LET found == ({ "pan_number", "gst_number", "phone", "email" }
                  \cap FieldsFound(p)) \ p.second
  IN  [ fields     |-> [ f \in Field |-> IF f \in found THEN p.value[f] ELSE Absent ],
        confidence |-> Quarters(found),
        reader     |-> "basic" ]

(* Without text there is nothing to fall back to; a language model that    *)
(* cannot be reached, or answers no object, leaves the patterns.           *)
TextReadings(p, ways) ==
  IF "text" \notin ways THEN { Nothing("none") }
  ELSE ModelReadings \cup { BasicReading(p) }

(* The pipeline answers, also with a failure, or it raises and the text is *)
(* tried.                                                                  *)
Readings(p, ways) ==
  TextReadings(p, ways) \cup (IF "file" \in ways THEN PipelineReadings(p) ELSE {})

(* low_confidence_threshold *)
Trusted(e) == e.confidence >= 60

(* Mutant: one attempt more. *)
ReadDocumentOnceMore ==
  /\ pc = "read" /\ doc \in Docs /\ attempt <= MaxToolRetries
  /\ \E e \in Readings(papers[doc], given[doc]) :
       \/ /\ Trusted(e)
          /\ evidence' = Append(evidence, e)
          /\ doc' = doc + 1 /\ attempt' = 0
          /\ UNCHANGED << retries, saved >>
       \/ /\ ~Trusted(e)
          /\ retries' = retries + 1 /\ attempt' = attempt + 1
          /\ saved' = evidence
          /\ UNCHANGED << doc, evidence >>
  /\ UNCHANGED << case, pc, verdict, crashes >>

(* One attempt.  A reading that is not trusted is counted, and the row is  *)
(* saved by the two transitions of a retry; an attempt that raises counts  *)
(* as one.  A stored result of the pipeline is used like a fresh one.      *)
ReadDocument ==
  /\ pc = "read" /\ doc \in Docs /\ attempt < MaxToolRetries
  /\ \E e \in Readings(papers[doc], given[doc]) :
       \/ /\ Trusted(e)
          /\ evidence' = Append(evidence, e)
          /\ doc' = doc + 1 /\ attempt' = 0
          /\ UNCHANGED << retries, saved >>
       \/ /\ ~Trusted(e)
          /\ retries' = retries + 1 /\ attempt' = attempt + 1
          /\ saved' = evidence
          /\ UNCHANGED << doc, evidence >>
  /\ UNCHANGED << case, pc, verdict, crashes >>

GiveUpDocument ==
  /\ pc = "read" /\ doc \in Docs /\ attempt = MaxToolRetries
  /\ doc' = doc + 1 /\ attempt' = 0
  /\ UNCHANGED << case, pc, retries, evidence, saved, verdict, crashes >>

(* The process dies and the run is resumed: every document is read again,  *)
(* and what is read is added to the evidence that was saved.               *)
CrashAndResume ==
  /\ pc = "read" /\ crashes < MaxCrashes
  /\ crashes' = crashes + 1
  /\ doc' = 1 /\ attempt' = 0
  /\ evidence' = saved
  /\ UNCHANGED << case, pc, retries, saved, verdict >>
-----------------------------------------------------------------------------
(***************************************************************************)
(* compare_information                                                     *)
(***************************************************************************)
Sources(f, es) == { i \in DOMAIN es : es[i].fields[f] # Absent }

(* Mutant: a later document overwrites what an earlier one said. *)
LastDocumentValue(f, es) ==
  IF Sources(f, es) = {} THEN Absent
  ELSE es[CHOOSE i \in Sources(f, es) : \A j \in Sources(f, es) : j <= i].fields[f]

(* Mutant: only the first document is looked at. *)
FirstDocumentOnly(f, es) == IF es = << >> THEN Absent ELSE es[1].fields[f]

(* The value of the first document that has one. *)
DocumentValue(f, es) ==
  IF Sources(f, es) = {} THEN Absent
  ELSE es[CHOOSE i \in Sources(f, es) : \A j \in Sources(f, es) : i <= j].fields[f]

(* Mutant: what no document mentions is not held against the applicant. *)
DifferencesInDocuments(app, es) ==
  { f \in Comparable :
      DocumentValue(f, es) # Absent /\ app[f] # DocumentValue(f, es) }

(* Different, not found in a document, or missing from the application;    *)
(* without a document there is nothing to compare.                         *)
Differences(app, es) ==
  IF es = << >> THEN {}
  ELSE { f \in Comparable : app[f] # DocumentValue(f, es) }

(* All documents failed. *)
EscalateWithoutEvidence ==
  /\ pc = "read" /\ doc = NumDocs + 1 /\ evidence = << >> /\ NumDocs > 0
  /\ decision' = "ESCALATE_TO_HUMAN" /\ pc' = "over"
  /\ UNCHANGED << case, run, differing, risk, advisor, crashes >>

CompareInformation ==
  /\ pc = "read" /\ doc = NumDocs + 1 /\ (evidence # << >> \/ NumDocs = 0)
  /\ differing' = Differences(application, evidence)
  /\ saved' = evidence
  /\ IF retries >= MaxToolRetries /\ \E i \in DOMAIN evidence : ~Trusted(evidence[i])
     THEN decision' = "ESCALATE_TO_HUMAN" /\ pc' = "over"
     ELSE pc' = "assess" /\ UNCHANGED decision
  /\ UNCHANGED << case, doc, attempt, retries, evidence, risk, advisor, crashes >>
-----------------------------------------------------------------------------
(***************************************************************************)
(* assess_risk, get_ai_recommendation and _enforce_policy                  *)
(***************************************************************************)
Says(e, f) == e.fields[f] \notin { Absent, Blank }

FindingsNow ==
  [ mismatches |-> Cardinality(differing),
    weak       |-> Cardinality({ i \in DOMAIN evidence : evidence[i].confidence < 50 }),
    anyData    |-> evidence # << >>,
    identified |-> \E i \in DOMAIN evidence :
                      Says(evidence[i], "pan_number") \/ Says(evidence[i], "gst_number") ]

(* get_ai_recommendation.  An answer of the model that is no               *)
(* recommendation counts as an untrusted escalation; without a model, or   *)
(* after any other failure of it, the rules recommend.                     *)
Recommendations(level) ==
  [ by : { "model" }, rec : Recommendation ] \cup
  { [ by  |-> "rules",
      rec |-> RuleBasedRecommendation(FALSE, level, FindingsNow,
                \E i \in DOMAIN evidence : ~Trusted(evidence[i])) ] }

(* _analyze_and_decide *)
AnalyzeAndDecide ==
  /\ pc = "assess" /\ pc' = "over"
  /\ risk' = AssessRisk(FindingsNow)
  /\ \E r \in Recommendations(risk') :
       /\ advisor' = r.by
       /\ decision' = EnforcePolicy(r.rec, risk', evidence # << >>, FALSE, retries)
  /\ UNCHANGED << case, run, differing, crashes >>

Next ==
  \/ Validate \/ ReadDocument \/ GiveUpDocument \/ CrashAndResume
  \/ EscalateWithoutEvidence \/ CompareInformation
  \/ AnalyzeAndDecide

Spec == Init /\ [][Next]_vars
-----------------------------------------------------------------------------
(***************************************************************************)
(* What a decision rests on                                                *)
(***************************************************************************)
Stands(f) == \E d \in Docs : papers[d].value[f] = application[f]

(* Without a language model, an application is approved only if every      *)
(* detail it declares stands in one of its documents, the PAN, which it    *)
(* has to declare, among them; and no document it was compared with has a  *)
(* detail it leaves out (validation.py 24-56, comparison.py 26-113,        *)
(* llm_analysis.py 140-214, engine.py 381-425).                            *)
ApprovedOnWhatStandsThere ==
  decision = "APPROVE" /\ advisor = "rules"
    /\ (\A i \in DOMAIN evidence : evidence[i].reader # "model")
  => /\ application["pan_number"] \in Values /\ Stands("pan_number")
     /\ \A f \in Comparable :
          /\ application[f] # Absent => Stands(f)
          /\ application[f] = Absent =>
               \A i \in DOMAIN evidence : evidence[i].fields[f] = Absent

(* A risk is only low if every declared detail is what the documents say,  *)
(* and one of them says a PAN: silence is never cheaper than a difference  *)
(* (comparison.py 84-95, risk.py 27-72).                                   *)
LowRiskIsVerified ==
  risk = "LOW" =>
    /\ evidence # << >> /\ differing = {}
    /\ DocumentValue("pan_number", evidence) = application["pan_number"]

(* Whatever the model recommends: three details that differ are never      *)
(* approved, and an applicant is never blocked for fewer than two          *)
(* (risk.py 27-72, engine.py 381-425).                                     *)
ModelCannotOverrule ==
  pc = "over" /\ advisor = "model" =>
    /\ decision = "APPROVE" => Cardinality(differing) <= 2
    /\ decision = "REJECT_OR_BLOCK" => Cardinality(differing) >= 2

(* The documents that agree with each other can be declared in any order:  *)
(* the comparison is the same (comparison.py 49-58).                       *)
Agree(es) ==
  \A f \in Comparable : Cardinality({ es[i].fields[f] : i \in Sources(f, es) }) <= 1

Reorderings(es) ==
  { [ i \in DOMAIN es |-> es[p[i]] ] :
      p \in { q \in [ DOMAIN es -> DOMAIN es ] :
                \A i, j \in DOMAIN es : i # j => q[i] # q[j] } }

OrderIsIrrelevant ==
  pc = "assess" /\ Agree(evidence) =>
    \A es \in Reorderings(evidence) : Differences(application, es) = differing

(* What was read first stands: no later document, and no second reading of *)
(* the same one after a crash, changes the value a detail is compared with *)
(* (engine.py 142-159, comparison.py 49-58).                               *)
FirstReadingStands ==
  [][ \A f \in Comparable :
        DocumentValue(f, saved) # Absent =>
          DocumentValue(f, saved') = DocumentValue(f, saved) ]_vars
=============================================================================
