------------------------- MODULE VerificationProofs -------------------------
(***************************************************************************)
(* What a decision rests on holds for any number of documents, attempts    *)
(* and crashes, any values and papers, and any answers of a model.         *)
(*                                                                         *)
(* The argument: every piece of evidence is a trusted reading of a         *)
(* declared document, what is saved begins what is known, and the verdict  *)
(* is that of the tools on the evidence.  A detail that does not differ is *)
(* then either in a document or nowhere.                                   *)
(***************************************************************************)
EXTENDS Verification, FiniteSetTheorems, FunctionTheorems,
        WellFoundedInduction, SequenceTheorems, TLAPS

(* Whatever is read and kept. *)
TrustedReadings ==
  { e \in UNION { Readings(papers[d], given[d]) : d \in Docs } : Trusted(e) }

CaseInv ==
  /\ application \in Applications
  /\ papers \in [ Docs -> Papers ]
  /\ given \in [ Docs -> Ways ]

EvidenceInv ==
  /\ evidence \in Seq(TrustedReadings) /\ saved \in Seq(TrustedReadings)
  /\ doc \in 1 .. NumDocs + 1
  /\ retries \in Nat

(* What is saved begins what is known. *)
SavedInv ==
  /\ Len(saved) <= Len(evidence)
  /\ \A i \in 1 .. Len(saved) : saved[i] = evidence[i]

(* Past validation there is a PAN. *)
ValidInv ==
  pc # "validate" /\ (pc = "over" => advisor # "nobody") =>
    application["pan_number"] \in Values

(* The verdict is that of the tools on this evidence. *)
VerdictInv ==
  /\ pc \in { "validate", "read", "assess", "over" }
  /\ pc \in { "validate", "read" } => differing = {}
  /\ pc = "assess" => differing = Differences(application, evidence)
  /\ pc # "over" =>
       risk = NoRisk /\ advisor = "nobody" /\ decision = NoDecision
  /\ risk = NoRisk <=> advisor = "nobody"
  /\ advisor # "nobody" =>
       /\ differing = Differences(application, evidence)
       /\ risk = AssessRisk(FindingsNow)
       /\ \E r \in Recommendations(risk) :
            /\ advisor = r.by
            /\ decision = EnforcePolicy(r.rec, risk, evidence # << >>, FALSE, retries)

IInv == CaseInv /\ EvidenceInv /\ SavedInv /\ ValidInv /\ VerdictInv
-----------------------------------------------------------------------------
(* A field that some document has, has a first document.                   *)
LEMMA FirstSource ==
  ASSUME NEW es, NEW f, DOMAIN es \subseteq Nat, Sources(f, es) # {}
  PROVE  \E i \in Sources(f, es) : \A j \in Sources(f, es) : i <= j
<1>1. IsWellFoundedOn(OpToRel(<, Nat), Nat)
  BY NatLessThanWellFounded
<1>2. Sources(f, es) \subseteq Nat
  BY DEF Sources
<1>3. PICK i \in Sources(f, es) :
        \A j \in Sources(f, es) : ~(<< j, i >> \in OpToRel(<, Nat))
  BY <1>1, <1>2, WFMin
<1>4. \A j \in Sources(f, es) : ~(j < i)
  BY <1>2, <1>3 DEF OpToRel
<1>. QED  BY <1>2, <1>4

(* The value of a field is that of its first document.                     *)
LEMMA ValueOfFirst ==
  ASSUME NEW es, NEW f, DOMAIN es \subseteq Nat,
         NEW i \in Sources(f, es), \A j \in Sources(f, es) : i <= j
  PROVE  DocumentValue(f, es) = es[i].fields[f]
<1>. DEFINE First(k) == \A j \in Sources(f, es) : k <= j
            k0 == CHOOSE k \in Sources(f, es) : First(k)
<1>1. Sources(f, es) \subseteq Nat
  BY DEF Sources
<1>2. k0 \in Sources(f, es) /\ First(k0)
  OBVIOUS
<1>3. k0 = i
  BY <1>1, <1>2
<1>. QED  BY <1>3 DEF DocumentValue

(* Every value comes from a document that has it, and a field without one  *)
(* is in none.                                                             *)
LEMMA ValueSource ==
  ASSUME NEW es, NEW f, DOMAIN es \subseteq Nat
  PROVE  /\ Sources(f, es) = {} => DocumentValue(f, es) = Absent
         /\ Sources(f, es) # {} =>
              \E i \in Sources(f, es) :
                /\ DocumentValue(f, es) = es[i].fields[f]
                /\ \A j \in Sources(f, es) : i <= j
<1>1. ASSUME Sources(f, es) = {}
      PROVE  DocumentValue(f, es) = Absent
  BY <1>1 DEF DocumentValue
<1>2. ASSUME Sources(f, es) # {}
      PROVE  \E i \in Sources(f, es) :
               /\ DocumentValue(f, es) = es[i].fields[f]
               /\ \A j \in Sources(f, es) : i <= j
  BY <1>2, FirstSource, ValueOfFirst
<1>. QED  BY <1>1, <1>2

(* A field has no value if and only if no document has one.                *)
LEMMA AbsentNowhere ==
  ASSUME NEW es, NEW f, DOMAIN es \subseteq Nat
  PROVE  DocumentValue(f, es) = Absent <=>
           \A i \in DOMAIN es : es[i].fields[f] = Absent
BY ValueSource DEF Sources

(* What comes later does not change the value of a field.                  *)
LEMMA LongerEvidence ==
  ASSUME NEW S, NEW s \in Seq(S), NEW t \in Seq(S), NEW f,
         Len(s) <= Len(t), \A i \in 1 .. Len(s) : s[i] = t[i],
         DocumentValue(f, s) # Absent
  PROVE  DocumentValue(f, t) = DocumentValue(f, s)
<1>1. DOMAIN s = 1 .. Len(s) /\ DOMAIN t = 1 .. Len(t)
      /\ Len(s) \in Nat /\ Len(t) \in Nat
  OBVIOUS
<1>2. PICK i \in Sources(f, s) :
        /\ DocumentValue(f, s) = s[i].fields[f]
        /\ \A j \in Sources(f, s) : i <= j
  BY <1>1, ValueSource
<1>3. i \in Sources(f, t)
  BY <1>1, <1>2 DEF Sources
<1>4. \A j \in Sources(f, t) : i <= j
  <2>. SUFFICES ASSUME NEW j \in Sources(f, t), j < i  PROVE FALSE
    BY <1>1 DEF Sources
  <2>1. j \in Sources(f, s)
    BY <1>1 DEF Sources
  <2>. QED  BY <1>1, <1>2, <2>1 DEF Sources
<1>5. DocumentValue(f, t) = t[i].fields[f]
  BY <1>1, <1>3, <1>4, ValueOfFirst
<1>. QED  BY <1>1, <1>2, <1>5 DEF Sources
-----------------------------------------------------------------------------
(* A mean of percentages is one.                                           *)
LEMMA MeanRange ==
  ASSUME NEW sum \in Nat, NEW count \in Nat \ { 0 }, sum <= 95 * count
  PROVE  sum \div count \in 0 .. 95
<1>. DEFINE mean == sum \div count
<1>1. mean \in Nat /\ count * mean <= sum
  OBVIOUS
<1>. HIDE DEF mean
<1>2. ASSUME mean > 95  PROVE FALSE
  <2>1. count * mean >= count * 96
    BY <1>1, <1>2
  <2>. QED  BY <1>1, <2>1
<1>3. mean \in 0 .. 95
  BY <1>1, <1>2
<1>. QED  BY <1>3 DEF mean

(* There are finitely many fields.                                         *)
LEMMA FieldsFinite == IsFiniteSet(Field)
<1>. DEFINE A == { "pan_number" } \cup { "gst_number" } \cup { "phone" } \cup { "email" }
            B == A \cup { "date_of_birth" } \cup { "name" } \cup { "address" }
                   \cup { "registration_number" }
<1>1. IsFiniteSet({ "pan_number" })
  BY FS_Singleton
<1>2. IsFiniteSet({ "pan_number" } \cup { "gst_number" })
  BY <1>1, FS_AddElement
<1>3. IsFiniteSet({ "pan_number" } \cup { "gst_number" } \cup { "phone" })
  BY <1>2, FS_AddElement
<1>4. IsFiniteSet(A)
  BY <1>3, FS_AddElement
<1>5. Field = B
  BY DEF Field
<1>. HIDE DEF A
<1>6. IsFiniteSet(A \cup { "date_of_birth" })
  BY <1>4, FS_AddElement
<1>7. IsFiniteSet(A \cup { "date_of_birth" } \cup { "name" })
  BY <1>6, FS_AddElement
<1>8. IsFiniteSet(A \cup { "date_of_birth" } \cup { "name" } \cup { "address" })
  BY <1>7, FS_AddElement
<1>9. IsFiniteSet(B)
  BY <1>8, FS_AddElement
<1>. QED  BY <1>5, <1>9

(* The elements of two sets without a common one.                          *)
LEMMA CountTwo ==
  ASSUME NEW S, NEW T, IsFiniteSet(S), IsFiniteSet(T), S \cap T = {}
  PROVE  /\ IsFiniteSet(S \cup T)
         /\ Cardinality(S \cup T) = Cardinality(S) + Cardinality(T)
<1>1. Cardinality(S) \in Nat /\ Cardinality(T) \in Nat
  BY FS_CardinalityType
<1>2. Cardinality(S \cap T) = 0
  BY FS_EmptySet
<1>3. /\ IsFiniteSet(S \cup T)
      /\ Cardinality(S \cup T) = Cardinality(S) + Cardinality(T) - Cardinality(S \cap T)
  BY FS_Union
<1>. QED  BY <1>1, <1>2, <1>3

(* The elements of six sets without a common one.                          *)
LEMMA CountSix ==
  ASSUME NEW A, NEW B, NEW C, NEW D, NEW E, NEW F,
         IsFiniteSet(A), IsFiniteSet(B), IsFiniteSet(C), IsFiniteSet(D),
         IsFiniteSet(E), IsFiniteSet(F),
         B \cap A = {}, C \cap (A \cup B) = {}, D \cap (A \cup B \cup C) = {},
         E \cap (A \cup B \cup C \cup D) = {},
         F \cap (A \cup B \cup C \cup D \cup E) = {}
  PROVE  Cardinality(A \cup B \cup C \cup D \cup E \cup F)
           = Cardinality(A) + Cardinality(B) + Cardinality(C) + Cardinality(D)
               + Cardinality(E) + Cardinality(F)
<1>1. /\ IsFiniteSet(A \cup B)
      /\ Cardinality(A \cup B) = Cardinality(A) + Cardinality(B)
  BY CountTwo
<1>2. /\ IsFiniteSet(A \cup B \cup C)
      /\ Cardinality(A \cup B \cup C) = Cardinality(A \cup B) + Cardinality(C)
  BY <1>1, CountTwo
<1>3. /\ IsFiniteSet(A \cup B \cup C \cup D)
      /\ Cardinality(A \cup B \cup C \cup D)
           = Cardinality(A \cup B \cup C) + Cardinality(D)
  BY <1>2, CountTwo
<1>4. /\ IsFiniteSet(A \cup B \cup C \cup D \cup E)
      /\ Cardinality(A \cup B \cup C \cup D \cup E)
           = Cardinality(A \cup B \cup C \cup D) + Cardinality(E)
  BY <1>3, CountTwo
<1>5. Cardinality(A \cup B \cup C \cup D \cup E \cup F)
        = Cardinality(A \cup B \cup C \cup D \cup E) + Cardinality(F)
  BY <1>4, CountTwo
<1>. QED  BY <1>1, <1>2, <1>3, <1>4, <1>5

(* How sure the pipeline is of a paper is at most 95 percent.              *)
LEMMA MeanType ==
  ASSUME NEW p \in Paper(Values)
  PROVE  MeanConfidence(p) \in 0 .. 95
<1>. DEFINE found == FieldsFound(p)
            Sure(c) == { f \in found : FieldConfidence(p, f) = c }
            n(c) == Cardinality(Sure(c))
            sum == 95 * n(95) + 90 * n(90) + 85 * n(85) + 80 * n(80)
                     + 70 * n(70) + 60 * n(60)
<1>1. \A f \in Field : FieldConfidence(p, f) \in { 95, 90, 85, 80, 70, 60 }
  BY DEF FieldConfidence, FirstConfidence, SecondConfidence, Field, Paper
<1>2. found \subseteq Field /\ IsFiniteSet(found)
  BY FieldsFinite, FS_Subset DEF FieldsFound
<1>3. \A c : IsFiniteSet(Sure(c)) /\ n(c) \in Nat
  <2>. TAKE c
  <2>1. IsFiniteSet(Sure(c))
    BY <1>2, FS_Subset
  <2>. QED  BY <2>1, FS_CardinalityType
<1>4. found = Sure(95) \cup Sure(90) \cup Sure(85) \cup Sure(80) \cup Sure(70)
                \cup Sure(60)
  BY <1>1, <1>2
<1>5. \A c, d : c # d => Sure(c) \cap Sure(d) = {}
  OBVIOUS
<1>. HIDE DEF found, Sure
<1>6. Cardinality(found) = n(95) + n(90) + n(85) + n(80) + n(70) + n(60)
  <2>1. /\ Sure(90) \cap Sure(95) = {}
        /\ Sure(85) \cap (Sure(95) \cup Sure(90)) = {}
        /\ Sure(80) \cap (Sure(95) \cup Sure(90) \cup Sure(85)) = {}
        /\ Sure(70) \cap (Sure(95) \cup Sure(90) \cup Sure(85) \cup Sure(80)) = {}
        /\ Sure(60) \cap (Sure(95) \cup Sure(90) \cup Sure(85) \cup Sure(80)
                            \cup Sure(70)) = {}
    BY <1>5
  <2>. QED  BY <1>3, <1>4, <2>1, CountSix
<1>7. Cardinality(found) \in Nat /\ (found # {} => Cardinality(found) # 0)
  BY <1>2, FS_CardinalityType, FS_EmptySet
<1>8. sum \in Nat /\ sum <= 95 * Cardinality(found)
  <2>. HIDE DEF n
  <2>. QED  BY <1>3, <1>6
<1>9. found # {} => sum \div Cardinality(found) \in 0 .. 95
  <2>. HIDE DEF sum
  <2>. QED  BY <1>7, <1>8, MeanRange
<1>. QED  BY <1>9 DEF MeanConfidence, found, Sure

(* The overall confidence is a percentage.                                 *)
LEMMA OverallType ==
  ASSUME NEW ocr \in 0 .. 100, NEW field \in 0 .. 95, NEW found \in Nat
  PROVE  Overall(ocr, field, found) \in 0 .. 100
BY DEF Overall

(* One more element counts at most one.                                    *)
LEMMA OneMore ==
  ASSUME NEW S, NEW x, NEW n \in Nat, IsFiniteSet(S), Cardinality(S) <= n
  PROVE  IsFiniteSet(S \cup { x }) /\ Cardinality(S \cup { x }) <= n + 1
<1>1. Cardinality(S) \in Nat
  BY FS_CardinalityType
<1>. QED  BY <1>1, FS_AddElement

(* A set has no more than the four elements it is taken from.              *)
LEMMA FourAtMost ==
  ASSUME NEW a, NEW b, NEW c, NEW d, NEW S \in SUBSET { a, b, c, d }
  PROVE  25 * Cardinality(S) \in 0 .. 100
<1>1. IsFiniteSet({ a }) /\ Cardinality({ a }) <= 1
  BY FS_Singleton
<1>2. IsFiniteSet({ a } \cup { b }) /\ Cardinality({ a } \cup { b }) <= 1 + 1
  BY <1>1, OneMore
<1>3. /\ IsFiniteSet({ a } \cup { b } \cup { c })
      /\ Cardinality({ a } \cup { b } \cup { c }) <= 2 + 1
  <2>1. Cardinality({ a } \cup { b }) <= 2
    BY <1>2
  <2>. QED  BY <1>2, <2>1, OneMore
<1>4. /\ IsFiniteSet({ a } \cup { b } \cup { c } \cup { d })
      /\ Cardinality({ a } \cup { b } \cup { c } \cup { d }) <= 3 + 1
  <2>1. Cardinality({ a } \cup { b } \cup { c }) <= 3
    BY <1>3
  <2>. QED  BY <1>3, <2>1, OneMore
<1>5. { a, b, c, d } = { a } \cup { b } \cup { c } \cup { d }
  OBVIOUS
<1>6. IsFiniteSet(S) /\ Cardinality(S) <= Cardinality({ a, b, c, d })
  BY <1>4, <1>5, FS_Subset
<1>7. Cardinality(S) \in Nat /\ Cardinality({ a, b, c, d }) \in Nat
  BY <1>4, <1>5, <1>6, FS_CardinalityType
<1>. QED  BY <1>4, <1>5, <1>6, <1>7

(* Every reading has the type of a piece of evidence.                      *)
LEMMA ReadingType ==
  ASSUME NEW p \in Papers, NEW ways \in Ways, NEW e \in Readings(p, ways)
  PROVE  e \in Evidence
<1>1. p \in Paper(Values)
  BY PapersAssumption
<1>2. \A r \in Readers : Nothing(r) \in Evidence
  BY DEF Nothing, Evidence, Reading
<1>3. p.value \in Reading /\ Cardinality(FieldsFound(p)) \in Nat
  <2>1. IsFiniteSet(FieldsFound(p))
    BY FieldsFinite, FS_Subset DEF FieldsFound
  <2>. QED  BY <1>1, <2>1, FS_CardinalityType DEF Paper, Reading
<1>4. PipelineReadings(p) \subseteq Evidence
  <2>. SUFFICES ASSUME NEW ocr \in OcrConfidences
                PROVE  [ fields |-> p.value,
                         confidence |-> Overall(ocr, MeanConfidence(p),
                                                Cardinality(FieldsFound(p))),
                         reader |-> "pipeline" ] \in Evidence
    BY <1>2 DEF PipelineReadings, Readers
  <2>1. Overall(ocr, MeanConfidence(p), Cardinality(FieldsFound(p))) \in 0 .. 100
    BY <1>1, <1>3, MeanType, OverallType, OcrAssumption
  <2>. QED  BY <1>3, <2>1 DEF Evidence, Readers
<1>5. \A S \in SUBSET { "pan_number", "gst_number", "phone", "email" } :
        Quarters(S) \in 0 .. 100
  BY FourAtMost DEF Quarters
<1>6. \A S \in SUBSET Important : Quarters(S) \in 0 .. 100
  BY FourAtMost DEF Quarters, Important
<1>7. ModelReadings \subseteq Evidence
  <2>. SUFFICES ASSUME NEW a \in Answers
                PROVE  [ fields |-> a,
                         confidence |-> Quarters({ f \in Important : a[f] # Absent }),
                         reader |-> "model" ] \in Evidence
    BY <1>2 DEF ModelReadings, Readers
  <2>. QED  BY <1>6, AnswersAssumption DEF Evidence, Readers
<1>8. BasicReading(p) \in Evidence
  <2>. DEFINE found == ({ "pan_number", "gst_number", "phone", "email" }
                          \cap FieldsFound(p)) \ p.second
              fields == [ f \in Field |-> IF f \in found THEN p.value[f] ELSE Absent ]
  <2>1. Quarters(found) \in 0 .. 100
    BY <1>5
  <2>2. fields \in Reading
    BY <1>3 DEF Reading
  <2>. HIDE DEF found, fields
  <2>3. [ fields |-> fields, confidence |-> Quarters(found), reader |-> "basic" ]
          \in Evidence
    BY <2>1, <2>2 DEF Evidence, Readers
  <2>. QED  BY <2>3 DEF BasicReading, found, fields
<1>. QED  BY <1>2, <1>4, <1>7, <1>8 DEF Readings, TextReadings, Readers
-----------------------------------------------------------------------------
(* A run starts without evidence and without a verdict.                    *)
LEMMA InitInv == Init => IInv
<1>. SUFFICES ASSUME Init  PROVE IInv
  OBVIOUS
<1>1. CaseInv
  BY DEF Init, CaseInv
<1>2. EvidenceInv
  BY NumDocsAssumption DEF Init, EvidenceInv
<1>3. SavedInv
  BY DEF Init, SavedInv
<1>4. ValidInv
  BY DEF Init, ValidInv
<1>5. VerdictInv
  BY DEF Init, VerdictInv
<1>. QED  BY <1>1, <1>2, <1>3, <1>4, <1>5 DEF IInv

(* No step changes the case, nor what could be read of its documents.      *)
LEMMA CaseStays ==
  ASSUME CaseInv, [Next]_vars
  PROVE  /\ CaseInv' /\ UNCHANGED case
         /\ TrustedReadings' = TrustedReadings
<1>1. UNCHANGED case
  BY DEF Next, Validate, ReadDocument, GiveUpDocument, CrashAndResume,
         EscalateWithoutEvidence, CompareInformation, AnalyzeAndDecide, vars
<1>. QED  BY <1>1 DEF CaseInv, case, TrustedReadings

(* A step keeps what is read trusted, and saved what begins what is known. *)
LEMMA EvidenceStep ==
  ASSUME IInv, [Next]_vars
  PROVE  EvidenceInv' /\ SavedInv'
<1>. USE NumDocsAssumption DEF IInv, EvidenceInv, SavedInv
<1>1. TrustedReadings' = TrustedReadings
  BY CaseStays
<1>2. CASE ReadDocument
  <2>1. PICK e \in Readings(papers[doc], given[doc]) :
          \/ /\ Trusted(e)
             /\ evidence' = Append(evidence, e)
             /\ doc' = doc + 1 /\ attempt' = 0
             /\ UNCHANGED << retries, saved >>
          \/ /\ ~Trusted(e)
             /\ retries' = retries + 1 /\ attempt' = attempt + 1
             /\ saved' = evidence
             /\ UNCHANGED << doc, evidence >>
    BY <1>2 DEF ReadDocument
  <2>2. doc \in Docs
    BY <1>2 DEF ReadDocument
  <2>3. ASSUME Trusted(e)
        PROVE  /\ e \in TrustedReadings
               /\ Append(evidence, e) \in Seq(TrustedReadings)
               /\ Len(Append(evidence, e)) = Len(evidence) + 1
               /\ \A i \in 1 .. Len(evidence) : Append(evidence, e)[i] = evidence[i]
    <3>1. e \in TrustedReadings
      BY <2>2, <2>3 DEF TrustedReadings
    <3>. QED  BY <3>1, AppendProperties
  <2>4. EvidenceInv'
    <3>1. evidence' \in Seq(TrustedReadings) /\ saved' \in Seq(TrustedReadings)
      BY <2>1, <2>3
    <3>2. doc' \in 1 .. NumDocs + 1
      BY <2>1, <2>2 DEF Docs
    <3>3. retries' \in Nat
      BY <2>1
    <3>. QED  BY <1>1, <3>1, <3>2, <3>3
  <2>5. SavedInv'
    <3>1. CASE Trusted(e)
      <4>1. evidence' = Append(evidence, e) /\ saved' = saved
        BY <2>1, <3>1
      <4>2. Len(evidence') = Len(evidence) + 1
            /\ \A i \in 1 .. Len(evidence) : evidence'[i] = evidence[i]
        BY <2>3, <3>1, <4>1
      <4>3. Len(saved) \in Nat /\ Len(evidence) \in Nat
        OBVIOUS
      <4>. QED  BY <4>1, <4>2, <4>3
    <3>2. CASE ~Trusted(e)
      <4>1. evidence' = evidence /\ saved' = evidence
        BY <2>1, <3>2
      <4>2. Len(evidence) \in Nat
        OBVIOUS
      <4>. QED  BY <4>1, <4>2
    <3>. QED  BY <3>1, <3>2
  <2>. QED  BY <2>4, <2>5
<1>3. CASE GiveUpDocument
  BY <1>1, <1>3 DEF GiveUpDocument, Docs
<1>4. CASE CrashAndResume
  BY <1>1, <1>4 DEF CrashAndResume
<1>5. CASE CompareInformation
  BY <1>1, <1>5 DEF CompareInformation
<1>6. CASE Validate \/ EscalateWithoutEvidence \/ AnalyzeAndDecide
           \/ UNCHANGED vars
  <2>1. UNCHANGED run
    BY <1>6 DEF Validate, EscalateWithoutEvidence, AnalyzeAndDecide, vars
  <2>. QED  BY <1>1, <2>1 DEF run
<1>. QED  BY <1>2, <1>3, <1>4, <1>5, <1>6 DEF Next

(* No step gets past validation without a PAN.                             *)
LEMMA ValidStep ==
  ASSUME IInv, [Next]_vars
  PROVE  ValidInv'
<1>. USE DEF IInv, ValidInv, VerdictInv
<1>1. UNCHANGED application
  BY CaseStays DEF case
<1>2. CASE Validate
  <2>1. ASSUME MissingFields(application) = {}
        PROVE  application["pan_number"] \in Values
    <3>1. application["pan_number"] \notin { Absent, Blank }
      BY <2>1 DEF MissingFields, Required
    <3>2. application["pan_number"] \in Values \cup { Absent, Blank }
      BY ApplicationsAssumption DEF CaseInv, Declared, Comparable
    <3>. QED  BY <3>1, <3>2
  <2>2. pc' = "over" => advisor' = "nobody"
    BY <1>2 DEF Validate
  <2>3. MissingFields(application) = {} \/ pc' = "over"
    BY <1>2 DEF Validate
  <2>. QED  BY <1>1, <2>1, <2>2, <2>3
<1>3. CASE ReadDocument \/ GiveUpDocument \/ CrashAndResume
  BY <1>1, <1>3 DEF ReadDocument, GiveUpDocument, CrashAndResume, verdict
<1>4. CASE EscalateWithoutEvidence
  BY <1>1, <1>4 DEF EscalateWithoutEvidence
<1>5. CASE CompareInformation
  BY <1>1, <1>5 DEF CompareInformation
<1>6. CASE AnalyzeAndDecide
  BY <1>1, <1>6 DEF AnalyzeAndDecide
<1>7. CASE UNCHANGED vars
  BY <1>1, <1>7 DEF vars, verdict
<1>. QED  BY <1>2, <1>3, <1>4, <1>5, <1>6, <1>7 DEF Next

(* Somebody makes every recommendation.                                    *)
LEMMA SomebodyRecommends ==
  ASSUME NEW l, NEW r \in Recommendations(l)
  PROVE  r.by \in { "model", "rules" }
<1>. DEFINE x == RuleBasedRecommendation(FALSE, l, FindingsNow,
                   \E i \in DOMAIN evidence : ~Trusted(evidence[i]))
<1>1. r \in [ by : { "model" }, rec : Recommendation ]
      \/ r = [ by |-> "rules", rec |-> x ]
  BY DEF Recommendations
<1>. HIDE DEF x
<1>. QED  BY <1>1

(* The tools see the evidence, the case and what differs, nothing else.    *)
LEMMA FindingsStay ==
  ASSUME UNCHANGED << evidence, differing >>
  PROVE  FindingsNow' = FindingsNow
         /\ \A l \in RiskLevel : Recommendations(l)' = Recommendations(l)
<1>1. FindingsNow' = FindingsNow
  BY DEF FindingsNow, Says
<1>. QED  BY <1>1 DEF Recommendations, Trusted

(* A step keeps the verdict that of the tools on the evidence.             *)
LEMMA VerdictStep ==
  ASSUME IInv, [Next]_vars
  PROVE  VerdictInv'
<1>. USE DEF IInv, VerdictInv
<1>1. UNCHANGED application
  BY CaseStays DEF case
<1>2. CASE Validate
  BY <1>2 DEF Validate, run
<1>3. CASE ReadDocument \/ GiveUpDocument \/ CrashAndResume
  BY <1>3 DEF ReadDocument, GiveUpDocument, CrashAndResume, verdict
<1>4. CASE EscalateWithoutEvidence
  BY <1>4 DEF EscalateWithoutEvidence, run
<1>5. CASE CompareInformation
  BY <1>1, <1>5 DEF CompareInformation
<1>6. CASE AnalyzeAndDecide
  <2>1. UNCHANGED << evidence, differing, retries >>
    BY <1>6 DEF AnalyzeAndDecide, run
  <2>2. risk' = AssessRisk(FindingsNow) /\ risk' \in RiskLevel
    BY <1>6 DEF AnalyzeAndDecide, AssessRisk, RiskLevel
  <2>3. PICK r \in Recommendations(risk') :
          /\ advisor' = r.by
          /\ decision' = EnforcePolicy(r.rec, risk', evidence # << >>, FALSE, retries)
    BY <1>6 DEF AnalyzeAndDecide
  <2>4. FindingsNow' = FindingsNow /\ r \in Recommendations(risk)'
    BY <2>1, <2>2, <2>3, FindingsStay
  <2>5. r.by # "nobody"
    BY <2>3, SomebodyRecommends
  <2>6. pc = "assess" /\ pc' = "over"
    BY <1>6 DEF AnalyzeAndDecide
  <2>. QED  BY <1>1, <2>1, <2>2, <2>3, <2>4, <2>5, <2>6 DEF NoRisk, RiskLevel
<1>7. CASE UNCHANGED vars
  <2>1. UNCHANGED << pc, evidence, retries, differing, risk, advisor, decision >>
    BY <1>7 DEF vars, run, verdict
  <2>2. FindingsNow' = FindingsNow
    BY <2>1, FindingsStay
  <2>3. advisor # "nobody" => Recommendations(risk)' = Recommendations(risk)
    BY <2>1, <2>2 DEF Recommendations, Trusted
  <2>. QED  BY <1>1, <2>1, <2>2, <2>3
<1>. QED  BY <1>2, <1>3, <1>4, <1>5, <1>6, <1>7 DEF Next

(* The inductive invariant holds throughout.                               *)
THEOREM Invariance == Spec => []IInv
<1>1. Init => IInv
  BY InitInv
<1>2. IInv /\ [Next]_vars => IInv'
  BY CaseStays, EvidenceStep, ValidStep, VerdictStep DEF IInv
<1>. QED  BY <1>1, <1>2, PTL DEF Spec
-----------------------------------------------------------------------------
(* FirstReadingStands: a step saves what was saved, or what is known.      *)
THEOREM FirstReadingCounts == Spec => FirstReadingStands
<1>. DEFINE Stays ==
       \A f \in Comparable :
         DocumentValue(f, saved) # Absent =>
           DocumentValue(f, saved') = DocumentValue(f, saved)
<1>1. ASSUME IInv, [Next]_vars
      PROVE  Stays
  <2>1. saved' = saved \/ saved' = evidence
    BY <1>1 DEF Next, Validate, ReadDocument, GiveUpDocument, CrashAndResume,
           EscalateWithoutEvidence, CompareInformation, AnalyzeAndDecide,
           vars, run
  <2>2. \A f \in Comparable :
          DocumentValue(f, saved) # Absent =>
            DocumentValue(f, evidence) = DocumentValue(f, saved)
    BY <1>1, LongerEvidence DEF IInv, EvidenceInv, SavedInv
  <2>. QED  BY <2>1, <2>2
<1>2. IInv /\ [Next]_vars => [Stays]_vars
  BY <1>1
<1>. HIDE DEF Stays
<1>3. Spec => [][Stays]_vars
  BY <1>2, Invariance, PTL DEF Spec
<1>. QED  BY <1>3 DEF FirstReadingStands, Stays
-----------------------------------------------------------------------------
(* What the tools find in evidence that is trusted.                        *)
LEMMA FindingsType ==
  ASSUME IInv, differing \subseteq Comparable
  PROVE  /\ FindingsNow \in Findings
         /\ FindingsNow.mismatches = Cardinality(differing)
         /\ FindingsNow.weak = 0
         /\ FindingsNow.anyData <=> evidence # << >>
         /\ FindingsNow.mismatches = 0 <=> differing = {}
<1>1. IsFiniteSet(Comparable)
  <2>1. IsFiniteSet({ "pan_number" })
    BY FS_Singleton
  <2>2. IsFiniteSet({ "pan_number" } \cup { "gst_number" })
    BY <2>1, FS_AddElement
  <2>3. IsFiniteSet({ "pan_number" } \cup { "gst_number" } \cup { "phone" })
    BY <2>2, FS_AddElement
  <2>4. IsFiniteSet({ "pan_number" } \cup { "gst_number" } \cup { "phone" }
                      \cup { "email" })
    BY <2>3, FS_AddElement
  <2>5. IsFiniteSet({ "pan_number" } \cup { "gst_number" } \cup { "phone" }
                      \cup { "email" } \cup { "address" })
    BY <2>4, FS_AddElement
  <2>6. Comparable = { "pan_number" } \cup { "gst_number" } \cup { "phone" }
                      \cup { "email" } \cup { "address" }
    BY DEF Comparable
  <2>. QED  BY <2>5, <2>6
<1>2. IsFiniteSet(differing) /\ Cardinality(differing) \in Nat
  BY <1>1, FS_Subset, FS_CardinalityType
<1>3. Cardinality(differing) = 0 <=> differing = {}
  BY <1>2, FS_EmptySet
<1>4. \A i \in DOMAIN evidence : evidence[i] \in TrustedReadings
  BY DEF IInv, EvidenceInv
<1>5. \A e \in TrustedReadings : e.confidence \in 0 .. 100 /\ e.confidence >= 60
  BY ReadingType DEF TrustedReadings, Trusted, IInv, CaseInv, Evidence
<1>6. { i \in DOMAIN evidence : evidence[i].confidence < 50 } = {}
  BY <1>4, <1>5
<1>7. FindingsNow.mismatches = Cardinality(differing) /\ FindingsNow.weak = 0
      /\ (FindingsNow.anyData <=> evidence # << >>)
  BY <1>6, FS_EmptySet DEF FindingsNow
<1>8. FindingsNow \in Findings
  <2>. DEFINE identified == \E i \in DOMAIN evidence :
                 Says(evidence[i], "pan_number") \/ Says(evidence[i], "gst_number")
              found(b) == [ mismatches |-> Cardinality(differing), weak |-> 0,
                            anyData |-> evidence # << >>, identified |-> b ]
  <2>1. identified \in BOOLEAN
    OBVIOUS
  <2>2. FindingsNow = found(identified)
    BY <1>6, FS_EmptySet DEF FindingsNow
  <2>3. \A b \in BOOLEAN : found(b) \in Findings
    BY <1>2 DEF Findings
  <2>. HIDE DEF identified, found
  <2>. QED  BY <2>1, <2>2, <2>3
<1>. QED  BY <1>3, <1>7, <1>8
-----------------------------------------------------------------------------
(* What a level of risk says about the findings.                           *)
LEMMA RiskBands ==
  ASSUME NEW f \in Findings
  PROVE  /\ AssessRisk(f) = "LOW" => f.mismatches = 0 /\ f.anyData
         /\ AssessRisk(f) # "CRITICAL" => f.mismatches <= 2
         /\ f.weak = 0 /\ (f.mismatches # 0 => f.anyData)
              /\ AssessRisk(f) \notin { "LOW", "MEDIUM" } => f.mismatches >= 2
<1>1. /\ f.mismatches \in Nat /\ f.weak \in Nat
      /\ f.anyData \in BOOLEAN /\ f.identified \in BOOLEAN
  BY DEF Findings
<1>2. AtMost(f.mismatches, 3) \in 0 .. 3
      /\ (f.mismatches <= 3 => AtMost(f.mismatches, 3) = f.mismatches)
      /\ (f.mismatches > 3 => AtMost(f.mismatches, 3) = 3)
  BY <1>1 DEF AtMost
<1>. DEFINE sum ==   30 * AtMost(f.mismatches, 3) + 25 * f.weak
                  + (IF f.anyData THEN 0 ELSE 30) + (IF f.identified THEN 0 ELSE 15)
<1>3. /\ sum \in Nat /\ sum >= 30 * AtMost(f.mismatches, 3)
      /\ ~f.anyData => sum >= 30
      /\ f.weak = 0 /\ f.anyData => sum <= 30 * AtMost(f.mismatches, 3) + 15
      /\ f.weak = 0 => sum <= 30 * AtMost(f.mismatches, 3) + 45
  BY <1>1, <1>2
<1>. HIDE DEF sum
<1>4. RiskScore(f) = IF sum < 100 THEN sum ELSE 100
  BY DEF RiskScore, AtMost, sum
<1>. QED  BY <1>1, <1>2, <1>3, <1>4 DEF AssessRisk

(* The rules recommend what they find.                                     *)
LEMMA RuleRecommends ==
  ASSUME NEW l, NEW r \in Recommendations(l), r.by = "rules"
  PROVE  r.rec = RuleBasedRecommendation(FALSE, l, FindingsNow,
                   \E i \in DOMAIN evidence : ~Trusted(evidence[i]))
<1>. DEFINE x == RuleBasedRecommendation(FALSE, l, FindingsNow,
                   \E i \in DOMAIN evidence : ~Trusted(evidence[i]))
<1>1. r \in [ by : { "model" }, rec : Recommendation ]
      \/ r = [ by |-> "rules", rec |-> x ]
  BY DEF Recommendations
<1>. HIDE DEF x
<1>2. r.rec = x
  BY <1>1
<1>. QED  BY <1>2 DEF x

(* What gets past the policy.                                              *)
LEMMA PolicyAllows ==
  ASSUME NEW rec, NEW risk0, NEW anyData, NEW n
  PROVE  /\ EnforcePolicy(rec, risk0, anyData, FALSE, n) = "APPROVE" =>
              rec.action = "APPROVE" /\ risk0 # "CRITICAL" /\ anyData
         /\ EnforcePolicy(rec, risk0, anyData, FALSE, n) = "REJECT_OR_BLOCK" =>
              risk0 \notin { "LOW", "MEDIUM" }
BY DEF EnforcePolicy

(* The rules approve only where nothing differs.                           *)
LEMMA RulesApprove ==
  ASSUME NEW f \in Findings, NEW level, NEW untrusted,
         RuleBasedRecommendation(FALSE, level, f, untrusted).action = "APPROVE"
  PROVE  f.mismatches = 0
BY DEF RuleBasedRecommendation, Findings

(* The verdict, once there is one, is on these findings.                   *)
LEMMA Verdict ==
  ASSUME IInv, advisor # "nobody"
  PROVE  /\ differing \subseteq Comparable
         /\ differing = Differences(application, evidence)
         /\ risk = AssessRisk(FindingsNow)
         /\ FindingsNow \in Findings /\ FindingsNow.weak = 0
         /\ FindingsNow.mismatches = Cardinality(differing)
         /\ FindingsNow.anyData <=> evidence # << >>
         /\ FindingsNow.mismatches = 0 <=> differing = {}
<1>1. differing = Differences(application, evidence) /\ risk = AssessRisk(FindingsNow)
  BY DEF IInv, VerdictInv
<1>2. differing \subseteq Comparable
  BY <1>1 DEF Differences
<1>. QED  BY <1>1, <1>2, FindingsType

(* LowRiskIsVerified: without a difference, the documents say the PAN of   *)
(* the application.                                                        *)
THEOREM LowRiskVerified == Spec => []LowRiskIsVerified
<1>1. ASSUME IInv, risk = "LOW"
      PROVE  /\ evidence # << >> /\ differing = {}
             /\ DocumentValue("pan_number", evidence) = application["pan_number"]
  <2>1. advisor # "nobody"
    BY <1>1 DEF IInv, VerdictInv, NoRisk
  <2>2. evidence # << >> /\ differing = {}
    BY <1>1, <2>1, Verdict, RiskBands
  <2>. QED  BY <1>1, <2>1, <2>2, Verdict DEF Differences, Comparable
<1>2. IInv => LowRiskIsVerified
  BY <1>1 DEF LowRiskIsVerified
<1>. QED  BY <1>2, Invariance, PTL

(* ModelCannotOverrule: the score bounds what the policy lets through.     *)
THEOREM ModelBounded == Spec => []ModelCannotOverrule
<1>1. ASSUME IInv, advisor = "model"
      PROVE  /\ decision = "APPROVE" => Cardinality(differing) <= 2
             /\ decision = "REJECT_OR_BLOCK" => Cardinality(differing) >= 2
  <2>1. PICK r \in Recommendations(risk) :
          decision = EnforcePolicy(r.rec, risk, evidence # << >>, FALSE, retries)
    BY <1>1 DEF IInv, VerdictInv
  <2>2. /\ decision = "APPROVE" => risk # "CRITICAL"
        /\ decision = "REJECT_OR_BLOCK" => risk \notin { "LOW", "MEDIUM" }
    BY <2>1, PolicyAllows
  <2>3. evidence = << >> => differing = {}
    BY <1>1, Verdict DEF Differences
  <2>. QED  BY <1>1, <2>2, <2>3, Verdict, RiskBands
<1>2. IInv => ModelCannotOverrule
  BY <1>1 DEF ModelCannotOverrule
<1>. QED  BY <1>2, Invariance, PTL

(* What no model read stands in the document it was read from.             *)
LEMMA Provenance ==
  ASSUME CaseInv, NEW e \in TrustedReadings, e.reader # "model",
         NEW f \in Comparable, e.fields[f] # Absent
  PROVE  \E d \in Docs : papers[d].value[f] = e.fields[f]
<1>1. PICK d \in Docs : e \in Readings(papers[d], given[d])
  BY DEF TrustedReadings
<1>2. f \in Field
  BY DEF Comparable, Field
<1>3. \A r \in Readers : e # Nothing(r)
  BY <1>2 DEF Nothing
<1>4. CASE e \in PipelineReadings(papers[d])
  BY <1>3, <1>4 DEF PipelineReadings, Readers
<1>5. CASE e \in ModelReadings
  <2>. DEFINE Read(fs, x) == [ fields |-> fs, confidence |-> x, reader |-> "model" ]
  <2>1. PICK a \in Answers :
          e = Read(a, Quarters({ g \in Important : a[g] # Absent }))
    BY <1>3, <1>5 DEF ModelReadings, Readers
  <2>2. \A fs, x : Read(fs, x).reader = "model"
    OBVIOUS
  <2>. HIDE DEF Read
  <2>. QED  BY <2>1, <2>2
<1>6. CASE e = BasicReading(papers[d])
  <2>1. e.fields[f] = papers[d].value[f] \/ e.fields[f] = Absent
    BY <1>2, <1>6 DEF BasicReading
  <2>. QED  BY <2>1
<1>. QED  BY <1>1, <1>3, <1>4, <1>5, <1>6 DEF Readings, TextReadings, Readers

(* ApprovedOnWhatStandsThere: the rules approve when nothing differs; what *)
(* does not differ and is declared was read in a document, and what is not *)
(* declared was read nowhere.                                              *)
THEOREM ApprovedStands == Spec => []ApprovedOnWhatStandsThere
<1>1. ASSUME IInv, decision = "APPROVE", advisor = "rules",
             \A i \in DOMAIN evidence : evidence[i].reader # "model"
      PROVE  /\ application["pan_number"] \in Values /\ Stands("pan_number")
             /\ \A f \in Comparable :
                  /\ application[f] # Absent => Stands(f)
                  /\ application[f] = Absent =>
                       \A i \in DOMAIN evidence : evidence[i].fields[f] = Absent
  <2>1. PICK r \in Recommendations(risk) :
          /\ r.by = "rules"
          /\ decision = EnforcePolicy(r.rec, risk, evidence # << >>, FALSE, retries)
    BY <1>1 DEF IInv, VerdictInv
  <2>2. r.rec.action = "APPROVE" /\ evidence # << >>
    BY <1>1, <2>1, PolicyAllows
  <2>3. FindingsNow.mismatches = 0
    <3>. DEFINE untrusted == \E i \in DOMAIN evidence : ~Trusted(evidence[i])
    <3>1. r.rec = RuleBasedRecommendation(FALSE, risk, FindingsNow, untrusted)
      BY <2>1, RuleRecommends
    <3>. HIDE DEF untrusted
    <3>. QED  BY <1>1, <2>2, <3>1, Verdict, RulesApprove
  <2>4. \A f \in Comparable : application[f] = DocumentValue(f, evidence)
    BY <1>1, <2>2, <2>3, Verdict DEF Differences
  <2>5. DOMAIN evidence \subseteq Nat
        /\ \A i \in DOMAIN evidence : evidence[i] \in TrustedReadings
    BY <1>1 DEF IInv, EvidenceInv
  <2>6. ASSUME NEW f \in Comparable, application[f] # Absent
        PROVE  Stands(f)
    <3>1. PICK i \in Sources(f, evidence) : application[f] = evidence[i].fields[f]
      BY <2>4, <2>5, <2>6, ValueSource
    <3>. QED  BY <1>1, <2>5, <2>6, <3>1, Provenance DEF IInv, Sources, Stands
  <2>7. ASSUME NEW f \in Comparable, application[f] = Absent
        PROVE  \A i \in DOMAIN evidence : evidence[i].fields[f] = Absent
    BY <2>4, <2>5, <2>7, AbsentNowhere
  <2>8. application["pan_number"] \in Values
    BY <1>1 DEF IInv, ValidInv, VerdictInv
  <2>9. Stands("pan_number")
    BY <2>6, <2>8, ValuesAssumption DEF Comparable
  <2>. QED  BY <2>6, <2>7, <2>8, <2>9
<1>2. IInv => ApprovedOnWhatStandsThere
  BY <1>1 DEF ApprovedOnWhatStandsThere
<1>. QED  BY <1>2, Invariance, PTL
-----------------------------------------------------------------------------
(* An order of the documents is one to one.                                *)
LEMMA ReorderingOnto ==
  ASSUME NEW n \in Nat, NEW q \in [ 1 .. n -> 1 .. n ],
         \A i, j \in 1 .. n : i # j => q[i] # q[j],
         NEW k \in 1 .. n
  PROVE  \E i \in 1 .. n : q[i] = k
<1>1. IsFiniteSet(1 .. n)
  BY FS_Interval
<1>2. q \in Injection(1 .. n, 1 .. n)
  BY DEF Injection, IsInjective
<1>3. q \in Surjection(1 .. n, 1 .. n)
  BY <1>1, <1>2, FS_Injection
<1>. QED  BY <1>3 DEF Surjection

(* Documents that agree have one value for a field.                        *)
LEMMA AgreedValue ==
  ASSUME NEW es, IsFiniteSet(DOMAIN es), Agree(es), NEW f \in Comparable,
         NEW i \in Sources(f, es), NEW j \in Sources(f, es)
  PROVE  es[i].fields[f] = es[j].fields[f]
<1>. DEFINE said == { es[k].fields[f] : k \in Sources(f, es) }
            val == [ k \in Sources(f, es) |-> es[k].fields[f] ]
<1>1. Cardinality(said) <= 1
  BY DEF Agree
<1>2. IsFiniteSet(Sources(f, es))
  BY FS_Subset DEF Sources
<1>3. val \in Surjection(Sources(f, es), said)
  BY DEF Surjection
<1>4. IsFiniteSet(said) /\ Cardinality(said) \in Nat
  BY <1>2, <1>3, FS_Surjection, FS_CardinalityType
<1>5. said # {}
  OBVIOUS
<1>6. \E x : said = { x }
  <2>. HIDE DEF said
  <2>1. Cardinality(said) = 1
    BY <1>1, <1>4, <1>5, FS_EmptySet
  <2>. QED  BY <1>4, <2>1, FS_Singleton
<1>. QED  BY <1>6

(* OrderIsIrrelevant: a reordering has the same sources, and each of them  *)
(* the same value.                                                         *)
THEOREM OrderDoesNotMatter == Spec => []OrderIsIrrelevant
<1>1. ASSUME IInv, pc = "assess", Agree(evidence), NEW es \in Reorderings(evidence)
      PROVE  Differences(application, es) = differing
  <2>1. differing = Differences(application, evidence)
    BY <1>1 DEF IInv, VerdictInv
  <2>2. Len(evidence) \in Nat /\ DOMAIN evidence = 1 .. Len(evidence)
    BY <1>1 DEF IInv, EvidenceInv
  <2>3. PICK q \in [ DOMAIN evidence -> DOMAIN evidence ] :
          /\ \A i, j \in DOMAIN evidence : i # j => q[i] # q[j]
          /\ es = [ i \in DOMAIN evidence |-> evidence[q[i]] ]
    BY DEF Reorderings
  <2>4. \A k \in DOMAIN evidence : \E i \in DOMAIN evidence : q[i] = k
    <3>1. q \in [ 1 .. Len(evidence) -> 1 .. Len(evidence) ]
          /\ \A i, j \in 1 .. Len(evidence) : i # j => q[i] # q[j]
      BY <2>2, <2>3
    <3>2. \A k \in 1 .. Len(evidence) : \E i \in 1 .. Len(evidence) : q[i] = k
      BY <2>2, <3>1, ReorderingOnto
    <3>. QED  BY <2>2, <3>2
  <2>5. es = << >> <=> evidence = << >>
    <3>1. evidence \in Seq(TrustedReadings)
      BY <1>1 DEF IInv, EvidenceInv
    <3>2. es \in Seq(TrustedReadings) /\ Len(es) = Len(evidence)
      BY <2>2, <2>3, <3>1
    <3>. QED  BY <3>1, <3>2, EmptySeq
  <2>6. ASSUME NEW f \in Comparable
        PROVE  DocumentValue(f, es) = DocumentValue(f, evidence)
    <3>1. DOMAIN es \subseteq Nat /\ DOMAIN evidence \subseteq Nat
      BY <2>2, <2>3
    <3>2. CASE Sources(f, evidence) = {}
      <4>1. Sources(f, es) = {}
        BY <2>3, <3>2 DEF Sources
      <4>. QED  BY <3>1, <3>2, <4>1, ValueSource
    <3>3. CASE Sources(f, evidence) # {}
      <4>1. PICK k \in Sources(f, evidence) :
              DocumentValue(f, evidence) = evidence[k].fields[f]
        BY <3>1, <3>3, ValueSource
      <4>2. Sources(f, es) # {}
        BY <2>3, <2>4, <4>1 DEF Sources
      <4>3. PICK i \in Sources(f, es) : DocumentValue(f, es) = es[i].fields[f]
        BY <3>1, <4>2, ValueSource
      <4>4. q[i] \in Sources(f, evidence) /\ es[i] = evidence[q[i]]
        BY <2>3, <4>3 DEF Sources
      <4>5. evidence[q[i]].fields[f] = evidence[k].fields[f]
        <5>1. IsFiniteSet(DOMAIN evidence)
          BY <2>2, FS_Interval
        <5>. QED  BY <1>1, <4>1, <4>4, <5>1, AgreedValue
      <4>. QED  BY <4>1, <4>3, <4>4, <4>5
    <3>. QED  BY <3>2, <3>3
  <2>. QED  BY <2>1, <2>5, <2>6 DEF Differences
<1>2. IInv => OrderIsIrrelevant
  BY <1>1 DEF OrderIsIrrelevant
<1>. QED  BY <1>2, Invariance, PTL
-----------------------------------------------------------------------------
(* What the policy makes of a recommendation is a decision.                *)
LEMMA DecisionType ==
  ASSUME NEW rec, rec.action \in FinalDecision,
         NEW level, NEW anyData, NEW missing, NEW n
  PROVE  EnforcePolicy(rec, level, anyData, missing, n) \in FinalDecision
BY DEF EnforcePolicy, FinalDecision

(* Every recommendation is of a decision.                                  *)
LEMMA ActionType ==
  ASSUME NEW l, NEW r \in Recommendations(l)
  PROVE  r.rec.action \in FinalDecision
<1>1. CASE r.by = "rules"
  <2>. DEFINE x == \E i \in DOMAIN evidence : ~Trusted(evidence[i])
  <2>1. r.rec = RuleBasedRecommendation(FALSE, l, FindingsNow, x)
    BY <1>1, RuleRecommends
  <2>. HIDE DEF x
  <2>. QED  BY <2>1 DEF RuleBasedRecommendation, FinalDecision
<1>2. CASE r.by # "rules"
  <2>. DEFINE x == RuleBasedRecommendation(FALSE, l, FindingsNow,
                     \E i \in DOMAIN evidence : ~Trusted(evidence[i]))
  <2>1. r \in [ by : { "model" }, rec : Recommendation ]
        \/ r = [ by |-> "rules", rec |-> x ]
    BY DEF Recommendations
  <2>. HIDE DEF x
  <2>2. r.rec \in Recommendation
    BY <1>2, <2>1
  <2>. QED  BY <2>2 DEF Recommendation
<1>. QED  BY <1>1, <1>2

(* TypeOK: what is read is a piece of evidence, and what is decided is a   *)
(* decision.                                                               *)
THEOREM TypeCorrect == Spec => []TypeOK
<1>. USE NumDocsAssumption, MaxToolRetriesAssumption, CrashesAssumption
<1>1. ASSUME Init  PROVE TypeOK
  <2>1. /\ doc \in 1 .. NumDocs + 1 /\ attempt \in 0 .. MaxToolRetries
        /\ retries \in Nat /\ crashes \in 0 .. MaxCrashes
    BY <1>1 DEF Init
  <2>2. evidence \in Seq(Evidence) /\ saved \in Seq(Evidence)
    BY <1>1, EmptySeq DEF Init
  <2>. QED  BY <1>1, <2>1, <2>2 DEF Init, TypeOK
<1>2. ASSUME IInv, IInv', TypeOK, [Next]_vars
      PROVE  TypeOK'
  <2>. USE DEF TypeOK
  <2>1. application' \in Applications /\ papers' \in [ Docs -> Papers ]
        /\ given' \in [ Docs -> Ways ]
    BY <1>2 DEF IInv, CaseInv
  <2>2. evidence' \in Seq(Evidence) /\ saved' \in Seq(Evidence)
    <3>1. \A e \in TrustedReadings' : e \in Evidence
      BY <1>2, ReadingType, CaseStays DEF IInv, CaseInv, TrustedReadings
    <3>2. evidence' \in Seq(TrustedReadings') /\ saved' \in Seq(TrustedReadings')
      BY <1>2 DEF IInv, EvidenceInv
    <3>. QED  BY <3>1, <3>2
  <2>3. doc' \in 1 .. NumDocs + 1 /\ retries' \in Nat
    BY <1>2 DEF IInv, EvidenceInv
  <2>4. pc' \in { "validate", "read", "assess", "over" }
    BY <1>2 DEF IInv, VerdictInv
  <2>5. attempt' \in 0 .. MaxToolRetries /\ crashes' \in 0 .. MaxCrashes
    <3>1. CASE ReadDocument
      <4>1. attempt' \in { 0, attempt, attempt + 1 } /\ attempt < MaxToolRetries
            /\ crashes' = crashes
        BY <3>1 DEF ReadDocument
      <4>2. attempt \in 0 .. MaxToolRetries /\ crashes \in 0 .. MaxCrashes
        BY <1>2
      <4>. QED  BY <4>1, <4>2
    <3>2. CASE CrashAndResume
      <4>1. attempt' = 0 /\ crashes' = crashes + 1 /\ crashes < MaxCrashes
        BY <3>2 DEF CrashAndResume
      <4>. QED  BY <1>2, <4>1
    <3>3. CASE GiveUpDocument
      BY <1>2, <3>3 DEF GiveUpDocument
    <3>4. CASE Validate \/ EscalateWithoutEvidence \/ CompareInformation
                 \/ AnalyzeAndDecide \/ UNCHANGED vars
      <4>1. UNCHANGED << attempt, crashes >>
        BY <3>4 DEF Validate, EscalateWithoutEvidence, CompareInformation,
               AnalyzeAndDecide, vars, run
      <4>. QED  BY <1>2, <4>1
    <3>. QED  BY <1>2, <3>1, <3>2, <3>3, <3>4 DEF Next
  <2>6. differing' \subseteq Comparable
    BY <1>2 DEF Next, Validate, ReadDocument, GiveUpDocument, CrashAndResume,
           EscalateWithoutEvidence, CompareInformation, AnalyzeAndDecide,
           vars, verdict, Differences
  <2>7. risk' \in RiskLevel \cup { NoRisk }
        /\ advisor' \in { "nobody", "model", "rules" }
        /\ decision' \in FinalDecision \cup { NoDecision }
    <3>1. CASE AnalyzeAndDecide
      <4>1. risk' \in RiskLevel
        BY <3>1 DEF AnalyzeAndDecide, AssessRisk, RiskLevel
      <4>2. PICK r \in Recommendations(risk') :
              /\ advisor' = r.by
              /\ decision' = EnforcePolicy(r.rec, risk', evidence # << >>, FALSE, retries)
        BY <3>1 DEF AnalyzeAndDecide
      <4>. QED  BY <4>1, <4>2, SomebodyRecommends, ActionType, DecisionType
    <3>2. CASE ~AnalyzeAndDecide
      BY <1>2, <3>2 DEF Next, Validate, ReadDocument, GiveUpDocument, CrashAndResume,
             EscalateWithoutEvidence, CompareInformation, vars, verdict, FinalDecision
    <3>. QED  BY <3>1, <3>2
  <2>. QED  BY <2>1, <2>2, <2>3, <2>4, <2>5, <2>6, <2>7
<1>. QED  BY <1>1, <1>2, Invariance, PTL DEF Spec
=============================================================================
