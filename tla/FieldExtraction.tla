-------------------------- MODULE FieldExtraction --------------------------
(***************************************************************************)
(* What the document pipeline finds in a text, and how sure it is of it    *)
(* (app/tools/field_extraction.py and the confidence of                    *)
(* app/tools/document_processing.py), as pure operators.                   *)
(*                                                                         *)
(* A paper is what the text of a document says: a value for some of the    *)
(* fields, and the fields of which only the label was recognised, because  *)
(* the value does not have the expected form, or which stand there without *)
(* one.  Confidences are in percent.                                       *)
(***************************************************************************)
EXTENDS Integers, FiniteSets

(* None, in a field of an application, a paper or a piece of evidence. *)
Absent == "absent"

(* The extractors of extract_fields. *)
Field == { "pan_number", "gst_number", "phone", "email", "date_of_birth",
           "name", "address", "registration_number" }

(* The confidence of the first way each extractor tries. *)
FirstConfidence ==
  [ pan_number |-> 95, gst_number |-> 95, phone |-> 90, email |-> 95,
    date_of_birth |-> 85, name |-> 85, address |-> 70,
    registration_number |-> 80 ]

(* That of its second way, for the extractors that have one. *)
SecondConfidence ==
  [ pan_number |-> 85, gst_number |-> 85, phone |-> 80, date_of_birth |-> 60 ]

Paper(values) ==
  [ value : [ Field -> values \cup { Absent } ],
    second : SUBSET DOMAIN SecondConfidence ]

FieldsFound(p) == { f \in Field : p.value[f] # Absent }

FieldConfidence(p, f) ==
  IF f \in p.second THEN SecondConfidence[f] ELSE FirstConfidence[f]

(* extract_fields: the mean over the fields that were found, which is      *)
(* summed up by the confidences there are.                                 *)
MeanConfidence(p) ==
  LET found == FieldsFound(p)
      Sure(c) == { f \in found : FieldConfidence(p, f) = c }
      Share(c) == c * Cardinality(Sure(c))
  IN  IF found = {} THEN 0
      ELSE (Share(95) + Share(90) + Share(85) + Share(80) + Share(70) + Share(60))
             \div Cardinality(found)

(* Mutant: every one of the eight fields counts. *)
OverallUncapped(ocr, field, found) == (40 * ocr + 40 * field) \div 100 + 5 * found

(* Mutant: the confidence of the OCR counts for more than the fields. *)
OverallMostlyOcr(ocr, field, found) ==
  (70 * ocr + 20 * field) \div 100 + 2 * (IF found < 4 THEN found ELSE 4)

(* _calculate_overall_confidence, in percent: OCR and fields weigh 40      *)
(* each, and every field found, up to four, another 5.                     *)
Overall(ocr, field, found) ==
  (40 * ocr + 40 * field) \div 100 + 5 * (IF found < 4 THEN found ELSE 4)
=============================================================================
