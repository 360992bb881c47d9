--------------------------- MODULE MCVerification ---------------------------
(* A small instance of Verification for TLC: two documents, two values and *)
(* one that has no valid form.                                             *)
EXTENDS Verification

MCValues == { "A", "B", "malformed" }
MCMalformed == { "malformed" }

Silent == [ f \in Field |-> Absent ]

Applicant(pan, gst, rest) ==
  [ f \in Declared |->
      CASE f = "pan_number" -> pan
        [] f = "gst_number" -> gst
        [] f \in { "applicant_name", "business_name", "phone" } -> "A"
        [] OTHER -> rest ]

(* With everything, with what is required, without a GST number, and the   *)
(* two that validation turns away.                                         *)
MCApplications ==
  { Applicant("A", "A", "A"), Applicant("A", Absent, Absent),
    Applicant("A", Absent, "A"), Applicant(Blank, "A", "A"),
    Applicant("A", "malformed", "A") }

Identity(v) ==
  [ Silent EXCEPT !["pan_number"] = v, !["phone"] = "A", !["name"] = v ]

Registration ==
  [ Silent EXCEPT !["gst_number"] = "A", !["pan_number"] = "A",
                  !["email"] = "A", !["phone"] = "A", !["address"] = "A" ]

(* A full registration, also without a GST number, the identity of the     *)
(* applicant or of somebody else, one of which only the label of the PAN   *)
(* was recognised, and a paper that says nothing.                          *)
MCPapers ==
  { [ value |-> Registration, second |-> {} ],
    [ value |-> [ Registration EXCEPT !["gst_number"] = Absent ], second |-> {} ],
    [ value |-> Identity("A"), second |-> {} ],
    [ value |-> Identity("B"), second |-> {} ],
    [ value |-> Identity("malformed"), second |-> { "pan_number", "phone" } ],
    [ value |-> Silent, second |-> {} ] }

(* Right, wrong, and a blank for everything. *)
MCAnswers ==
  { [ Identity("A") EXCEPT !["address"] = "A" ],
    [ Identity("B") EXCEPT !["address"] = "A" ],
    [ f \in Field |-> Blank ] }

(* A file, and a file with its text: this one can also be read the way a   *)
(* text alone is.                                                          *)
MCWays == { { "file" }, { "file", "text" } }

(* One that is too little for all but a full registration. *)
MCOcrConfidences == { 20, 95 }
=============================================================================
