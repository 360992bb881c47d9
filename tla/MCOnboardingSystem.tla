------------------------- MODULE MCOnboardingSystem -------------------------
(* A small instance of OnboardingSystem for TLC.                           *)
EXTENDS OnboardingInvariants

(* Those who write, alone and together, and each reader with one who writes. *)
MCCasts ==
  { { "page", "anew" }, { "page", "client", "past" },
    { "page", "list", "past" }, { "client", "list" }, { "client", "review" } }

(* All in order, and three details that differ. *)
MCClientFindings ==
  { [ mismatches |-> 0, weak |-> 0, anyData |-> TRUE, identified |-> TRUE ],
    [ mismatches |-> 3, weak |-> 0, anyData |-> TRUE, identified |-> TRUE ] }
=============================================================================
