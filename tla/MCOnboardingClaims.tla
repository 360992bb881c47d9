------------------------ MODULE MCOnboardingClaims ------------------------
(* Small instances of OnboardingClaims for TLC. *)
EXTENDS OnboardingClaims

MCCasts == { { "page" } }

MCClientFindings == { NothingFound }
=============================================================================
