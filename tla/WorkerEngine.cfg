SPECIFICATION Spec
CONSTANTS
  NumDocs = 2
  MaxToolRetries = 2
  MaxFaults = 2
  Mismatches <- MCMismatches
INVARIANTS
  TypeOK
  DecidedOnCompleteEvidence
  ApprovalIsEarned
  DecisionMatchesState
  NeverPastValidation
  AuditNeverAhead
  HandedOverOnce
  OnlyFaultsStrand
PROPERTIES
  RowOnlyGrows
  RunsEnd
  ImplementsLifecycle
CHECK_DEADLOCK FALSE
