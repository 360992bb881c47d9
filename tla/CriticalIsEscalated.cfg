SPECIFICATION Spec
CONSTANTS
  NumDocs = 2
  MaxToolRetries = 2
  MaxFaults = 0
  Mismatches <- MCMismatches
INVARIANT
  CriticalIsEscalated
CHECK_DEADLOCK FALSE
