SPECIFICATION Spec
CONSTANTS
  NumDocs = 2
  MaxToolRetries = 2
  MaxFaults = 1
  Mismatches <- MCMismatches
PROPERTY
  ResumesFromAnyState
CHECK_DEADLOCK FALSE
