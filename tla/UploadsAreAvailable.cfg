SPECIFICATION ClaimsSpec
CONSTANTS
  NumApps = 1
  Casts <- MCCasts
  MaxUploads = 1
  MaxForms = 1
  MaxToolRetries = 3
  MaxFaults = 0
  ClientFindings <- MCClientFindings
INVARIANT
  UploadsAreAvailable
CHECK_DEADLOCK FALSE
