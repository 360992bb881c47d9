SPECIFICATION Spec
CONSTANTS
  NumApps = 3
  Casts <- MCCasts
  MaxUploads = 2
  MaxForms = 2
  MaxToolRetries = 3
  MaxFaults = 1
  ClientFindings <- MCClientFindings
INVARIANTS
  TypeOK
  SuccessMeansStored
  OneApplicationPerForm
  WalkMissesOldest
  McpAnswerIsDurable
  ReportedIsNotApproved
PROPERTY
  CommittedGoesOn
CHECK_DEADLOCK FALSE
