SPECIFICATION Spec
CONSTANTS
  OcrConfidences <- MCOcrConfidences
  FieldConfidences <- MCFieldConfidences
  FieldCounts <- MCFieldCounts
  MaxPages = 2
  MaxFaults = 2
INVARIANTS
  TypeOK
  AcceptedIsDurable
  CompletedIsWhole
  FailedIsWorthless
  ReusedHasFields
  CleanWhenRead
PROPERTIES
  NeverReopened
  OneFaultIsSurvived
CHECK_DEADLOCK FALSE
