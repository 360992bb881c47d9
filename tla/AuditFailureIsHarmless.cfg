SPECIFICATION Spec
CONSTANTS
  OcrConfidences <- MCOcrConfidences
  FieldConfidences <- MCFieldConfidences
  FieldCounts <- MCFieldCounts
  MaxPages = 1
  MaxFaults = 1
PROPERTY
  AuditFailureIsHarmless
CHECK_DEADLOCK FALSE
