SPECIFICATION Spec
CONSTANTS
  OcrConfidences <- MCOcrConfidences
  FieldConfidences <- MCFieldConfidences
  FieldCounts <- MCFieldCounts
  MaxPages = 1
  MaxFaults = 0
INVARIANT
  TempFilesAreCleaned
CHECK_DEADLOCK FALSE
