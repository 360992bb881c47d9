SPECIFICATION Spec
CONSTANTS
  NumDocs = 2
  MaxToolRetries = 2
  MaxCrashes = 1
  Values <- MCValues
  Malformed <- MCMalformed
  Applications <- MCApplications
  Papers <- MCPapers
  Answers <- MCAnswers
  Ways <- MCWays
  OcrConfidences <- MCOcrConfidences
INVARIANTS
  TypeOK
  ApprovedOnWhatStandsThere
  LowRiskIsVerified
  ModelCannotOverrule
  OrderIsIrrelevant
PROPERTIES
  FirstReadingStands
CHECK_DEADLOCK FALSE
