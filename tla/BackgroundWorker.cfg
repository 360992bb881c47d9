SPECIFICATION Spec
CONSTANTS
  d1 = d1
  d2 = d2
  d3 = d3
  a1 = a1
  OcrKeys <- MCOcrKeys
  WorkflowKeys <- MCWorkflowKeys
  MaxOcr = 2
  MaxWorkflow = 1
  MaxTasks = 4
INVARIANTS
  TypeOK
  SlotsAccounted
  NoStaleEntry
  CoroutinesClosed
  FirstIsAlone
  NoFirstTaskLeft
PROPERTIES
  TasksEnd
  ShutdownEnds
CHECK_DEADLOCK FALSE
