SPECIFICATION Spec
CONSTANTS
  d1 = d1
  a1 = a1
  OcrKeys <- MCOcrKeys
  WorkflowKeys <- MCWorkflowKeys
  MaxOcr = 1
  MaxWorkflow = 1
  MaxTasks = 2
INVARIANT
  NoDanglingTasks
CHECK_DEADLOCK FALSE
