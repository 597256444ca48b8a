SPECIFICATION Spec
CONSTANTS
  Requests = {1, 2}
  Bodies <- MCBodies
  SizeLimit = 2
  MaxEntries = 4
  Faults = 2
INVARIANTS
  JobsReadTheirFile
  AnswerIsComplete
  RefusalLeavesNothing
CHECK_DEADLOCK FALSE
