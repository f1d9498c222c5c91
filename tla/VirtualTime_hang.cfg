CONSTANTS
  Delays = {0, 1}
  MaxTasks = 1
  MaxOps = 0
  MaxTime = 2
  MaxRuns = 3
  Prompt = FALSE
  Overlap = FALSE
SPECIFICATION Spec
CHECK_DEADLOCK FALSE
PROPERTIES
  BodyServed
