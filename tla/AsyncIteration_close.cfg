CONSTANTS
  MaxValues = 2
  MaxRequests = 3
  MaxTurns = 2
SPECIFICATION Spec
CHECK_DEADLOCK FALSE
PROPERTIES
  CloseAborts
