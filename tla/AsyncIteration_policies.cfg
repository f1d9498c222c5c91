CONSTANTS
  MaxValues = 4
  MaxRequests = 4
  MaxTurns = 3
SPECIFICATION Spec
CHECK_DEADLOCK FALSE
INVARIANTS
  TypeOK
  Lossless
  NewestKept
  BurstsCoalesce
PROPERTIES
  EndAnswersRequests
