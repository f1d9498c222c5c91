CONSTANTS
  MaxDepth = 3
  MaxLog = 6
  MaxInputs = 5
SPECIFICATION Spec
CHECK_DEADLOCK FALSE
INVARIANTS
  TypeOK
  
  GivesWhatItShould
  NothingLost
  OrderKept
  OnlyWhatIsNeeded
  BoundariesExact
