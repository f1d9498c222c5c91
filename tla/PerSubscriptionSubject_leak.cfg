CONSTANTS
  o1 = o1
  o2 = o2
  Observers = {o1, o2}
  Size = 2
  MaxValues = 2
  MaxDepth = 3
SPECIFICATION Spec
CHECK_DEADLOCK FALSE
INVARIANTS
  CancelledAreRemoved
