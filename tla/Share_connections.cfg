CONSTANTS
  o1 = o1
  o2 = o2
  o3 = o3
  Observers = {o1, o2, o3}
  None = None
  SubscribedAs = {"active"}
  NotifierReenters = FALSE
  ConnectorFails = TRUE
  MaxDepth = 3
SYMMETRY Symmetry
SPECIFICATION Spec
CHECK_DEADLOCK FALSE
INVARIANTS
  TypeOK
  OneConnection
  ActiveObserversFed
  ReleasedWithTheLast
PROPERTIES
  KeptForTheLast
  RetainedEndStays
