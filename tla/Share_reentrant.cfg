CONSTANTS
  o1 = o1
  o2 = o2
  Observers = {o1, o2}
  None = None
  SubscribedAs = {"active"}
  NotifierReenters = TRUE
  ConnectorFails = FALSE
  MaxDepth = 3
SPECIFICATION Spec
CHECK_DEADLOCK FALSE
PROPERTIES
  KeptForTheLast
