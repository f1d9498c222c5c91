CONSTANTS
  MaxValues = 3
  MaxDepth = 3
  Views = {1, 2}
  MaxRuns = 4
  MaxConns = 4
  ManualViews = {1}
  ManualRuns = 3
  ManualConns = 3
  Keys = {1, 2}
  Durations = TRUE
  GroupValues = 2
  MaxViews = 2
  Observers = {1, 2, 3}
  SubjectValues = 2
  ColdObservers = {1, 2}
  Size = 2
  ColdValues = 3
  ColdDepth = 4
  OperatorLog = 7
  MaxInputs = 6
  Amounts = {0, 1, 2}
  PromiseLog = 9
  Delays = {0, 1}
  MaxTasks = 3
  MaxOps = 1
  MaxTime = 2
  MaxExecutions = 3
  OverlapDelays = {1}
  OverlapTasks = 2
  OverlapOps = 2
  OverlapTime = 2
  OverlapExecutions = 2
SPECIFICATION PartSpec
CHECK_DEADLOCK FALSE
INVARIANTS
  PartTypeOK
  ReleasedWithTheLast
  FedByOne
  ValuesGivenOnce
  EndReachesAll
  PartNeverStranded
  ToldOnce
  GivesWhatItShould
PROPERTIES
  SilentOnceOver
  TimeGoesOn
  PartsEnd
