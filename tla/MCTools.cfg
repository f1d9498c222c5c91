SPECIFICATION Spec
CHECK_DEADLOCK FALSE
INVARIANTS
  NothingStale
PROPERTIES
  AllOrNothing
CONSTANTS
  Installers = {1, 2}
  MaxFaults = 2
  Commits = {1, 2}
  MaxAttempts = 3
  Locals = {"map", "concatMap"}
  Symbol <- MCSymbol
  Pipelines <- MCPipelines
  Size = 3
  Paths = {1, 2, 3, 4}
  Batch = 2
  Pages = {1, 2}
  MaxVisits = 3
  Layouts = {1, 2}
  Heights <- MCHeights
  Tops <- MCTops
  Viewports = {2, 3}
  MaxTocs = 2
  Clients = {1, 2}
  MaxSearches = 4
