SPECIFICATION FairSpec
CONSTANTS
  Sites <- MCSites
  Scopes <- MCScopes
  Root = "root"
  Kind <- MCKind
  ScopeOf <- MCScopeOf
  Links <- MCLinks
  OutputOf <- MCOutputOf
  Owner <- MCOwner
  Index <- MCIndex
  Chain <- MCChain
  Element <- MCElement
  Breakpoints = {"a"}
  Values <- MCValues
  Outcomes <- MCOneOutcome
  RootInput = "one"
  Store = "inmemory"
  MaxDispatch = 2
  MaxFailures = 1
  MaxUnpauses = 1
  MaxCrashes = 0
  MaxMishaps = 1
INVARIANTS
  BreakpointRespected
PROPERTIES
  PauseReported
  UnpauseReleases
CHECK_DEADLOCK FALSE
