SPECIFICATION RestartSpec
CONSTANTS
  Sites <- MCSites
  Scopes <- MCScopes
  Root = "root"
  Kind <- MCKind
  ScopeOf <- MCScopeOf
  Links <- MCLinks
  OutputOf <- MCOutputOf
  Owner <- MCOwner
  Index <- MCIndex
  Chain <- MCChain
  Element <- MCElement
  Breakpoints = {}
  Values <- MCValues
  Outcomes <- MCOutcomes
  RootInput = "one"
  Store = "inmemory"
  MaxDispatch = 2
  MaxFailures = 1
  MaxUnpauses = 0
  MaxCrashes = 0
  MaxMishaps = 1
  MaxRestarts = 1
INVARIANTS
  WaitTells
PROPERTIES
  RestartExact
  RestartCompletes
  WaitReturns
  FailureReported
CHECK_DEADLOCK FALSE
