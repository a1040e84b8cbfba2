SPECIFICATION FairSpec
CONSTANTS
  Sites <- MCSites
  Scopes <- MCScopes
  Root = "root"
  Kind <- MCKind
  ScopeOf <- MCScopeOf
  Links <- MCLinks
  OutputOf <- MCOutputOf
  Owner <- MCOwner
  Index <- MCIndex
  Chain <- MCChain
  Element <- MCElement
  Breakpoints = {}
  Values <- MCValues
  Outcomes <- MCOutcomes
  RootInput = "list"
  Store = "inmemory"
  MaxDispatch = 2
  MaxFailures = 0
  MaxUnpauses = 0
  MaxCrashes = 0
  MaxMishaps = 0
INVARIANTS
  RunLoopAlive
  CompletesQuiescent
PROPERTIES
  ImplementsDataflow
  Completes
CHECK_DEADLOCK FALSE
