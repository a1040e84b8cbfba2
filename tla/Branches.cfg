SPECIFICATION FairSpec
CONSTANTS
  Sites <- MCSites
  Scopes <- MCScopes
  Root = "root"
  Kind <- MCKind
  ScopeOf <- MCScopeOf
  Links <- MCLinks
  OutputOf <- MCOutputOf
  Owner <- MCOwner
  Index <- MCIndex
  Chain <- MCChain
  Element <- MCElement
  Breakpoints = {}
  Values <- MCValues
  Outcomes <- MCOutcomes
  RootInput = "one"
  Store = "sqlite"
  MaxDispatch = 3
  MaxFailures = 0
  MaxUnpauses = 0
  MaxCrashes = 2
  MaxMishaps = 2
INVARIANTS
  DispatchOnlyNeeded
PROPERTIES
  ImplementsDataflow
  Completes
CHECK_DEADLOCK FALSE
