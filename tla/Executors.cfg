SPECIFICATION FairSpec
CONSTANTS
  Keys = {"a", "b"}
  Setups <- MCSetups
  Pids = {1, 2}
  Capacity = 1
  Registry <- MCRegistry
  MaxRestarts = 1
INVARIANTS
  TypeOK
  CompleteIsWritten
  OneLiveJob
  StopsOnlyOwn
  SettlesOnce
  ServiceFailsOnlyOnCancel
  ExecuteSucceeds
  CancelHonoured
PROPERTIES
  Settles
CHECK_DEADLOCK FALSE
