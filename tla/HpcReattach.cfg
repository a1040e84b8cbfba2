SPECIFICATION Spec
CONSTANTS
  Keys = {"a"}
  Setups <- MCSlurm
  Pids = {1, 2}
  Capacity = 1
  Registry <- MCRegistry
  MaxRestarts = 1
INVARIANTS
  ReattachedOutputs
CHECK_DEADLOCK FALSE
