SPECIFICATION Spec
CONSTANTS
  None = None
  Err = Err
  LegacyGraphs <- UsedTwice
  Runs = {}
  ProfileNames = {"site", "..", "home/site"}
  PathNames = {"home/site"}
  Disks <- AllDisks
  Environments <- AllEnvironments
  ExecutorNames = {"memory", "slurm"}
  DefaultExecutor = "memory"
  MaxRestarts = 0
  MaxEdits = 0
  MaxAttempts = 0
INVARIANT
  LinksPreserved
CHECK_DEADLOCK FALSE
