SPECIFICATION Spec
CONSTANTS
  None = None
  Err = Err
  LegacyGraphs <- Submitted
  Runs = {r1}
  ProfileNames = {"site", "..", "home/site"}
  PathNames = {"home/site"}
  Disks <- AllDisks
  Environments <- AllEnvironments
  ExecutorNames = {"memory", "slurm"}
  DefaultExecutor = "memory"
  MaxRestarts = 1
  MaxEdits = 1
  MaxAttempts = 1
INVARIANTS
  LinksPreserved
  RejectsMalformed
  NearestAnnotation
  OneReading
  KeepsServing
PROPERTIES
  ResumesInPlace
CHECK_DEADLOCK FALSE
