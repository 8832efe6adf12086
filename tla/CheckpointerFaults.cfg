SPECIFICATION Spec
CONSTANTS
  Self = self
  Pods = {a}
  Annotated = {a, self}
  ForeignPods = {}
  MaxVersion = 1
  GracePeriod = 0
  CheckpointTimeout = 0
  DiskFaults = TRUE
  MaxCrashes = 1
INVARIANTS MemoryMatchesDisk StartHasSource
