SPECIFICATION Spec
CONSTANTS
  Self = self
  Pods = {a}
  Annotated = {a, self}
  ForeignPods = {}
  MaxVersion = 1
  GracePeriod = 1
  CheckpointTimeout = 0
  DiskFaults = FALSE
  MaxCrashes = 0
INVARIANTS RestartedAfterSelfStop
