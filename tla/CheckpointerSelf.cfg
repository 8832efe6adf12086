SPECIFICATION FairSpec
CONSTANTS
  Self = self
  Pods = {}
  Annotated = {self}
  ForeignPods = {}
  MaxVersion = 2
  GracePeriod = 1
  CheckpointTimeout = 0
  DiskFaults = FALSE
  MaxCrashes = 1
PROPERTIES SelfCollected SelfUpgraded
