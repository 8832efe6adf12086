SPECIFICATION FairSpec
CONSTANTS
  Self = self
  Pods = {a}
  Annotated = {a}
  ForeignPods = {}
  MaxVersion = 1
  GracePeriod = 2
  CheckpointTimeout = 1
  DiskFaults = FALSE
  MaxCrashes = 2
INVARIANTS TypeOK RemovalJustified
PROPERTIES DeletionJustified ActivatedInOutage HandedBack Collected HalfRemovedSettles
