SPECIFICATION NodeSpec
CONSTANTS
  Self = self
  Pods = {apiserver}
  ApiServer = apiserver
  Annotated = {apiserver, self}
  ForeignPods = {}
  MaxVersion = 1
  GracePeriod = 0
  CheckpointTimeout = 1
  DiskFaults = FALSE
  MaxCrashes = 4
  MaxDisruptions = 3
INVARIANTS NodeTypeOK
PROPERTIES RecoverableKept BecomesRecoverable ControlPlaneReturns
