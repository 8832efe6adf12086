SPECIFICATION Spec
CONSTANTS
  Bits = 2
  Options <- MCOptions
INVARIANTS AcceptsSeparateNetworks ServiceIPsReachable FilesFound ChainsVerify
CHECK_DEADLOCK FALSE
