SPECIFICATION Spec
CONSTANTS
  Bits = 2
  Options <- MCOptions
INVARIANTS PodNetworkConfigured
CHECK_DEADLOCK FALSE
