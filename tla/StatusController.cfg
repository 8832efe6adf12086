SPECIFICATION FairSpec
CONSTANTS
  apiserver = apiserver
  scheduler = scheduler
  apiserver1 = apiserver1
  apiserver2 = apiserver2
  scheduler1 = scheduler1
  Watched = {apiserver, scheduler}
  Pods = {apiserver1, apiserver2, scheduler1}
  Matches <- MCMatches
  Nodes = {node}
  MaxChanges = 3
INVARIANTS PivotJustified
PROPERTIES PivotsWhenUp
