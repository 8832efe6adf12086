SPECIFICATION FairSpec
CONSTANTS
  Secrets = {ca, key}
  KubeConfig = kubeconfig
  Manifests = {apiserver, scheduler}
  Faults = {"copy", "remove"}
  MaxRuns = 3
INVARIANTS PreexistingUntouched SecretsBeforeManifests AssetsByOwnControlPlane CleanExit
PROPERTIES Terminates
