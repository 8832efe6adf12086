SPECIFICATION Spec
CONSTANTS
  api1 = api1
  api2 = api2
  scheduler = scheduler
  proxy = proxy
  ca = ca
  etcdTLS = etcdTLS
  config = config
  Workloads = {api1, api2, scheduler, proxy}
  ControlPlane = {api1, api2, scheduler}
  AppOf <- MCAppOf
  Labels <- MCLabels
  SecretMounts <- MCSecretMounts
  ConfigMapMounts <- MCConfigMapMounts
  SecretNames = {ca, etcdTLS}
  ConfigMapNames = {config}
  Stores <- MCStores
  MaxChanges = 2
  MaxRuns = 2
INVARIANTS TypeOK KubeConfigCompletes LastingRecovered OneRun
CHECK_DEADLOCK FALSE
