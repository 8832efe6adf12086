SPECIFICATION FairSpec
CONSTANTS
  ns = ns
  crd1 = crd1
  crd2 = crd2
  cr1 = cr1
  cr2 = cr2
  pod = pod
  group = group
  Namespaces = {ns}
  Crds = {crd1, crd2}
  Manifests <- MCManifests
  NamespaceOf <- MCNamespaceOf
  DefinedBy <- MCDefinedBy
  Group <- MCGroup
  File <- MCFile
INVARIANTS NilMeansCreated StrictOrAll
PROPERTIES PrerequisitesFirst FailureHasReason Terminates
