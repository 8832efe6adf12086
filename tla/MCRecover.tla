----------------------------- MODULE MCRecover -----------------------------
(***************************************************************************)
(* Values for Recover: an api server in two versions, the second of which  *)
(* mounts one more secret, a scheduler with the label of the old releases, *)
(* and a proxy, which is not part of the control plane.                    *)
(***************************************************************************)
EXTENDS Recover, TLC

CONSTANTS api1, api2, scheduler, proxy, ca, etcdTLS, config

MCAppOf == (api1 :> "api") @@ (api2 :> "api") @@ (scheduler :> "scheduler") @@ (proxy :> "proxy")

MCLabels ==
  (api1 :> [k8sApp |-> "kube-apiserver", component |-> ""])
  @@ (api2 :> [k8sApp |-> "kube-apiserver", component |-> ""])
  @@ (scheduler :> [k8sApp |-> "", component |-> "kube-scheduler"])
  @@ (proxy :> [k8sApp |-> "kube-proxy", component |-> ""])

MCSecretMounts ==
  (api1 :> {ca}) @@ (api2 :> {ca, etcdTLS}) @@ (scheduler :> {}) @@ (proxy :> {})

MCConfigMapMounts ==
  (api1 :> {}) @@ (api2 :> {}) @@ (scheduler :> {config}) @@ (proxy :> {config})

\* The api server is a DaemonSet; the scheduler is a Deployment, or a DaemonSet
\* too, as in older releases; the new secret is there or yet to be created.
MCStores ==
  {[configMaps |-> {config}, secrets |-> s, daemonSets |-> {api1, proxy} \cup ds, deployments |-> {scheduler} \ ds]
     : s \in {{ca}, {ca, etcdTLS}}, ds \in {{}, {scheduler}}}
============================================================================
