------------------------------ MODULE Recover ------------------------------
(***************************************************************************)
(* bootkube recover (cmd/bootkube/recover.go, pkg/recovery): it lists four *)
(* kinds of objects from etcd or from an api server, one call after the    *)
(* other while the cluster may go on changing them, turns the workloads    *)
(* of the control plane into bootstrap pods, adds the secrets and          *)
(* configMaps these mount and a kubeconfig, and writes the lot into a      *)
(* directory for bootkube start.                                           *)
(*                                                                         *)
(* Lists, writes and the process itself may fail, and the command may be   *)
(* run again.  A workload stands for one version of a DaemonSet or         *)
(* Deployment; the files of one secret or configMap are one file here.     *)
(***************************************************************************)
EXTENDS FiniteSets, Integers

CONSTANTS
  Workloads,        \* versions of DaemonSets and Deployments
  AppOf,            \* the name of each, which names the file of its pod
  Labels,           \* its labels k8s-app and component; "": not set
  ControlPlane,     \* the ones that run the control plane
  SecretMounts,     \* the names of the secrets its pod mounts
  ConfigMapMounts,  \* and of the configMaps
  SecretNames, ConfigMapNames,
  Stores,           \* the states the store may be in when the command starts
  MaxChanges,       \* bound: changes to the store
  MaxRuns           \* bound: runs of the command

ASSUME MountsAssumption ==
  \A w \in Workloads : /\ SecretMounts[w] \subseteq SecretNames
                       /\ ConfigMapMounts[w] \subseteq ConfigMapNames

ASSUME BoundsAssumption == MaxChanges \in Nat /\ MaxRuns \in Nat

ASSUME ControlPlaneAssumption == ControlPlane \subseteq Workloads

VARIABLES
  store,    \* the objects of kube-system, by kind
  lasting,  \* history: the apps of the control plane, by kind, that have been in
            \* the store, in whatever version, since the run began
  pc,       \* where the command is
  backend,  \* the backend in use
  unread,   \* the kinds read() has yet to list
  cp,       \* controlPlane: what it has listed
  todo,     \* the assets WriteFiles has yet to write
  dir,      \* the files in recovery-dir
  result,   \* what the last run returned
  runs,     \* runs so far
  changes   \* changes of the store so far

vars == <<store, lasting, pc, backend, unread, cp, todo, dir, result, runs, changes>>

Kinds == {"configMaps", "daemonSets", "deployments", "secrets"}
Objects(kind) == CASE kind = "secrets" -> SecretNames
                   [] kind = "configMaps" -> ConfigMapNames
                   [] OTHER -> Workloads

\* The control plane in state s of the store.
AppsIn(s) == {<<x[1], AppOf[x[2]]>> : x \in
                {x \in {"daemonSets", "deployments"} \X ControlPlane : x[2] \in s[x[1]]}}

\* Objects of their kinds.
IsPlane(plane) == DOMAIN plane = Kinds /\ \A kind \in Kinds : plane[kind] \subseteq Objects(kind)

ASSUME StoresAssumption == \A s \in Stores : IsPlane(s)

NoObjects == [k \in Kinds |-> {}]

Init ==
  /\ store \in Stores
  /\ lasting = {}
  /\ pc = "done" /\ backend = "etcd" /\ unread = {} /\ cp = NoObjects /\ todo = {}
  /\ dir = {}
  /\ result = "none"
  /\ runs = 0 /\ changes = 0

----------------------------------------------------------------------------
(***************************************************************************)
(* What is recovered                                                       *)
(***************************************************************************)
bootstrapK8sApps == {"kube-apiserver", "kube-controller-manager", "kube-scheduler"}

\* The manifests of the control plane carry the name of their component in one
\* label or, in the old releases, in the other.
ASSUME LabelsAssumption ==
  \A w \in ControlPlane :
    \/ Labels[w].k8sApp \in bootstrapK8sApps
    \/ Labels[w].k8sApp = "" /\ Labels[w].component \in bootstrapK8sApps

isBootstrapApp(labels) ==
  (IF labels.k8sApp = "" THEN labels.component ELSE labels.k8sApp) \in bootstrapK8sApps

extractBootstrapPods(workloads) == {w \in workloads : isBootstrapApp(Labels[w])}

BootstrapPods(plane) == extractBootstrapPods(plane.daemonSets \cup plane.deployments)

\* fixUpBootstrapPods: the names its two maps collect.
RequiredSecrets(pods) == UNION {SecretMounts[w] : w \in pods}
RequiredConfigMaps(pods) == UNION {ConfigMapMounts[w] : w \in pods}

\* An asset: stage is its place in the list that WriteFiles works off, what
\* tells one file from another, of is the workload a pod's file holds.
Pod(w, stage) == [stage |-> stage, what |-> <<"pod", AppOf[w]>>, of |-> {w}]
Data(kind, name, stage) == [stage |-> stage, what |-> <<kind, name>>, of |-> {}]

\* Mutant: the kubeconfig goes first.
KubeConfigFirst == [stage |-> 0, what |-> <<"kubeconfig", "">>, of |-> {}]

\* renderKubeConfig; Recover appends its asset to the others.
KubeConfig == [stage |-> 5, what |-> <<"kubeconfig", "">>, of |-> {}]

\* outputBootstrapPods, outputBootstrapConfigMaps, outputBootstrapSecrets.
Rendered(plane) ==
  LET pods == BootstrapPods(plane)
  IN  {Pod(w, 1) : w \in extractBootstrapPods(plane.daemonSets)}
      \cup {Pod(w, 2) : w \in extractBootstrapPods(plane.deployments)}
      \cup {Data("configMap", n, 3) : n \in RequiredConfigMaps(pods)}
      \cup {Data("secret", n, 4) : n \in RequiredSecrets(pods)}
      \cup {KubeConfig}

\* outputKeyValueData fails unless every required object was listed.
Extractable(plane) ==
  /\ RequiredConfigMaps(BootstrapPods(plane)) \subseteq plane.configMaps
  /\ RequiredSecrets(BootstrapPods(plane)) \subseteq plane.secrets

----------------------------------------------------------------------------
(***************************************************************************)
(* The command                                                             *)
(***************************************************************************)
\* validateRecoverOpts: a required flag is empty, or one of certificate and key
\* is given without the other.
RejectFlags ==
  /\ pc = "done" /\ runs < MaxRuns
  /\ runs' = runs + 1
  /\ result' = "error"
  /\ UNCHANGED <<store, lasting, pc, backend, unread, cp, todo, dir, changes>>

\* runCmdRecover with valid flags: the kind of backend is one of them.
Begin ==
  /\ pc = "done" /\ runs < MaxRuns
  /\ runs' = runs + 1
  /\ backend' \in {"etcd", "apiserver"}
  /\ pc' = "read" /\ unread' = Kinds /\ cp' = NoObjects /\ todo' = {}
  /\ lasting' = AppsIn(store)
  /\ result' = "none"
  /\ UNCHANGED <<store, dir, changes>>

\* Both backends list configMaps first and secrets last; etcd's has the
\* DaemonSets before the Deployments, the api server's after them.
ReadOrder == IF backend = "etcd" THEN <<"configMaps", "daemonSets", "deployments", "secrets">>
                                 ELSE <<"configMaps", "deployments", "daemonSets", "secrets">>

NextToRead(kind) ==
  \E i \in 1..4 : /\ ReadOrder[i] = kind /\ kind \in unread
                  /\ \A j \in 1..(i - 1) : ReadOrder[j] \notin unread

\* Mutant: a failed list is taken for an empty one.
ListIgnoringErrors(kind) ==
  /\ pc = "read" /\ NextToRead(kind)
  /\ \E answer \in {store[kind], {}} : cp' = [cp EXCEPT ![kind] = answer]
  /\ unread' = unread \ {kind}
  /\ pc' = IF unread' = {} THEN "render" ELSE "read"
  /\ UNCHANGED <<store, lasting, backend, todo, dir, result, runs, changes>>

\* Mutant: the table of the etcd backend has secrets for configmaps.
ListMisfiled(kind) ==
  /\ pc = "read" /\ NextToRead(kind)
  /\ cp' = [cp EXCEPT ![IF kind = "configMaps" THEN "secrets" ELSE kind] = store[kind]]
  /\ unread' = unread \ {kind}
  /\ pc' = IF unread' = {} THEN "render" ELSE "read"
  /\ UNCHANGED <<store, lasting, backend, todo, dir, result, runs, changes>>

\* One list of read().
List(kind) ==
  /\ pc = "read" /\ NextToRead(kind)
  /\ cp' = [cp EXCEPT ![kind] = store[kind]]
  /\ unread' = unread \ {kind}
  /\ pc' = IF unread' = {} THEN "render" ELSE "read"
  /\ UNCHANGED <<store, lasting, backend, todo, dir, result, runs, changes>>

\* The run ends with an error and what is on disk stays.
Fails == /\ pc' = "done" /\ result' = "error" /\ unread' = {} /\ todo' = {}
         /\ UNCHANGED <<store, lasting, backend, cp, runs, changes>>

\* No connection, a failed list, or an object that cannot be decoded.
ReadFails == pc = "read" /\ Fails /\ UNCHANGED dir

\* renderBootstrap, and renderKubeConfig, which reads a file.
Render ==
  /\ pc = "render" /\ Extractable(cp)
  /\ todo' = Rendered(cp)
  /\ pc' = "open"
  /\ UNCHANGED <<store, lasting, backend, unread, cp, dir, result, runs, changes>>

RenderFails == pc = "render" /\ Fails /\ UNCHANGED dir

\* Mutant: a directory that is not empty is written into.
OpenDirAnyway ==
  /\ pc = "open"
  /\ pc' = "write"
  /\ UNCHANGED <<store, lasting, backend, unread, cp, todo, dir, result, runs, changes>>

\* WriteFiles: the directory is made, and must be empty.
OpenDir ==
  /\ pc = "open" /\ dir = {}
  /\ pc' = "write"
  /\ UNCHANGED <<store, lasting, backend, unread, cp, todo, dir, result, runs, changes>>

OpenDirFails == pc = "open" /\ Fails /\ UNCHANGED dir

NextToWrite(a) == a \in todo /\ \A b \in todo : a.stage <= b.stage

\* The directory with the file of asset a written, whole or not, over one of
\* the same name.
Written(a, whole) ==
  {f \in dir : f.what # a.what} \cup {[what |-> a.what, of |-> a.of, whole |-> whole, run |-> runs]}

WriteFile(a) ==
  /\ pc = "write" /\ NextToWrite(a)
  /\ dir' = Written(a, TRUE)
  /\ todo' = todo \ {a}
  /\ IF todo' = {} THEN pc' = "done" /\ result' = "ok" ELSE UNCHANGED <<pc, result>>
  /\ UNCHANGED <<store, lasting, backend, unread, cp, runs, changes>>

\* The write fails, or the process is killed in it: the file is there in part
\* or not at all.
WriteFileFails(a) ==
  /\ pc = "write" /\ NextToWrite(a)
  /\ dir' \in {dir, Written(a, FALSE)}
  /\ Fails

----------------------------------------------------------------------------
(***************************************************************************)
(* The world                                                               *)
(***************************************************************************)
SameName(kind, obj) ==
  IF obj \in Workloads THEN {w \in Workloads : AppOf[w] = AppOf[obj]} ELSE {obj}

\* An object is deleted, created, or updated to another version.
ChangeStore(kind, obj) ==
  /\ changes < MaxChanges /\ changes' = changes + 1
  /\ store' = [store EXCEPT ![kind] = IF obj \in @ THEN @ \ {obj}
                                     ELSE (@ \ SameName(kind, obj)) \cup {obj}]
  /\ lasting' = lasting \cap AppsIn(store')
  /\ UNCHANGED <<pc, backend, unread, cp, todo, dir, result, runs>>

\* The operator empties the directory before running the command again.
ClearDir ==
  /\ pc = "done" /\ dir # {}
  /\ dir' = {}
  /\ result' = "none"
  /\ UNCHANGED <<store, lasting, pc, backend, unread, cp, todo, runs, changes>>

Next ==
  \/ RejectFlags \/ Begin \/ ReadFails \/ Render \/ RenderFails \/ OpenDir \/ OpenDirFails \/ ClearDir
  \/ \E kind \in Kinds : List(kind)
  \/ \E a \in todo : WriteFile(a) \/ WriteFileFails(a)
  \/ \E kind \in Kinds : \E obj \in Objects(kind) : ChangeStore(kind, obj)

Spec == Init /\ [][Next]_vars
----------------------------------------------------------------------------
(***************************************************************************)
(* Properties                                                              *)
(***************************************************************************)
FileNames == {"pod"} \X {AppOf[w] : w \in Workloads}
             \cup {"secret"} \X SecretNames \cup {"configMap"} \X ConfigMapNames
             \cup {KubeConfig.what}

\* Lists and files are of their kinds; the command is done with listing before
\* it renders, and holds assets from then until the last one is written.
TypeOK ==
  /\ IsPlane(store) /\ IsPlane(cp)
  /\ lasting \subseteq AppsIn([k \in Kinds |-> Workloads])
  /\ pc \in {"done", "read", "render", "open", "write"}
  /\ backend \in {"etcd", "apiserver"}
  /\ unread \subseteq Kinds
  /\ unread # {} <=> pc = "read"
  /\ todo \subseteq [stage : 1..5, what : FileNames, of : SUBSET Workloads]
  /\ todo # {} <=> pc \in {"open", "write"}
  /\ dir \subseteq [what : FileNames, of : SUBSET Workloads, whole : BOOLEAN, run : 1..MaxRuns]
  /\ result \in {"none", "ok", "error"}
  /\ runs \in 0..MaxRuns /\ changes \in 0..MaxChanges

Holds(what) == \E f \in dir : f.what = what /\ f.whole

\* The kubeconfig, without which bootkube start does nothing, is the last file
\* written: a directory that has it whole has every file whole, and everything
\* its pods mount, although the objects were listed one kind after the other
\* while the cluster changed.  A run that failed or was killed never leaves a
\* directory that looks recovered.
KubeConfigCompletes ==
  Holds(KubeConfig.what) =>
    \A f \in dir : /\ f.whole
                   /\ \A w \in f.of :
                        /\ \A n \in SecretMounts[w] : Holds(<<"secret", n>>)
                        /\ \A n \in ConfigMapMounts[w] : Holds(<<"configMap", n>>)

\* A successful run has the pod of every component of the control plane that
\* was in the store from its start to its end, though it may have been updated
\* meanwhile, whichever label it carries and whichever backend was asked.
LastingRecovered ==
  result = "ok" => \A a \in lasting : Holds(<<"pod", a[2]>>)

\* Files of two runs never meet in one directory, whatever the first one left.
OneRun == \A f, g \in dir : f.run = g.run
============================================================================
