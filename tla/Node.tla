-------------------------------- MODULE Node --------------------------------
(***************************************************************************)
(* The only master of a self-hosted cluster: the pod checkpointer together *)
(* with what it watches and drives.  The api server is one of the pods it  *)
(* checkpoints, so the answers it gets depend on the manifests it wrote.   *)
(*                                                                         *)
(* The checkpointer runs twice: in its parent pod, and in the static pod   *)
(* of its own checkpoint.  cmd/checkpoint/main.go takes a flock before it  *)
(* does anything else; the process that holds it runs the loop of          *)
(* Checkpointer, the other one waits, and the death of the holder is the   *)
(* Crash of that module.                                                   *)
(*                                                                         *)
(* The kubelet, the container runtime and the api server are external and  *)
(* are modelled as the checkpointer uses them: answers to its three        *)
(* questions, and static pods run from the manifests directory.  A static  *)
(* pod's name carries the node's name, so a checkpoint is never taken for  *)
(* its parent.                                                             *)
(***************************************************************************)
EXTENDS Checkpointer

CONSTANTS
  ApiServer,       \* the api server's pod, one of Pods
  MaxDisruptions   \* bound: deaths of containers, kubelet restarts and reboots

\* The templates put both pods in kube-system and annotate both.
ASSUME ApiServerAssumption == ApiServer \in Pods \ ForeignPods
ASSUME CheckpointedAssumption == {ApiServer, Self} \subseteq Annotated
ASSUME NodeVersionAssumption == MaxVersion >= 1
ASSUME MaxDisruptionsAssumption == MaxDisruptions \in Nat

VARIABLES
  scheduled,   \* the parents bound to the node in the api server's store
  known,       \* the parents the kubelet knows
  sandboxes,   \* the parents that have a ready sandbox
  parents,     \* the parents that have a running container
  statics,     \* the checkpoints that have a running container
  holder,      \* the process that holds the flock
  asked,       \* how many of its three sources it has asked in this turn
  localParents, localRunning,  \* what the first two of them answered
  disruptions  \* so far

kubelet == <<known, sandboxes, parents, statics>>
asking == <<asked, localParents, localRunning>>
env == <<scheduled, kubelet, holder, asking, disruptions>>
nodeVars == <<vars, env>>

NoProcess == "none"

\* The cluster right after bootkube has handed over to it, nothing
\* checkpointed yet.
NodeInit ==
  /\ Init
  /\ scheduled = Annotated
  /\ known = Annotated /\ sandboxes = Annotated /\ parents = Annotated
  /\ statics = {}
  /\ holder = NoProcess
  /\ asked = 0 /\ localParents = {} /\ localRunning = {}
  /\ disruptions = 0

ApiUp == ApiServer \in parents \cup statics

\* A manifest that can run: the assets its volumes point at are on disk.
Usable(manifest, p) == manifest[p] # NoVersion /\ manifest[p] \in secrets[p] \cap configMaps[p]

----------------------------------------------------------------------------
(***************************************************************************)
(* The checkpointer's processes                                            *)
(***************************************************************************)
\* Mutant: the kubelet's list is taken for the api server's.
ObservedOfKubelet ==
  [apiAvailable |-> ApiUp,
   apiParents |-> [p \in AllPods |-> IF ApiUp /\ p \in localParents \ ForeignPods THEN 1 ELSE NoVersion],
   localParents |-> [p \in AllPods |-> IF p \in localParents THEN 1 ELSE NoVersion],
   localRunning |-> localRunning]

\* The answers of this turn, that of getAPIParentPods being given now.
Observed ==
  [apiAvailable |-> ApiUp,
   apiParents |-> [p \in AllPods |-> IF ApiUp /\ p \in scheduled \ ForeignPods THEN 1 ELSE NoVersion],
   localParents |-> [p \in AllPods |-> IF p \in localParents THEN 1 ELSE NoVersion],
   localRunning |-> localRunning]

\* localParentPods, then localRunningPods: the node may change in between, and
\* before the api server is asked.
AskKubelet ==
  /\ Idle /\ asked = 0
  /\ asked' = 1 /\ localParents' = known
  /\ UNCHANGED <<vars, localRunning>>

AskRuntime ==
  /\ asked = 1
  /\ asked' = 2 /\ localRunning' = sandboxes \cup parents
  /\ UNCHANGED <<vars, localParents>>

NothingAsked == asked' = 0 /\ localParents' = {} /\ localRunning' = {}

\* Fetching assets succeeds while the api server is up.
FetchAssets(p) ==
  \/ CheckpointSecrets(p) /\ (ApiUp \/ Fetched(p) = {})
  \/ CheckpointSecretsFails(p) /\ ~ApiUp /\ Fetched(p) # {} /\ UNCHANGED secrets
  \/ /\ CheckpointConfigMaps(p)
     /\ configMaps'[p] = configMaps[p] \cup (IF ApiUp THEN Fetched(p) ELSE {})

\* One step of run() in the process that holds the flock.
HolderStep ==
  /\ holder # NoProcess
  /\ \/ AskKubelet \/ AskRuntime
     \/ asked = 2 /\ Update(Observed) /\ NothingAsked
     \/ /\ \/ Process
           \/ \E p \in AllPods :
                \/ WriteManifest(p) \/ FetchAssets(p)
                \/ HandleStop(p) \/ HandleStart(p)
                \/ RemoveSecrets(p) \/ RemoveConfigMaps(p) \/ RemoveInactive(p) \/ RemoveActive(p)
        /\ UNCHANGED asking
  /\ UNCHANGED <<scheduled, kubelet, holder, disruptions>>

\* Mutant: the checkpoint's process does not compete for the lock.
AcquireParentOnly(q) ==
  /\ holder = NoProcess
  /\ q = "parent" /\ Self \in parents
  /\ holder' = q
  /\ UNCHANGED <<vars, scheduled, kubelet, asking, disruptions>>

\* main: flock returns in one of the waiting processes.
Acquire(q) ==
  /\ holder = NoProcess
  /\ Self \in (IF q = "parent" THEN parents ELSE statics)
  /\ holder' = q
  /\ UNCHANGED <<vars, scheduled, kubelet, asking, disruptions>>

\* Mutant: a lock file in place of the flock stays behind.
DiesLockStays(q) ==
  IF holder = q THEN UNCHANGED holder /\ Crash /\ NothingAsked ELSE UNCHANGED <<vars, holder, asking>>

\* A process of the checkpointer dies; the kernel drops the lock with it.
Dies(q) ==
  IF holder = q THEN holder' = NoProcess /\ Crash /\ NothingAsked ELSE UNCHANGED <<vars, holder, asking>>

ParentDies(p) == IF p = Self THEN Dies("parent") ELSE UNCHANGED <<vars, holder, asking>>
StaticDies(p) == IF p = Self THEN Dies("static") ELSE UNCHANGED <<vars, holder, asking>>

----------------------------------------------------------------------------
(***************************************************************************)
(* The kubelet.  Parent and checkpoint of the api server bind the same     *)
(* port of the host: one of the two runs.                                  *)
(***************************************************************************)
KubeletSync ==
  /\ ApiUp
  /\ known' = scheduled
  /\ UNCHANGED <<vars, scheduled, sandboxes, parents, statics, holder, asking, disruptions>>

StartSandbox(p) ==
  /\ p \in known \ sandboxes
  /\ sandboxes' = sandboxes \cup {p}
  /\ UNCHANGED <<vars, scheduled, known, parents, statics, holder, asking, disruptions>>

StartParent(p) ==
  /\ p \in (known \cap sandboxes) \ parents
  /\ p = ApiServer => p \notin statics
  /\ parents' = parents \cup {p}
  /\ UNCHANGED <<vars, scheduled, known, sandboxes, statics, holder, asking, disruptions>>

StartStatic(p) ==
  /\ p \notin statics /\ Usable(active, p)
  /\ p = ApiServer => p \notin parents
  /\ statics' = statics \cup {p}
  /\ UNCHANGED <<vars, scheduled, known, sandboxes, parents, holder, asking, disruptions>>

KillStatic(p) ==
  /\ p \in statics /\ active[p] = NoVersion
  /\ statics' = statics \ {p}
  /\ StaticDies(p)
  /\ UNCHANGED <<scheduled, known, sandboxes, parents, disruptions>>

----------------------------------------------------------------------------
(***************************************************************************)
(* What happens to a node                                                  *)
(***************************************************************************)
Disruption == disruptions < MaxDisruptions /\ disruptions' = disruptions + 1

ParentContainerDies(p) ==
  /\ Disruption
  /\ p \in parents /\ parents' = parents \ {p}
  /\ ParentDies(p)
  /\ UNCHANGED <<scheduled, known, sandboxes, statics>>

StaticContainerDies(p) ==
  /\ Disruption
  /\ p \in statics /\ statics' = statics \ {p}
  /\ StaticDies(p)
  /\ UNCHANGED <<scheduled, known, sandboxes, parents>>

\* The kubelet forgets the pods it had from the api server.
KubeletRestart ==
  /\ Disruption
  /\ known' = {}
  /\ UNCHANGED <<vars, scheduled, sandboxes, parents, statics, holder, asking>>

\* Everything but the disk is lost.
Reboot ==
  /\ Disruption
  /\ known' = {}
  /\ sandboxes' = {} /\ parents' = {} /\ statics' = {}
  /\ IF holder # NoProcess THEN Crash ELSE UNCHANGED vars
  /\ holder' = NoProcess /\ NothingAsked
  /\ UNCHANGED scheduled

KubeletStep(p) ==
  StartSandbox(p) \/ StartParent(p) \/ StartStatic(p) \/ KillStatic(p)

NodeTick == Tick /\ UNCHANGED env

AcquireLock == \E q \in {"parent", "static"} : Acquire(q)

NodeNext ==
  \/ HolderStep \/ NodeTick \/ AcquireLock
  \/ KubeletSync
  \/ \E p \in AllPods : KubeletStep(p)
  \/ \E p \in AllPods : ParentContainerDies(p) \/ StaticContainerDies(p)
  \/ KubeletRestart \/ Reboot

\* The loop, the clock, the lock and the kubelet go on; nothing that happens
\* to the node has to happen.
Fairness ==
  /\ WF_nodeVars(HolderStep) /\ WF_nodeVars(NodeTick) /\ WF_nodeVars(AcquireLock)
  /\ WF_nodeVars(KubeletSync)
  /\ \A p \in AllPods :
       /\ WF_nodeVars(StartSandbox(p)) /\ WF_nodeVars(StartParent(p))
       /\ WF_nodeVars(StartStatic(p)) /\ WF_nodeVars(KillStatic(p))

NodeSpec == NodeInit /\ [][NodeNext]_nodeVars /\ Fairness
----------------------------------------------------------------------------
(***************************************************************************)
(* Properties                                                              *)
(***************************************************************************)
\* The lock is with a process that lives, and nothing is under way without it;
\* answers are kept only in the process that asked.
NodeTypeOK ==
  /\ scheduled \subseteq AllPods
  /\ known \subseteq AllPods /\ sandboxes \subseteq AllPods
  /\ parents \subseteq AllPods /\ statics \subseteq AllPods
  /\ holder \in {NoProcess, "parent", "static"}
  /\ disruptions \in 0..MaxDisruptions
  /\ holder = "parent" => Self \in parents
  /\ holder = "static" => Self \in statics
  /\ holder = NoProcess => Idle
  /\ asked \in 0..2 /\ localParents \subseteq AllPods /\ localRunning \subseteq AllPods
  /\ asked > 0 => holder # NoProcess /\ Idle

\* What a reboot needs to find on disk: a checkpointer that starts by itself,
\* and a checkpoint of the api server for it to activate.
Recoverable == Usable(active, Self) /\ Usable(inactive, ApiServer)

\* The sandbox of an api server that does not run, and that the kubelet does
\* not know: localRunningPods counts it as running, so its checkpoint is not
\* started, and nobody else would.
Stranded == ApiServer \in sandboxes \ (parents \cup statics \cup known)

\* Once a reboot can be survived it stays so: no crash, reboot or outage, at no
\* step of the loop, takes the files away that the next reboot needs.
RecoverableKept == [][Recoverable => Recoverable']_nodeVars

\* With the api server up, the node eventually reaches that point, although a
\* fetch may have failed before; lastCheckpoint makes the loop try again.
BecomesRecoverable == <>[]ApiUp => <>Recoverable

\* From there on the control plane always returns and ends up in its parent
\* pod, the checkpoint stopped; the one dead end is Stranded.
ControlPlaneReturns ==
  <>[]Recoverable => \/ <>[](ApiServer \in parents \ statics /\ active[ApiServer] = NoVersion)
                     \/ <>[]Stranded
=============================================================================
