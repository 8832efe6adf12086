---------------------------- MODULE Checkpointer ----------------------------
(***************************************************************************)
(* The pod checkpointer of one node (pkg/checkpoint): the loop of run()    *)
(* that observes the kubelet, the container runtime and the api server,    *)
(* updates the checkpoints it keeps in memory, writes manifests and their  *)
(* secrets and configMaps to disk, and starts, stops and removes           *)
(* checkpoints.                                                            *)
(*                                                                         *)
(* Every write to disk is a step of its own, so a crash can fall between   *)
(* any two of them.  A crash loses the memory and keeps the disk; the next *)
(* process (a restart, or the waiting holder of the flock) starts from an  *)
(* empty map.                                                              *)
(*                                                                         *)
(* The sources are not trusted: an observation is any answer they can      *)
(* give, stale or wrong, independent of the one before.                    *)
(*                                                                         *)
(* A pod is a name (namespace/name); its spec is abstracted to a version   *)
(* in 1..MaxVersion, 0 standing for "no such pod" and "no such file".      *)
(***************************************************************************)
EXTENDS CheckpointState

CONSTANTS
  Pods,              \* the pods of the node other than the checkpointer
  Self,              \* the checkpointer's own pod
  Annotated,         \* the pods that isValidParent accepts
  ForeignPods,       \* the Pods outside the checkpointer's namespace
  MaxVersion,        \* bound: how many versions of a pod spec there are
  CheckpointTimeout, \* defaultCheckpointTimeout, in clock ticks
  DiskFaults,        \* whether a write or an unlink may fail
  MaxCrashes         \* bound: how often the process may be restarted

ASSUME SelfAssumption == Self \notin Pods
ASSUME AnnotatedAssumption == Annotated \subseteq Pods \cup {Self}
ASSUME ForeignPodsAssumption == ForeignPods \subseteq Pods
ASSUME MaxVersionAssumption == MaxVersion \in Nat
ASSUME CheckpointTimeoutAssumption == CheckpointTimeout \in Nat
ASSUME DiskFaultsAssumption == DiskFaults \in BOOLEAN
ASSUME MaxCrashesAssumption == MaxCrashes \in Nat

VARIABLES
  pc,           \* where run() is: see Places
  obs,          \* this cycle's answers of the kubelet, the CRI and the api server
  cpState,      \* checkpoint.state of every pod; Untracked: no entry
  cpPod,        \* checkpoint.pod: the version, and whether it came from disk
  needsUpdate,  \* needsCheckpointUpdate of this cycle
  recheck,      \* ticks until lastCheckpoint is defaultCheckpointTimeout old
  todo,         \* parents createCheckpointsForValidParents has yet to do
  cur,          \* the pod in hand between two disk steps (a set of at most one)
  starts, stops, removes,  \* what process returned and is not handled yet
  active,       \* version of the manifest in activeCheckpointPath
  inactive,     \* version of the manifest in inactiveCheckpointPath
  secrets,      \* versions some of whose secrets are stored; {}: no directory
  configMaps,   \* the same for configMaps
  crashes,      \* restarts so far
  gone,         \* history: ticks since the api server first omitted the pod
  allStopped,   \* history: this process took the self-stop branch of process
  faulted       \* history: a disk operation of this process failed

memory == <<cpState, cpPod, needsUpdate, recheck>>
work == <<todo, cur, starts, stops, removes>>
assets == <<secrets, configMaps>>
disk == <<active, inactive, secrets, configMaps>>
history == <<gone, allStopped, faulted>>
vars == <<pc, obs, memory, work, disk, crashes, history>>

AllPods == Pods \cup {Self}
Versions == 1..MaxVersion
NoVersion == 0                        \* no pod, no manifest
VersionOrNone == 0..MaxVersion

\* Places in the loop body of run(), and the two multi-step handlers.
Places == {"create", "secrets", "configMaps", "handle",
           "removeConfigMaps", "removeInactive", "removeActive"}

\* isValidParent filters what the kubelet and the api server list.
\* localParentPods: the kubelet lists the pods of the node; a failed call is
\* an empty answer.
LocalParentAnswers ==
  {f \in [AllPods -> VersionOrNone] : \A p \in AllPods \ Annotated : f[p] = NoVersion}

\* getAPIParentPods: the api server is asked for the checkpointer's namespace
\* only.
ApiParentAnswers == {f \in LocalParentAnswers : \A p \in ForeignPods : f[p] = NoVersion}

NoParents == [p \in AllPods |-> NoVersion]

\* localRunningPods: the container runtime lists the pods that have a running
\* container or a ready sandbox; a failed call is an empty answer.  It is only ever
\* looked up for tracked pods, so the other names in it are left out.
LocalRunningAnswers == SUBSET Annotated

\* What the three can say in one cycle.  A failed api call is apiAvailable =
\* FALSE with no parents.
Observations ==
  {o \in [apiAvailable : BOOLEAN, apiParents : ApiParentAnswers,
          localParents : LocalParentAnswers, localRunning : LocalRunningAnswers] :
     ~o.apiAvailable => o.apiParents = NoParents}

NoObservation == [apiAvailable |-> FALSE, apiParents |-> NoParents,
                  localParents |-> NoParents, localRunning |-> {}]

\* A pod spec in memory.  One read back from a manifest is sanitized already:
\* its secret and configMap volumes are host paths.
PodSpecs == [version : VersionOrNone, sanitized : BOOLEAN]
NoSpec == [version |-> NoVersion, sanitized |-> FALSE]
Parent(v) == [version |-> v, sanitized |-> FALSE]
FromDisk(v) == [version |-> v, sanitized |-> TRUE]

\* "Never omitted": the api server's latest answer lists the pod, or it has
\* not answered yet.
NotGone == -1

Init ==
  /\ pc = "handle"
  /\ obs = NoObservation
  /\ cpState = [p \in AllPods |-> Untracked]
  /\ cpPod = [p \in AllPods |-> NoSpec]
  /\ needsUpdate = FALSE
  /\ recheck = 0                      \* lastCheckpoint.IsZero()
  /\ todo = {} /\ cur = {}
  /\ starts = {} /\ stops = {} /\ removes = {}
  /\ active = [p \in AllPods |-> NoVersion]
  /\ inactive = [p \in AllPods |-> NoVersion]
  /\ secrets = [p \in AllPods |-> {}]
  /\ configMaps = [p \in AllPods |-> {}]
  /\ crashes = 0
  /\ gone = [p \in AllPods |-> NotGone]
  /\ allStopped = FALSE
  /\ faulted = FALSE

Tracked(p) == cpState[p].kind # "Untracked"

\* The previous cycle is over: everything process returned is handled.
Idle == pc = "handle" /\ stops = {} /\ starts = {} /\ removes = {}

----------------------------------------------------------------------------
(***************************************************************************)
(* Gathering and checkpoints.update                                        *)
(***************************************************************************)
\* Mutant: an active manifest is taken for the kubelet's affair.
UpdatedStateInactiveOnly(p, o, act, inact) ==
  IF Tracked(p) THEN cpState[p]
  ELSE IF p = Self /\ \/ inact[p] # NoVersion
                      \/ o.localParents[p] # NoVersion \/ o.apiParents[p] # NoVersion
       THEN stateSelfCheckpointActive
  ELSE IF inact[p] # NoVersion THEN stateInactive
  ELSE IF o.localParents[p] # NoVersion \/ o.apiParents[p] # NoVersion THEN stateNone
  ELSE Untracked

\* The state update leaves a pod in: kept if it is tracked, else what the
\* manifests read from disk say (act, inact), else stateNone for a new parent.
\* The self checkpoint is never stateNone, Active or Inactive when it is first
\* seen.
UpdatedState(p, o, act, inact) ==
  IF Tracked(p) THEN cpState[p]
  ELSE IF p = Self /\ \/ act[p] # NoVersion \/ inact[p] # NoVersion
                      \/ o.localParents[p] # NoVersion \/ o.apiParents[p] # NoVersion
       THEN stateSelfCheckpointActive
  ELSE IF act[p] # NoVersion THEN stateActive
  ELSE IF inact[p] # NoVersion THEN stateInactive
  ELSE IF o.localParents[p] # NoVersion \/ o.apiParents[p] # NoVersion THEN stateNone
  ELSE Untracked

\* The pod update leaves with it: the api server's copy before the kubelet's,
\* then the one already in memory, then the active manifest's, then the
\* inactive one's.
UpdatedPod(p, o, act, inact) ==
  IF o.apiParents[p] # NoVersion THEN Parent(o.apiParents[p])
  ELSE IF o.localParents[p] # NoVersion THEN Parent(o.localParents[p])
  ELSE IF Tracked(p) THEN cpPod[p]
  ELSE IF act[p] # NoVersion THEN FromDisk(act[p])
  ELSE IF inact[p] # NoVersion THEN FromDisk(inact[p])
  ELSE NoSpec

\* How long the api server has been omitting p, given its answer o.
GoneAfter(p, o) ==
  IF ~o.apiAvailable THEN gone[p]
  ELSE IF o.apiParents[p] # NoVersion THEN NotGone
  ELSE IF gone[p] = NotGone THEN 0 ELSE gone[p]

\* One turn of the loop up to and including update, and the test at the top
\* of createCheckpointsForValidParents.
UpdateFrom(o, act, inact) ==
  /\ Idle
  /\ obs' = o
  /\ cpState' = [p \in AllPods |-> UpdatedState(p, o, act, inact)]
  /\ cpPod' = [p \in AllPods |-> UpdatedPod(p, o, act, inact)]
  /\ needsUpdate' = (recheck = 0)
  /\ todo' = {p \in AllPods : UpdatedState(p, o, act, inact).kind # "Untracked"}
  /\ gone' = [p \in AllPods |-> GoneAfter(p, o)]
  /\ pc' = "create"
  /\ UNCHANGED <<recheck, cur, starts, stops, removes, disk, crashes, allStopped>>

Update(o) == UpdateFrom(o, active, inactive) /\ UNCHANGED faulted

\* getFileCheckpoints passes over the manifests it cannot read or decode.
Readable(manifest, unreadable) ==
  [p \in AllPods |-> IF p \in unreadable THEN NoVersion ELSE manifest[p]]

\* Some manifests are passed over.  Those of tracked pods are never looked at.
UpdateUnreadable(o) ==
  /\ DiskFaults
  /\ \E a \in SUBSET {p \in AllPods : ~Tracked(p) /\ active[p] # NoVersion},
       i \in SUBSET {p \in AllPods : ~Tracked(p) /\ inactive[p] # NoVersion} :
         a \cup i # {} /\ UpdateFrom(o, Readable(active, a), Readable(inactive, i))
  /\ faulted' = TRUE

----------------------------------------------------------------------------
(***************************************************************************)
(* createCheckpointsForValidParents                                        *)
(***************************************************************************)
\* The checkpoints of the map come first, in any order; the self checkpoint
\* is appended last.
NextToCreate(p) == p \in todo /\ (p = Self => todo = {Self})

\* Mutant: a spec read back from disk is taken for already written.
WriteManifestOfParents(p) ==
  /\ pc = "create" /\ NextToCreate(p)
  /\ inactive' = IF cpPod[p].sanitized THEN inactive
                 ELSE [inactive EXCEPT ![p] = cpPod[p].version]
  /\ todo' = todo \ {p}
  /\ UNCHANGED <<pc, obs, memory, cur, starts, stops, removes, active, assets, crashes, history>>

\* Mutant: assets are fetched with a new manifest and never again.
WriteManifestFetchOnce(p) ==
  /\ pc = "create" /\ NextToCreate(p)
  /\ inactive' = [inactive EXCEPT ![p] = cpPod[p].version]
  /\ IF inactive[p] # cpPod[p].version
       THEN pc' = "secrets" /\ cur' = {p} /\ UNCHANGED todo
       ELSE todo' = todo \ {p} /\ UNCHANGED <<pc, cur>>
  /\ UNCHANGED <<obs, memory, starts, stops, removes, active, assets, crashes, history>>

\* writeCheckpointManifest, and whether the pod's assets are due as well.
WriteManifest(p) ==
  /\ pc = "create" /\ NextToCreate(p)
  /\ inactive' = [inactive EXCEPT ![p] = cpPod[p].version]
  /\ IF inactive[p] # cpPod[p].version \/ needsUpdate
       THEN pc' = "secrets" /\ cur' = {p} /\ UNCHANGED todo
       ELSE todo' = todo \ {p} /\ UNCHANGED <<pc, cur>>
  /\ UNCHANGED <<obs, memory, starts, stops, removes, active, assets, crashes, history>>

\* It fails: nothing is renamed, or only the final chown failed.
WriteManifestFails(p) ==
  /\ DiskFaults
  /\ pc = "create" /\ NextToCreate(p)
  /\ \E v \in {inactive[p], cpPod[p].version} :
       inactive' = [inactive EXCEPT ![p] = v]
  /\ todo' = todo \ {p}
  /\ faulted' = TRUE
  /\ UNCHANGED <<pc, obs, memory, cur, starts, stops, removes, active, assets,
                 crashes, gone, allStopped>>

\* The assets a complete fetch adds to a pod's directory; a failed one adds
\* some of them or none.  A spec read from disk has no volumes to fetch for.
Fetched(p) == IF cpPod[p].sanitized THEN {} ELSE {cpPod[p].version}

\* checkpointSecretVolumes.  It asks the api server, which may answer or not
\* whatever it answered at the start of the cycle.
CheckpointSecrets(p) ==
  /\ pc = "secrets" /\ cur = {p}
  /\ secrets' = [secrets EXCEPT ![p] = @ \cup Fetched(p)]
  /\ pc' = "configMaps"
  /\ UNCHANGED <<obs, memory, work, active, inactive, configMaps, crashes, history>>

\* It fails: the configMaps are not tried.
CheckpointSecretsFails(p) ==
  /\ pc = "secrets" /\ cur = {p}
  /\ \E stored \in {{}, Fetched(p)} : secrets' = [secrets EXCEPT ![p] = @ \cup stored]
  /\ pc' = "create" /\ cur' = {} /\ todo' = todo \ {p}
  /\ UNCHANGED <<obs, memory, starts, stops, removes, active, inactive, configMaps,
                 crashes, history>>

\* checkpointConfigMapVolumes, successful or not, is the last step for a pod.
CheckpointConfigMaps(p) ==
  /\ pc = "configMaps" /\ cur = {p}
  /\ \E stored \in {{}, Fetched(p)} :
       configMaps' = [configMaps EXCEPT ![p] = @ \cup stored]
  /\ pc' = "create" /\ cur' = {} /\ todo' = todo \ {p}
  /\ UNCHANGED <<obs, memory, starts, stops, removes, active, inactive, secrets,
                 crashes, history>>

----------------------------------------------------------------------------
(***************************************************************************)
(* checkpoints.process                                                     *)
(***************************************************************************)
Condition(p) == [apiAvailable |-> obs.apiAvailable,
                 apiParent |-> obs.apiParents[p] # NoVersion,
                 localRunning |-> p \in obs.localRunning,
                 localParent |-> obs.localParents[p] # NoVersion]

NextState(p) == Transition(cpState[p], Condition(p))

\* The checkpoints a stopped or removed self checkpoint takes along.
Checkpointed == {p \in Pods : Action(cpState[p]) # "none"}

\* Mutant: a new checkpoint, which asked for nothing so far, is passed over.
ChangedActions(act) == {p \in Pods : /\ Action(NextState(p)) = act
                                     /\ Action(cpState[p]) \notin {act, "none"}}

\* Pods of the map whose new state asks for another action than the old one.
Changed(act) == {p \in Pods : /\ Action(NextState(p)) = act
                              /\ Action(cpState[p]) # act}

\* An entry in stateRemove is deleted from the map.
Kept(state) == IF Action(state) = "remove" THEN Untracked ELSE state

\* The end of createCheckpointsForValidParents and the start of process:
\* every parent is done, and lastCheckpoint is set if the assets were due,
\* whether or not fetching them succeeded.
BeginProcess ==
  /\ pc = "create" /\ todo = {}
  /\ recheck' = IF needsUpdate THEN CheckpointTimeout ELSE recheck
  /\ needsUpdate' = FALSE
  /\ pc' = "handle"
  /\ obs' = NoObservation
  /\ UNCHANGED <<cpPod, todo, cur, disk, crashes, gone, faulted>>

\* The self checkpoint is absent or stays started: every other checkpoint
\* takes its transition.  An untracked pod has no transition.
ProcessAll ==
  /\ BeginProcess
  /\ Action(NextState(Self)) \in {"none", "start"}
  /\ cpState' = [p \in AllPods |-> IF p = Self THEN NextState(p) ELSE Kept(NextState(p))]
  /\ starts' = Changed("start")
               \cup {p \in {Self} : Action(NextState(p)) = "start"}
  /\ stops' = Changed("stop")
  /\ removes' = Changed("remove")
  /\ UNCHANGED allStopped

\* The self checkpoint is stopped: everything is stopped, nothing else moves.
ProcessSelfStop ==
  /\ BeginProcess
  /\ Action(NextState(Self)) = "stop"
  /\ cpState' = [cpState EXCEPT ![Self] = NextState(Self)]
  /\ stops' = Checkpointed \cup {Self}
  /\ allStopped' = TRUE
  /\ UNCHANGED <<starts, removes>>

\* The self checkpoint is removed: everything that has an action is removed,
\* the self checkpoint last.
ProcessSelfRemove ==
  /\ BeginProcess
  /\ Action(NextState(Self)) = "remove"
  /\ cpState' = [p \in AllPods |->
                   IF p \in Checkpointed \cup {Self} THEN Untracked ELSE cpState[p]]
  /\ removes' = Checkpointed \cup {Self}
  /\ UNCHANGED <<starts, stops, allStopped>>

Process == ProcessAll \/ ProcessSelfStop \/ ProcessSelfRemove

----------------------------------------------------------------------------
(***************************************************************************)
(* handleStop, handleStart, handleRemove, in that order                    *)
(***************************************************************************)
\* A disk operation of a handler may fail, if DiskFaults says so; the failure
\* is logged and not retried.
Failing(faulty) == (faulty => DiskFaults) /\ faulted' = (faulted \/ faulty)

\* Mutant: the removes are worked off in any order.
NextToRemoveUnordered(p) == stops = {} /\ starts = {} /\ p \in removes

\* The self checkpoint is the last element of stops and removes, and the
\* first of starts.
NextToStop(p) == p \in stops /\ (p = Self => stops = {Self})
NextToStart(p) == stops = {} /\ p \in starts /\ (Self \in starts => p = Self)
NextToRemove(p) == /\ stops = {} /\ starts = {}
                   /\ p \in removes /\ (p = Self => removes = {Self})

\* os.Remove of a manifest: it is gone, unless the call failed.
Unlink(manifest, p, faulty) ==
  IF faulty THEN manifest ELSE [manifest EXCEPT ![p] = NoVersion]

HandleStop(p) ==
  /\ pc = "handle" /\ NextToStop(p)
  /\ \E faulty \in BOOLEAN : Failing(faulty) /\ active' = Unlink(active, p, faulty)
  /\ stops' = stops \ {p}
  /\ UNCHANGED <<pc, obs, memory, todo, cur, starts, removes, inactive, assets,
                 crashes, gone, allStopped>>

\* Mutant: an active manifest that is there is never refreshed.
HandleStartOnce(p) ==
  /\ pc = "handle" /\ NextToStart(p)
  /\ active' = IF active[p] # NoVersion THEN active
               ELSE [active EXCEPT ![p] = inactive[p]]
  /\ starts' = starts \ {p}
  /\ UNCHANGED <<pc, obs, memory, todo, cur, stops, removes, inactive, assets,
                 crashes, history>>

\* The inactive manifest is copied over the active one; if there is none to
\* read, or the copy fails, the active one stays as it is.
HandleStart(p) ==
  /\ pc = "handle" /\ NextToStart(p)
  /\ \E faulty \in BOOLEAN :
       /\ Failing(faulty)
       /\ active' = IF faulty \/ inactive[p] = NoVersion THEN active
                    ELSE [active EXCEPT ![p] = inactive[p]]
  /\ starts' = starts \ {p}
  /\ UNCHANGED <<pc, obs, memory, todo, cur, stops, removes, inactive, assets,
                 crashes, gone, allStopped>>

\* handleRemove of one checkpoint: secrets, configMaps, inactive manifest,
\* active manifest.  A failure to remove assets is only logged.
RemoveSecrets(p) ==
  /\ pc = "handle" /\ NextToRemove(p)
  /\ \E faulty \in BOOLEAN :
       /\ Failing(faulty)
       /\ secrets' = IF faulty THEN secrets ELSE [secrets EXCEPT ![p] = {}]
  /\ pc' = "removeConfigMaps" /\ cur' = {p}
  /\ UNCHANGED <<obs, memory, todo, starts, stops, removes, active, inactive,
                 configMaps, crashes, gone, allStopped>>

\* Mutant: the configMaps are forgotten.
RemoveNoConfigMaps(p) ==
  /\ pc = "removeConfigMaps" /\ cur = {p}
  /\ pc' = "removeInactive"
  /\ UNCHANGED <<obs, memory, work, disk, crashes, history>>

RemoveConfigMaps(p) ==
  /\ pc = "removeConfigMaps" /\ cur = {p}
  /\ \E faulty \in BOOLEAN :
       /\ Failing(faulty)
       /\ configMaps' = IF faulty THEN configMaps ELSE [configMaps EXCEPT ![p] = {}]
  /\ pc' = "removeInactive"
  /\ UNCHANGED <<obs, memory, work, active, inactive, secrets, crashes, gone, allStopped>>

\* A failure to remove the inactive manifest skips the active one.
RemoveInactive(p) ==
  /\ pc = "removeInactive" /\ cur = {p}
  /\ \E faulty \in BOOLEAN :
       /\ Failing(faulty)
       /\ inactive' = Unlink(inactive, p, faulty)
       /\ IF faulty THEN pc' = "handle" /\ cur' = {} /\ removes' = removes \ {p}
                    ELSE pc' = "removeActive" /\ UNCHANGED <<cur, removes>>
  /\ UNCHANGED <<obs, memory, todo, starts, stops, active, assets, crashes, gone, allStopped>>

RemoveActive(p) ==
  /\ pc = "removeActive" /\ cur = {p}
  /\ \E faulty \in BOOLEAN : Failing(faulty) /\ active' = Unlink(active, p, faulty)
  /\ pc' = "handle" /\ cur' = {} /\ removes' = removes \ {p}
  /\ UNCHANGED <<obs, memory, todo, starts, stops, inactive, assets, crashes, gone, allStopped>>

----------------------------------------------------------------------------
(***************************************************************************)
(* The clock and the process                                               *)
(***************************************************************************)
Tick ==
  /\ cpState' = [p \in AllPods |-> Elapse(cpState[p])]
  /\ recheck' = IF recheck > 0 THEN recheck - 1 ELSE 0
  /\ gone' = [p \in AllPods |-> IF gone[p] \in 0..(GracePeriod - 1)
                                THEN gone[p] + 1 ELSE gone[p]]
  /\ UNCHANGED <<pc, obs, cpPod, needsUpdate, work, disk, crashes, allStopped, faulted>>

\* The process dies (or is killed by the kubelet, or exits in glog.Fatalf)
\* and another one gets the flock: the memory is empty again.
Crash ==
  /\ crashes < MaxCrashes
  /\ crashes' = crashes + 1
  /\ pc' = "handle"
  /\ obs' = NoObservation
  /\ cpState' = [p \in AllPods |-> Untracked]
  /\ cpPod' = [p \in AllPods |-> NoSpec]
  /\ needsUpdate' = FALSE
  /\ recheck' = 0
  /\ todo' = {} /\ cur' = {} /\ starts' = {} /\ stops' = {} /\ removes' = {}
  /\ allStopped' = FALSE
  /\ faulted' = FALSE
  /\ UNCHANGED <<disk, gone>>

\* One step of run().
Step ==
  \/ Idle /\ \E o \in Observations : Update(o) \/ UpdateUnreadable(o)
  \/ Process
  \/ \E p \in AllPods :
       \/ WriteManifest(p) \/ WriteManifestFails(p)
       \/ CheckpointSecrets(p) \/ CheckpointSecretsFails(p)
       \/ CheckpointConfigMaps(p)
       \/ HandleStop(p) \/ HandleStart(p)
       \/ RemoveSecrets(p) \/ RemoveConfigMaps(p)
       \/ RemoveInactive(p) \/ RemoveActive(p)

Next == Step \/ Tick \/ Crash

Spec == Init /\ [][Next]_vars

\* The loop never stops by itself, and the clock never does.
FairSpec == Spec /\ WF_vars(Step) /\ WF_vars(Tick)
----------------------------------------------------------------------------
(***************************************************************************)
(* Safety                                                                  *)
(***************************************************************************)
TypeOK ==
  /\ pc \in Places
  /\ obs \in Observations
  /\ cpState \in [AllPods -> States]
  /\ cpPod \in [AllPods -> PodSpecs]
  /\ needsUpdate \in BOOLEAN
  /\ recheck \in 0..CheckpointTimeout
  /\ todo \subseteq AllPods
  /\ cur \subseteq AllPods
  /\ starts \subseteq AllPods
  /\ stops \subseteq AllPods
  /\ removes \subseteq AllPods
  /\ active \in [AllPods -> VersionOrNone]
  /\ inactive \in [AllPods -> VersionOrNone]
  /\ secrets \in [AllPods -> SUBSET VersionOrNone]
  /\ configMaps \in [AllPods -> SUBSET VersionOrNone]
  /\ crashes \in 0..MaxCrashes
  /\ gone \in [AllPods -> NotGone..GracePeriod]
  /\ allStopped \in BOOLEAN
  /\ faulted \in BOOLEAN

HasFiles(p) == \/ active[p] # NoVersion \/ inactive[p] # NoVersion
               \/ secrets[p] # {} \/ configMaps[p] # {}

\* A full grace period ago the api server answered without p, and it has not
\* listed p since.
GraceExpired(p) == gone[p] = GracePeriod

\* Nothing is ever queued for garbage collection unless the api server has
\* omitted the pod for a whole grace period, or it has omitted the
\* checkpointer for one and the pod goes with it: crashes, outages and wrong
\* answers of the other sources never shorten the countdown of state.go.
RemovalJustified ==
  \A p \in removes : \/ GraceExpired(p)
                     \/ Self \in removes /\ GraceExpired(Self)
                     \/ allStopped

\* The same about the disk: no step deletes an inactive manifest, a secret or
\* a configMap of a pod for another reason.
DeletionJustified ==
  [][\A p \in AllPods :
       \/ inactive[p] # NoVersion /\ inactive'[p] = NoVersion
       \/ ~(secrets[p] \subseteq secrets'[p]) \/ ~(configMaps[p] \subseteq configMaps'[p])
       => GraceExpired(p) \/ GraceExpired(Self) \/ allStopped]_vars

\* Secrets and configMaps never outlive both manifests of their pod.  With no
\* manifest left no later process would ever load the checkpoint again, and
\* its assets would stay on disk for ever: this is what the order of the
\* steps of handleRemove (and of createCheckpointsForValidParents) is for.
NoOrphanedAssets ==
  ~DiskFaults => \A p \in AllPods :
    secrets[p] \cup configMaps[p] # {} => inactive[p] # NoVersion \/ active[p] # NoVersion

\* handleStart finds the inactive manifest of every checkpoint it is to start,
\* even after a crash in the middle of a removal.
StartHasSource ==
  ~faulted /\ pc = "handle" => \A p \in starts : inactive[p] # NoVersion

\* Between two cycles the active manifests are the checkpoints the memory
\* believes started, although process emits an action only when a state
\* changes.  The exception is a process that has stopped everything along
\* with the self checkpoint.  The manifest of the self checkpoint, which is
\* started anew in every cycle, is the latest one.
MemoryMatchesDisk ==
  ~faulted /\ Idle => \A p \in AllPods :
    /\ Action(cpState[p]) = "stop" => active[p] = NoVersion
    /\ Action(cpState[p]) = "start" => active[p] # NoVersion \/ (p # Self /\ allStopped)
    /\ p = Self /\ Action(cpState[p]) = "start" => active[p] = inactive[p]

\* The checkpointer garbage collects its own checkpoint only when no other
\* checkpoint is left in the kubelet's manifest directory: nothing is left
\* running that nobody would collect.
SelfRemovedLast ==
  [][~faulted /\ pc = "removeActive" /\ active[Self] # NoVersion /\ active'[Self] = NoVersion
     => \A p \in Pods : active[p] = NoVersion]_vars

(***************************************************************************)
(* The promise                                                             *)
(***************************************************************************)
\* The disk as CheckpointLifecycle sees it.
Lifecycle == INSTANCE CheckpointLifecycle WITH
  Pods <- AllPods,
  due <- {p \in AllPods : GraceExpired(p) \/ GraceExpired(Self) \/ allStopped},
  stored <- {p \in AllPods : inactive[p] # NoVersion},
  running <- {p \in AllPods : active[p] # NoVersion},
  kept <- {p \in AllPods : secrets[p] \cup configMaps[p] # {}}

\* Without disk faults the checkpointer implements its promise: every step of
\* run(), every crash between two of its writes and every restart is a step of
\* CheckpointLifecycle or leaves the disk and what is due alone.
ImplementsLifecycle == Lifecycle!Spec

(***************************************************************************)
(* Liveness, under FairSpec and without disk faults                        *)
(***************************************************************************)
\* P holds of every answer of the sources from some time on.
\* (obs is meaningful from update to process only.)
Observing == pc \in {"create", "secrets", "configMaps"}

\* Assumption of the first three: the api server never omits the checkpointer.
SelfListed == Observing /\ Tracked(Self) /\ obs.apiAvailable => obs.apiParents[Self] # NoVersion

\* With the api server down and the parent not running, a checkpoint the
\* process knows (past stateNone) ends up active and stays so.
ActivatedInOutage ==
  \A p \in Pods :
    /\ []SelfListed
    /\ <>[](Observing => ~obs.apiAvailable /\ p \notin obs.localRunning)
    /\ []<>(Tracked(p) /\ cpState[p] # stateNone)
    => <>[](active[p] # NoVersion)

\* Once the parent is scheduled and runs again, its checkpoint steps aside.
HandedBack ==
  \A p \in Pods :
    /\ []SelfListed
    /\ <>[](Observing => obs.apiParents[p] # NoVersion /\ p \in obs.localRunning)
    => <>[](active[p] = NoVersion)

\* A parent that both the api server and the kubelet have dropped is garbage
\* collected, manifests and assets, unless it is still stateNone.
Collected ==
  \A p \in Pods :
    /\ []SelfListed
    /\ <>[](Observing => /\ obs.apiAvailable /\ obs.apiParents[p] = NoVersion
                        /\ obs.localParents[p] = NoVersion)
    /\ <>[](cpState[p] # stateNone)
    => <>[](~HasFiles(p))

\* A crash between the removals of the two manifests leaves the active one
\* alone.  The next process finds it, and either stores the checkpoint again
\* or ends its removal, whatever the sources say.
HalfRemovedSettles ==
  \A p \in AllPods : active[p] # NoVersion /\ inactive[p] = NoVersion
                      ~> active[p] = NoVersion \/ inactive[p] # NoVersion

\* The checkpointer itself is always collected once it is dropped, whatever
\* state its own checkpoint is in.
SelfCollected ==
  <>[](Observing => /\ obs.apiAvailable /\ obs.apiParents[Self] = NoVersion
                    /\ obs.localParents[Self] = NoVersion)
  => <>[](~HasFiles(Self))

\* Once the sources agree on a version of the checkpointer's pod, that version
\* becomes the self checkpoint the kubelet runs.
SelfUpgraded ==
  \A v \in Versions :
    /\ []SelfListed
    /\ <>[](Observing => obs.localParents[Self] = v /\ obs.apiParents[Self] = v)
    => <>[](active[Self] = v)
=============================================================================
