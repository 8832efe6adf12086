----------------------------- MODULE NodeProofs -----------------------------
(***************************************************************************)
(* Proofs about the self-hosted master: the node does only what            *)
(* Checkpointer allows, so every theorem about that module is one about    *)
(* the node; and once a reboot can be survived it stays so.                *)
(*                                                                         *)
(* The second takes that the api server, which the checkpointer itself     *)
(* keeps alive, never omits a pod of the control plane when it answers:    *)
(* NeverOmitted is an invariant of the composition and of neither part.    *)
(***************************************************************************)
EXTENDS Node, CheckpointerProofs

\* The pods of the control plane are what the scheduler bound to the node.
OnlyParents ==
  /\ scheduled = Annotated
  /\ known \subseteq Annotated /\ sandboxes \subseteq Annotated /\ parents \subseteq Annotated
  /\ localParents \subseteq Annotated /\ localRunning \subseteq Annotated

\* No answer has ever omitted a pod of the checkpointer's namespace.
NeverOmitted ==
  /\ \A p \in Annotated \ ForeignPods : gone[p] = NotGone
  /\ cpState[Self] \in {Untracked, stateSelfCheckpointActive}
  /\ ~allStopped

\* There is one version of every pod.
OneVersion ==
  /\ \A p \in AllPods : cpPod[p].version \in {NoVersion, 1}
  /\ \A p \in AllPods : inactive[p] \in {NoVersion, 1} /\ active[p] \in {NoVersion, 1}

NodeInv == NodeTypeOK /\ OnlyParents /\ NeverOmitted /\ OneVersion

----------------------------------------------------------------------------
\* The answers of the real sources are among those Checkpointer allows, and
\* list the control plane whenever the api server answers.
LEMMA ObservedType ==
  ASSUME NodeInv
  PROVE  /\ Observed \in Observations
         /\ \A p \in Annotated \ ForeignPods :
              Observed.apiAvailable => Observed.apiParents[p] = 1
         /\ \A p \in AllPods : /\ Observed.apiParents[p] \in {NoVersion, 1}
                               /\ Observed.localParents[p] \in {NoVersion, 1}
  <1> DEFINE api == [p \in AllPods |-> IF ApiUp /\ p \in scheduled \ ForeignPods THEN 1 ELSE NoVersion]
             local == [p \in AllPods |-> IF p \in localParents THEN 1 ELSE NoVersion]
  <1>1. Annotated \subseteq AllPods
    BY AnnotatedAssumption DEF AllPods
  <1>2. /\ api \in ApiParentAnswers /\ local \in LocalParentAnswers
        /\ localRunning \in LocalRunningAnswers
    BY NodeVersionAssumption, MaxVersionAssumption, ForeignPodsAssumption
    DEF ApiParentAnswers, LocalParentAnswers, LocalRunningAnswers, AllPods, VersionOrNone,
        NoVersion, NodeInv, OnlyParents
  <1>3. ~ApiUp => api = NoParents
    BY DEF NoParents
  <1>4. ApiUp \in BOOLEAN
    BY DEF ApiUp
  <1>5. Observed = [apiAvailable |-> ApiUp, apiParents |-> api, localParents |-> local,
                    localRunning |-> localRunning]
    BY DEF Observed
  <1>6. Observed \in Observations
    <2> HIDE DEF api, local
    <2> QED BY <1>2, <1>3, <1>4, <1>5, Zenon DEF Observations
  <1>7. \A p \in Annotated \ ForeignPods : ApiUp => api[p] = 1
    BY <1>1 DEF NodeInv, OnlyParents
  <1>8. \A p \in AllPods : api[p] \in {NoVersion, 1} /\ local[p] \in {NoVersion, 1}
    OBVIOUS
  <1> HIDE DEF api, local
  <1> QED BY <1>5, <1>6, <1>7, <1>8

\* One step of the node is one of Checkpointer, or leaves its variables alone.
LEMMA NodeStepIsStep ==
  ASSUME NodeInv, [NodeNext]_nodeVars
  PROVE  [Next]_vars
  <1>1. CASE HolderStep
    BY <1>1, ObservedType
    DEF HolderStep, AskKubelet, AskRuntime, FetchAssets, Next, Step, Update, UpdateFrom
  <1>2. CASE NodeTick
    BY <1>2 DEF NodeTick, Next
  <1>3. CASE Crash \/ UNCHANGED vars
    BY <1>3 DEF Next
  <1> QED BY <1>1, <1>2, <1>3
          DEF NodeNext, AcquireLock, Acquire, KubeletSync, KubeletStep, StartSandbox, StartParent,
              StartStatic, KillStatic, StaticDies, ParentDies, Dies, ParentContainerDies,
              StaticContainerDies, KubeletRestart, Reboot, nodeVars

----------------------------------------------------------------------------
(***************************************************************************)
(* The inductive invariant                                                 *)
(***************************************************************************)
LEMMA InitNodeInv == NodeInit => NodeInv
  <1> SUFFICES ASSUME NodeInit PROVE NodeInv OBVIOUS
  <1>1. Annotated \subseteq AllPods /\ Self \in AllPods
    BY AnnotatedAssumption DEF AllPods
  <1>2. NodeTypeOK
    BY <1>1, MaxDisruptionsAssumption DEF NodeInit, Init, NodeTypeOK, Idle, NoProcess
  <1>3. OnlyParents
    BY DEF NodeInit, OnlyParents
  <1>4. NeverOmitted
    BY <1>1 DEF NodeInit, Init, NeverOmitted
  <1>5. OneVersion
    BY DEF NodeInit, Init, OneVersion, NoSpec
  <1> QED BY <1>2, <1>3, <1>4, <1>5 DEF NodeInv

\* The holder of the lock lives, and without one nothing is under way.
LEMMA NodeTypeStep ==
  ASSUME NodeInv, [NodeNext]_nodeVars
  PROVE  NodeTypeOK' /\ OnlyParents'
  <1> USE DEF NodeInv, NodeTypeOK, OnlyParents, kubelet, env, asking, NothingAsked, NoProcess
  <1>1. Annotated \subseteq AllPods /\ Self \in AllPods
    BY AnnotatedAssumption DEF AllPods
  <1>2. Crash => Idle'
    BY DEF Crash, Idle
  <1>3. UNCHANGED vars => (Idle <=> Idle')
    BY DEF vars, work, Idle
  <1>4. Tick => (Idle <=> Idle')
    BY DEF Tick, work, Idle
  <1>5. CASE HolderStep
    <2>1. CASE AskKubelet \/ AskRuntime
      BY <1>1, <1>3, <1>5, <2>1 DEF HolderStep, AskKubelet, AskRuntime
    <2>2. CASE Update(Observed) /\ NothingAsked
      BY <1>5, <2>2 DEF HolderStep
    <2>3. CASE UNCHANGED asking /\ ~Idle
      BY <1>5, <2>3 DEF HolderStep
    <2>4. ~Idle \/ AskKubelet \/ AskRuntime \/ (Update(Observed) /\ NothingAsked)
      BY <1>5 DEF HolderStep, Process, ProcessAll, ProcessSelfStop, ProcessSelfRemove, BeginProcess,
                  WriteManifest, FetchAssets, CheckpointSecrets, CheckpointSecretsFails,
                  CheckpointConfigMaps, HandleStop, HandleStart, RemoveSecrets, RemoveConfigMaps,
                  RemoveInactive, RemoveActive, NextToStop, NextToStart, NextToRemove, Idle
    <2> QED BY <1>5, <2>1, <2>2, <2>3, <2>4 DEF HolderStep
  <1>6. CASE NodeTick
    BY <1>4, <1>6 DEF NodeTick
  <1>7. CASE AcquireLock
    BY <1>3, <1>7 DEF AcquireLock, Acquire
  <1>8. CASE KubeletSync
    BY <1>1, <1>3, <1>8 DEF KubeletSync
  <1>9. ASSUME NEW p \in AllPods, StartSandbox(p) \/ StartParent(p) \/ StartStatic(p)
        PROVE  NodeTypeOK' /\ OnlyParents'
    BY <1>3, <1>9 DEF StartSandbox, StartParent, StartStatic
  <1>10. ASSUME NEW p \in AllPods, KillStatic(p)
         PROVE  NodeTypeOK' /\ OnlyParents'
    BY <1>2, <1>3, <1>10 DEF KillStatic, StaticDies, Dies
  <1>11. ASSUME NEW p \in AllPods, ParentContainerDies(p)
         PROVE  NodeTypeOK' /\ OnlyParents'
    BY <1>2, <1>3, <1>11, MaxDisruptionsAssumption
    DEF ParentContainerDies, ParentDies, Dies, Disruption
  <1>12. ASSUME NEW p \in AllPods, StaticContainerDies(p)
         PROVE  NodeTypeOK' /\ OnlyParents'
    BY <1>2, <1>3, <1>12, MaxDisruptionsAssumption
    DEF StaticContainerDies, StaticDies, Dies, Disruption
  <1>13. CASE KubeletRestart
    BY <1>3, <1>13, MaxDisruptionsAssumption DEF KubeletRestart, Disruption
  <1>14. CASE Reboot
    BY <1>2, <1>3, <1>14, MaxDisruptionsAssumption DEF Reboot, Disruption
  <1>15. CASE UNCHANGED nodeVars
    BY <1>3, <1>15 DEF nodeVars
  <1> QED BY <1>5, <1>6, <1>7, <1>8, <1>9, <1>10, <1>11, <1>12, <1>13, <1>14, <1>15
          DEF NodeNext, KubeletStep

\* What a step does to the checkpointer's variables.
LEMMA NodeStepCases ==
  ASSUME [NodeNext]_nodeVars
  PROVE  \/ Update(Observed) \/ Process
         \/ \E p \in AllPods : \/ WriteManifest(p) \/ CheckpointSecrets(p)
                               \/ CheckpointSecretsFails(p) \/ CheckpointConfigMaps(p)
                               \/ HandleStop(p) \/ HandleStart(p)
                               \/ RemoveSecrets(p) \/ RemoveConfigMaps(p)
                               \/ RemoveInactive(p) \/ RemoveActive(p)
         \/ Tick \/ Crash \/ UNCHANGED vars
  <1>1. CASE HolderStep
    BY <1>1 DEF HolderStep, AskKubelet, AskRuntime, FetchAssets
  <1> QED BY <1>1
          DEF NodeNext, NodeTick, AcquireLock, Acquire, KubeletSync, KubeletStep, StartSandbox,
              StartParent, StartStatic, KillStatic, StaticDies, ParentDies, Dies,
              ParentContainerDies, StaticContainerDies, KubeletRestart, Reboot, nodeVars

\* The self checkpoint, once there, is always to be started.
LEMMA SelfStaysActive ==
  ASSUME IInv, NodeInv, pc = "create"
  PROVE  NextState(Self) = cpState[Self]
  <1>1. Self \in AllPods /\ Self \in Annotated \ ForeignPods
    BY SelfAssumption, CheckpointedAssumption, ForeignPodsAssumption DEF AllPods
  <1>2. ~ParentDeleted(Condition(Self))
    BY <1>1 DEF ParentDeleted, Condition, IInv, ObservedGone, Observing, NodeInv, NeverOmitted
  <1>3. CASE cpState[Self] = stateSelfCheckpointActive
    BY <1>2, <1>3 DEF NextState, Transition, transitionSelfCheckpointActive,
                      stateSelfCheckpointActive, Plain
  <1>4. CASE cpState[Self] = Untracked
    BY <1>4 DEF NextState, Transition, Untracked, Plain
  <1> QED BY <1>3, <1>4 DEF NodeInv, NeverOmitted

\* No pod of the control plane is ever found missing.
LEMMA NeverOmittedStep ==
  ASSUME IInv, NodeInv, [NodeNext]_nodeVars
  PROVE  NeverOmitted'
  <1>1. Self \in AllPods /\ Annotated \subseteq AllPods
    BY AnnotatedAssumption DEF AllPods
  <1>2. CASE Update(Observed)
    <2>1. \A p \in Annotated \ ForeignPods : gone'[p] = NotGone
      <3> SUFFICES ASSUME NEW p \in Annotated \ ForeignPods PROVE gone'[p] = NotGone
        OBVIOUS
      <3>1. gone'[p] = GoneAfter(p, Observed) /\ gone[p] = NotGone
        BY <1>1, <1>2 DEF Update, UpdateFrom, NodeInv, NeverOmitted
      <3>2. Observed.apiAvailable => Observed.apiParents[p] # NoVersion
        BY ObservedType DEF NoVersion
      <3> QED BY <3>1, <3>2 DEF GoneAfter
    <2>2. cpState'[Self] = UpdatedState(Self, Observed, active, inactive) /\ allStopped' = allStopped
      BY <1>1, <1>2 DEF Update, UpdateFrom
    <2>3. UpdatedState(Self, Observed, active, inactive) \in {Untracked, stateSelfCheckpointActive}
      BY DEF UpdatedState, NodeInv, NeverOmitted
    <2> QED BY <2>1, <2>2, <2>3 DEF NeverOmitted, NodeInv
  <1>3. CASE Process
    <2>1. /\ NextState(Self) = cpState[Self]
          /\ Action(NextState(Self)) \in {"none", "start"}
      BY <1>3, SelfStaysActive
      DEF Process, ProcessAll, ProcessSelfStop, ProcessSelfRemove, BeginProcess, NodeInv,
          NeverOmitted, Action, Untracked, stateSelfCheckpointActive, Plain
    <2>2. ProcessAll
      BY <1>3, <2>1 DEF Process, ProcessSelfStop, ProcessSelfRemove
    <2>3. cpState'[Self] = cpState[Self] /\ gone' = gone /\ allStopped' = allStopped
      BY <1>1, <2>1, <2>2 DEF ProcessAll, BeginProcess
    <2> QED BY <2>3 DEF NodeInv, NeverOmitted
  <1>4. CASE Tick
    <2>1. \A p \in Annotated : gone[p] = NotGone => gone'[p] = NotGone
      BY <1>1, <1>4 DEF Tick, NotGone
    <2>2. cpState'[Self] = cpState[Self] /\ allStopped' = allStopped
      BY <1>1, <1>4 DEF Tick, Elapse, NodeInv, NeverOmitted, Untracked, stateSelfCheckpointActive,
                        Plain
    <2> QED BY <2>1, <2>2 DEF NodeInv, NeverOmitted
  <1>5. CASE Crash
    BY <1>1, <1>5 DEF Crash, NodeInv, NeverOmitted
  <1>6. CASE gone' = gone /\ cpState' = cpState /\ allStopped' = allStopped
    BY <1>6 DEF NodeInv, NeverOmitted
  <1> QED BY <1>2, <1>3, <1>4, <1>5, <1>6, NodeStepCases
          DEF WriteManifest, CheckpointSecrets, CheckpointSecretsFails, CheckpointConfigMaps,
              HandleStop, HandleStart, RemoveSecrets, RemoveConfigMaps, RemoveInactive,
              RemoveActive, vars, memory, history

\* No other version comes up.
LEMMA OneVersionStep ==
  ASSUME IInv, NodeInv, [NodeNext]_nodeVars
  PROVE  OneVersion'
  <1> USE DEF NodeInv, OneVersion
  <1>1. CASE Update(Observed)
    <2>1. active' = active /\ inactive' = inactive
      BY <1>1 DEF Update, UpdateFrom, disk
    <2>2. \A p \in AllPods : cpPod'[p].version \in {NoVersion, 1}
      BY <1>1, ObservedType DEF Update, UpdateFrom, UpdatedPod, Parent, FromDisk, NoSpec
    <2> QED BY <2>1, <2>2
  <1>2. ASSUME NEW p \in AllPods, WriteManifest(p) \/ HandleStop(p) \/ HandleStart(p)
                                  \/ RemoveInactive(p) \/ RemoveActive(p)
        PROVE  OneVersion'
    <2>1. /\ inactive \in [AllPods -> VersionOrNone] /\ active \in [AllPods -> VersionOrNone]
      BY DEF IInv, TypeOK
    <2> QED BY <1>2, <2>1 DEF WriteManifest, HandleStop, HandleStart, RemoveInactive, RemoveActive,
                              Unlink, memory
  <1>3. CASE Crash
    BY <1>3 DEF Crash, disk, NoSpec
  <1>4. CASE cpPod' = cpPod /\ active' = active /\ inactive' = inactive
    BY <1>4
  <1> QED BY <1>1, <1>2, <1>3, <1>4, NodeStepCases
          DEF Process, ProcessAll, ProcessSelfStop, ProcessSelfRemove, BeginProcess, Tick,
              CheckpointSecrets, CheckpointSecretsFails, CheckpointConfigMaps, RemoveSecrets,
              RemoveConfigMaps, vars, disk, memory

----------------------------------------------------------------------------
(***************************************************************************)
(* The theorems                                                            *)
(***************************************************************************)
\* The invariants of the checkpointer and of its surroundings hold together.
THEOREM NodeInvariant == NodeSpec => [](IInv /\ DiskInv /\ NodeInv)
  <1>1. NodeInit => IInv /\ DiskInv /\ NodeInv
    BY InitIInv, InitDiskInv, InitNodeInv DEF NodeInit
  <1>2. IInv /\ DiskInv /\ NodeInv /\ [NodeNext]_nodeVars => (IInv /\ DiskInv /\ NodeInv)'
    BY NodeStepIsStep, StepIInv, StepDiskInv, NodeTypeStep, NeverOmittedStep, OneVersionStep
    DEF NodeInv
  <1> QED BY <1>1, <1>2, PTL DEF NodeSpec

\* The lock is with a process that lives.
THEOREM NodeTypeCorrect == NodeSpec => []NodeTypeOK
  <1>1. NodeInv => NodeTypeOK BY DEF NodeInv
  <1> QED BY <1>1, NodeInvariant, PTL

\* The answers of the kubelet, the runtime and the api server, given one after
\* the other on a node that changes meanwhile, are among the arbitrary ones of
\* Checkpointer, and the death of the lock's holder is its Crash: what is proved
\* of that module holds of the node.
THEOREM CheckpointerIsImplemented == NodeSpec => Spec
  <1>1. NodeInit => Init BY DEF NodeInit
  <1>2. NodeInv /\ [NodeNext]_nodeVars => [Next]_vars BY NodeStepIsStep
  <1> QED BY <1>1, <1>2, NodeInvariant, PTL DEF NodeSpec, Spec

\* Once a reboot can be survived it stays so.
THEOREM RecoverableIsKept == NodeSpec => RecoverableKept
  <1>1. ASSUME IInv, DiskInv, NodeInv, [NodeNext]_nodeVars, Recoverable
        PROVE  Recoverable'
    <2>1. /\ Self \in AllPods /\ ApiServer \in AllPods
          /\ {Self, ApiServer} \subseteq Annotated \ ForeignPods
      BY SelfAssumption, ApiServerAssumption, CheckpointedAssumption, ForeignPodsAssumption
      DEF AllPods
    <2>2. Self \notin removes /\ ApiServer \notin removes
      <3>1. ~GraceExpired(Self) /\ ~GraceExpired(ApiServer) /\ ~allStopped
        BY <1>1, <2>1, GracePeriodAssumption DEF NodeInv, NeverOmitted, GraceExpired, NotGone
      <3> QED BY <1>1, <3>1 DEF IInv, RemovalJustified
    <2>3. Self \notin stops
      BY <1>1 DEF DiskInv, ListsMatchMemory, NodeInv, NeverOmitted, Untracked,
                  stateSelfCheckpointActive, Plain, Action
    <2>4. /\ active \in [AllPods -> VersionOrNone] /\ inactive \in [AllPods -> VersionOrNone]
          /\ secrets \in [AllPods -> SUBSET VersionOrNone]
          /\ configMaps \in [AllPods -> SUBSET VersionOrNone]
          /\ active[Self] = 1 /\ inactive[ApiServer] = 1
          /\ 1 \in secrets[Self] \cap configMaps[Self]
          /\ 1 \in secrets[ApiServer] \cap configMaps[ApiServer]
      BY <1>1, <2>1 DEF IInv, TypeOK, Recoverable, Usable, NodeInv, OneVersion
    <2>5. /\ active'[Self] = 1 /\ inactive'[ApiServer] = 1
          /\ secrets[Self] \subseteq secrets'[Self]
          /\ configMaps[Self] \subseteq configMaps'[Self]
          /\ secrets[ApiServer] \subseteq secrets'[ApiServer]
          /\ configMaps[ApiServer] \subseteq configMaps'[ApiServer]
      <3>1. CASE UNCHANGED disk
        BY <2>4, <3>1 DEF disk
      <3>2. CASE \E p \in AllPods : WriteManifest(p)
        <4>1. PICK p \in AllPods : WriteManifest(p)
          BY <3>2
        <4>2. cpPod[p].version = 1
          BY <1>1, <4>1 DEF WriteManifest, NextToCreate, IInv, TrackedHavePods, NodeInv, OneVersion
        <4> QED BY <2>1, <2>4, <4>1, <4>2 DEF WriteManifest, assets
      <3>3. CASE \E p \in AllPods : \/ CheckpointSecrets(p) \/ CheckpointSecretsFails(p)
                                    \/ CheckpointConfigMaps(p)
        BY <2>1, <2>4, <3>3 DEF CheckpointSecrets, CheckpointSecretsFails, CheckpointConfigMaps
      <3>4. CASE \E p \in AllPods : HandleStop(p)
        BY <2>1, <2>3, <2>4, <3>4 DEF HandleStop, NextToStop, Unlink, assets
      <3>5. CASE \E p \in AllPods : HandleStart(p)
        BY <1>1, <2>1, <2>4, <3>5 DEF HandleStart, assets, NodeInv, OneVersion
      <3>6. CASE \E p \in AllPods : \/ RemoveSecrets(p) \/ RemoveConfigMaps(p)
                                    \/ RemoveInactive(p) \/ RemoveActive(p)
        <4>1. PICK p \in AllPods : \/ RemoveSecrets(p) \/ RemoveConfigMaps(p)
                                   \/ RemoveInactive(p) \/ RemoveActive(p)
          BY <3>6
        <4>2. p # Self /\ p # ApiServer
          BY <1>1, <2>2, <4>1 DEF RemoveSecrets, RemoveConfigMaps, RemoveInactive, RemoveActive,
                                  NextToRemove, IInv, RemovingInOrder
        <4> QED BY <2>1, <2>4, <4>1, <4>2
                DEF RemoveSecrets, RemoveConfigMaps, RemoveInactive, RemoveActive, Unlink, assets
      <3> QED BY <1>1, <3>1, <3>2, <3>3, <3>4, <3>5, <3>6, NodeStepCases
              DEF Update, UpdateFrom, Process, ProcessAll, ProcessSelfStop, ProcessSelfRemove,
                  BeginProcess, Tick, Crash, vars
    <2> QED BY <2>4, <2>5 DEF Recoverable, Usable, NoVersion
  <1>2. IInv /\ DiskInv /\ NodeInv /\ [NodeNext]_nodeVars => [Recoverable => Recoverable']_nodeVars
    BY <1>1
  <1> QED BY <1>2, NodeInvariant, PTL DEF NodeSpec, RecoverableKept
=============================================================================
