------------------------- MODULE CheckpointerProofs -------------------------
(***************************************************************************)
(* Proofs about the pod checkpointer, for every set of pods, grace period, *)
(* number of versions and number of crashes, with and without disk faults. *)
(*                                                                         *)
(* RemovalJustified is not inductive: that a checkpoint in a grace-period  *)
(* state is collected in time only, depends on how far its countdown has   *)
(* come (GraceTiming), on what the current observation has done to the     *)
(* history variable gone (ObservedGone), and on the order in which         *)
(* handleRemove works off its list (RemovingInOrder).                      *)
(***************************************************************************)
EXTENDS Checkpointer, TLAPS

InGrace(s) == s.kind \in {"InactiveGracePeriod", "ActiveGracePeriod"}

\* A countdown was started no earlier than the api server's omission of the
\* pod, or this cycle is about to end it, or the process stopped everything.
GraceTiming ==
  \A p \in AllPods : InGrace(cpState[p]) =>
    \/ allStopped
    \/ Observing /\ obs.apiAvailable /\ obs.apiParents[p] # NoVersion
    \/ gone[p] # NotGone /\ gone[p] + cpState[p].left >= GracePeriod

\* The answer in hand is the one gone was last updated with.
ObservedGone ==
  Observing /\ obs.apiAvailable =>
    \A p \in AllPods : obs.apiParents[p] = NoVersion <=> gone[p] # NotGone

\* handleRemove works on a member of its list, on the self checkpoint last.
RemovingInOrder ==
  pc \in {"removeConfigMaps", "removeInactive", "removeActive"} =>
    \E p \in removes : cur = {p} /\ (p = Self => removes = {Self})

\* Every entry of the map has a pod, and only entries are written to disk.
TrackedHavePods ==
  \A p \in AllPods : /\ Tracked(p) => cpPod[p].version # NoVersion
                     /\ p \in todo => Tracked(p)

\* No entry in stateRemove survives process.
NoneInRemove == \A p \in AllPods : cpState[p].kind # "Remove"

IInv == /\ TypeOK
        /\ GraceTiming
        /\ ObservedGone
        /\ RemovingInOrder
        /\ TrackedHavePods
        /\ NoneInRemove
        /\ RemovalJustified

----------------------------------------------------------------------------
\* The state machine of state.go yields states only.
LEMMA TransitionType ==
  ASSUME NEW s \in States, NEW c \in ApiConditions
  PROVE  Transition(s, c) \in States
  BY GracePeriodAssumption
  DEF States, StateKinds, ApiConditions, Transition, transitionSelfCheckpointActive,
      transitionNone, transitionInactive, transitionInactiveGracePeriod, transitionActive,
      transitionActiveGracePeriod, checkActiveGracePeriod, checkInactiveGracePeriod,
      ParentDeleted, Plain, stateSelfCheckpointActive, stateNone, stateInactive, stateActive,
      stateRemove, stateInactiveGracePeriod, stateActiveGracePeriod

\* No transition creates an entry.
LEMMA TransitionUntracked ==
  ASSUME NEW s \in States, NEW c \in ApiConditions, s.kind = "Untracked"
  PROVE  Transition(s, c) = s
  BY DEF Transition

\* A transition into a grace period starts a full countdown because the api
\* server omits the parent, or leaves the one under way as it is; the api
\* server listing the parent always ends it.
LEMMA TransitionGrace ==
  ASSUME NEW s \in States, NEW c \in ApiConditions, InGrace(Transition(s, c))
  PROVE  /\ ~(c.apiAvailable /\ c.apiParent)
         /\ \/ ParentDeleted(c) /\ Transition(s, c).left = GracePeriod
            \/ InGrace(s) /\ Transition(s, c).left = s.left
  BY GracePeriodAssumption
  DEF InGrace, States, StateKinds, ApiConditions, Transition, transitionSelfCheckpointActive,
      transitionNone, transitionInactive, transitionInactiveGracePeriod, transitionActive,
      transitionActiveGracePeriod, checkActiveGracePeriod, checkInactiveGracePeriod,
      ParentDeleted, Plain, stateSelfCheckpointActive, stateNone, stateInactive, stateActive,
      stateRemove, stateInactiveGracePeriod, stateActiveGracePeriod

\* A transition to stateRemove needs a countdown that has run out, or one of
\* length zero that starts now; never with the parent listed.
LEMMA TransitionRemove ==
  ASSUME NEW s \in States, NEW c \in ApiConditions,
         Transition(s, c).kind = "Remove", s.kind # "Remove"
  PROVE  /\ ~(c.apiAvailable /\ c.apiParent)
         /\ \/ InGrace(s) /\ s.left = 0
            \/ ParentDeleted(c) /\ GracePeriod = 0
  BY GracePeriodAssumption
  DEF InGrace, States, StateKinds, ApiConditions, Transition, transitionSelfCheckpointActive,
      transitionNone, transitionInactive, transitionInactiveGracePeriod, transitionActive,
      transitionActiveGracePeriod, checkActiveGracePeriod, checkInactiveGracePeriod,
      ParentDeleted, Plain, stateSelfCheckpointActive, stateNone, stateInactive, stateActive,
      stateRemove, stateInactiveGracePeriod, stateActiveGracePeriod

\* A tick leaves the kind alone.
LEMMA ElapseType ==
  ASSUME NEW s \in States
  PROVE  /\ Elapse(s) \in States
         /\ Elapse(s).kind = s.kind
         /\ Elapse(s).left = IF s.left > 0 THEN s.left - 1 ELSE 0
  BY GracePeriodAssumption DEF Elapse, States

\* What process sees of a pod.
LEMMA ConditionType ==
  ASSUME TypeOK, NEW p \in AllPods
  PROVE  Condition(p) \in ApiConditions
  BY DEF TypeOK, Observations, Condition, ApiConditions

----------------------------------------------------------------------------
(***************************************************************************)
(* Type correctness                                                        *)
(***************************************************************************)
\* What a turn of the loop reads from disk, manifests that it cannot read
\* included.
LEMMA UpdateReads ==
  ASSUME TypeOK, NEW o \in Observations, Update(o) \/ UpdateUnreadable(o)
  PROVE  /\ \E act, inact \in [AllPods -> VersionOrNone] : UpdateFrom(o, act, inact)
         /\ faulted' \in BOOLEAN
         /\ ~faulted' => Update(o)
         /\ faulted' => faulted \/ DiskFaults
  <1>1. CASE Update(o)
    BY <1>1 DEF Update, TypeOK
  <1>2. CASE UpdateUnreadable(o)
    <2>1. PICK a \in SUBSET AllPods, i \in SUBSET AllPods :
                 UpdateFrom(o, Readable(active, a), Readable(inactive, i))
      BY <1>2 DEF UpdateUnreadable
    <2>2. /\ Readable(active, a) \in [AllPods -> VersionOrNone]
          /\ Readable(inactive, i) \in [AllPods -> VersionOrNone]
      BY MaxVersionAssumption DEF Readable, TypeOK, VersionOrNone, NoVersion
    <2>3. \E act, inact \in [AllPods -> VersionOrNone] : UpdateFrom(o, act, inact)
      BY <2>1, <2>2
    <2> QED BY <1>2, <2>3 DEF UpdateUnreadable
  <1> QED BY <1>1, <1>2

LEMMA UpdateTypes ==
  ASSUME TypeOK, NEW o \in Observations, NEW p \in AllPods,
         NEW act \in [AllPods -> VersionOrNone], NEW inact \in [AllPods -> VersionOrNone]
  PROVE  /\ UpdatedState(p, o, act, inact) \in States
         /\ UpdatedPod(p, o, act, inact) \in PodSpecs
         /\ GoneAfter(p, o) \in NotGone..GracePeriod
  <1>1. UpdatedState(p, o, act, inact) \in States
    BY GracePeriodAssumption
    DEF TypeOK, UpdatedState, States, StateKinds, Plain, Untracked, stateNone, stateActive,
        stateInactive, stateSelfCheckpointActive
  <1>2. UpdatedPod(p, o, act, inact) \in PodSpecs
    BY MaxVersionAssumption
    DEF TypeOK, UpdatedPod, PodSpecs, Parent, FromDisk, NoSpec, Observations,
        LocalParentAnswers, ApiParentAnswers,
        VersionOrNone, NoVersion
  <1>3. GoneAfter(p, o) \in NotGone..GracePeriod
    BY GracePeriodAssumption DEF TypeOK, GoneAfter, NotGone
  <1> QED BY <1>1, <1>2, <1>3

LEMMA NoObservationType == NoObservation \in Observations
<1>1. NoParents \in LocalParentAnswers /\ NoParents \in ApiParentAnswers
  BY MaxVersionAssumption, ForeignPodsAssumption
  DEF LocalParentAnswers, ApiParentAnswers, NoParents, AllPods, VersionOrNone, NoVersion
<1>2. {} \in LocalRunningAnswers
  BY DEF LocalRunningAnswers
<1> QED
  BY <1>1, <1>2, Zenon DEF NoObservation, Observations

LEMMA ProcessTypes ==
  ASSUME TypeOK
  PROVE  /\ \A p \in AllPods : NextState(p) \in States /\ Kept(NextState(p)) \in States
         /\ Checkpointed \subseteq AllPods
         /\ \A act : Changed(act) \subseteq AllPods
  <1>1. ASSUME NEW p \in AllPods PROVE NextState(p) \in States
    BY ConditionType, TransitionType DEF NextState, TypeOK
  <1>2. ASSUME NEW p \in AllPods PROVE Kept(NextState(p)) \in States
    BY <1>1, GracePeriodAssumption DEF Kept, Untracked, Plain, States, StateKinds
  <1>3. Checkpointed \subseteq AllPods /\ \A act : Changed(act) \subseteq AllPods
    BY DEF Checkpointed, Changed, AllPods
  <1> QED BY <1>1, <1>2, <1>3

\* Every variable keeps its type, whatever the constants.
LEMMA TypeStep ==
  ASSUME TypeOK, [Next]_vars
  PROVE  TypeOK'
  <1> USE GracePeriodAssumption, MaxVersionAssumption, CheckpointTimeoutAssumption,
          MaxCrashesAssumption
  <1>1. ASSUME NEW o \in Observations, Update(o) \/ UpdateUnreadable(o) PROVE TypeOK'
    <2>1. PICK act \in [AllPods -> VersionOrNone], inact \in [AllPods -> VersionOrNone] :
                 UpdateFrom(o, act, inact)
      BY <1>1, UpdateReads
    <2>2. faulted' \in BOOLEAN
      BY <1>1, UpdateReads
    <2> QED BY <1>1, <2>1, <2>2, UpdateTypes DEF TypeOK, UpdateFrom, disk, Places
  <1>2. CASE ProcessAll
    <2>1. cpState' \in [AllPods -> States]
      BY <1>2, ProcessTypes DEF ProcessAll
    <2>2. starts' \subseteq AllPods /\ stops' \subseteq AllPods /\ removes' \subseteq AllPods
      BY <1>2, ProcessTypes DEF ProcessAll, AllPods
    <2>3. needsUpdate' \in BOOLEAN /\ allStopped' \in BOOLEAN /\ faulted' \in BOOLEAN /\ obs' \in Observations
      BY <1>2, NoObservationType, Zenon DEF TypeOK, ProcessAll, BeginProcess
    <2>4. recheck' \in 0..CheckpointTimeout
      BY <1>2 DEF TypeOK, ProcessAll, BeginProcess
    <2> QED BY <1>2, <2>1, <2>2, <2>3, <2>4
            DEF TypeOK, ProcessAll, BeginProcess, disk, Places
  <1>3. CASE ProcessSelfStop
    <2>1. cpState' \in [AllPods -> States]
      BY <1>3, ProcessTypes DEF ProcessSelfStop, TypeOK, AllPods
    <2>2. stops' \subseteq AllPods
      BY <1>3, ProcessTypes DEF ProcessSelfStop, AllPods
    <2>3. needsUpdate' \in BOOLEAN /\ allStopped' \in BOOLEAN /\ faulted' \in BOOLEAN /\ obs' \in Observations
      BY <1>3, NoObservationType, Zenon DEF TypeOK, ProcessSelfStop, BeginProcess
    <2>4. recheck' \in 0..CheckpointTimeout
      BY <1>3 DEF TypeOK, ProcessSelfStop, BeginProcess
    <2> QED BY <1>3, <2>1, <2>2, <2>3, <2>4
            DEF TypeOK, ProcessSelfStop, BeginProcess, disk, Places
  <1>4. CASE ProcessSelfRemove
    <2>1. cpState' \in [AllPods -> States]
      BY <1>4 DEF ProcessSelfRemove, TypeOK, Untracked, Plain, States, StateKinds
    <2>2. removes' \subseteq AllPods
      BY <1>4, ProcessTypes DEF ProcessSelfRemove, AllPods
    <2>3. needsUpdate' \in BOOLEAN /\ allStopped' \in BOOLEAN /\ faulted' \in BOOLEAN /\ obs' \in Observations
      BY <1>4, NoObservationType, Zenon DEF TypeOK, ProcessSelfRemove, BeginProcess
    <2>4. recheck' \in 0..CheckpointTimeout
      BY <1>4 DEF TypeOK, ProcessSelfRemove, BeginProcess
    <2> QED BY <1>4, <2>1, <2>2, <2>3, <2>4
            DEF TypeOK, ProcessSelfRemove, BeginProcess, disk, Places
  <1>5. ASSUME NEW p \in AllPods,
               \/ WriteManifest(p) \/ WriteManifestFails(p)
        PROVE  TypeOK'
    <2>1. inactive' \in [AllPods -> VersionOrNone]
      BY <1>5 DEF TypeOK, WriteManifest, WriteManifestFails, PodSpecs
    <2> QED BY <1>5, <2>1
            DEF TypeOK, WriteManifest, WriteManifestFails, memory, assets, history, Places
  <1>6. ASSUME NEW p \in AllPods,
               \/ CheckpointSecrets(p) \/ CheckpointSecretsFails(p)
               \/ CheckpointConfigMaps(p)
        PROVE  TypeOK'
    <2>1. Fetched(p) \subseteq VersionOrNone
      BY DEF Fetched, TypeOK, PodSpecs
    <2>2. /\ secrets' \in [AllPods -> SUBSET VersionOrNone]
          /\ configMaps' \in [AllPods -> SUBSET VersionOrNone]
      BY <1>6, <2>1 DEF TypeOK, CheckpointSecrets, CheckpointSecretsFails, CheckpointConfigMaps
    <2> QED BY <1>6, <2>2
            DEF TypeOK, CheckpointSecrets, CheckpointSecretsFails, CheckpointConfigMaps,
                memory, work, history, Places
  <1>7. ASSUME NEW p \in AllPods, HandleStop(p) \/ HandleStart(p)
        PROVE  TypeOK'
    <2>1. active' \in [AllPods -> VersionOrNone]
      BY <1>7 DEF TypeOK, HandleStop, HandleStart, Unlink, VersionOrNone, NoVersion
    <2>2. faulted' \in BOOLEAN
      BY <1>7, Zenon DEF HandleStop, HandleStart, Failing
    <2> QED BY <1>7, <2>1, <2>2
            DEF TypeOK, HandleStop, HandleStart, memory, assets, Places
  <1>8. ASSUME NEW p \in AllPods,
               \/ RemoveSecrets(p) \/ RemoveConfigMaps(p)
               \/ RemoveInactive(p) \/ RemoveActive(p)
        PROVE  TypeOK'
    <2>1. /\ secrets' \in [AllPods -> SUBSET VersionOrNone]
          /\ configMaps' \in [AllPods -> SUBSET VersionOrNone]
      BY <1>8 DEF TypeOK, RemoveSecrets, RemoveConfigMaps, RemoveInactive, RemoveActive, assets
    <2>2. /\ active' \in [AllPods -> VersionOrNone]
          /\ inactive' \in [AllPods -> VersionOrNone]
      BY <1>8 DEF TypeOK, RemoveSecrets, RemoveConfigMaps, RemoveInactive, RemoveActive,
                  Unlink, VersionOrNone, NoVersion
    <2>3. faulted' \in BOOLEAN
      BY <1>8, Zenon DEF RemoveSecrets, RemoveConfigMaps, RemoveInactive, RemoveActive, Failing
    <2> QED BY <1>8, <2>1, <2>2, <2>3
            DEF TypeOK, RemoveSecrets, RemoveConfigMaps, RemoveInactive, RemoveActive,
                memory, work, Places
  <1>9. CASE Tick
    <2>1. cpState' \in [AllPods -> States]
      BY <1>9, ElapseType DEF Tick, TypeOK
    <2>2. gone' \in [AllPods -> NotGone..GracePeriod]
      BY <1>9 DEF Tick, TypeOK, NotGone
    <2> QED BY <1>9, <2>1, <2>2 DEF TypeOK, Tick, work, disk
  <1>10. CASE Crash
    <2>1. needsUpdate' \in BOOLEAN /\ allStopped' \in BOOLEAN /\ faulted' \in BOOLEAN /\ obs' \in Observations
      BY <1>10, NoObservationType, Zenon DEF Crash
    <2>2. cpState' \in [AllPods -> States] /\ cpPod' \in [AllPods -> PodSpecs]
      BY <1>10 DEF Crash, Untracked, Plain, States, StateKinds, NoSpec, PodSpecs,
                   VersionOrNone, NoVersion
    <2> QED BY <1>10, <2>1, <2>2 DEF TypeOK, Crash, disk, Places
  <1>11. CASE UNCHANGED vars
    BY <1>11 DEF TypeOK, vars, memory, work, disk, history
  <1> QED BY <1>1, <1>2, <1>3, <1>4, <1>5, <1>6, <1>7, <1>8, <1>9, <1>10, <1>11
          DEF Next, Step, Process

----------------------------------------------------------------------------
(***************************************************************************)
(* The inductive invariant                                                 *)
(***************************************************************************)
LEMMA InitIInv == Init => IInv
  <1> SUFFICES ASSUME Init PROVE IInv OBVIOUS
  <1> USE GracePeriodAssumption, MaxVersionAssumption, CheckpointTimeoutAssumption,
          MaxCrashesAssumption
  <1>1. TypeOK
    <2>1. needsUpdate \in BOOLEAN /\ allStopped \in BOOLEAN /\ faulted \in BOOLEAN /\ obs \in Observations
      BY NoObservationType, Zenon DEF Init
    <2>2. cpState \in [AllPods -> States] /\ cpPod \in [AllPods -> PodSpecs]
      BY DEF Init, Untracked, Plain, States, StateKinds, NoSpec, PodSpecs, VersionOrNone, NoVersion
    <2>3. /\ active \in [AllPods -> VersionOrNone] /\ inactive \in [AllPods -> VersionOrNone]
          /\ gone \in [AllPods -> NotGone..GracePeriod]
      BY DEF Init, VersionOrNone, NoVersion, NotGone
    <2> QED BY <2>1, <2>2, <2>3 DEF Init, TypeOK, Places
  <1>2. GraceTiming /\ NoneInRemove /\ TrackedHavePods
    BY DEF Init, GraceTiming, NoneInRemove, TrackedHavePods, Tracked, InGrace, Untracked, Plain
  <1>3. ObservedGone /\ RemovingInOrder /\ RemovalJustified
    BY DEF Init, ObservedGone, Observing, RemovingInOrder, RemovalJustified
  <1> QED BY <1>1, <1>2, <1>3 DEF IInv

\* update: a listed parent's countdown is about to end, an omitted one's
\* history goes on.
LEMMA UpdateIInv ==
  ASSUME IInv, NEW o \in Observations, Update(o) \/ UpdateUnreadable(o), TypeOK'
  PROVE  IInv'
  <1> USE GracePeriodAssumption
  <1>0. PICK act \in [AllPods -> VersionOrNone], inact \in [AllPods -> VersionOrNone] :
               UpdateFrom(o, act, inact)
    BY UpdateReads DEF IInv
  <1>1. GraceTiming'
    <2> SUFFICES ASSUME NEW p \in AllPods, InGrace(cpState[p])'
                 PROVE  (\/ allStopped
                         \/ Observing /\ obs.apiAvailable /\ obs.apiParents[p] # NoVersion
                         \/ gone[p] # NotGone /\ gone[p] + cpState[p].left >= GracePeriod)'
      BY DEF GraceTiming
    <2>1. InGrace(cpState[p]) /\ cpState'[p] = cpState[p]
      BY <1>0 DEF UpdateFrom, UpdatedState, InGrace, Tracked, stateSelfCheckpointActive, stateActive,
             stateInactive, stateNone, Untracked, Plain
    <2>2. ~Observing BY <1>0 DEF UpdateFrom, Idle, Observing
    <2>3. allStopped \/ (gone[p] # NotGone /\ gone[p] + cpState[p].left >= GracePeriod)
      BY <2>1, <2>2 DEF IInv, GraceTiming
    <2>4. gone'[p] = GoneAfter(p, o) /\ allStopped' = allStopped /\ obs' = o /\ Observing'
      BY <1>0 DEF UpdateFrom, Observing
    <2> QED BY <2>1, <2>3, <2>4 DEF GoneAfter
  <1>2. ObservedGone'
    BY <1>0 DEF UpdateFrom, ObservedGone, GoneAfter, NotGone, IInv, TypeOK, Observing
  <1>3. RemovingInOrder' /\ RemovalJustified'
    BY <1>0 DEF UpdateFrom, Idle, RemovingInOrder, RemovalJustified
  <1>4. TrackedHavePods'
    <2> SUFFICES ASSUME NEW p \in AllPods
                 PROVE  /\ Tracked(p)' => cpPod'[p].version # NoVersion
                        /\ p \in todo' => Tracked(p)'
      BY DEF TrackedHavePods
    <2>1. Tracked(p)' => cpPod'[p].version # NoVersion
      BY <1>0 DEF UpdateFrom, UpdatedState, UpdatedPod, Tracked, Untracked, Plain, IInv, TrackedHavePods,
             Parent, FromDisk
    <2>2. p \in todo' => Tracked(p)'
      BY <1>0 DEF UpdateFrom, Tracked
    <2> QED BY <2>1, <2>2
  <1>5. NoneInRemove'
    BY <1>0 DEF UpdateFrom, UpdatedState, NoneInRemove, IInv, stateSelfCheckpointActive, stateActive,
           stateInactive, stateNone, Untracked, Plain
  <1> QED BY <1>1, <1>2, <1>3, <1>4, <1>5 DEF IInv

\* A state that process moves into a grace period keeps in time.
LEMMA NextStateGrace ==
  ASSUME IInv, pc = "create", NEW p \in AllPods, InGrace(NextState(p))
  PROVE  allStopped \/ (gone[p] # NotGone /\ gone[p] + NextState(p).left >= GracePeriod)
  <1> USE GracePeriodAssumption
  <1>1. Condition(p) \in ApiConditions /\ cpState[p] \in States
    BY ConditionType DEF IInv, TypeOK
  <1>2. /\ ~(Condition(p).apiAvailable /\ Condition(p).apiParent)
        /\ \/ ParentDeleted(Condition(p)) /\ NextState(p).left = GracePeriod
           \/ InGrace(cpState[p]) /\ NextState(p).left = cpState[p].left
    BY <1>1, TransitionGrace DEF NextState
  <1>3. CASE ParentDeleted(Condition(p)) /\ NextState(p).left = GracePeriod
    <2>1. gone[p] # NotGone
      BY <1>3 DEF IInv, ObservedGone, Observing, ParentDeleted, Condition
    <2> QED BY <1>3, <2>1 DEF IInv, TypeOK, NotGone
  <1>4. CASE InGrace(cpState[p]) /\ NextState(p).left = cpState[p].left
    BY <1>2, <1>4 DEF IInv, GraceTiming, Condition
  <1> QED BY <1>2, <1>3, <1>4

\* process moves a checkpoint to stateRemove only when its time has come.
LEMMA NextStateRemove ==
  ASSUME IInv, pc = "create", NEW p \in AllPods, NextState(p).kind = "Remove"
  PROVE  GraceExpired(p) \/ allStopped
  <1> USE GracePeriodAssumption
  <1>1. /\ Condition(p) \in ApiConditions /\ cpState[p] \in States
        /\ gone[p] \in NotGone..GracePeriod
    BY ConditionType DEF IInv, TypeOK
  <1>2. /\ ~(Condition(p).apiAvailable /\ Condition(p).apiParent)
        /\ \/ InGrace(cpState[p]) /\ cpState[p].left = 0
           \/ ParentDeleted(Condition(p)) /\ GracePeriod = 0
    BY <1>1, TransitionRemove DEF NextState, IInv, NoneInRemove
  <1>3. CASE InGrace(cpState[p]) /\ cpState[p].left = 0
    <2>1. allStopped \/ (gone[p] # NotGone /\ gone[p] + 0 >= GracePeriod)
      BY <1>2, <1>3 DEF IInv, GraceTiming, Condition
    <2> QED BY <1>1, <2>1 DEF GraceExpired, NotGone
  <1>4. CASE ParentDeleted(Condition(p)) /\ GracePeriod = 0
    <2>1. gone[p] # NotGone
      BY <1>4 DEF IInv, ObservedGone, Observing, ParentDeleted, Condition
    <2> QED BY <1>1, <1>4, <2>1 DEF GraceExpired, NotGone
  <1> QED BY <1>2, <1>3, <1>4

LEMMA ActionRemove == \A s \in States : Action(s) = "remove" <=> s.kind = "Remove"
  BY DEF Action, States, StateKinds

LEMMA NextStateTracked ==
  ASSUME IInv, NEW p \in AllPods, NextState(p).kind # "Untracked"
  PROVE  Tracked(p)
  <1>1. Condition(p) \in ApiConditions /\ cpState[p] \in States
    BY ConditionType DEF IInv, TypeOK
  <1> QED BY <1>1, TransitionUntracked DEF NextState, Tracked

LEMMA ProcessIInv ==
  ASSUME IInv, Process, TypeOK'
  PROVE  IInv'
  <1> USE GracePeriodAssumption
  <1>1. /\ pc = "create" /\ pc' = "handle" /\ todo = {} /\ todo' = {}
        /\ gone' = gone /\ cpPod' = cpPod
    BY DEF Process, ProcessAll, ProcessSelfStop, ProcessSelfRemove, BeginProcess
  <1>2. ASSUME NEW p \in AllPods
        PROVE  \/ cpState'[p] = NextState(p) /\ NextState(p).kind # "Remove"
               \/ cpState'[p] = cpState[p] /\ (ProcessSelfStop \/ Action(cpState[p]) = "none")
               \/ cpState'[p] = Untracked
    <2>1. CASE ProcessAll
      BY <2>1, ProcessTypes, ActionRemove DEF ProcessAll, Kept, IInv
    <2>2. CASE ProcessSelfStop
      BY <2>2, ProcessTypes, ActionRemove DEF ProcessSelfStop, IInv, TypeOK
    <2>3. CASE ProcessSelfRemove
      BY <2>3 DEF ProcessSelfRemove, Checkpointed, AllPods
    <2> QED BY <2>1, <2>2, <2>3 DEF Process
  <1>3. allStopped => allStopped'
    BY DEF Process, ProcessAll, ProcessSelfStop, ProcessSelfRemove
  <1>4. GraceTiming'
    <2> SUFFICES ASSUME NEW p \in AllPods, InGrace(cpState'[p])
                 PROVE  \/ allStopped'
                        \/ gone[p] # NotGone /\ gone[p] + cpState'[p].left >= GracePeriod
      BY <1>1 DEF GraceTiming
    <2>1. CASE cpState'[p] = NextState(p)
      BY <1>1, <1>3, <2>1, NextStateGrace
    <2>2. CASE cpState'[p] = cpState[p] /\ ProcessSelfStop
      BY <2>2 DEF ProcessSelfStop
    <2>3. CASE cpState'[p] = cpState[p] /\ Action(cpState[p]) = "none"
      BY <2>3 DEF Action, InGrace
    <2>4. CASE cpState'[p] = Untracked
      BY <2>4 DEF InGrace, Untracked, Plain
    <2> QED BY <1>2, <2>1, <2>2, <2>3, <2>4
  <1>5. ObservedGone' /\ RemovingInOrder'
    BY <1>1 DEF ObservedGone, Observing, RemovingInOrder
  <1>6. TrackedHavePods'
    BY <1>1, <1>2, NextStateTracked DEF IInv, TrackedHavePods, Tracked, Untracked, Plain
  <1>7. NoneInRemove'
    BY <1>2 DEF IInv, NoneInRemove, Untracked, Plain
  <1>8. RemovalJustified'
    <2>1. CASE ProcessAll
      <3> SUFFICES ASSUME NEW p \in Changed("remove")
                   PROVE  GraceExpired(p) \/ allStopped
        BY <1>1, <2>1 DEF RemovalJustified, ProcessAll, GraceExpired
      <3>1. p \in AllPods /\ Action(NextState(p)) = "remove"
        BY DEF Changed, AllPods
      <3>2. NextState(p).kind = "Remove"
        BY <3>1, ActionRemove, ProcessTypes DEF IInv
      <3> QED BY <1>1, <3>1, <3>2, NextStateRemove
    <2>2. CASE ProcessSelfStop
      BY <2>2 DEF RemovalJustified, ProcessSelfStop
    <2>3. CASE ProcessSelfRemove
      <3>1. Self \in AllPods BY DEF AllPods
      <3>2. NextState(Self).kind = "Remove"
        BY <2>3, <3>1, ActionRemove, ProcessTypes DEF ProcessSelfRemove, IInv
      <3>3. GraceExpired(Self) \/ allStopped
        BY <1>1, <3>1, <3>2, NextStateRemove
      <3> QED BY <1>1, <2>3, <3>3 DEF RemovalJustified, ProcessSelfRemove, GraceExpired
    <2> QED BY <2>1, <2>2, <2>3 DEF Process
  <1> QED BY <1>4, <1>5, <1>6, <1>7, <1>8 DEF IInv

\* Steps that change the disk, the lists or the place in the loop only.
LEMMA DiskStepIInv ==
  ASSUME IInv, TypeOK', NEW p \in AllPods,
         \/ WriteManifest(p) \/ WriteManifestFails(p)
         \/ CheckpointSecrets(p) \/ CheckpointSecretsFails(p)
         \/ CheckpointConfigMaps(p)
         \/ HandleStop(p) \/ HandleStart(p)
         \/ RemoveSecrets(p) \/ RemoveConfigMaps(p)
         \/ RemoveInactive(p) \/ RemoveActive(p)
  PROVE  IInv'
  <1> USE DEF memory, work, history, assets
  <1>1. /\ cpState' = cpState /\ cpPod' = cpPod /\ obs' = obs
        /\ gone' = gone /\ allStopped' = allStopped /\ todo' \subseteq todo
        /\ (Observing <=> Observing')
    BY DEF WriteManifest, WriteManifestFails, CheckpointSecrets, CheckpointSecretsFails,
           CheckpointConfigMaps, HandleStop, HandleStart, RemoveSecrets, RemoveConfigMaps,
           RemoveInactive, RemoveActive, Observing
  <1>2. GraceTiming' /\ ObservedGone' /\ TrackedHavePods' /\ NoneInRemove'
    BY <1>1 DEF IInv, GraceTiming, ObservedGone, TrackedHavePods, NoneInRemove, Tracked
  <1>3. RemovingInOrder'
    BY DEF IInv, RemovingInOrder, NextToRemove, WriteManifest, WriteManifestFails,
           CheckpointSecrets, CheckpointSecretsFails, CheckpointConfigMaps, HandleStop,
           HandleStart, RemoveSecrets, RemoveConfigMaps, RemoveInactive, RemoveActive
  <1>4. removes' = removes \/ (/\ removes' = removes \ {p}
                               /\ p = Self => removes = {Self})
    BY DEF IInv, RemovingInOrder, WriteManifest, WriteManifestFails, CheckpointSecrets,
           CheckpointSecretsFails, CheckpointConfigMaps, HandleStop, HandleStart,
           RemoveSecrets, RemoveConfigMaps, RemoveInactive, RemoveActive
  <1>5. RemovalJustified'
    BY <1>1, <1>4 DEF IInv, RemovalJustified, GraceExpired
  <1> QED BY <1>2, <1>3, <1>5 DEF IInv

\* A tick shortens a countdown by no more than it lengthens the absence.
LEMMA TickIInv ==
  ASSUME IInv, Tick, TypeOK'
  PROVE  IInv'
  <1> USE GracePeriodAssumption
  <1>1. ASSUME NEW p \in AllPods
        PROVE  /\ cpState[p] \in States /\ gone[p] \in NotGone..GracePeriod
               /\ cpState'[p].kind = cpState[p].kind
               /\ cpState'[p].left = IF cpState[p].left > 0 THEN cpState[p].left - 1 ELSE 0
               /\ gone'[p] = IF gone[p] \in 0..(GracePeriod - 1) THEN gone[p] + 1 ELSE gone[p]
    BY ElapseType DEF Tick, IInv, TypeOK
  <1>2. /\ pc' = pc /\ obs' = obs /\ cpPod' = cpPod /\ todo' = todo /\ cur' = cur
        /\ removes' = removes /\ allStopped' = allStopped
    BY DEF Tick, work
  <1>3. GraceTiming'
    <2> SUFFICES ASSUME NEW p \in AllPods, InGrace(cpState[p])
                 PROVE  \/ allStopped
                        \/ Observing /\ obs.apiAvailable /\ obs.apiParents[p] # NoVersion
                        \/ gone'[p] # NotGone /\ gone'[p] + cpState'[p].left >= GracePeriod
      BY <1>1, <1>2 DEF GraceTiming, InGrace, Observing
    <2>1. CASE gone[p] # NotGone /\ gone[p] + cpState[p].left >= GracePeriod
      BY <1>1, <2>1 DEF States, NotGone
    <2> QED BY <2>1 DEF IInv, GraceTiming
  <1>4. ObservedGone'
    BY <1>1, <1>2 DEF IInv, ObservedGone, Observing, NotGone
  <1>5. RemovingInOrder' /\ TrackedHavePods' /\ NoneInRemove'
    BY <1>1, <1>2 DEF IInv, RemovingInOrder, TrackedHavePods, Tracked, NoneInRemove
  <1>6. RemovalJustified'
    <2>1. ASSUME NEW p \in AllPods, GraceExpired(p) PROVE GraceExpired(p)'
      BY <1>1, <2>1 DEF GraceExpired
    <2>2. removes \subseteq AllPods /\ Self \in AllPods
      BY DEF IInv, TypeOK, AllPods
    <2> QED BY <1>2, <2>1, <2>2 DEF IInv, RemovalJustified
  <1> QED BY <1>3, <1>4, <1>5, <1>6 DEF IInv

LEMMA CrashIInv ==
  ASSUME IInv, Crash, TypeOK'
  PROVE  IInv'
  BY DEF IInv, Crash, GraceTiming, InGrace, ObservedGone, Observing, RemovingInOrder,
         TrackedHavePods, Tracked, NoneInRemove, RemovalJustified, Untracked, Plain

LEMMA StepIInv ==
  ASSUME IInv, [Next]_vars
  PROVE  IInv'
  <1>1. TypeOK' BY TypeStep DEF IInv
  <1>2. CASE UNCHANGED vars
    BY <1>1, <1>2
    DEF IInv, vars, memory, work, disk, history, GraceTiming, ObservedGone, Observing,
        RemovingInOrder, TrackedHavePods, Tracked, NoneInRemove, RemovalJustified, GraceExpired
  <1> QED BY <1>1, <1>2, UpdateIInv, ProcessIInv, DiskStepIInv, TickIInv, CrashIInv
          DEF Next, Step

----------------------------------------------------------------------------
(***************************************************************************)
(* The theorems                                                            *)
(***************************************************************************)
\* The inductive invariant holds in every state the checkpointer reaches.
THEOREM InductiveInvariant == Spec => []IInv
  BY InitIInv, StepIInv, PTL DEF Spec

\* Type correctness.
THEOREM TypeCorrect == Spec => []TypeOK
  <1>1. IInv => TypeOK BY DEF IInv
  <1> QED BY <1>1, InductiveInvariant, PTL

\* Nothing is queued for garbage collection before the api server has omitted
\* it, or the checkpointer, for a whole grace period.
THEOREM RemovalIsJustified == Spec => []RemovalJustified
  <1>1. IInv => RemovalJustified BY DEF IInv
  <1> QED BY <1>1, InductiveInvariant, PTL

\* No step deletes a checkpoint's manifest, secrets or configMaps before that.
THEOREM DeletionIsJustified == Spec => DeletionJustified
  <1> DEFINE Deleted(p) ==
        \/ inactive[p] # NoVersion /\ inactive'[p] = NoVersion
        \/ ~(secrets[p] \subseteq secrets'[p]) \/ ~(configMaps[p] \subseteq configMaps'[p])
  <1>1. ASSUME IInv, [Next]_vars, NEW p \in AllPods, Deleted(p)
        PROVE  GraceExpired(p) \/ GraceExpired(Self) \/ allStopped
    <2>1. p \in removes
      <3>1. /\ inactive \in [AllPods -> VersionOrNone]
            /\ secrets \in [AllPods -> SUBSET VersionOrNone]
            /\ configMaps \in [AllPods -> SUBSET VersionOrNone]
        BY <1>1 DEF IInv, TypeOK
      <3>2. CASE UNCHANGED disk
        BY <1>1, <3>2 DEF disk
      <3>3. CASE \E q \in AllPods : WriteManifest(q) \/ WriteManifestFails(q)
        <4>1. PICK q \in AllPods : WriteManifest(q) \/ WriteManifestFails(q)
          BY <3>3
        <4>2. cpPod[q].version # NoVersion
          BY <1>1, <4>1 DEF IInv, TrackedHavePods, NextToCreate, WriteManifest, WriteManifestFails
        <4>3. /\ secrets' = secrets /\ configMaps' = configMaps
              /\ \E v \in {inactive[q], cpPod[q].version} :
                   inactive' = [inactive EXCEPT ![q] = v]
          BY <4>1 DEF WriteManifest, WriteManifestFails, assets
        <4> QED BY <1>1, <3>1, <4>2, <4>3
      <3>4. CASE \E q \in AllPods : \/ CheckpointSecrets(q) \/ CheckpointSecretsFails(q)
                                      \/ CheckpointConfigMaps(q)
        BY <1>1, <3>1, <3>4 DEF CheckpointSecrets, CheckpointSecretsFails, CheckpointConfigMaps
      <3>5. CASE \E q \in AllPods : HandleStop(q) \/ HandleStart(q)
        BY <1>1, <3>5 DEF HandleStop, HandleStart, assets
      <3>6. CASE \E q \in AllPods : \/ RemoveSecrets(q) \/ RemoveConfigMaps(q)
                                      \/ RemoveInactive(q) \/ RemoveActive(q)
        <4>1. PICK q \in AllPods : \/ RemoveSecrets(q) \/ RemoveConfigMaps(q)
                                   \/ RemoveInactive(q) \/ RemoveActive(q)
          BY <3>6
        <4>2. q \in removes
          BY <1>1, <4>1 DEF IInv, RemovingInOrder, RemoveSecrets, RemoveConfigMaps, RemoveInactive,
                      RemoveActive, NextToRemove
        <4>3. /\ secrets' \in {secrets, [secrets EXCEPT ![q] = {}]}
              /\ configMaps' \in {configMaps, [configMaps EXCEPT ![q] = {}]}
              /\ inactive' \in {inactive, [inactive EXCEPT ![q] = NoVersion]}
          BY <4>1 DEF RemoveSecrets, RemoveConfigMaps, RemoveInactive, RemoveActive,
                      Unlink, assets
        <4>4. p = q
          BY <1>1, <3>1, <4>3
        <4> QED BY <4>2, <4>4
      <3>7. CASE UNCHANGED vars BY <3>2, <3>7 DEF vars, disk
      <3> QED BY <1>1, <3>2, <3>3, <3>4, <3>5, <3>6, <3>7
              DEF Next, Step, Update, UpdateUnreadable, UpdateFrom, Process, ProcessAll,
                  ProcessSelfStop, ProcessSelfRemove, BeginProcess, Tick, Crash
    <2> QED BY <1>1, <2>1 DEF IInv, RemovalJustified
  <1>2. IInv /\ [Next]_vars =>
          [\A p \in AllPods : Deleted(p) => GraceExpired(p) \/ GraceExpired(Self) \/ allStopped]_vars
    BY <1>1
  <1> QED BY <1>2, InductiveInvariant, PTL DEF Spec, DeletionJustified

----------------------------------------------------------------------------
(***************************************************************************)
(* What the pod checkpointer leaves on disk: that the memory and the disk  *)
(* agree between two cycles, that nothing on disk is ever out of the reach *)
(* of a later process, and that the checkpointer implements                *)
(* CheckpointLifecycle.                                                    *)
(*                                                                         *)
(* None of this is inductive.  It takes where the lists of process and the *)
(* loops over them stand (ListsInPlace), what they hold in terms of the    *)
(* memory (ListsMatchMemory), and what is on disk while they are worked    *)
(* off (StoredMatches, ActiveMatches, RemovedSoFar).                       *)
(***************************************************************************)

Removing == pc \in {"removeConfigMaps", "removeInactive", "removeActive"}

\* process finds its lists empty, the handlers find every parent done, and
\* handleRemove starts when the stops and the starts are done.
ListsInPlace ==
  /\ Observing => starts = {} /\ stops = {} /\ removes = {}
  /\ ~Observing => todo = {}
  /\ pc \in {"create", "handle"} => cur = {}
  /\ pc \in {"secrets", "configMaps"} => cur \subseteq todo
  /\ Removing => starts = {} /\ stops = {}

\* What is to be started or stopped is in the map, in a state that asks for
\* it, unless everything is stopped along with the self checkpoint; what is
\* to be removed has left the map.
ListsMatchMemory ==
  /\ \A p \in starts : Action(cpState[p]) = "start"
  /\ \A p \in stops : \/ Action(cpState[p]) = "stop"
                      \/ p # Self /\ allStopped /\ Tracked(p)
  /\ \A p \in removes : ~Tracked(p)
  /\ Self \in removes => starts = {} /\ stops = {}

\* Every entry of the map whose turn has come in this cycle has its manifest
\* in inactive-manifests.
StoredMatches ==
  ~faulted => \A p \in AllPods :
    Tracked(p) /\ p \notin todo \ cur => inactive[p] = cpPod[p].version

\* The active manifests are those the memory believes started, up to what the
\* handlers have yet to do.
ActiveMatches ==
  ~faulted => \A p \in AllPods :
    /\ Action(cpState[p]) = "stop" => active[p] = NoVersion \/ p \in stops
    /\ Action(cpState[p]) = "start" /\ p # Self =>
         active[p] # NoVersion \/ p \in starts \/ allStopped
    /\ Action(cpState[p]) = "start" /\ p = Self /\ ~Observing =>
         active[p] = inactive[p] \/ p \in starts
    /\ cpState[p].kind = "None" => active[p] = NoVersion
    /\ Observing /\ ~Tracked(p) => active[p] = NoVersion

\* When the self checkpoint is to be removed, so is everything that runs.
SelfTakesAll ==
  ~faulted /\ Self \in removes =>
    \A p \in Pods : active[p] # NoVersion => p \in removes

\* What handleRemove has done so far for the checkpoint in hand.
RemovedSoFar ==
  ~faulted => \A p \in cur :
    /\ Removing => secrets[p] = {}
    /\ pc \in {"removeInactive", "removeActive"} => configMaps[p] = {}
    /\ pc = "removeActive" => inactive[p] = NoVersion

DiskInv ==
  /\ ListsInPlace
  /\ ListsMatchMemory
  /\ StoredMatches
  /\ ActiveMatches
  /\ SelfTakesAll
  /\ RemovedSoFar
  /\ faulted => DiskFaults
  /\ NoOrphanedAssets

----------------------------------------------------------------------------
(***************************************************************************)
(* The state machine                                                       *)
(***************************************************************************)
\* The action each state asks for.
LEMMA ActionKinds ==
  ASSUME NEW s \in States
  PROVE  /\ Action(s) = "start" <=>
              s.kind \in {"SelfCheckpointActive", "Active", "ActiveGracePeriod"}
         /\ Action(s) = "stop" <=> s.kind \in {"Inactive", "InactiveGracePeriod"}
         /\ Action(s) = "remove" <=> s.kind = "Remove"
         /\ Action(s) = "none" <=> s.kind \in {"Untracked", "None"}
  BY DEF Action, States, StateKinds

\* Nothing goes back to stateNone.
LEMMA TransitionToNone ==
  ASSUME NEW s \in States, NEW c \in ApiConditions, Transition(s, c).kind = "None"
  PROVE  s.kind = "None"
  BY GracePeriodAssumption
  DEF States, StateKinds, ApiConditions, Transition, transitionSelfCheckpointActive,
      transitionNone, transitionInactive, transitionInactiveGracePeriod, transitionActive,
      transitionActiveGracePeriod, checkActiveGracePeriod, checkInactiveGracePeriod,
      ParentDeleted, Plain, stateSelfCheckpointActive, stateNone, stateInactive, stateActive,
      stateRemove, stateInactiveGracePeriod, stateActiveGracePeriod

\* What process makes of the states.
LEMMA NextStateKinds ==
  ASSUME TypeOK, NEW p \in AllPods
  PROVE  /\ cpState[p] \in States /\ NextState(p) \in States
         /\ NextState(p).kind = "None" => cpState[p].kind = "None"
         /\ ~Tracked(p) => NextState(p) = cpState[p]
  <1>1. Condition(p) \in ApiConditions /\ cpState[p] \in States
    BY ConditionType DEF TypeOK
  <1> QED BY <1>1, ProcessTypes, TransitionToNone, TransitionUntracked DEF NextState, Tracked

LEMMA UntrackedState == Untracked \in States /\ Untracked.kind = "Untracked"
  BY GracePeriodAssumption DEF Untracked, Plain, States, StateKinds

----------------------------------------------------------------------------
(***************************************************************************)
(* The inductive invariant                                                 *)
(***************************************************************************)
LEMMA InitDiskInv == Init => DiskInv
  <1> SUFFICES ASSUME Init PROVE DiskInv OBVIOUS
  <1>1. ListsInPlace /\ ListsMatchMemory /\ SelfTakesAll /\ RemovedSoFar
    BY DEF Init, ListsInPlace, ListsMatchMemory, SelfTakesAll, RemovedSoFar, Observing, Removing
  <1>2. StoredMatches
    BY UntrackedState DEF Init, StoredMatches, Tracked
  <1>3. ActiveMatches
    BY UntrackedState, ActionKinds DEF Init, ActiveMatches
  <1>4. (faulted => DiskFaults) /\ NoOrphanedAssets
    BY DEF Init, NoOrphanedAssets
  <1> QED BY <1>1, <1>2, <1>3, <1>4 DEF DiskInv

\* update tracks what has an active manifest as started.
LEMMA UpdateDiskInv ==
  ASSUME IInv, DiskInv, NEW o \in Observations, Update(o) \/ UpdateUnreadable(o)
  PROVE  DiskInv'
  <1>0. PICK act \in [AllPods -> VersionOrNone], inact \in [AllPods -> VersionOrNone] :
               UpdateFrom(o, act, inact)
    BY UpdateReads DEF IInv
  <1>1. /\ pc = "handle" /\ pc' = "create" /\ ~Observing /\ Observing' /\ ~Removing'
        /\ starts = {} /\ stops = {} /\ removes = {}
        /\ starts' = {} /\ stops' = {} /\ removes' = {} /\ cur = {} /\ cur' = {}
        /\ active' = active /\ inactive' = inactive /\ secrets' = secrets
        /\ configMaps' = configMaps /\ allStopped' = allStopped
    BY <1>0 DEF UpdateFrom, Idle, Observing, Removing, disk, DiskInv, ListsInPlace
  <1>2. /\ ListsInPlace' /\ ListsMatchMemory' /\ SelfTakesAll' /\ RemovedSoFar'
        /\ (faulted => DiskFaults)' /\ NoOrphanedAssets'
    BY <1>1, UpdateReads DEF IInv, DiskInv, ListsInPlace, ListsMatchMemory, SelfTakesAll,
                             RemovedSoFar, NoOrphanedAssets
  <1>3. \A p \in AllPods : Tracked(p)' <=> p \in todo'
    BY <1>0 DEF UpdateFrom, Tracked
  <1>4. StoredMatches'
    BY <1>1, <1>3 DEF StoredMatches
  <1>5. ActiveMatches'
    <2> SUFFICES ASSUME ~faulted', NEW p \in AllPods
                 PROVE  /\ Action(cpState'[p]) = "stop" => active[p] = NoVersion
                        /\ Action(cpState'[p]) = "start" /\ p # Self =>
                             active[p] # NoVersion \/ allStopped
                        /\ cpState'[p].kind = "None" => active[p] = NoVersion
                        /\ cpState'[p].kind = "Untracked" => active[p] = NoVersion
      BY <1>1 DEF ActiveMatches, Tracked
    <2>0. Update(o) /\ ~faulted
      BY UpdateReads DEF IInv, Update
    <2>1. /\ cpState'[p] = UpdatedState(p, o, active, inactive)
          /\ UpdatedState(p, o, active, inactive) \in States
      BY <2>0, UpdateTypes DEF Update, UpdateFrom, IInv, TypeOK
    <2>2. CASE Tracked(p)
      BY <1>1, <2>0, <2>1, <2>2 DEF UpdatedState, DiskInv, ActiveMatches, Tracked
    <2>3. CASE ~Tracked(p)
      BY <2>1, <2>3, ActionKinds
      DEF UpdatedState, stateSelfCheckpointActive, stateActive, stateInactive, stateNone,
          Untracked, Plain
    <2> QED BY <2>2, <2>3
  <1> QED BY <1>2, <1>4, <1>5 DEF DiskInv

\* createCheckpointsForValidParents stores every parent before its assets.
LEMMA CreateDiskInv ==
  ASSUME IInv, DiskInv, NEW q \in AllPods,
         \/ WriteManifest(q) \/ WriteManifestFails(q)
         \/ CheckpointSecrets(q) \/ CheckpointSecretsFails(q) \/ CheckpointConfigMaps(q)
  PROVE  DiskInv'
  <1> USE DEF memory, work, history, assets
  <1>1. /\ Observing /\ Observing' /\ ~Removing'
        /\ cpState' = cpState /\ cpPod' = cpPod /\ active' = active /\ allStopped' = allStopped
        /\ starts' = {} /\ stops' = {} /\ removes' = {} /\ (~faulted' => ~faulted)
        /\ q \in todo /\ q \notin todo' \ cur' /\ todo \ (cur \cup {q}) \subseteq todo' \ cur'
    BY DEF WriteManifest, WriteManifestFails, CheckpointSecrets, CheckpointSecretsFails,
           CheckpointConfigMaps, Observing, Removing, NextToCreate, DiskInv, ListsInPlace
  <1>2. ListsInPlace'
    BY <1>1
    DEF WriteManifest, WriteManifestFails, CheckpointSecrets, CheckpointSecretsFails,
           CheckpointConfigMaps, ListsInPlace, DiskInv, Observing, NextToCreate
  <1>3. ListsMatchMemory' /\ SelfTakesAll' /\ RemovedSoFar'
    BY <1>1 DEF ListsMatchMemory, SelfTakesAll, RemovedSoFar, Removing
  <1>4. /\ cpPod[q].version # NoVersion
        /\ inactive \in [AllPods -> VersionOrNone]
    BY <1>1 DEF IInv, TrackedHavePods, TypeOK
  <1>5. \/ inactive' = inactive /\ pc \in {"secrets", "configMaps"} /\ cur = {q}
        \/ inactive' = inactive /\ faulted'
        \/ inactive' = [inactive EXCEPT ![q] = cpPod[q].version]
    BY <1>4 DEF WriteManifest, WriteManifestFails, CheckpointSecrets, CheckpointSecretsFails,
           CheckpointConfigMaps
  <1>6. /\ \A p \in AllPods : inactive[p] # NoVersion => inactive'[p] # NoVersion
        /\ ~faulted' => inactive'[q] = cpPod[q].version
        /\ \A p \in AllPods \ {q} : inactive'[p] = inactive[p]
    BY <1>1, <1>4, <1>5 DEF DiskInv, StoredMatches, IInv, TrackedHavePods
  <1>7. StoredMatches'
    BY <1>1, <1>6 DEF DiskInv, StoredMatches, Tracked
  <1>8. ActiveMatches'
    BY <1>1, <1>6 DEF DiskInv, ActiveMatches, Tracked, ListsInPlace
  <1>9. (faulted => DiskFaults)'
    BY DEF WriteManifest, WriteManifestFails, CheckpointSecrets, CheckpointSecretsFails,
           CheckpointConfigMaps, DiskInv
  <1>10. NoOrphanedAssets'
    <2> SUFFICES ASSUME ~DiskFaults, NEW p \in AllPods, secrets'[p] \cup configMaps'[p] # {}
                 PROVE  inactive'[p] # NoVersion \/ active[p] # NoVersion
      BY <1>1 DEF NoOrphanedAssets
    <2>1. CASE p = q
      BY <1>4, <1>6, <1>9, <2>1
    <2>2. CASE p # q
      <3>1. secrets'[p] = secrets[p] /\ configMaps'[p] = configMaps[p]
        BY <2>2 DEF IInv, TypeOK, WriteManifest, WriteManifestFails, CheckpointSecrets,
                    CheckpointSecretsFails, CheckpointConfigMaps
      <3> QED BY <1>6, <3>1 DEF DiskInv, NoOrphanedAssets
    <2> QED BY <2>1, <2>2
  <1> QED BY <1>2, <1>3, <1>7, <1>8, <1>9, <1>10 DEF DiskInv

\* process turns what the transitions changed into lists, and leaves the disk
\* alone.
LEMMA ProcessDiskInv ==
  ASSUME IInv, DiskInv, Process
  PROVE  DiskInv'
  <1>1. /\ Observing /\ ~Observing' /\ ~Removing' /\ pc = "create" /\ pc' = "handle"
        /\ todo = {} /\ todo' = {} /\ cur = {} /\ cur' = {} /\ cpPod' = cpPod
        /\ starts = {} /\ stops = {} /\ removes = {}
        /\ active' = active /\ inactive' = inactive /\ secrets' = secrets
        /\ configMaps' = configMaps /\ faulted' = faulted /\ (allStopped => allStopped')
    BY DEF Process, ProcessAll, ProcessSelfStop, ProcessSelfRemove, BeginProcess, disk, DiskInv,
           ListsInPlace, Observing, Removing
  <1>2. /\ ListsInPlace' /\ RemovedSoFar' /\ (faulted => DiskFaults)' /\ NoOrphanedAssets'
    BY <1>1 DEF DiskInv, ListsInPlace, RemovedSoFar, NoOrphanedAssets
  <1>3. Self \in AllPods /\ Pods \subseteq AllPods /\ Self \notin Pods
    BY SelfAssumption DEF AllPods
  <1>4. \A p \in AllPods : Tracked(p) => cpState[p].kind # "Untracked"
    BY DEF Tracked
  <1>5. CASE ProcessAll
    <2>1. \A p \in AllPods : cpState'[p] = IF p = Self THEN NextState(p) ELSE Kept(NextState(p))
      BY <1>5 DEF ProcessAll
    <2>2. /\ starts' = Changed("start") \cup {p \in {Self} : Action(NextState(p)) = "start"}
          /\ stops' = Changed("stop") /\ removes' = Changed("remove")
          /\ Action(NextState(Self)) \in {"none", "start"}
          /\ Self \notin removes'
      BY <1>3, <1>5 DEF ProcessAll, Changed
    <2>3. \A p \in AllPods :
            /\ cpState[p] \in States /\ NextState(p) \in States /\ cpState'[p] \in States
            /\ Action(NextState(p)) # "remove" => cpState'[p] = NextState(p)
            /\ Action(NextState(p)) = "remove" => cpState'[p].kind = "Untracked"
            /\ cpState'[p].kind # "Untracked" => cpState[p].kind # "Untracked"
      BY <2>1, <2>2, NextStateKinds, UntrackedState DEF Kept, IInv, Tracked
    <2>4. ListsMatchMemory'
      BY <1>1, <1>3, <2>2, <2>3 DEF ListsMatchMemory, Changed, Tracked
    <2>5. StoredMatches'
      BY <1>1, <2>3 DEF DiskInv, StoredMatches, Tracked
    <2>6. ActiveMatches'
      <3> SUFFICES ASSUME ~faulted, NEW p \in AllPods
                   PROVE  /\ Action(cpState'[p]) = "stop" => active[p] = NoVersion \/ p \in stops'
                          /\ Action(cpState'[p]) = "start" /\ p # Self =>
                               active[p] # NoVersion \/ p \in starts' \/ allStopped'
                          /\ Action(cpState'[p]) = "start" /\ p = Self => p \in starts'
                          /\ cpState'[p].kind = "None" => active[p] = NoVersion
        BY <1>1 DEF ActiveMatches
      <3>1. CASE Action(NextState(p)) = "remove"
        BY <2>3, <3>1, ActionKinds
      <3>2. CASE Action(NextState(p)) # "remove" /\ p # Self
        <4>1. p \in Pods
          BY <3>2 DEF AllPods
        <4> QED BY <1>1, <2>2, <2>3, <3>2, <4>1, NextStateKinds
                DEF DiskInv, ActiveMatches, Changed, IInv
      <3>3. CASE p = Self
        <4>1. cpState'[Self] = NextState(Self)
          BY <1>3, <2>1
        <4> QED BY <1>1, <1>3, <2>2, <3>3, <4>1, NextStateKinds DEF DiskInv, ActiveMatches, IInv
      <3> QED BY <3>1, <3>2, <3>3
    <2>7. SelfTakesAll'
      BY <2>2 DEF SelfTakesAll
    <2> QED BY <1>2, <2>4, <2>5, <2>6, <2>7 DEF DiskInv
  <1>6. CASE ProcessSelfStop
    <2>1. /\ starts' = {} /\ removes' = {} /\ stops' = Checkpointed \cup {Self} /\ allStopped'
          /\ Action(NextState(Self)) = "stop"
          /\ \A p \in AllPods : cpState'[p] = IF p = Self THEN NextState(Self) ELSE cpState[p]
      BY <1>1, <1>6 DEF ProcessSelfStop, IInv, TypeOK
    <2>2. Tracked(Self)
      BY <1>3, <2>1, NextStateKinds, ActionKinds DEF Tracked, IInv
    <2>3. \A p \in Pods : cpState[p] \in States /\ cpState'[p] = cpState[p]
      BY <1>3, <2>1 DEF IInv, TypeOK
    <2>4. ListsMatchMemory'
      <3>1. ASSUME NEW p \in Checkpointed
            PROVE  p # Self /\ Tracked(p)'
        BY <1>3, <2>3, ActionKinds DEF Checkpointed, Tracked
      <3> QED BY <1>3, <2>1, <3>1 DEF ListsMatchMemory
    <2>5. StoredMatches'
      BY <1>1, <2>1, <2>2 DEF DiskInv, StoredMatches, Tracked
    <2>6. ActiveMatches'
      <3> SUFFICES ASSUME ~faulted, NEW p \in AllPods
                   PROVE  /\ Action(cpState'[p]) = "stop" => active[p] = NoVersion \/ p \in stops'
                          /\ Action(cpState'[p]) = "start" => p # Self
                          /\ cpState'[p].kind = "None" => active[p] = NoVersion
        BY <1>1, <2>1 DEF ActiveMatches
      <3> QED BY <1>1, <1>3, <2>1, NextStateKinds DEF DiskInv, ActiveMatches, IInv
    <2>7. SelfTakesAll'
      BY <2>1 DEF SelfTakesAll
    <2> QED BY <1>2, <2>4, <2>5, <2>6, <2>7 DEF DiskInv
  <1>7. CASE ProcessSelfRemove
    <2>1. /\ starts' = {} /\ stops' = {} /\ removes' = Checkpointed \cup {Self}
          /\ \A p \in AllPods : cpState'[p] = IF p \in removes' THEN Untracked ELSE cpState[p]
      BY <1>1, <1>7 DEF ProcessSelfRemove
    <2>2. ListsMatchMemory'
      <3>1. removes' \subseteq AllPods
        BY <1>3, <2>1 DEF Checkpointed
      <3> QED BY <2>1, <3>1, UntrackedState DEF ListsMatchMemory, Tracked
    <2>3. StoredMatches'
      BY <1>1, <2>1, UntrackedState DEF DiskInv, StoredMatches, Tracked
    <2>4. \A p \in AllPods : /\ cpState[p] \in States
                             /\ p \notin removes' => cpState[p].kind \in {"Untracked", "None"}
      BY <2>1, ActionKinds DEF Checkpointed, AllPods, IInv, TypeOK
    <2>5. ActiveMatches'
      BY <1>1, <2>1, <2>4, UntrackedState, ActionKinds DEF DiskInv, ActiveMatches
    <2>6. SelfTakesAll'
      BY <1>1, <1>3, <2>1, <2>4 DEF DiskInv, ActiveMatches, SelfTakesAll, Tracked
    <2> QED BY <1>2, <2>2, <2>3, <2>5, <2>6 DEF DiskInv
  <1> QED BY <1>5, <1>6, <1>7 DEF Process

\* handleStop and handleStart bring the active manifests in line with the
\* memory; a start finds its source, and a stop leaves the stored manifest.
LEMMA HandleDiskInv ==
  ASSUME IInv, DiskInv, NEW q \in AllPods, HandleStop(q) \/ HandleStart(q)
  PROVE  DiskInv'
  <1> USE DEF memory, assets
  <1>1. /\ pc = "handle" /\ pc' = "handle" /\ ~Observing /\ ~Observing' /\ ~Removing'
        /\ todo = {} /\ todo' = {} /\ cur = {} /\ cur' = {} /\ cpPod' = cpPod
        /\ cpState' = cpState /\ allStopped' = allStopped /\ (~faulted' => ~faulted)
        /\ removes' = removes /\ inactive' = inactive /\ secrets' = secrets
        /\ configMaps' = configMaps /\ (faulted => DiskFaults)'
        /\ starts' \subseteq starts /\ stops' \subseteq stops
        /\ active \in [AllPods -> VersionOrNone] /\ cpState \in [AllPods -> States]
    BY DEF HandleStop, HandleStart, Observing, Removing, DiskInv, ListsInPlace, Failing,
           IInv, TypeOK
  <1>2. ListsInPlace' /\ ListsMatchMemory' /\ StoredMatches' /\ RemovedSoFar'
    BY <1>1 DEF DiskInv, ListsInPlace, ListsMatchMemory, StoredMatches, RemovedSoFar, Tracked
  <1>3. Tracked(q) /\ Self \notin removes
    BY <1>1, ActionKinds DEF HandleStop, HandleStart, NextToStop, NextToStart, DiskInv,
                             ListsMatchMemory, Tracked
  <1>4. SelfTakesAll'
    BY <1>1, <1>3 DEF SelfTakesAll
  <1>5. ~faulted => inactive[q] # NoVersion
    BY <1>1, <1>3 DEF DiskInv, StoredMatches, IInv, TrackedHavePods
  <1>6. ASSUME ~faulted'
        PROVE  \/ HandleStop(q) /\ active' = [active EXCEPT ![q] = NoVersion]
               \/ HandleStart(q) /\ active' = [active EXCEPT ![q] = inactive[q]]
    BY <1>1, <1>5, <1>6 DEF HandleStop, HandleStart, Failing, Unlink
  <1>7. ActiveMatches'
    <2> SUFFICES ASSUME ~faulted', NEW p \in AllPods
                 PROVE  /\ Action(cpState[p]) = "stop" => active'[p] = NoVersion \/ p \in stops'
                        /\ Action(cpState[p]) = "start" /\ p # Self =>
                             active'[p] # NoVersion \/ p \in starts' \/ allStopped
                        /\ Action(cpState[p]) = "start" /\ p = Self =>
                             active'[p] = inactive[p] \/ p \in starts'
                        /\ cpState[p].kind = "None" => active'[p] = NoVersion
      BY <1>1 DEF ActiveMatches
    <2>1. CASE p # q
      <3>1. active'[p] = active[p] /\ (p \in stops => p \in stops') /\ (p \in starts => p \in starts')
        BY <1>1, <1>6, <2>1 DEF HandleStop, HandleStart
      <3> QED BY <1>1, <3>1 DEF DiskInv, ActiveMatches
    <2>2. CASE p = q /\ HandleStop(q)
      <3>1. active'[p] = NoVersion
        BY <1>1, <1>6, <2>2 DEF HandleStop, HandleStart, NextToStart, NextToStop
      <3>2. Action(cpState[p]) = "start" => p # Self /\ allStopped
        BY <2>2 DEF HandleStop, NextToStop, DiskInv, ListsMatchMemory
      <3> QED BY <3>1, <3>2
    <2>3. CASE p = q /\ HandleStart(q)
      <3>1. active'[p] = inactive[p] /\ active'[p] # NoVersion
        BY <1>1, <1>5, <1>6, <2>3 DEF HandleStop, HandleStart, NextToStart, NextToStop
      <3>2. Action(cpState[p]) = "start"
        BY <2>3 DEF HandleStart, NextToStart, DiskInv, ListsMatchMemory
      <3> QED BY <1>1, <3>1, <3>2, ActionKinds
    <2> QED BY <2>1, <2>2, <2>3
  <1>8. NoOrphanedAssets'
    <2> SUFFICES ASSUME ~DiskFaults, NEW p \in AllPods, secrets[p] \cup configMaps[p] # {}
                 PROVE  inactive[p] # NoVersion \/ active'[p] # NoVersion
      BY <1>1 DEF NoOrphanedAssets
    <2>1. ~faulted /\ ~faulted'
      BY <1>1
    <2>2. CASE p = q
      BY <1>5, <2>1, <2>2
    <2>3. CASE p # q
      <3>1. active'[p] = active[p]
        BY <1>1, <1>6, <2>1, <2>3
      <3> QED BY <3>1 DEF DiskInv, NoOrphanedAssets
    <2> QED BY <2>2, <2>3
  <1> QED BY <1>1, <1>2, <1>4, <1>7, <1>8 DEF DiskInv

\* handleRemove takes a checkpoint apart that is no longer in the map: its
\* assets, its stored manifest, its active manifest.
LEMMA RemoveDiskInv ==
  ASSUME IInv, DiskInv, NEW q \in AllPods,
         RemoveSecrets(q) \/ RemoveConfigMaps(q) \/ RemoveInactive(q) \/ RemoveActive(q)
  PROVE  DiskInv'
  <1> USE DEF memory, work, assets
  <1>1. /\ ~Observing /\ ~Observing' /\ todo = {} /\ todo' = {} /\ cpPod' = cpPod
        /\ cpState' = cpState /\ allStopped' = allStopped /\ (~faulted' => ~faulted)
        /\ starts = {} /\ starts' = {} /\ stops = {} /\ stops' = {}
        /\ (faulted => DiskFaults)' /\ q \in removes /\ removes' \subseteq removes
        /\ cpState \in [AllPods -> States]
    BY DEF RemoveSecrets, RemoveConfigMaps, RemoveInactive, RemoveActive, Observing, Removing,
           DiskInv, ListsInPlace, Failing, NextToRemove, IInv, TypeOK, RemovingInOrder
  <1>2. /\ active \in [AllPods -> VersionOrNone] /\ inactive \in [AllPods -> VersionOrNone]
        /\ secrets \in [AllPods -> SUBSET VersionOrNone]
        /\ configMaps \in [AllPods -> SUBSET VersionOrNone]
    BY DEF IInv, TypeOK
  <1>3. /\ \A p \in AllPods \ {q} : /\ active'[p] = active[p] /\ inactive'[p] = inactive[p]
                                    /\ secrets'[p] = secrets[p] /\ configMaps'[p] = configMaps[p]
                                    /\ p \in removes <=> p \in removes'
    BY <1>2 DEF RemoveSecrets, RemoveConfigMaps, RemoveInactive, RemoveActive, Unlink
  <1>4. ~Tracked(q) /\ ~Tracked(q)'
    BY <1>1 DEF DiskInv, ListsMatchMemory, Tracked
  <1>5. ListsInPlace'
    BY <1>1 DEF RemoveSecrets, RemoveConfigMaps, RemoveInactive, RemoveActive, DiskInv,
                ListsInPlace, Observing, Removing
  <1>6. ListsMatchMemory'
    BY <1>1 DEF DiskInv, ListsMatchMemory, Tracked
  <1>7. StoredMatches'
    BY <1>1, <1>3, <1>4 DEF DiskInv, StoredMatches, Tracked
  <1>8. ActiveMatches'
    <2>1. cpState[q].kind = "Untracked" /\ cpState[q] \in States
      BY <1>1, <1>4 DEF Tracked
    <2> QED BY <1>1, <1>3, <2>1, ActionKinds DEF DiskInv, ActiveMatches
  <1>9. SelfTakesAll'
    <2> SUFFICES ASSUME ~faulted', Self \in removes', NEW p \in Pods, active'[p] # NoVersion
                 PROVE  p \in removes'
      BY DEF SelfTakesAll
    <2>1. p \in AllPods
      BY DEF AllPods
    <2>2. CASE p # q
      BY <1>1, <1>3, <2>1, <2>2 DEF DiskInv, SelfTakesAll
    <2>3. CASE p = q
      BY <1>1, <1>2, <2>3 DEF RemoveSecrets, RemoveConfigMaps, RemoveInactive, RemoveActive, Unlink,
                              Failing
    <2> QED BY <2>2, <2>3
  <1>10. RemovedSoFar'
    BY <1>1, <1>2 DEF RemoveSecrets, RemoveConfigMaps, RemoveInactive, RemoveActive, Unlink,
                Failing, DiskInv, RemovedSoFar, Removing
  <1>11. NoOrphanedAssets'
    <2> SUFFICES ASSUME ~DiskFaults, NEW p \in AllPods, secrets'[p] \cup configMaps'[p] # {}
                 PROVE  inactive'[p] # NoVersion \/ active'[p] # NoVersion
      BY DEF NoOrphanedAssets
    <2>1. ~faulted /\ ~faulted'
      BY <1>1
    <2>2. CASE p = q
      <3>1. secrets[p] \cup configMaps[p] # {} /\ pc \in {"handle", "removeConfigMaps"}
        BY <1>2, <2>1, <2>2 DEF RemoveSecrets, RemoveConfigMaps, RemoveInactive, RemoveActive, DiskInv,
                RemovedSoFar, Removing
      <3>2. inactive' = inactive /\ active' = active
        BY <3>1 DEF RemoveSecrets, RemoveConfigMaps, RemoveInactive, RemoveActive
      <3> QED BY <3>1, <3>2 DEF DiskInv, NoOrphanedAssets
    <2>3. CASE p # q
      BY <1>3, <2>3 DEF DiskInv, NoOrphanedAssets
    <2> QED BY <2>2, <2>3
  <1> QED BY <1>1, <1>5, <1>6, <1>7, <1>8, <1>9, <1>10, <1>11 DEF DiskInv

\* Time moves no state to another action; a new process knows nothing.
LEMMA ClockCrashDiskInv ==
  ASSUME IInv, DiskInv, Tick \/ Crash
  PROVE  DiskInv'
  <1>1. CASE Tick
    <2>1. /\ pc' = pc /\ cpPod' = cpPod /\ todo' = todo /\ cur' = cur /\ starts' = starts
          /\ stops' = stops /\ removes' = removes /\ active' = active /\ inactive' = inactive
          /\ secrets' = secrets /\ configMaps' = configMaps /\ faulted' = faulted
          /\ allStopped' = allStopped
          /\ starts \subseteq AllPods /\ stops \subseteq AllPods /\ removes \subseteq AllPods
      BY <1>1 DEF Tick, work, disk, IInv, TypeOK
    <2>2. ASSUME NEW p \in AllPods
          PROVE  /\ cpState'[p].kind = cpState[p].kind
                 /\ Action(cpState'[p]) = Action(cpState[p])
                 /\ Tracked(p)' <=> Tracked(p)
      <3>1. /\ cpState[p] \in States /\ cpState'[p] \in States
            /\ cpState'[p].kind = cpState[p].kind
        BY <1>1, ElapseType DEF Tick, IInv, TypeOK
      <3> QED BY <3>1 DEF Action, Tracked
    <2>3. /\ ListsInPlace' /\ SelfTakesAll' /\ RemovedSoFar' /\ (faulted => DiskFaults)'
          /\ NoOrphanedAssets'
      BY <2>1 DEF DiskInv, ListsInPlace, SelfTakesAll, RemovedSoFar, NoOrphanedAssets, Observing,
                  Removing
    <2>4. ListsMatchMemory' /\ StoredMatches' /\ ActiveMatches'
      BY <2>1, <2>2 DEF DiskInv, ListsMatchMemory, StoredMatches, ActiveMatches, Observing
    <2> QED BY <2>3, <2>4 DEF DiskInv
  <1>2. CASE Crash
    <2>1. /\ pc' = "handle" /\ todo' = {} /\ cur' = {} /\ starts' = {} /\ stops' = {}
          /\ removes' = {} /\ faulted' = FALSE
          /\ \A p \in AllPods : cpState'[p] = Untracked
      BY <1>2 DEF Crash
    <2>2. /\ ListsInPlace' /\ ListsMatchMemory' /\ SelfTakesAll' /\ RemovedSoFar'
          /\ (faulted => DiskFaults)'
      BY <2>1 DEF ListsInPlace, ListsMatchMemory, SelfTakesAll, RemovedSoFar, Observing, Removing
    <2>3. StoredMatches' /\ ActiveMatches'
      BY <2>1, UntrackedState, ActionKinds DEF StoredMatches, ActiveMatches, Tracked, Observing
    <2>4. NoOrphanedAssets'
      BY <1>2 DEF Crash, disk, DiskInv, NoOrphanedAssets
    <2> QED BY <2>2, <2>3, <2>4 DEF DiskInv
  <1> QED BY <1>1, <1>2

LEMMA StepDiskInv ==
  ASSUME IInv, DiskInv, [Next]_vars
  PROVE  DiskInv'
  <1>1. CASE UNCHANGED vars
    BY <1>1 DEF vars, memory, work, disk, history, DiskInv, ListsInPlace, ListsMatchMemory,
                StoredMatches, ActiveMatches, SelfTakesAll, RemovedSoFar, NoOrphanedAssets,
                Observing, Removing, Tracked
  <1> QED BY <1>1, UpdateDiskInv, CreateDiskInv, ProcessDiskInv, HandleDiskInv, RemoveDiskInv,
             ClockCrashDiskInv DEF Next, Step

----------------------------------------------------------------------------
(***************************************************************************)
(* The theorems                                                            *)
(***************************************************************************)
\* Both inductive invariants hold in every state the checkpointer reaches.
THEOREM DiskInvariant == Spec => [](IInv /\ DiskInv)
  <1>1. Init => IInv /\ DiskInv
    BY InitIInv, InitDiskInv
  <1>2. IInv /\ DiskInv /\ [Next]_vars => (IInv /\ DiskInv)'
    BY StepIInv, StepDiskInv
  <1> QED BY <1>1, <1>2, PTL DEF Spec

\* handleStart finds the manifest it copies, after any crash.
THEOREM StartsHaveSources == Spec => []StartHasSource
  <1>1. IInv /\ DiskInv => StartHasSource
    <2> SUFFICES ASSUME IInv, DiskInv, ~faulted, pc = "handle", NEW p \in starts
                 PROVE  inactive[p] # NoVersion
      BY DEF StartHasSource
    <2>1. p \in AllPods /\ cpState[p] \in States /\ Action(cpState[p]) = "start"
      BY DEF IInv, TypeOK, DiskInv, ListsMatchMemory
    <2>2. Tracked(p) /\ p \notin todo
      BY <2>1, ActionKinds DEF Tracked, DiskInv, ListsInPlace, Observing
    <2> QED BY <2>1, <2>2 DEF IInv, TrackedHavePods, DiskInv, StoredMatches
  <1> QED BY <1>1, DiskInvariant, PTL

\* Between two cycles the active manifests are what the memory says.
THEOREM DiskFollowsMemory == Spec => []MemoryMatchesDisk
  <1>1. IInv /\ DiskInv => MemoryMatchesDisk
    <2> SUFFICES ASSUME IInv, DiskInv, ~faulted, Idle, NEW p \in AllPods
                 PROVE  /\ Action(cpState[p]) = "stop" => active[p] = NoVersion
                        /\ Action(cpState[p]) = "start" =>
                             active[p] # NoVersion \/ (p # Self /\ allStopped)
                        /\ p = Self /\ Action(cpState[p]) = "start" => active[p] = inactive[p]
      BY DEF MemoryMatchesDisk
    <2>1. ~Observing /\ todo = {} /\ starts = {} /\ stops = {}
      BY DEF Idle, Observing, DiskInv, ListsInPlace
    <2>2. Action(cpState[p]) = "start" => inactive[p] # NoVersion
      <3>1. Action(cpState[p]) = "start" => Tracked(p)
        BY ActionKinds DEF IInv, TypeOK, Tracked
      <3> QED BY <2>1, <3>1 DEF IInv, TrackedHavePods, DiskInv, StoredMatches
    <2> QED BY <2>1, <2>2 DEF DiskInv, ActiveMatches
  <1> QED BY <1>1, DiskInvariant, PTL

\* Secrets and configMaps never outlive both manifests of their pod.
THEOREM AssetsNeverOrphaned == Spec => []NoOrphanedAssets
  <1>1. IInv /\ DiskInv => NoOrphanedAssets BY DEF DiskInv
  <1> QED BY <1>1, DiskInvariant, PTL

\* The checkpointer collects its own checkpoint last.
THEOREM SelfIsRemovedLast == Spec => SelfRemovedLast
  <1>1. ASSUME IInv, DiskInv, [Next]_vars, ~faulted, pc = "removeActive",
               active[Self] # NoVersion, active'[Self] = NoVersion
        PROVE  \A p \in Pods : active[p] = NoVersion
    <2>1. PICK q \in AllPods : RemoveActive(q)
      BY <1>1 DEF Next, Step, Update, UpdateUnreadable, UpdateFrom, Idle, Process, ProcessAll, ProcessSelfStop,
                  ProcessSelfRemove, BeginProcess, WriteManifest, WriteManifestFails,
                  CheckpointSecrets, CheckpointSecretsFails, CheckpointConfigMaps, HandleStop,
                  HandleStart, RemoveSecrets, RemoveConfigMaps, RemoveInactive, Tick, Crash,
                  vars, disk
    <2>2. q = Self
      BY <1>1, <2>1 DEF RemoveActive, Unlink, IInv, TypeOK, AllPods
    <2>3. removes = {Self}
      BY <1>1, <2>1, <2>2 DEF RemoveActive, IInv, RemovingInOrder
    <2> QED BY <1>1, <2>3, SelfAssumption DEF DiskInv, SelfTakesAll
  <1>2. IInv /\ DiskInv /\ [Next]_vars =>
          [~faulted /\ pc = "removeActive" /\ active[Self] # NoVersion /\ active'[Self] = NoVersion
           => \A p \in Pods : active[p] = NoVersion]_vars
    BY <1>1
  <1> QED BY <1>2, DiskInvariant, PTL DEF Spec, SelfRemovedLast

----------------------------------------------------------------------------
(***************************************************************************)
(* Refinement of CheckpointLifecycle                                       *)
(***************************************************************************)
\* The disk as the promise sees it (the refinement mapping of Lifecycle).
Due == {p \in AllPods : GraceExpired(p) \/ GraceExpired(Self) \/ allStopped}
Stored == {p \in AllPods : inactive[p] # NoVersion}
Running == {p \in AllPods : active[p] # NoVersion}
KeptAssets == {p \in AllPods : secrets[p] \cup configMaps[p] # {}}

\* A step that leaves the disk alone can only change what is due.
LEMMA QuietStepRefines ==
  ASSUME UNCHANGED disk
  PROVE  Lifecycle!Decide
  BY DEF Lifecycle!Decide, disk

\* Every write and every unlink is the step of the promise it should be.
LEMMA DiskStepRefines ==
  ASSUME ~DiskFaults, IInv, DiskInv, NEW q \in AllPods,
         \/ WriteManifest(q) \/ WriteManifestFails(q)
         \/ CheckpointSecrets(q) \/ CheckpointSecretsFails(q)
         \/ CheckpointConfigMaps(q)
         \/ HandleStop(q) \/ HandleStart(q)
         \/ RemoveSecrets(q) \/ RemoveConfigMaps(q)
         \/ RemoveInactive(q) \/ RemoveActive(q)
  PROVE  [Lifecycle!Next]_(Lifecycle!vars)
  <1> USE DEF memory, work, history, assets
  <1>1. /\ ~faulted /\ ~faulted' /\ ~WriteManifestFails(q)
        /\ active \in [AllPods -> VersionOrNone] /\ inactive \in [AllPods -> VersionOrNone]
        /\ secrets \in [AllPods -> SUBSET VersionOrNone]
        /\ configMaps \in [AllPods -> SUBSET VersionOrNone]
    BY DEF DiskInv, IInv, TypeOK, WriteManifest, WriteManifestFails, CheckpointSecrets,
           CheckpointSecretsFails, CheckpointConfigMaps, HandleStop, HandleStart, RemoveSecrets,
           RemoveConfigMaps, RemoveInactive, RemoveActive, Failing
  <1>2. Due' = Due
    BY DEF Due, GraceExpired, WriteManifest, WriteManifestFails, CheckpointSecrets,
           CheckpointSecretsFails, CheckpointConfigMaps, HandleStop, HandleStart, RemoveSecrets,
           RemoveConfigMaps, RemoveInactive, RemoveActive
  <1>3. CASE WriteManifest(q)
    <2>1. Stored' = Stored \cup {q} /\ Running' = Running /\ KeptAssets' = KeptAssets
      BY <1>1, <1>3 DEF Stored, Running, KeptAssets, WriteManifest, NextToCreate, IInv,
                        TrackedHavePods
    <2>2. Lifecycle!Store(q)
      BY <1>2, <2>1 DEF Lifecycle!Store, Due, Stored, Running, KeptAssets
    <2> QED BY <2>2 DEF Lifecycle!Next
  <1>4. CASE CheckpointSecrets(q) \/ CheckpointSecretsFails(q) \/ CheckpointConfigMaps(q)
    <2>1. /\ Stored' = Stored /\ Running' = Running
          /\ KeptAssets' = KeptAssets \/ KeptAssets' = KeptAssets \cup {q}
      BY <1>1, <1>4 DEF Stored, Running, KeptAssets, CheckpointSecrets, CheckpointSecretsFails,
                        CheckpointConfigMaps
    <2>2. q \in Stored
      <3>1. cur = {q} /\ q \in todo
        BY <1>4 DEF CheckpointSecrets, CheckpointSecretsFails, CheckpointConfigMaps, DiskInv,
                    ListsInPlace
      <3> QED BY <1>1, <3>1 DEF IInv, TrackedHavePods, DiskInv, StoredMatches, Stored
    <2>3. CASE KeptAssets' = KeptAssets
      BY <1>2, <2>1, <2>3 DEF Lifecycle!vars, Due, Stored, Running, KeptAssets
    <2>4. CASE KeptAssets' = KeptAssets \cup {q}
      <3>1. Lifecycle!Fetch(q)
        BY <1>2, <2>1, <2>2, <2>4 DEF Lifecycle!Fetch, Due, Stored, Running, KeptAssets
      <3> QED BY <3>1 DEF Lifecycle!Next
    <2> QED BY <2>1, <2>3, <2>4
  <1>5. CASE HandleStop(q) \/ HandleStart(q)
    <2>1. q \in Stored
      <3>1. Tracked(q) /\ todo = {}
        BY <1>5, ActionKinds DEF HandleStop, HandleStart, NextToStop, NextToStart, DiskInv,
             ListsMatchMemory, ListsInPlace, Observing, Tracked, IInv, TypeOK
      <3> QED BY <1>1, <3>1 DEF IInv, TrackedHavePods, DiskInv, StoredMatches, Stored
    <2>2. CASE HandleStop(q)
      <3>1. Stored' = Stored /\ Running' = Running \ {q} /\ KeptAssets' = KeptAssets
        BY <1>1, <2>2 DEF Stored, Running, KeptAssets, HandleStop, Failing, Unlink
      <3>2. Lifecycle!Stop(q)
        BY <1>2, <2>1, <3>1 DEF Lifecycle!Stop, Due, Stored, Running, KeptAssets
      <3> QED BY <3>2 DEF Lifecycle!Next
    <2>3. CASE HandleStart(q)
      <3>1. Stored' = Stored /\ Running' = Running \cup {q} /\ KeptAssets' = KeptAssets
        BY <1>1, <2>1, <2>3 DEF Stored, Running, KeptAssets, HandleStart, Failing
      <3>2. Lifecycle!Start(q)
        BY <1>2, <2>1, <3>1 DEF Lifecycle!Start, Due, Stored, Running, KeptAssets
      <3> QED BY <3>2 DEF Lifecycle!Next
    <2> QED BY <1>5, <2>2, <2>3
  <1>6. ASSUME RemoveSecrets(q) \/ RemoveConfigMaps(q) \/ RemoveInactive(q) \/ RemoveActive(q)
        PROVE  q \in Due
    <2>1. q \in removes
      BY <1>6 DEF RemoveSecrets, RemoveConfigMaps, RemoveInactive, RemoveActive, NextToRemove,
                  IInv, RemovingInOrder
    <2> QED BY <2>1 DEF IInv, RemovalJustified, Due
  <1>7. CASE RemoveSecrets(q) \/ RemoveConfigMaps(q)
    <2>1. /\ Stored' = Stored /\ Running' = Running
          /\ KeptAssets' = KeptAssets \/ KeptAssets' = KeptAssets \ {q}
      BY <1>1, <1>7 DEF Stored, Running, KeptAssets, RemoveSecrets, RemoveConfigMaps, Failing
    <2>2. CASE KeptAssets' = KeptAssets
      BY <1>2, <2>1, <2>2 DEF Lifecycle!vars, Due, Stored, Running, KeptAssets
    <2>3. CASE KeptAssets' = KeptAssets \ {q}
      <3>1. Lifecycle!DropAssets(q)
        BY <1>2, <1>6, <1>7, <2>1, <2>3
        DEF Lifecycle!DropAssets, Due, Stored, Running, KeptAssets
      <3> QED BY <3>1 DEF Lifecycle!Next
    <2> QED BY <2>1, <2>2, <2>3
  <1>8. CASE RemoveInactive(q)
    <2>1. /\ Stored' = Stored \ {q} /\ Running' = Running /\ KeptAssets' = KeptAssets
      BY <1>1, <1>8 DEF Stored, Running, KeptAssets, RemoveInactive, Unlink, Failing
    <2>2. q \notin KeptAssets
      BY <1>1, <1>8 DEF KeptAssets, RemoveInactive, DiskInv, RemovedSoFar, Removing
    <2>3. Lifecycle!DropStored(q)
      BY <1>2, <1>6, <1>8, <2>1, <2>2
      DEF Lifecycle!DropStored, Due, Stored, Running, KeptAssets
    <2> QED BY <2>3 DEF Lifecycle!Next
  <1>9. CASE RemoveActive(q)
    <2>1. /\ Stored' = Stored /\ Running' = Running \ {q} /\ KeptAssets' = KeptAssets
      BY <1>1, <1>9 DEF Stored, Running, KeptAssets, RemoveActive, Unlink, Failing
    <2>2. q \notin KeptAssets /\ q \notin Stored
      BY <1>1, <1>9 DEF KeptAssets, Stored, RemoveActive, DiskInv, RemovedSoFar, Removing
    <2>3. Lifecycle!DropRunning(q)
      BY <1>2, <1>6, <1>9, <2>1, <2>2
      DEF Lifecycle!DropRunning, Due, Stored, Running, KeptAssets
    <2> QED BY <2>3 DEF Lifecycle!Next
  <1> QED BY <1>1, <1>3, <1>4, <1>5, <1>7, <1>8, <1>9

\* Without disk faults the checkpointer keeps the promise of its life cycle,
\* whatever the sources answer and wherever it crashes.
THEOREM LifecycleIsImplemented ==
  ASSUME ~DiskFaults
  PROVE  Spec => ImplementsLifecycle
  <1>1. Init => Lifecycle!Init
    BY DEF Init, Lifecycle!Init
  <1>2. ASSUME IInv, DiskInv, [Next]_vars
        PROVE  [Lifecycle!Next]_(Lifecycle!vars)
    <2>1. CASE UNCHANGED disk
      BY <2>1, QuietStepRefines DEF Lifecycle!Next
    <2>2. CASE \E q \in AllPods :
                 \/ WriteManifest(q) \/ WriteManifestFails(q)
                 \/ CheckpointSecrets(q) \/ CheckpointSecretsFails(q)
                 \/ CheckpointConfigMaps(q)
                 \/ HandleStop(q) \/ HandleStart(q)
                 \/ RemoveSecrets(q) \/ RemoveConfigMaps(q)
                 \/ RemoveInactive(q) \/ RemoveActive(q)
      BY <1>2, <2>2, DiskStepRefines
    <2> QED BY <1>2, <2>1, <2>2
            DEF Next, Step, Update, UpdateUnreadable, UpdateFrom, Process, ProcessAll,
                ProcessSelfStop, ProcessSelfRemove, BeginProcess, Tick, Crash, vars
  <1>3. IInv /\ DiskInv /\ [Next]_vars => [Lifecycle!Next]_(Lifecycle!vars)
    BY <1>2
  <1> QED BY <1>1, <1>3, DiskInvariant, PTL DEF Spec, ImplementsLifecycle, Lifecycle!Spec

----------------------------------------------------------------------------
(***************************************************************************)
(* The cycle of run()                                                      *)
(***************************************************************************)
\* How far the checkpoint in hand is.
Rank == [create |-> 0, secrets |-> 1, configMaps |-> 2,
         handle |-> 0, removeConfigMaps |-> 1, removeInactive |-> 2, removeActive |-> 3]

Lists == <<stops, starts, removes>>

\* The cycle goes from observing to handling, or a parent or an entry of the
\* three lists is done, or the one in hand is a step further.
CycleAdvances ==
  \/ Observing /\ ~Observing'
  \/ /\ Observing /\ Observing'
     /\ todo' \subseteq todo
     /\ todo' # todo \/ Rank[pc'] > Rank[pc]
  \/ /\ ~Observing /\ ~Observing'
     /\ stops' \subseteq stops /\ starts' \subseteq starts /\ removes' \subseteq removes
     /\ Lists' # Lists \/ Rank[pc'] > Rank[pc]

\* What the liveness of the checkpointer rests on: every cycle of run() ends,
\* for what fails, an asset that cannot be fetched or a file that cannot be
\* removed, is passed over and never tried again in the same cycle.
THEOREM CyclesAdvance == Spec => [][Step /\ ~Idle => CycleAdvances]_vars
  <1>1. ASSUME IInv, DiskInv, Step, ~Idle PROVE CycleAdvances
    <2> USE DEF Rank, Observing, Lists
    <2>1. /\ pc \in Places
          /\ pc \in {"secrets", "configMaps"} => cur \subseteq todo
          /\ pc \in {"removeConfigMaps", "removeInactive", "removeActive"} => cur \subseteq removes
      BY <1>1 DEF IInv, TypeOK, RemovingInOrder, DiskInv, ListsInPlace
    <2>2. ASSUME NEW o \in Observations, Update(o) \/ UpdateUnreadable(o) PROVE FALSE
      BY <1>1, <2>2 DEF Update, UpdateUnreadable, UpdateFrom
    <2>3. ASSUME Process PROVE CycleAdvances
      <3>1. BeginProcess
        BY <2>3 DEF Process, ProcessAll, ProcessSelfStop, ProcessSelfRemove
      <3> QED BY <3>1 DEF BeginProcess, CycleAdvances
    <2>4. ASSUME NEW p \in AllPods, WriteManifest(p) \/ WriteManifestFails(p) PROVE CycleAdvances
      BY <2>4 DEF WriteManifest, WriteManifestFails, NextToCreate, CycleAdvances
    <2>5. ASSUME NEW p \in AllPods, CheckpointSecrets(p) \/ CheckpointSecretsFails(p) \/ CheckpointConfigMaps(p)
          PROVE  CycleAdvances
      BY <2>1, <2>5 DEF CheckpointSecrets, CheckpointSecretsFails, CheckpointConfigMaps, work, CycleAdvances
    <2>6. ASSUME NEW p \in AllPods, HandleStop(p) \/ HandleStart(p) \/ RemoveSecrets(p) PROVE CycleAdvances
      BY <2>6 DEF HandleStop, HandleStart, RemoveSecrets, NextToStop, NextToStart, CycleAdvances
    <2>7. ASSUME NEW p \in AllPods, RemoveConfigMaps(p) \/ RemoveInactive(p) \/ RemoveActive(p) PROVE CycleAdvances
      BY <2>1, <2>7 DEF RemoveConfigMaps, RemoveInactive, RemoveActive, work, CycleAdvances
    <2> QED BY <1>1, <2>2, <2>3, <2>4, <2>5, <2>6, <2>7 DEF Step
  <1>2. IInv /\ DiskInv /\ [Next]_vars => [Step /\ ~Idle => CycleAdvances]_vars
    BY <1>1
  <1> QED BY <1>2, DiskInvariant, PTL DEF Spec
=============================================================================
