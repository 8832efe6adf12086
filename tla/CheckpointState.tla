-------------------------- MODULE CheckpointState --------------------------
(***************************************************************************)
(* The state machine of one checkpoint (pkg/checkpoint/state.go): what     *)
(* each checkpointState becomes when its transition method is called with  *)
(* what the three sources say of the pod, and the action each state asks   *)
(* for.                                                                    *)
(*                                                                         *)
(* Time.  The code stores gracePeriodEnd, an absolute time, and compares   *)
(* it with now.  Here a grace-period state carries left, the number of     *)
(* clock ticks until that end: now.Add(checkpointGracePeriod) is left =    *)
(* GracePeriod, and now at or after gracePeriodEnd is left = 0.            *)
(***************************************************************************)
EXTENDS Integers

CONSTANT GracePeriod      \* checkpointGracePeriod, in clock ticks; 0 is legal

ASSUME GracePeriodAssumption == GracePeriod \in Nat

StateKinds == {"Untracked", "SelfCheckpointActive", "None", "Inactive",
               "InactiveGracePeriod", "Active", "ActiveGracePeriod", "Remove"}

\* checkpointState.  left is 0 in the states that hold no gracePeriodEnd.
States == [kind : StateKinds, left : 0..GracePeriod]

Plain(k) == [kind |-> k, left |-> 0]

\* The pod has no entry in the checkpoints map (or selfCheckpoint is nil).
Untracked == Plain("Untracked")
stateSelfCheckpointActive == Plain("SelfCheckpointActive")
stateNone == Plain("None")
stateInactive == Plain("Inactive")
stateActive == Plain("Active")
stateRemove == Plain("Remove")
stateInactiveGracePeriod(left) == [kind |-> "InactiveGracePeriod", left |-> left]
stateActiveGracePeriod(left) == [kind |-> "ActiveGracePeriod", left |-> left]

\* apiCondition: what the sources say of one pod.
ApiConditions == [apiAvailable : BOOLEAN, apiParent : BOOLEAN,
                  localRunning : BOOLEAN, localParent : BOOLEAN]

\* The api server answered and does not list the parent: the only branch of
\* every transition method that starts or continues a grace period unasked.
ParentDeleted(apis) == apis.apiAvailable /\ ~apis.apiParent

----------------------------------------------------------------------------
\* Mutant: the last tick of the grace period is given away.
checkInactiveGracePeriodEarly(left) ==
  IF left <= 1 THEN stateRemove ELSE stateInactiveGracePeriod(left)

\* stateInactiveGracePeriod.checkGracePeriod
checkInactiveGracePeriod(left) ==
  IF left = 0 THEN stateRemove ELSE stateInactiveGracePeriod(left)

\* Mutant: a parent that is back and running does not end the countdown.
transitionInactiveGracePeriodNoReset(left, apis) ==
  IF ParentDeleted(apis) \/ apis.localRunning
  THEN checkInactiveGracePeriod(left) ELSE stateActive

\* Mutant: every cycle starts the countdown anew.
transitionInactiveGracePeriodRestarts(left, apis) ==
  IF ParentDeleted(apis) \/ (~apis.apiAvailable /\ apis.localRunning)
  THEN checkInactiveGracePeriod(GracePeriod)
  ELSE IF apis.localRunning THEN stateInactive ELSE stateActive

\* stateInactiveGracePeriod.transition.  An unreachable api server does not
\* stop the countdown as long as the pod is running.
transitionInactiveGracePeriod(left, apis) ==
  IF ParentDeleted(apis) \/ (~apis.apiAvailable /\ apis.localRunning)
  THEN checkInactiveGracePeriod(left)
  ELSE IF apis.localRunning THEN stateInactive ELSE stateActive

\* Mutant: the last tick of the grace period is given away.
checkActiveGracePeriodEarly(left, apis) ==
  IF left <= 1 THEN transitionInactiveGracePeriod(0, apis)
               ELSE stateActiveGracePeriod(left)

\* stateActiveGracePeriod.checkGracePeriod: a passed grace period is handed
\* to the inactive one with its end set to now.
checkActiveGracePeriod(left, apis) ==
  IF left = 0 THEN transitionInactiveGracePeriod(0, apis)
              ELSE stateActiveGracePeriod(left)

\* Mutant: every cycle starts the countdown anew.
transitionActiveGracePeriodRestarts(left, apis) ==
  IF ParentDeleted(apis) \/ (~apis.apiAvailable /\ ~apis.localRunning)
  THEN checkActiveGracePeriod(GracePeriod, apis)
  ELSE IF apis.localRunning THEN stateInactive ELSE stateActive

\* stateActiveGracePeriod.transition
transitionActiveGracePeriod(left, apis) ==
  IF ParentDeleted(apis) \/ (~apis.apiAvailable /\ ~apis.localRunning)
  THEN checkActiveGracePeriod(left, apis)
  ELSE IF apis.localRunning THEN stateInactive ELSE stateActive

\* Mutant: the countdown is one tick too long.
transitionInactiveLong(apis) ==
  IF ParentDeleted(apis) THEN checkInactiveGracePeriod(GracePeriod + 1)
  ELSE IF apis.localRunning THEN stateInactive ELSE stateActive

\* Mutant: an outage is waited out, the pod running or not.
transitionInactiveWaits(apis) ==
  IF ParentDeleted(apis) THEN checkInactiveGracePeriod(GracePeriod)
  ELSE IF apis.localRunning \/ ~apis.apiAvailable THEN stateInactive ELSE stateActive

\* stateInactive.transition
transitionInactive(apis) ==
  IF ParentDeleted(apis) THEN checkInactiveGracePeriod(GracePeriod)
  ELSE IF apis.localRunning THEN stateInactive ELSE stateActive

\* Mutant: an active checkpoint is removed without a grace period.
transitionActiveNoGrace(apis) ==
  IF ParentDeleted(apis) THEN stateRemove
  ELSE IF apis.localRunning THEN stateInactive ELSE stateActive

\* Mutant: an active checkpoint ignores that its parent is running again.
transitionActiveStays(apis) ==
  IF ParentDeleted(apis) THEN checkActiveGracePeriod(GracePeriod, apis) ELSE stateActive

\* stateActive.transition
transitionActive(apis) ==
  IF ParentDeleted(apis) THEN checkActiveGracePeriod(GracePeriod, apis)
  ELSE IF apis.localRunning THEN stateInactive ELSE stateActive

\* stateSelfCheckpointActive.transition
transitionSelfCheckpointActive(apis) ==
  IF ParentDeleted(apis) THEN checkActiveGracePeriod(GracePeriod, apis)
                         ELSE stateSelfCheckpointActive

\* stateNone.transition
transitionNone(apis) ==
  IF apis.localRunning \/ apis.localParent THEN transitionInactive(apis)
                                           ELSE stateNone

\* checkpointState.transition.  stateRemove is terminal.
Transition(state, apis) ==
  CASE state.kind = "SelfCheckpointActive" -> transitionSelfCheckpointActive(apis)
    [] state.kind = "None" -> transitionNone(apis)
    [] state.kind = "Inactive" -> transitionInactive(apis)
    [] state.kind = "InactiveGracePeriod" ->
         transitionInactiveGracePeriod(state.left, apis)
    [] state.kind = "Active" -> transitionActive(apis)
    [] state.kind = "ActiveGracePeriod" ->
         transitionActiveGracePeriod(state.left, apis)
    [] OTHER -> state

\* checkpointState.action
Action(state) ==
  CASE state.kind \in {"SelfCheckpointActive", "Active", "ActiveGracePeriod"} -> "start"
    [] state.kind \in {"Inactive", "InactiveGracePeriod"} -> "stop"
    [] state.kind = "Remove" -> "remove"
    [] OTHER -> "none"

\* One clock tick brings the end of a grace period one tick nearer.
Elapse(state) ==
  [state EXCEPT !.left = IF @ > 0 THEN @ - 1 ELSE 0]
============================================================================
