--------------------------- MODULE BootkubeProofs ---------------------------
(***************************************************************************)
(* `bootkube start`, for any set of files, any failing operations and any  *)
(* number of runs, killed anywhere: proofs of the safety properties of     *)
(* module Bootkube.                                                        *)
(***************************************************************************)
EXTENDS Bootkube, TLAPS

\* Where the walks are: what is complete, open, or still to be visited.
WalkProgress ==
  /\ pc = "copySecrets" =>
       /\ cur \cup todo \subseteq Secrets
       /\ \A s \in Secrets \ (cur \cup todo) : secretsDir[s] = "complete"
  /\ pc = "copyKubeConfig" =>
       /\ cur \cup todo \subseteq {KubeConfig}
       /\ \A s \in SecretFiles \ (cur \cup todo) : secretsDir[s] = "complete"
  /\ pc = "copyManifests" =>
       /\ cur \cup todo \subseteq Manifests
       /\ Manifests \ (cur \cup todo) \subseteq copied
  /\ pc \notin {"copySecrets", "copyKubeConfig", "copyManifests"} =>
       cur = {} /\ todo = {}

\* The manifests the run has put into the kubelet's directory were not there
\* before, and are complete until Teardown.
OwnIsNew ==
  /\ pc \in {"copyManifests", "createAssets", "waitPods"} =>
       \A m \in copied : podDir[m] = "complete" /\ before[m] = "absent"
  /\ pc \in {"createAssets", "waitPods"} => owned = copied /\ copied = Manifests
  /\ pc = "copyManifests" => \A m \in cur : before[m] = "absent"
  /\ pc \in {"clearSecrets", "copySecrets", "copyKubeConfig"} => copied = {}
  /\ pc \in {"clearSecrets", "copySecrets", "copyKubeConfig", "copyManifests"} =>
       owned = {}
  /\ \A m \in owned : before[m] = "absent"

\* Nothing has failed before Teardown, and copyFile has one file open.
OneOpen ==
  /\ pc \notin {"teardownSecrets", "teardownManifests", "exited"} => failed = {}
  /\ \A f, g \in cur : f = g
  /\ pc = "copyManifests" => \A m \in cur : podDir[m] = "partial"

\* The manifests Teardown is to remove are those by which the kubelet's
\* directory differs from what it was, but for the one whose copying failed.
Mine == IF pc = "copyManifests" THEN copied \cup cur ELSE owned

DifferenceIsOwned ==
  "remove" \notin failed =>
    /\ \A m, n \in Differing \ Mine : m = n /\ podDir[m] = "partial" /\ "copy" \in failed
    /\ pc \in {"teardownManifests", "exited"} => Present(secretsDir) = {}
    /\ pc = "exited" => owned = {}

IInv ==
  /\ TypeOK
  /\ WalkProgress
  /\ OwnIsNew
  /\ OneOpen
  /\ DifferenceIsOwned
  /\ PreexistingUntouched
  /\ SecretsBeforeManifests

USE KubeConfigAssumption, FaultsAssumption, MaxRunsAssumption

\* The initial states satisfy the invariant.
LEMMA InitIInv == Init => IInv
<1> SUFFICES ASSUME Init PROVE IInv
  OBVIOUS
<1>1. err \in BOOLEAN
  BY Zenon DEF Init
<1>2. TypeOK
  BY <1>1 DEF Init, TypeOK, Places, Contents
<1> QED
  BY <1>2 DEF Init, IInv, WalkProgress, OwnIsNew, OneOpen, Differing, Mine,
              DifferenceIsOwned, PreexistingUntouched, SecretsBeforeManifests

\* In every run, wherever it is killed and whatever fails, what the walk has
\* copied is complete and new, and what differs from before is owned.
THEOREM InductiveInvariant == Spec => []IInv
<1>1. IInv /\ [Next]_vars => IInv'
  <2> SUFFICES ASSUME IInv, [Next]_vars PROVE IInv'
    OBVIOUS
  <2> USE DEF IInv, TypeOK, WalkProgress, OwnIsNew, OneOpen, Differing, Mine,
              DifferenceIsOwned, PreexistingUntouched, SecretsBeforeManifests, Places, Contents,
              SecretFiles, Present, files, walk, history, Fail, Faulty
  <2>1. ASSUME NEW s \in SecretFiles, ClearSecret(s) PROVE IInv'
    BY <2>1 DEF ClearSecret
  <2>2. CASE ClearSecretsFails
    BY <2>2 DEF ClearSecretsFails
  <2>3. CASE SecretsCleared
    BY <2>3 DEF SecretsCleared
  <2>4. ASSUME NEW s \in SecretFiles, OpenSecret(s) PROVE IInv'
    BY <2>4 DEF OpenSecret
  <2>5. ASSUME NEW s \in SecretFiles, CopySecret(s) PROVE IInv'
    BY <2>5 DEF CopySecret
  <2>6. CASE CopySecretFails
    BY <2>6 DEF CopySecretFails
  <2>7. CASE SecretsCopied
    BY <2>7 DEF SecretsCopied
  <2>8. CASE KubeConfigCopied
    BY <2>8 DEF KubeConfigCopied
  <2>9. ASSUME NEW m \in Manifests, OpenManifest(m) PROVE IInv'
    BY <2>9 DEF OpenManifest
  <2>10. ASSUME NEW m \in Manifests, CopyManifest(m) PROVE IInv'
    BY <2>10 DEF CopyManifest
  <2>11. ASSUME NEW m \in Manifests, ManifestExists(m) PROVE IInv'
    BY <2>11 DEF ManifestExists
  <2>12. CASE CopyManifestFails
    BY <2>12 DEF CopyManifestFails
  <2>13. CASE ManifestsCopied
    BY <2>13 DEF ManifestsCopied
  <2>14. CASE CreateAssets
    BY <2>14 DEF CreateAssets
  <2>15. CASE WaitUntilPodsRunning
    BY <2>15 DEF WaitUntilPodsRunning
  <2>16. ASSUME NEW s \in SecretFiles, TeardownSecret(s) PROVE IInv'
    BY <2>16 DEF TeardownSecret
  <2>17. CASE SecretsTornDown
    BY <2>17 DEF SecretsTornDown
  <2>18. ASSUME NEW m \in Manifests, TeardownManifest(m) PROVE IInv'
    BY <2>18 DEF TeardownManifest
  <2>19. CASE TeardownFails
    BY <2>19 DEF TeardownFails
  <2>20. CASE Exit
    BY <2>20 DEF Exit
  <2>21. CASE Rerun
    <3>1. err' \in BOOLEAN
      BY <2>21, Zenon DEF Rerun
    <3>2. TypeOK'
      BY <2>21, <3>1 DEF Rerun
    <3> QED
      BY <2>21, <3>2 DEF Rerun
  <2>22. CASE UNCHANGED vars
    BY <2>22 DEF vars
  <2> QED
    BY <2>1, <2>2, <2>3, <2>4, <2>5, <2>6, <2>7, <2>8, <2>9, <2>10, <2>11, <2>12,
       <2>13, <2>14, <2>15, <2>16, <2>17, <2>18, <2>19, <2>20, <2>21, <2>22
       DEF Next, Step, Exited
<1> QED
  BY InitIInv, <1>1, PTL DEF Spec

\* Start never touches a manifest it did not create, nor does Teardown.
THEOREM ForeignManifestsSafe == Spec => []PreexistingUntouched
<1>1. IInv => PreexistingUntouched
  BY DEF IInv
<1> QED
  BY InductiveInvariant, <1>1, PTL

\* The kubelet finds all secrets of the manifests Start gives it.
THEOREM SecretsAreThere == Spec => []SecretsBeforeManifests
<1>1. IInv => SecretsBeforeManifests
  BY DEF IInv
<1> QED
  BY InductiveInvariant, <1>1, PTL

\* CreateAssets runs against a bootstrap control plane of this run.
THEOREM OwnControlPlane == Spec => []AssetsByOwnControlPlane
<1>1. IInv => AssetsByOwnControlPlane
  BY DEF IInv, OwnIsNew, AssetsByOwnControlPlane
<1> QED
  BY InductiveInvariant, <1>1, PTL

\* Run leaves nothing behind when it exits and no removal failed, but for the
\* manifest it could not copy.
THEOREM ExitIsClean == Spec => []CleanExit
<1>1. IInv => CleanExit
  BY DEF IInv, DifferenceIsOwned, Mine, CleanExit
<1> QED
  BY InductiveInvariant, <1>1, PTL

\* The types of the variables, for any files and faults.
THEOREM BootkubeTypeCorrect == Spec => []TypeOK
<1>1. IInv => TypeOK
  BY DEF IInv
<1> QED
  BY InductiveInvariant, <1>1, PTL

----------------------------------------------------------------------------
\* The order of the stages of Run.
Stage ==
  [clearSecrets |-> 0, copySecrets |-> 1, copyKubeConfig |-> 2, copyManifests |-> 3,
   createAssets |-> 4, waitPods |-> 5, teardownSecrets |-> 6, teardownManifests |-> 7, exited |-> 8]

\* Run goes on to a later stage, or one file of the stage it is in is done:
\* removed, opened, or filled.
Advances ==
  \/ Stage[pc'] > Stage[pc]
  \/ /\ pc' = pc
     /\ \/ /\ pc \in {"clearSecrets", "teardownSecrets"}
           /\ Present(secretsDir)' \subseteq Present(secretsDir) /\ Present(secretsDir)' # Present(secretsDir)
        \/ /\ pc \in {"copySecrets", "copyKubeConfig", "copyManifests"}
           /\ \/ todo' \subseteq todo /\ todo' # todo
              \/ todo' = todo /\ cur # {} /\ cur' = {}
        \/ /\ pc = "teardownManifests"
           /\ owned' \subseteq owned /\ owned' # owned

\* A removed secret is no longer there.
LEMMA RemovedSecret ==
  ASSUME TypeOK, NEW s \in SecretFiles, secretsDir[s] # "absent",
         secretsDir' = [secretsDir EXCEPT ![s] = "absent"]
  PROVE  Present(secretsDir)' \subseteq Present(secretsDir) /\ Present(secretsDir)' # Present(secretsDir)
<1>1. DOMAIN secretsDir = SecretFiles /\ DOMAIN secretsDir' = SecretFiles
  BY DEF TypeOK
<1>2. s \in Present(secretsDir) /\ s \notin Present(secretsDir)'
  BY <1>1 DEF Present
<1>3. Present(secretsDir)' \subseteq Present(secretsDir)
  BY <1>1 DEF Present
<1> QED
  BY <1>2, <1>3

\* What Terminates rests on: with finitely many files no run of `bootkube start`
\* goes on for ever, for its stages come one after the other, in every stage
\* each file is done once, and no failure leads back to an earlier stage.
THEOREM RunAdvances == Spec => [][Step => Advances]_vars
<1>1. ASSUME IInv, Step PROVE Advances
  <2> USE DEF Stage
  <2>1. TypeOK
    BY <1>1 DEF IInv
  <2>2. ASSUME SecretsCleared \/ SecretsCopied \/ KubeConfigCopied \/ ManifestsCopied \/ CreateAssets
                \/ WaitUntilPodsRunning \/ SecretsTornDown \/ TeardownFails \/ Exit
        PROVE  Advances
    BY <2>2 DEF SecretsCleared, SecretsCopied, KubeConfigCopied, ManifestsCopied, CreateAssets,
                WaitUntilPodsRunning, SecretsTornDown, TeardownFails, Exit, Advances
  <2>3. ASSUME ClearSecretsFails \/ CopySecretFails \/ CopyManifestFails PROVE Advances
    BY <2>3 DEF ClearSecretsFails, CopySecretFails, CopyManifestFails, Fail, Advances
  <2>4. ASSUME NEW s \in SecretFiles, ClearSecret(s) \/ TeardownSecret(s) PROVE Advances
    BY <2>1, <2>4, RemovedSecret DEF ClearSecret, TeardownSecret, Advances
  <2>5. ASSUME NEW s \in SecretFiles, OpenSecret(s) \/ CopySecret(s) PROVE Advances
    BY <2>5 DEF OpenSecret, CopySecret, Advances
  <2>6. ASSUME NEW m \in Manifests, OpenManifest(m) \/ ManifestExists(m) \/ CopyManifest(m) \/ TeardownManifest(m)
        PROVE  Advances
    BY <2>6 DEF OpenManifest, ManifestExists, CopyManifest, TeardownManifest, Fail, Advances
  <2> QED
    BY <1>1, <2>2, <2>3, <2>4, <2>5, <2>6 DEF Step
<1>2. IInv /\ [Next]_vars => [Step => Advances]_vars
  BY <1>1
<1> QED
  BY <1>2, InductiveInvariant, PTL DEF Spec
=============================================================================
