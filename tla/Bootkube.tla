------------------------------ MODULE Bootkube ------------------------------
(***************************************************************************)
(* `bootkube start` on one node (pkg/bootkube/bootkube.go, bootstrap.go):  *)
(* Run starts the bootstrap control plane by copying its secrets and its   *)
(* static pod manifests to where the kubelet looks for them, creates the   *)
(* self-hosted assets, waits for the required pods, and always tears the   *)
(* bootstrap control plane down again.                                     *)
(*                                                                         *)
(* Every file is opened, filled and removed by steps of their own, so that *)
(* the process can be killed between any two of them and be run again over *)
(* what it left behind.  CreateAssets and WaitUntilPodsRunning are one     *)
(* step here, with either result; modules CreateAssets and                 *)
(* StatusController are about how they come to it.                         *)
(***************************************************************************)
EXTENDS Integers

CONSTANTS
  Secrets,      \* the files of assetDir/tls: walked first
  KubeConfig,   \* the admin kubeconfig: copied after them
  Manifests,    \* the files of assetDir/bootstrap-manifests
  Faults,       \* the file operations that may fail: see FaultKinds
  MaxRuns       \* bound: how often the command is run

FaultKinds == {"copy", "remove"}

ASSUME KubeConfigAssumption == KubeConfig \notin Secrets
ASSUME FaultsAssumption == Faults \subseteq FaultKinds
ASSUME MaxRunsAssumption == MaxRuns \in Nat \ {0}

VARIABLES
  pc,          \* where Run is: see Places
  secretsDir,  \* content of the files in asset.BootstrapSecretsDir
  podDir,      \* content of the files in podManifestPath
  todo,        \* files Walk has not visited yet
  cur,         \* the file copyFile has open (a set of at most one)
  copied,      \* copyDirectory's result so far, for podManifestPath
  owned,       \* b.ownedManifests
  err,         \* Run returns an error
  runs,        \* runs so far
  before,      \* history: podDir when this run began
  failed       \* history: the faults this run has met

files == <<secretsDir, podDir>>
walk == <<todo, cur, copied>>
history == <<before, failed>>
vars == <<pc, files, walk, owned, err, runs, history>>

Places == {"clearSecrets", "copySecrets", "copyKubeConfig", "copyManifests",
           "createAssets", "waitPods", "teardownSecrets", "teardownManifests",
           "exited"}

Contents == {"absent", "partial", "complete", "foreign"}
SecretFiles == Secrets \cup {KubeConfig}
Present(dir) == {f \in DOMAIN dir : dir[f] # "absent"}

\* Anything may be in the two directories before the first run.
Init ==
  /\ pc = "clearSecrets"
  /\ secretsDir \in [SecretFiles -> {"absent", "foreign"}]
  /\ podDir \in [Manifests -> {"absent", "foreign"}]
  /\ todo = {} /\ cur = {} /\ copied = {} /\ owned = {}
  /\ err = FALSE
  /\ runs = 1
  /\ before = podDir
  /\ failed = {}

\* Run returns an error: the deferred Teardown is next.
Fail(ownedAtEnd) ==
  /\ pc' = "teardownSecrets"
  /\ err' = TRUE
  /\ todo' = {} /\ cur' = {} /\ copied' = {}
  /\ owned' = ownedAtEnd

\* A file operation fails that the instance lets fail.
Faulty(kind) ==
  /\ kind \in Faults
  /\ failed' = failed \cup {kind}
  /\ UNCHANGED before

----------------------------------------------------------------------------
(***************************************************************************)
(* bootstrapControlPlane.Start                                             *)
(***************************************************************************)
\* os.RemoveAll(BootstrapSecretsDir), file by file.
ClearSecret(s) ==
  /\ pc = "clearSecrets" /\ secretsDir[s] # "absent"
  /\ secretsDir' = [secretsDir EXCEPT ![s] = "absent"]
  /\ UNCHANGED <<pc, podDir, walk, owned, err, runs, history>>

ClearSecretsFails ==
  /\ Faulty("remove")
  /\ pc = "clearSecrets" /\ Present(secretsDir) # {}
  /\ Fail(owned)
  /\ UNCHANGED <<files, runs>>

SecretsCleared ==
  /\ pc = "clearSecrets" /\ Present(secretsDir) = {}
  /\ pc' = "copySecrets" /\ todo' = Secrets
  /\ UNCHANGED <<files, cur, copied, owned, err, runs, history>>

\* copyDirectory(secretsDir, ..., overwrite): Walk opens the next file.  The
\* names are abstract, so any order is the lexical one.
OpenSecret(s) ==
  /\ pc \in {"copySecrets", "copyKubeConfig"} /\ cur = {} /\ s \in todo
  /\ secretsDir' = [secretsDir EXCEPT ![s] = "partial"]
  /\ cur' = {s} /\ todo' = todo \ {s}
  /\ UNCHANGED <<pc, podDir, copied, owned, err, runs, history>>

\* io.Copy of the open file succeeds.
CopySecret(s) ==
  /\ pc \in {"copySecrets", "copyKubeConfig"} /\ cur = {s}
  /\ secretsDir' = [secretsDir EXCEPT ![s] = "complete"]
  /\ cur' = {}
  /\ UNCHANGED <<pc, podDir, todo, copied, owned, err, runs, history>>

\* Mutant: the error of copyDirectory is dropped.
CopySecretFailsIgnored ==
  /\ Faulty("copy")
  /\ pc \in {"copySecrets", "copyKubeConfig"} /\ cur \cup todo # {}
  /\ pc' = "copyManifests" /\ todo' = Manifests /\ cur' = {}
  /\ UNCHANGED <<files, copied, owned, err, runs>>

\* The source cannot be read, the destination not created or not filled, or
\* a directory not made: the walk ends with what there is.
CopySecretFails ==
  /\ Faulty("copy")
  /\ pc \in {"copySecrets", "copyKubeConfig"} /\ cur \cup todo # {}
  /\ Fail(owned)
  /\ UNCHANGED <<files, runs>>

\* The walk over the secrets is over: the kubeconfig is next.
SecretsCopied ==
  /\ pc = "copySecrets" /\ todo = {} /\ cur = {}
  /\ pc' = "copyKubeConfig" /\ todo' = {KubeConfig}
  /\ UNCHANGED <<files, cur, copied, owned, err, runs, history>>

KubeConfigCopied ==
  /\ pc = "copyKubeConfig" /\ todo = {} /\ cur = {}
  /\ pc' = "copyManifests" /\ todo' = Manifests
  /\ UNCHANGED <<files, cur, copied, owned, err, runs, history>>

\* Mutant: the manifests are copied with overwrite.
OpenManifestOverwrite(m) ==
  /\ pc = "copyManifests" /\ cur = {} /\ m \in todo
  /\ podDir' = [podDir EXCEPT ![m] = "partial"]
  /\ cur' = {m} /\ todo' = todo \ {m}
  /\ UNCHANGED <<pc, secretsDir, copied, owned, err, runs, history>>

\* copyFile with O_EXCL: the file must not be there.
OpenManifest(m) ==
  /\ pc = "copyManifests" /\ cur = {} /\ m \in todo
  /\ podDir[m] = "absent"
  /\ podDir' = [podDir EXCEPT ![m] = "partial"]
  /\ cur' = {m} /\ todo' = todo \ {m}
  /\ UNCHANGED <<pc, secretsDir, copied, owned, err, runs, history>>

CopyManifest(m) ==
  /\ pc = "copyManifests" /\ cur = {m}
  /\ podDir' = [podDir EXCEPT ![m] = "complete"]
  /\ cur' = {} /\ copied' = copied \cup {m}
  /\ UNCHANGED <<pc, secretsDir, todo, owned, err, runs, history>>

\* Mutant: the result of copyDirectory is evaluated before Walk fills it.
ManifestExistsOwnsNothing(m) ==
  /\ pc = "copyManifests" /\ cur = {} /\ m \in todo
  /\ podDir[m] # "absent"
  /\ Fail({})
  /\ UNCHANGED <<files, runs, history>>

\* Mutant: a file that is there already is passed over.
ManifestExistsSkipped(m) ==
  /\ pc = "copyManifests" /\ cur = {} /\ m \in todo
  /\ podDir[m] # "absent"
  /\ todo' = todo \ {m}
  /\ UNCHANGED <<pc, files, cur, copied, owned, err, runs, history>>

\* It is there: Start fails, owning what it copied so far.
ManifestExists(m) ==
  /\ pc = "copyManifests" /\ cur = {} /\ m \in todo
  /\ podDir[m] # "absent"
  /\ Fail(copied)
  /\ UNCHANGED <<files, runs, history>>

\* Any other failure.  The file in hand stays as it is, and unowned.
CopyManifestFails ==
  /\ Faulty("copy")
  /\ pc = "copyManifests" /\ cur \cup todo # {}
  /\ Fail(copied)
  /\ UNCHANGED <<files, runs>>

ManifestsCopied ==
  /\ pc = "copyManifests" /\ todo = {} /\ cur = {}
  /\ pc' = "createAssets" /\ owned' = copied
  /\ UNCHANGED <<files, walk, err, runs, history>>

----------------------------------------------------------------------------
(***************************************************************************)
(* The rest of Run, and bootstrapControlPlane.Teardown                     *)
(***************************************************************************)
CreateAssets ==
  /\ pc = "createAssets"
  /\ \/ pc' = "waitPods" /\ UNCHANGED err
     \/ pc' = "teardownSecrets" /\ err' = TRUE
  /\ UNCHANGED <<files, walk, owned, runs, history>>

\* Mutant: pods that do not come up are waited for with the assets anew.
WaitUntilPodsRunningRetries ==
  /\ pc = "waitPods"
  /\ pc' \in {"createAssets", "teardownSecrets"}
  /\ UNCHANGED <<files, walk, owned, err, runs, history>>

WaitUntilPodsRunning ==
  /\ pc = "waitPods"
  /\ pc' = "teardownSecrets"
  /\ err' \in BOOLEAN
  /\ UNCHANGED <<files, walk, owned, runs, history>>

TeardownSecret(s) ==
  /\ pc = "teardownSecrets" /\ secretsDir[s] # "absent"
  /\ secretsDir' = [secretsDir EXCEPT ![s] = "absent"]
  /\ UNCHANGED <<pc, podDir, walk, owned, err, runs, history>>

SecretsTornDown ==
  /\ pc = "teardownSecrets" /\ Present(secretsDir) = {}
  /\ pc' = "teardownManifests"
  /\ UNCHANGED <<files, walk, owned, err, runs, history>>

\* A manifest somebody else has removed already is no error.
TeardownManifest(m) ==
  /\ pc = "teardownManifests" /\ m \in owned
  /\ podDir' = [podDir EXCEPT ![m] = "absent"]
  /\ owned' = owned \ {m}
  /\ UNCHANGED <<pc, secretsDir, walk, err, runs, history>>

\* Teardown returns at the first failure; Run only reports it.
TeardownFails ==
  /\ Faulty("remove")
  /\ \/ pc = "teardownSecrets" /\ Present(secretsDir) # {}
     \/ pc = "teardownManifests" /\ owned # {}
  /\ pc' = "exited"
  /\ UNCHANGED <<files, walk, owned, err, runs>>

Exit ==
  /\ pc = "teardownManifests" /\ owned = {}
  /\ pc' = "exited"
  /\ UNCHANGED <<files, walk, owned, err, runs, history>>

----------------------------------------------------------------------------
\* The command is run again: after it exited, or killed in the middle.
Rerun ==
  /\ runs < MaxRuns
  /\ runs' = runs + 1
  /\ pc' = "clearSecrets"
  /\ todo' = {} /\ cur' = {} /\ copied' = {} /\ owned' = {}
  /\ err' = FALSE
  /\ before' = podDir /\ failed' = {}
  /\ UNCHANGED files

Step ==
  \/ SecretsCleared \/ ClearSecretsFails
  \/ SecretsCopied \/ KubeConfigCopied \/ CopySecretFails
  \/ ManifestsCopied \/ CopyManifestFails
  \/ CreateAssets \/ WaitUntilPodsRunning
  \/ SecretsTornDown \/ TeardownFails \/ Exit
  \/ \E s \in SecretFiles :
       ClearSecret(s) \/ OpenSecret(s) \/ CopySecret(s) \/ TeardownSecret(s)
  \/ \E m \in Manifests :
       OpenManifest(m) \/ ManifestExists(m) \/ CopyManifest(m) \/ TeardownManifest(m)

\* A command that has exited need not be run again.
Exited == pc = "exited" /\ UNCHANGED vars

Next == Step \/ Rerun \/ Exited

Spec == Init /\ [][Next]_vars

\* Every wait of Run has a timeout, so it always takes its next step.
FairSpec == Spec /\ WF_vars(Step)
----------------------------------------------------------------------------
\* The types of the variables; part of the invariant in BootkubeProofs.
TypeOK ==
  /\ pc \in Places
  /\ secretsDir \in [SecretFiles -> Contents]
  /\ podDir \in [Manifests -> Contents]
  /\ todo \subseteq SecretFiles \cup Manifests
  /\ cur \subseteq SecretFiles \cup Manifests
  /\ copied \subseteq Manifests
  /\ owned \subseteq Manifests
  /\ err \in BOOLEAN
  /\ runs \in 1..MaxRuns
  /\ before \in [Manifests -> Contents]
  /\ failed \subseteq Faults

\* A manifest that was in the kubelet's directory when the command began,
\* somebody else's or left by a killed run, is neither overwritten nor removed
\* by it, whatever fails: this is what O_EXCL and ownedManifests are for.
PreexistingUntouched ==
  \A m \in Manifests : before[m] # "absent" => podDir[m] = before[m]

\* The kubelet never sees a manifest of this run without all the secrets its
\* pods mount, until Teardown begins.
SecretsBeforeManifests ==
  pc \in {"copyManifests", "createAssets", "waitPods"} =>
    \A s \in SecretFiles : secretsDir[s] = "complete"

\* The self-hosted assets are created only by a bootstrap control plane that
\* this run has put in place completely, never by what an earlier one left.
AssetsByOwnControlPlane ==
  pc \in {"createAssets", "waitPods"} =>
    \A m \in Manifests : podDir[m] = "complete" /\ before[m] = "absent" /\ m \in owned

\* The manifests by which the kubelet's directory differs from what it was.
Differing == {m \in Manifests : podDir[m] # before[m]}

\* When the command exits, however it got there, no secret is left behind and
\* the kubelet's directory is what it was before, but for the manifest, one at
\* most, whose copying failed half way; unless a removal failed in this run,
\* whatever earlier runs met.
CleanExit ==
  pc = "exited" /\ "remove" \notin failed =>
    /\ Present(secretsDir) = {}
    /\ \A m, n \in Differing : m = n /\ podDir[m] = "partial" /\ "copy" \in failed

\* Whatever fails, a run that is not killed exits.
Terminates == <>[](pc = "exited")
=============================================================================
