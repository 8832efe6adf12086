# TLA+ specifications of bootkube

bootkube launches self-hosted Kubernetes clusters: a temporary control plane is
run from static pod manifests, creates the real one as ordinary pods, and is torn
down; a *pod checkpointer* on every master keeps copies of the important pods on
disk and runs them as static pods when their parents are gone. What can go wrong
is in the order of file operations, in processes that are killed between two of
them, in clocks, and in answers of other programs that are stale, wrong or lost.
These modules model that, TLC checks them on small instances, and TLAPS proves
the safety properties for every instance.

## Inventory

| Part | State | Operations | Hard because |
|---|---|---|---|
| checkpoint state machine, `pkg/checkpoint/state.go` | a state per pod, an end of a grace period | `transition`, `action` | timers that continue through outages |
| checkpointer loop, `checkpoint.go`, `process.go`, `manifest.go`, `secret.go`, `config_map.go` | map of checkpoints, `selfCheckpoint`, `lastCheckpoint`; four directories | `update`, `createCheckpointsForValidParents`, `process`, `handleStop/Start/Remove` | crash between two writes; actions only on changes; contradictory sources |
| sources, `kubelet.go`, `runtime_service.go`, `apiserver.go`, `pod.go` | none | list and filter pods | failures look like empty answers |
| process start, `cmd/checkpoint/main.go` | a file lock | `main`, `flock` | two checkpointers on one disk |
| bootstrap control plane, `pkg/bootkube/bootkube.go`, `bootstrap.go` | `ownedManifests`; secrets directory, kubelet's directory | `Run`, `Start`, `Teardown` | killed or failing half way, run again |
| asset creation, `create.go` | `ok`, discovery cache; the api server's objects | `createManifests`, `waitForCRD`, `resourceInfo` | lost requests, late definitions, stale cache |
| waiting for pods, `status.go` | two informer stores | `AllRunning` | stores lag and change while read |
| recovery, `cmd/bootkube/recover.go`, `pkg/recovery` | `controlPlane`, what was listed; the recovery directory | `read`, `renderBootstrap`, `renderKubeConfig`, `WriteFiles` | the cluster changes between the lists; files are written one by one |
| render, `cmd/render/plugin/default`, `pkg/tlsutil` | `Config`, the list of assets; the asset directory | `validateRenderOpts`, `flagsToAssetConfig`, `NewDefaultAssets`, `WriteFiles` | address arithmetic; assets looked up by name among those built so far; four certificate authorities |

The checkpointer talks to the other parts only through the disk and through what
the kubelet, the runtime and the api server answer. `Run` calls `Start`,
`CreateAssets`, `WaitUntilPodsRunning` and, deferred, `Teardown`, in this order.
`bootkube render` and `bootkube recover` produce directories that `bootkube start`
reads; the kubelet of the node and the api server close the loop between the
checkpointer's manifests and the answers it gets.

PROJECT.json lists every component with its status, every hazard at its line, and
for every definition the source lines it models.

## Modules

### CheckpointState

The transition methods of `state.go` as operators, one per method, on the state of
one checkpoint and an `apiCondition`. The code keeps `gracePeriodEnd`, an absolute
time; here a grace-period state has `left`, the ticks until then, so that the state
space is finite: `now.Add(checkpointGracePeriod)` is `left = GracePeriod`, "now at or
after the end" is `left = 0`, and `Elapse` is one tick of the clock.

### Checkpointer

`run()` of one node, over any set of pods and the checkpointer's own pod `Self`.

| Model | Code |
|---|---|
| `Update(o)` | gathering, `getFileCheckpoints`, `update`, start of `createCheckpointsForValidParents` |
| `UpdateUnreadable(o)` | the same when `getFileCheckpoints` passes over manifests that it cannot read or decode |
| `WriteManifest`, `CheckpointSecrets`, `CheckpointConfigMaps` (and their `...Fails`) | one iteration of its loop |
| `ProcessAll`, `ProcessSelfStop`, `ProcessSelfRemove` | `process`, by what becomes of the self checkpoint |
| `HandleStop`, `HandleStart` | one element of `handleStop`, `handleStart` |
| `RemoveSecrets`, `RemoveConfigMaps`, `RemoveInactive`, `RemoveActive` | the four removals of `handleRemove` for one element |
| `Tick` | time |
| `Crash` | the process ends and the next holder of the lock starts with empty memory |

Abstractions. A pod is a name; its spec is a version, and a spec read back from
disk remembers that it is sanitized, for then it has no volumes to fetch assets for.
The secrets on disk of a pod are the versions whose secrets were stored. Every
atomic rename is one step (`writeAndAtomicRename` writes a hidden temporary file
that `getFileCheckpoints` removes). An observation is *any* answer: no assumption
relates the kubelet, the runtime and the api server to each other or to the disk.
Three history variables serve the properties: `gone[p]`, how long the api server has
been omitting `p`; `allStopped`, whether this process has stopped everything along
with its self checkpoint; and `faulted`, whether a read, a write or a removal has failed
in this process. A directory of manifests that cannot be listed ends the process
(`glog.Fatalf`), so it is a `Crash`. A manifest that was renamed and whose `chown` then
failed is on disk all the same: for `handleStart`, which only logs the error, that is
the step of a success.

`CheckpointerClaims` states what a comment says of the checkpointer and the code
does not do.

### CheckpointLifecycle

What the checkpointer promises about the four directories, without its loop: a
checkpoint is stored, its assets are fetched only for a manifest that is stored, it
is started only from a stored one, and it is dropped, when it is due, assets first, then
the stored manifest, then the running one. `Checkpointer!ImplementsLifecycle` says that
`Checkpointer`, crashes included, is a refinement of it; `due` is mapped to the pods whose grace period,
or the checkpointer's, is over, the rest to what the four directories hold. With failing
removals it is not: `handleRemove` goes on after a failed removal, so a manifest may go
before its assets.

### Node

`Checkpointer` composed with what surrounds it on the only master of a cluster:

| Model | Code or world |
|---|---|
| `Acquire`, `holder` | `flock` in `cmd/checkpoint/main.go`, contended by the parent pod and by its own checkpoint |
| `HolderStep` | the loop in the process with the lock |
| `AskKubelet`, `AskRuntime`, `Observed` | its three questions, one after the other; the answers are no longer arbitrary, and the node may change between them |
| `Dies` | the death of a process releases the lock; for `Checkpointer` it is a `Crash` |
| `KubeletSync`, `StartSandbox`, `StartParent`, `StartStatic`, `KillStatic` | the kubelet (external) |
| `ParentContainerDies`, `StaticContainerDies`, `KubeletRestart`, `Reboot` | what happens to the node, at most `MaxDisruptions` times |

The api server is one of the checkpointed pods. It is available when its parent or
its checkpoint runs; both bind the same host port, so not both do. A static pod runs
when the assets its manifest mounts are on disk. The steps of the loop are the actions
of `Checkpointer` themselves, so its invariants hold here; that takes only that the
answers are among the arbitrary ones of `Checkpointer`, and that the death of the
process with the lock is a `Crash` (`NodeProofs!CheckpointerIsImplemented`).

### Bootkube

One run after another of `bootkube start` on one node, with every file opened,
filled and removed in a step of its own. `Rerun` is both "killed and run again" and
"run again after it exited"; `before` remembers the kubelet's directory as the run
found it, `failed` the kinds of file operations that failed in it. `CreateAssets` and `WaitUntilPodsRunning` have either result here. Created
subdirectories are not modelled; a failing `Mkdir` is one of the ways in which the
walk fails before the next file.

### CreateAssets

`createManifests` against an external api server. Manifests are abstract; constants
say which are namespaces, definitions and custom resources, in which namespace, of
which definition, and in which file they are. `sort.Slice` is not stable, so the
documents of one file come in any order. `cache` is the part of
`resourceMapper.cache` that matters: the definitions it knows. That a custom resource
can be listed and created (`served`) and that discovery reports its kind (`discovered`)
are two facts about the server, and `waitForCRD` waits for the first only. `givenUp`
remembers the manifests that failed, a definition when waiting for it did: one that
could not be created is waited for all the same. `MCCreateAssets` gives the constants
values.

### StatusController

The cluster is the sequence of its states; `podRev` and `nodeRev` say which of them
the informers' stores hold (0: nothing yet). `PodStatus(w)` is one lookup, so the
informers move between two of them. `MCStatusController` gives the constants values.

### Recover

`bootkube recover`: the two backends' `read` as one `List(kind)` per call, in the order
of the backend, while `ChangeStore` deletes, creates and updates objects in between;
`Render` for `renderBootstrap` and `renderKubeConfig`; `OpenDir` and one `WriteFile` per
asset for `WriteFiles`. A run may fail or be killed at each of these and be repeated
into the same directory, or, after `ClearDir`, into an empty one. A workload is a
version of a DaemonSet or Deployment with its labels and mounts; the fix-ups of a pod
(host network, paths, kubeconfig mount) are its one file, and so are all keys of a secret
or configMap. `MCRecover` gives the
constants values: an api server in two versions, the second mounting one more secret;
a scheduler labelled the old way; a proxy that is not recovered.

### Render

`bootkube render`, from the command line to the directory. The networks are computed as
the code does: `ParseCIDR`, `Contains`, `incIPv4` byte by byte with wrap-around, and
`offsetServiceIP`; bytes have `Bits` bits. The steps of `NewDefaultAssets` each append
their assets, and a `Get` that finds nothing (a nil dereference or an error in the code)
is the result `missing`. Keys are names, a certificate is (key, signer, names,
addresses), and of a template only the files and networks it names are kept. So the
manifests are those that name one; the other assets of `k8s.go` depend on nothing the
properties speak of, and the one that canal lists twice (110, 112) is written twice with
the same content.
Certificates that the user brings need not fit: `stray` says which of the CA certificate,
the etcd CA and the etcd client key do not belong to the others brought along, and flags that `net.ParseCIDR` or `url.Parse` reject are `malformed`. `Contains` needs
addresses of one length; that Go takes an IPv4-mapped IPv6 address for IPv4 is left out.
`MCRender` enumerates the command lines: every pair of networks from a small set for
one stack, pairs of pairs for two, and every combination of brought certificates, etcd
schemes and network providers.

## What is checked

Every run is small because the interesting cases need few actors: one ordinary pod
next to the self checkpoint already has all interactions of `process`, which treats
the pods of the map independently and the self checkpoint specially.

| Run | Instance | Result |
|---|---|---|
| CheckpointerSafety | 1 pod and self, grace 1, assets always due, 1 crash; 3.1 million states | assets never outlive both manifests; what is to be started has a source; memory and disk agree between cycles; self removed last; refines CheckpointLifecycle |
| CheckpointerFaults | 1 pod and self, grace 0, failing writes and unlinks, unreadable manifests, 1 crash; 2.0 million states | as long as nothing has failed in *this* process, memory and disk agree and what is to be started has a source, whatever failures of earlier processes left on disk |
| CheckpointerLiveness | 1 pod, grace 2, timeout 1, 2 crashes, fair; 34 thousand states | type invariant; nothing is queued or deleted before its grace period is over; taken over in an outage, handed back, collected; a half-removed checkpoint does not stay so |
| CheckpointerSelf | self only, 2 versions, 1 crash, fair | self collected, self upgraded |
| Node | api server and checkpointer, 3 disruptions, fair; 38 thousand states | the lock is with a live process; once a reboot can be survived it stays so; that point is reached; from then on the control plane always returns to its parent |
| Recover | 2 runs, 2 changes of the store, either backend, failing lists and writes; 321 thousand states | a directory with a kubeconfig is complete; every lasting part of the control plane is recovered; files of two runs never mix |
| Render | some 3000 command lines; 34 thousand states | networks are rejected that are too many, too small or overlap, and no others; service addresses by a reference definition on numbers; every file asked for is rendered; every certificate verifies that does not rest on a key that does not fit |
| Bootkube | 2 secrets and kubeconfig, 2 manifests, 3 runs, all file faults, fair | foreign manifests untouched, secrets before manifests, own control plane, termination; a run in which no removal failed exits without a secret left, nor a manifest but the one it could not copy |
| CreateAssets | namespace, 2 definitions of one groupVersion, 2 custom resources, 1 pod; strict or not, reliable or lossy; fair; 15 thousand states | nil means created, stop at the first failure or send everything once, prerequisites first unless they were given up, failures have a reason (the discovery cache is none), termination |
| StatusController | 2 required pods, one with 2 replicas, 1 node, 3 changes, fair; 1.2 million states | the pivot is justified, and happens once the cluster is up |
| ClaimRestartedAfterSelfStop | 1 pod and self | refuted: stopped along with the self checkpoint, a checkpoint is not started again |
| ClaimPodNetworkConfigured | the command lines of Render | refuted: the network provider is configured with a nil network, whatever `--pod-cidr` says |

Bounds: `MaxVersion` (1; 2 where versions matter), `GracePeriod` (1; 2 so that a tick
before the end exists), `MaxCrashes`, `MaxRuns`, `MaxChanges`. A second crash adds
nothing new, as a crash forgets everything but the disk, and any disk is reachable
after the first (the run with two is there to see that); two grace ticks distinguish "early" from "in time". Three runs of
`bootkube start` are one that is killed, one that meets what it left, and one after
that. `ForeignPods`, the pods outside the checkpointer's namespace, is empty in the
runs: a pod the api server can never list is a special case of one it omits; the
theorems hold for any value. Whether `CreateAssets` is strict, and whether requests may
be lost, is chosen in its initial state, so one run has all four cases.
`Node` has a grace period of 0: nothing is ever descheduled in it, so a countdown that
started would show as a lost checkpoint at once instead of later. Three disruptions are
a container death or a kubelet restart, a reboot in the middle of what follows, and one
more while the node comes back; `MaxCrashes` is one more than that and never binds.
`Recover` has two runs, the second meeting what the first left, and two changes, which
are what it takes to replace a workload and a secret between two lists. `Bits` = 2
with three and four bytes keeps what matters of IPv4 and IPv6: counting to the DNS
offset of 10 carries over two bytes, a network large enough for it is a fraction of
the space, and the whole space wraps around.

Each `Claim...` run refutes one statement of the repository; "findings" quotes it and
tells the counterexample. `RestartedAfterSelfStop` is also why `RemovalJustified` and
`MemoryMatchesDisk` except `allStopped`: in the self-stop branch the other checkpoints
take no transition, so their grace periods run on unobserved.

Further places where a comment and the code part, seen on the same models and not
kept as runs:

- `state.go:105-112`, `checkpoint.go:121-122`: a pod that only the api server ever listed
  is stored but stays in state `None`, so its files outlive it until the process restarts.
- `process.go:205-208` speaks of checkpointing pods with their assets; the manifest is
  written first (229) and the assets afterwards (238). A checkpoint can be started
  without them, and across an upgrade the new manifest replaces the old, complete one
  before its assets are there. `RecoverableKept` therefore speaks of one version.
- `bootkube.go:47`: `Teardown` is deferred so as always to run; a manifest whose copy fails
  half way is not owned (`bootstrap.go:103`) and stays with the kubelet.
- `status.go:161`: an empty node store, or a node without a condition, counts as ready (218).
- `e2e/checkpointer_test.go:31` expects that deleting the checkpointer cleans up the other
  checkpoints; the loop goes on until the kubelet kills the process, and meanwhile writes
  those of parents that are still scheduled again. The test's own verification is
  switched off for flakes (78).
- A crash between the removal of the self checkpoint's secrets and that of its active
  manifest leaves a static pod without its volumes, which starts no process that could
  finish the removal.
- A sandbox that outlives its container counts as running (`runtime_service.go:63`): with a
  kubelet that has lost its pods, nobody starts the api server (`Node!Stranded`).
- `main.go:160` and `164` of render say that two networks "must be of different address
  families", and 61-62 that the IPv4 one comes first; only their number is checked.
  `AcceptsSeparateNetworks` and its theorem say what is checked and leave the families
  open: `NetworksSeparate` is not a claim that a cluster can use such networks.
- A leaf certificate is given its own year count, so it can outlive a CA the user brought.
- `etcd.go:130` of recovery: a wrong `--etcd-prefix` lists nothing, and the command succeeds
  with a kubeconfig and no control plane.
- `process.go:118` promises that the self checkpoint remains active; one omission by
  an available api server moves it to `ActiveGracePeriod`, and from there to
  `Inactive` and removal (checked as `SelfCollected`).
- `cmd/checkpoint/README.md:88` has the removed self checkpoint clean up everything;
  checkpoints that are not in the map keep their files.
- `state.go:106-108`: a pod only the api server lists is said not to be checkpointed
  yet; its state stays `None`, but `createCheckpointsForValidParents` stores it.
- `apiserver.go:21` speaks of garbage collection during an outage: the countdown that
  has started goes on through it.
- `apiserver.go:19`: only the checkpointer's namespace is listed, so a parent of another
  namespace is as good as gone whenever the api server answers.
- `create.go:199-200` calls it safe to create the other manifests after the wait; in
  the default mode they are created also when the wait failed.
- `start.go:43`, `status.go:200`: the required pods need not run at the same time
  for the wait to end, only each at its lookup.
- `bootstrap.go:66`: the comment on `copyFile` states the opposite of `overwrite`.

Definitions marked *Mutant* in the modules are plausible bugs of the definition they
precede; they are not used by any specification. PROJECT.json pairs each with the
property that notices it.

### Fairness

`Checkpointer!FairSpec`: the loop of `run()` never blocks for ever and the clock
advances. The requests to the api server are made with `context.TODO()` and have no
deadline of their own: assumed is that each of them is answered or fails in the end, as
a connection that breaks does. Nothing is assumed of the sources or of
crashes; the liveness properties instead assume of the sources, in their premises,
that they say the same from some time on. `Bootkube!FairSpec`,
`CreateAssets!FairSpec`: every wait is a `wait.Poll` with a timeout, and a single request
(`create.go:106`, `255`, `286`, again without a deadline) is assumed to end, so the command
always takes its next step; nothing else is assumed of the api server.
`StatusController!FairSpec`: the poll goes on and the informers, which retry List and
Watch for ever, catch up. `Node!NodeSpec`: the loop, the clock, the lock and each of the
kubelet's duties go on; disruptions may stop or never come.

## What is proved

For all values of the constants (any pods, grace period, faults, number of crashes;
any files, manifests, workloads, command lines, number of runs), from the named ASSUMEs
of the modules only. Every invariant a run checks is a theorem, and so are the action
properties and the refinement of CheckpointLifecycle.

| Module | Theorems about | Inductive invariant |
|---|---|---|
| CheckpointerProofs | `TypeOK`, `RemovalJustified`, `DeletionJustified` | `IInv` |
| CheckpointerProofs | `StartHasSource`, `MemoryMatchesDisk`, `NoOrphanedAssets`, `SelfRemovedLast`, `ImplementsLifecycle`, `CycleAdvances` | `IInv` and `DiskInv` |
| NodeProofs | `NodeTypeOK`, `RecoverableKept` | these two and `NodeInv` |
| BootkubeProofs | `PreexistingUntouched`, `SecretsBeforeManifests`, `AssetsByOwnControlPlane`, `CleanExit`, `TypeOK`, `Advances` | `IInv` |
| CreateAssetsProofs | `NilMeansCreated`, `StrictOrAll`, `PrerequisitesFirst`, `FailureHasReason`, `TypeOK`, `Advances` | `Inv` |
| StatusControllerProofs | `PivotJustified`, `TypeOK` | `Inv` |
| RecoverProofs | `TypeOK`, `KubeConfigCompletes`, `LastingRecovered`, `OneRun` | `RInv` |
| NetworkProofs | `FlagsAccepted` against `NetworksSeparate` | none: about operators |
| RenderProofs | `FilesFound` | `RenderInv` |
| RenderProofs | `ChainsVerify`, `AcceptsSeparateNetworks`, `ServiceIPsReachable` | `RenderInv` and `ConfigInv` |

`CheckpointerProofs`, justified removals. `RemovalJustified` is about the queue of removals and is not
inductive. The invariant adds that a checkpoint in a grace period with `left` ticks to go
has been omitted by the api server for at least `GracePeriod - left` ticks (`GraceTiming`;
the heart of the argument: every transition that keeps or starts a countdown has just
observed, or still stands by, an omission), that an answer of the api server held in `obs`
agrees with `gone` (`ObservedGone`), that the multi-step removal works on a queued pod
(`RemovingInOrder`), that a tracked pod has a spec (`TrackedHavePods`), and that
no state in the map is `Remove` (`NoneInRemove`). `DeletionJustified` follows because
deletions happen in the removal steps only.

`CheckpointerProofs`, memory and disk. `MemoryMatchesDisk` speaks of the time between cycles, so the
invariant says what holds within one: what is queued to be started or stopped is in a
state of memory that asks for it, what is queued for removal has left the map
(`ListsMatchMemory`); every entry whose turn has come is stored (`StoredMatches`); what
is on disk and what is queued together are what the memory believes (`ActiveMatches`);
a removal has done what its step says (`RemovedSoFar`); and the self checkpoint is queued
for removal together with everything that runs (`SelfTakesAll`), which is
`SelfRemovedLast`. The refinement of CheckpointLifecycle maps each of the removal steps
to one of its own, and everything that touches no directory to a stutter. It is proved
for `~DiskFaults`: with failing removals it does not hold (see CheckpointLifecycle).

`NodeProofs`. The invariants of `Checkpointer` carry over, as every step of the node is one
of its own or leaves it alone. `NodeTypeOK` says that the lock is with a process that
lives, and that questions are open only in it and between two cycles. `RecoverableKept`
takes a fact about the whole loop: the api server, which the checkpointer itself keeps
alive, lists the control plane whenever it answers, so `gone` never starts to count and
the self checkpoint stays active (`NeverOmitted`). Assumed of the constants, as the
manifests of `bootkube render` have it: the api server is in the checkpointer's namespace,
and both are annotated to be checkpointed.

`BootkubeProofs`. The invariant adds how far the two walks are (`WalkProgress`), that
what the run has copied or owns was absent before (`OwnIsNew`), that nothing has failed
until Teardown and one file is open at a time (`OneOpen`), and that whatever differs from
before is owned, but for the file whose copying failed (`DifferenceIsOwned`).

`CreateAssetsProofs`. The invariant names what has been sent at each stage, each manifest
once (`Progress`), and says that as long as nothing failed it exists, and that in any case
the namespaces that were sent exist and the definitions that were waited for are served,
but for those given up (`SoFar`). `FailureHasReason` rests on the
refresh of the discovery cache after a miss.

`StatusControllerProofs`. Several required pods may be looked up under one key of the map,
overwriting each other, so the invariant speaks of the map: every required pod done has an
entry (`LookedUp`), and an entry "Running" was true since the poll began (`EntriesTrue`).

`RecoverProofs`. Of the directory: what a run has written is whole and its own, everything
rendered and not written is still to do, and the kubeconfig is (`Writing`). When the
kubeconfig is written nothing of a lower stage is left, so all else is there. Of the lists:
whatever is still `lasting` is in every list read so far, perhaps in another version
(`ListedLasting`). Assumed, as the manifests have it, is that a workload of the control
plane carries its component's name in one of the two labels (`LabelsAssumption`).

`RenderProofs`. All lookups go by name, so a list is reduced to the set of its assets and
the fact that a name finds no other (`One`). `Get` returns the first asset of its name; that
there is a first one uses the well-foundedness of the natural numbers. The invariant says
for every step which credentials, manifests, kubeconfig and secrets are there
(`BuiltSoFar`), for certificates that are the user's and for generated ones. `ConfigInv`
says that the configuration is the one `flagsToAssetConfig` made of accepted flags, and that
it made none only of flags that are not acceptable; the two properties of the
networks follow from it with `NetworkProofs`.

`NetworkProofs`. The code works on bytes, the properties speak of numbers.
`FlagsAcceptedAreSeparate` says that the two agree: for any command line whose flags
parse, whatever the address families, the flags are accepted just when the networks are as many, one or two, have no
address in common and have room for both services. The argument goes byte by byte:

- an address is less than the size of its address space, and different addresses of one
  length are different numbers (`ValueBound`, `ValInjective`);
- a mask rounds an address down to a multiple of the network's size (`MaskedRounds`), so
  two networks of one length overlap just when one of them contains the first address
  of the other, which is all `flagsToAssetConfig` asks;
- an increment carries from byte to byte and adds one, except at the end of the address
  space (`IncPrefixes`). A network of more than ten addresses has sixteen or more and
  begins at a multiple of sixteen, so counting to the DNS service never wraps.

The provers have no theory of powers and cannot instantiate the library's induction
theorems. So what is needed of powers of two (`PowAdd`, `PowPositive`) is taken from the
number of subsets of a set, which FiniteSetTheorems gives as a power; induction is that a
set of numbers has a least element, applied to the set of counterexamples (`UpTo`); and
that `Vals`, a recursive function, is what its equation says comes from piecing together
the functions on initial segments (`Recursion`, `ValsDef`). Bytes have any number of bits
above 0. Assumed is `OptionsAssumption`: a network of a command line is an address of
bytes with at most as many network bits as it has bits, which is what `net.ParseCIDR`
returns, in an address space of more than `dnsOffset` addresses, which IPv4 and IPv6 are.

Progress. Fairness is out of the prover's reach, but not what it works on: that steps
cannot go on without getting anywhere. `RunAdvances`, `CreateAdvances` and `CyclesAdvance`
state it as action properties. Every step of a run of `bootkube start`, of
`createManifests` or of one cycle of the checkpointer moves to a later stage or completes
one more file, manifest or pod of the present one, and failing completes it too: nothing
is tried twice. For finite sets that is a well-founded order. That a step which is
possible is also taken, and that one is possible, stays with TLC.

Only model-checked:

- liveness: `ActivatedInOutage`, `HandedBack`, `Collected`, `HalfRemovedSettles`,
  `SelfCollected`, `SelfUpgraded`, `BecomesRecoverable`, `ControlPlaneReturns`,
  `PivotsWhenUp`, `Terminates` (fairness and ENABLED are out of the prover's reach);
- the two claims that are violated, which are counterexamples and need no proof.

## Not modelled

- `pkg/checkpoint/cri/v1alpha1/api.pb.go` and `v1alpha2/api.pb.go`, 58,000 of the
  repository's 65,000 lines: generated protobuf code without behaviour of its own. What
  the checkpointer gets from it is `LocalRunningAnswers`.
- The text of the templates, beyond the files and networks they name; the parsing of
  YAML manifests, certificates and flags; logging, progress output and `version`.
- `StartRecoveryEtcdForBackup` and the etcd templates of recovery: no caller.
- File names: two pods whose names differ only in the place of a dash share a manifest
  file (`pod.go:160`); pods here are abstract names.
- The end-to-end tests, except as a source of what is expected.

## Plan

1. Done: CheckpointState, Checkpointer, CheckpointLifecycle, Node; Bootkube;
   CreateAssets; StatusController; Recover; Render; for each the proofs of its safety
   properties, for Checkpointer and Node those of the refinements.
2. Done: type correctness of every component with a TypeOK, the networks of Render as
   numbers, and the orders in which bootkube start, createManifests and the cycles of the
   checkpointer advance.
3. Left: Bootkube composed with CreateAssets and StatusController instead of their results.
