--------------------------- MODULE RecoverProofs ---------------------------
(***************************************************************************)
(* Proofs about bootkube recover, for any workloads, mounts and states of  *)
(* the store, however it changes while the kinds are listed, and for any   *)
(* number of runs that fail or are killed anywhere.                        *)
(*                                                                         *)
(* KubeConfigCompletes speaks of the directory alone; what makes it true   *)
(* is how far the current run has written what it rendered (Writing).      *)
(* LastingRecovered takes what each list saw of the control plane          *)
(* (ListedLasting).                                                        *)
(***************************************************************************)
EXTENDS Recover, TLAPS

\* What lasts is still in the store, and in every list read so far.
ListedLasting ==
  /\ lasting \subseteq AppsIn(store)
  /\ pc # "done" => \A a \in lasting :
       a[1] \notin unread => \E w \in ControlPlane : w \in cp[a[1]] /\ AppOf[w] = a[2]

\* What the current run holds is what it rendered.  What it has written is
\* whole and its own, and the kubeconfig is still to come.
Writing ==
  /\ pc = "open" => todo = Rendered(cp)
  /\ pc = "write" =>
       /\ todo \subseteq Rendered(cp) /\ KubeConfig \in todo
       /\ \A a \in Rendered(cp) \ todo : Holds(a.what)
       /\ \A f \in dir : /\ f.whole /\ f.run = runs /\ f.what # KubeConfig.what
                         /\ \E a \in Rendered(cp) : f.what = a.what /\ f.of = a.of

RInv == /\ TypeOK
        /\ pc # "done" => runs >= 1 /\ result = "none"
        /\ ListedLasting
        /\ Writing
        /\ KubeConfigCompletes
        /\ LastingRecovered
        /\ OneRun
USE MountsAssumption, BoundsAssumption, ControlPlaneAssumption, StoresAssumption

Assets == [stage : 1..5, what : FileNames, of : SUBSET Workloads]

----------------------------------------------------------------------------
(***************************************************************************)
(* What is rendered                                                        *)
(***************************************************************************)
\* A list of objects is a set of workloads, secrets or configMaps.
LEMMA PlaneTypes ==
  ASSUME NEW plane, IsPlane(plane)
  PROVE  /\ plane.daemonSets \subseteq Workloads /\ plane.deployments \subseteq Workloads
         /\ plane.secrets \subseteq SecretNames /\ plane.configMaps \subseteq ConfigMapNames
  BY DEF IsPlane, Kinds, Objects

\* Every asset is of its type; the kubeconfig is the only one of its stage and
\* of its name.
LEMMA RenderedTypes ==
  ASSUME NEW plane, IsPlane(plane)
  PROVE  /\ Rendered(plane) \subseteq Assets
         /\ KubeConfig \in Rendered(plane) /\ KubeConfig.of = {}
         /\ \A a \in Rendered(plane) :
              a # KubeConfig => a.stage < 5 /\ a.what # KubeConfig.what
  <1> DEFINE pods == BootstrapPods(plane)
  <1>1. /\ extractBootstrapPods(plane.daemonSets) \subseteq Workloads
        /\ extractBootstrapPods(plane.deployments) \subseteq Workloads
        /\ pods \subseteq Workloads
    BY PlaneTypes DEF extractBootstrapPods, BootstrapPods
  <1>2. RequiredSecrets(pods) \subseteq SecretNames /\ RequiredConfigMaps(pods) \subseteq ConfigMapNames
    BY <1>1 DEF RequiredSecrets, RequiredConfigMaps
  <1>3. ASSUME NEW w \in Workloads, NEW stage \in 1..2
        PROVE  /\ Pod(w, stage) \in Assets /\ Pod(w, stage).stage < 5
               /\ Pod(w, stage).what # KubeConfig.what
    BY DEF Pod, Assets, FileNames, KubeConfig
  <1>4. ASSUME NEW n \in SecretNames
        PROVE  /\ Data("secret", n, 4) \in Assets /\ Data("secret", n, 4).stage < 5
               /\ Data("secret", n, 4).what # KubeConfig.what
    BY DEF Data, Assets, FileNames, KubeConfig
  <1>5. ASSUME NEW n \in ConfigMapNames
        PROVE  /\ Data("configMap", n, 3) \in Assets /\ Data("configMap", n, 3).stage < 5
               /\ Data("configMap", n, 3).what # KubeConfig.what
    BY DEF Data, Assets, FileNames, KubeConfig
  <1>6. KubeConfig \in Assets /\ KubeConfig.of = {}
    BY DEF Assets, FileNames, KubeConfig
  <1> HIDE DEF pods
  <1> QED BY <1>1, <1>2, <1>3, <1>4, <1>5, <1>6 DEF Rendered, pods

\* The pods of what is listed are rendered, with everything they mount.
LEMMA RenderedPods ==
  ASSUME NEW plane, IsPlane(plane)
  PROVE  /\ \A w \in BootstrapPods(plane) :
              \E a \in Rendered(plane) : a.what = <<"pod", AppOf[w]>>
         /\ \A a \in Rendered(plane) : a.of \subseteq BootstrapPods(plane)
         /\ \A w \in BootstrapPods(plane) :
              /\ \A n \in SecretMounts[w] : \E a \in Rendered(plane) : a.what = <<"secret", n>>
              /\ \A n \in ConfigMapMounts[w] :
                   \E a \in Rendered(plane) : a.what = <<"configMap", n>>
  <1>1. ASSUME NEW w \in BootstrapPods(plane)
        PROVE  \E a \in Rendered(plane) : a.what = <<"pod", AppOf[w]>>
    <2>1. Pod(w, 1) \in Rendered(plane) \/ Pod(w, 2) \in Rendered(plane)
      BY DEF BootstrapPods, extractBootstrapPods, Rendered
    <2> QED BY <2>1 DEF Pod
  <1>2. ASSUME NEW a \in Rendered(plane) PROVE a.of \subseteq BootstrapPods(plane)
    <2>1. /\ \A w, stage : Pod(w, stage).of = {w}
          /\ \A kind, n, stage : Data(kind, n, stage).of = {}
          /\ KubeConfig.of = {}
      BY DEF Pod, Data, KubeConfig
    <2>2. \A w \in extractBootstrapPods(plane.daemonSets)
                    \cup extractBootstrapPods(plane.deployments) : w \in BootstrapPods(plane)
      BY DEF BootstrapPods, extractBootstrapPods
    <2>3. CASE \E w \in BootstrapPods(plane), stage \in 1..2 : a = Pod(w, stage)
      BY <2>1, <2>3
    <2>4. CASE a = KubeConfig \/ \E kind, n, stage : a = Data(kind, n, stage)
      BY <2>1, <2>4
    <2> QED BY <2>2, <2>3, <2>4 DEF Rendered
  <1>3. ASSUME NEW w \in BootstrapPods(plane), NEW n \in SecretMounts[w]
        PROVE  \E a \in Rendered(plane) : a.what = <<"secret", n>>
    <2>1. Data("secret", n, 4) \in Rendered(plane)
      BY DEF Rendered, RequiredSecrets
    <2> QED BY <2>1 DEF Data
  <1>4. ASSUME NEW w \in BootstrapPods(plane), NEW n \in ConfigMapMounts[w]
        PROVE  \E a \in Rendered(plane) : a.what = <<"configMap", n>>
    <2>1. Data("configMap", n, 3) \in Rendered(plane)
      BY DEF Rendered, RequiredConfigMaps
    <2> QED BY <2>1 DEF Data
  <1> QED BY <1>1, <1>2, <1>3, <1>4

\* Whatever its label, a workload of the control plane is a bootstrap pod.
LEMMA ControlPlaneRecognised ==
  ASSUME NEW plane, NEW w \in ControlPlane, w \in plane.daemonSets \cup plane.deployments
  PROVE  w \in BootstrapPods(plane)
  BY LabelsAssumption DEF BootstrapPods, extractBootstrapPods, isBootstrapApp, bootstrapK8sApps

----------------------------------------------------------------------------
(***************************************************************************)
(* The inductive invariant                                                 *)
(***************************************************************************)
LEMMA InitRInv == Init => RInv
  <1> SUFFICES ASSUME Init PROVE RInv OBVIOUS
  <1>1. IsPlane(store) /\ IsPlane(cp)
    BY DEF Init, NoObjects, IsPlane
  <1>2. TypeOK
    BY <1>1 DEF Init, TypeOK, Kinds
  <1>3. ListedLasting /\ Writing /\ KubeConfigCompletes /\ LastingRecovered /\ OneRun
    BY DEF Init, ListedLasting, Writing, KubeConfigCompletes, LastingRecovered, OneRun, Holds
  <1> QED BY <1>2, <1>3 DEF Init, RInv

\* What is said of the directory alone.
LEMMA DirRInv ==
  ASSUME RInv, dir' = dir
  PROVE  KubeConfigCompletes' /\ OneRun'
  <1>1. \A what : Holds(what)' <=> Holds(what)
    BY DEF Holds
  <1> QED BY <1>1 DEF RInv, KubeConfigCompletes, OneRun

\* A run starts with nothing listed, or is refused.
LEMMA StartRInv ==
  ASSUME RInv, RejectFlags \/ Begin
  PROVE  RInv'
  <1>1. CASE RejectFlags
    <2>1. TypeOK' /\ ListedLasting'
      BY <1>1 DEF RejectFlags, RInv, TypeOK, ListedLasting
    <2>2. Writing' /\ LastingRecovered'
      BY <1>1 DEF RejectFlags, Writing, LastingRecovered
    <2> QED BY <1>1, <2>1, <2>2, DirRInv DEF RejectFlags, RInv
  <1>2. CASE Begin
    <2>1. /\ pc' = "read" /\ unread' = Kinds /\ cp' = NoObjects /\ todo' = {}
          /\ lasting' = AppsIn(store) /\ result' = "none" /\ store' = store /\ dir' = dir
          /\ changes' = changes /\ runs' = runs + 1 /\ runs < MaxRuns
          /\ backend' \in {"etcd", "apiserver"}
      BY <1>2 DEF Begin
    <2>2. IsPlane(cp')
      BY <2>1 DEF NoObjects, IsPlane
    <2>3. AppsIn(store) \subseteq AppsIn([k \in Kinds |-> Workloads])
      BY DEF AppsIn, Kinds
    <2>4. AppsIn(store') = AppsIn(store)
      BY <2>1
    <2>5. TypeOK'
      BY <2>1, <2>2, <2>3 DEF RInv, TypeOK, Kinds
    <2>6. ListedLasting'
      <3>1. \A a \in AppsIn(store) : a[1] \in Kinds
        BY DEF AppsIn, Kinds
      <3> QED BY <2>1, <2>4, <3>1 DEF ListedLasting
    <2>7. runs \in Nat
      BY DEF RInv, TypeOK
    <2>8. Writing' /\ LastingRecovered'
      BY <2>1 DEF Writing, LastingRecovered
    <2> QED BY <2>1, <2>5, <2>6, <2>7, <2>8, DirRInv DEF RInv
  <1> QED BY <1>1, <1>2

\* A list holds of its kind what the store holds now, what lasts included.
LEMMA ListRInv ==
  ASSUME RInv, NEW kind \in Kinds, List(kind)
  PROVE  RInv'
  <1>1. /\ pc = "read" /\ cp' = [cp EXCEPT ![kind] = store[kind]]
        /\ unread' = unread \ {kind} /\ pc' = IF unread' = {} THEN "render" ELSE "read"
        /\ UNCHANGED <<store, lasting, backend, todo, dir, result, runs, changes>>
    BY DEF List
  <1>2. IsPlane(store) /\ IsPlane(cp)
    BY DEF RInv, TypeOK
  <1>3. IsPlane(cp')
    BY <1>1, <1>2 DEF IsPlane
  <1>4. TypeOK'
    BY <1>1, <1>2, <1>3 DEF RInv, TypeOK
  <1>5. ListedLasting'
    <2>1. AppsIn(store') = AppsIn(store) /\ lasting' = lasting /\ lasting \subseteq AppsIn(store)
      BY <1>1 DEF RInv, ListedLasting
    <2>2. ASSUME NEW a \in lasting, a[1] \notin unread'
          PROVE  \E w \in ControlPlane : w \in cp'[a[1]] /\ AppOf[w] = a[2]
      <3>1. CASE a[1] = kind
        <4>1. PICK w \in ControlPlane : w \in store[a[1]] /\ AppOf[w] = a[2]
          BY <2>1 DEF AppsIn
        <4> QED BY <1>1, <1>2, <3>1, <4>1 DEF IsPlane
      <3>2. CASE a[1] # kind
        <4>1. PICK w \in ControlPlane : w \in cp[a[1]] /\ AppOf[w] = a[2]
          BY <1>1, <2>2, <3>2 DEF RInv, ListedLasting
        <4>2. a[1] \in Kinds
          BY <2>1 DEF AppsIn, Kinds
        <4> QED BY <1>1, <1>2, <3>2, <4>1, <4>2 DEF IsPlane
      <3> QED BY <3>1, <3>2
    <2> QED BY <2>1, <2>2 DEF ListedLasting
  <1> QED BY <1>1, <1>4, <1>5 DEF RInv, Writing, KubeConfigCompletes, LastingRecovered, OneRun, Holds

\* The steps before the first file is written, and their failures.
LEMMA PrepareRInv ==
  ASSUME RInv, ReadFails \/ Render \/ RenderFails \/ OpenDir \/ OpenDirFails \/ ClearDir
  PROVE  RInv'
  <1>1. IsPlane(cp) /\ IsPlane(store) /\ AppsIn(store') = AppsIn(store)
    BY DEF RInv, TypeOK, ReadFails, Render, RenderFails, OpenDir, OpenDirFails, ClearDir, Fails
  <1>2. CASE ReadFails \/ RenderFails \/ OpenDirFails
    BY <1>1, <1>2 DEF ReadFails, RenderFails, OpenDirFails, Fails, RInv, TypeOK, ListedLasting,
                      Writing, KubeConfigCompletes, LastingRecovered, OneRun, Holds
  <1>3. CASE Render
    <2>1. TypeOK'
      BY <1>1, <1>3, RenderedTypes DEF Render, RInv, TypeOK, Assets
    <2> QED BY <1>1, <1>3, <2>1 DEF Render, RInv, TypeOK, ListedLasting, Writing,
                                    KubeConfigCompletes, LastingRecovered, OneRun, Holds
  <1>4. CASE OpenDir
    <2>1. KubeConfig \in todo
      BY <1>1, <1>4, RenderedTypes DEF OpenDir, RInv, Writing
    <2> QED BY <1>1, <1>4, <2>1 DEF OpenDir, RInv, TypeOK, ListedLasting, Writing,
                                    KubeConfigCompletes, LastingRecovered, OneRun, Holds
  <1>5. CASE ClearDir
    BY <1>1, <1>5 DEF ClearDir, RInv, TypeOK, ListedLasting, Writing, KubeConfigCompletes,
                      LastingRecovered, OneRun, Holds
  <1> QED BY <1>2, <1>3, <1>4, <1>5

\* What is in the directory after the file of asset a was written, whole or not.
WrittenWell(a, whole) ==
  /\ a \in Rendered(cp) /\ IsPlane(cp)
  /\ Written(a, whole) \subseteq
       [what : FileNames, of : SUBSET Workloads, whole : BOOLEAN, run : 1..MaxRuns]
  /\ \A f \in Written(a, whole) :
       /\ f.run = runs
       /\ \E b \in Rendered(cp) : f.what = b.what /\ f.of = b.of
       /\ \/ f \in dir /\ f.what # a.what
          \/ f.what = a.what /\ f.whole = whole
  /\ \E f \in Written(a, whole) : f.what = a.what /\ f.whole = whole
  /\ \A f \in dir : f.what # a.what => f \in Written(a, whole)

\* A write adds one file, of this run, and leaves the files of other names.
LEMMA WrittenFacts ==
  ASSUME RInv, pc = "write", NEW a \in todo, NEW whole \in BOOLEAN
  PROVE  WrittenWell(a, whole)
  <1>1. a \in Rendered(cp) /\ IsPlane(cp) /\ runs \in 1..MaxRuns
    BY DEF RInv, Writing, TypeOK
  <1>2. a.what \in FileNames /\ a.of \in SUBSET Workloads
    BY <1>1, RenderedTypes DEF Assets
  <1> DEFINE new == [what |-> a.what, of |-> a.of, whole |-> whole, run |-> runs]
  <1>3. /\ new \in [what : FileNames, of : SUBSET Workloads, whole : BOOLEAN, run : 1..MaxRuns]
        /\ new.what = a.what /\ new.of = a.of /\ new.whole = whole /\ new.run = runs
    BY <1>1, <1>2
  <1>4. Written(a, whole) = {f \in dir : f.what # a.what} \cup {new}
    BY DEF Written
  <1> HIDE DEF new
  <1> QED BY <1>1, <1>3, <1>4 DEF RInv, Writing, TypeOK, WrittenWell

\* A file that is not the kubeconfig.
LEMMA WriteOtherRInv ==
  ASSUME RInv, NEW a \in todo, WriteFile(a), a # KubeConfig
  PROVE  RInv'
  <1>1. /\ pc = "write" /\ dir' = Written(a, TRUE) /\ todo' = todo \ {a}
        /\ UNCHANGED <<store, lasting, backend, unread, cp, runs, changes>>
    BY DEF WriteFile
  <1>0. WrittenWell(a, TRUE)
    BY <1>1, WrittenFacts, Zenon
  <1>2. KubeConfig \in todo' /\ a.what # KubeConfig.what /\ IsPlane(cp) /\ a \in Rendered(cp)
    BY <1>1, RenderedTypes, <1>0 DEF WrittenWell, RInv, Writing
  <1>3. pc' = pc /\ result' = result
    BY <1>2 DEF WriteFile
  <1>4. \A what : Holds(what) \/ what = a.what => Holds(what)'
    BY <1>1, <1>0 DEF WrittenWell, Holds
  <1>5. TypeOK'
    BY <1>1, <1>2, <1>3, <1>0 DEF WrittenWell, RInv, TypeOK
  <1>6. ListedLasting'
    BY <1>1, <1>3 DEF RInv, ListedLasting, AppsIn
  <1>7. /\ \A f \in dir' : /\ f.whole /\ f.run = runs' /\ f.what # KubeConfig.what
                           /\ \E b \in Rendered(cp) : f.what = b.what /\ f.of = b.of
    BY <1>1, <1>2, <1>0 DEF WrittenWell, RInv, Writing
  <1>8. Writing'
    BY <1>1, <1>2, <1>3, <1>4, <1>7 DEF RInv, Writing
  <1>9. KubeConfigCompletes' /\ OneRun' /\ LastingRecovered'
    BY <1>1, <1>3, <1>7 DEF KubeConfigCompletes, OneRun, LastingRecovered, Holds, RInv
  <1> QED BY <1>1, <1>3, <1>5, <1>6, <1>8, <1>9 DEF RInv

\* The kubeconfig is the last file, and everything else is there.
LEMMA WriteKubeConfigRInv ==
  ASSUME RInv, KubeConfig \in todo, WriteFile(KubeConfig)
  PROVE  RInv'
  <1>1. /\ pc = "write" /\ dir' = Written(KubeConfig, TRUE) /\ todo' = todo \ {KubeConfig}
        /\ UNCHANGED <<store, lasting, backend, unread, cp, runs, changes>>
    BY DEF WriteFile
  <1>0. WrittenWell(KubeConfig, TRUE)
    BY <1>1, WrittenFacts, Zenon
  <1>2. IsPlane(cp) /\ todo \subseteq Rendered(cp)
    BY <1>1 DEF RInv, Writing, TypeOK
  <1>3. todo = {KubeConfig}
    <2>1. ASSUME NEW b \in todo, b # KubeConfig PROVE FALSE
      <3>1. b.stage < 5 /\ b.stage \in 1..5
        BY <1>2, <2>1, RenderedTypes DEF Assets
      <3>2. KubeConfig.stage = 5 /\ KubeConfig.stage <= b.stage
        BY <2>1 DEF WriteFile, NextToWrite, KubeConfig
      <3> QED BY <3>1, <3>2
    <2> QED BY <2>1
  <1>4. todo' = {} /\ pc' = "done" /\ result' = "ok"
    BY <1>1, <1>3 DEF WriteFile
  <1>5. TypeOK'
    BY <1>1, <1>4, <1>0 DEF WrittenWell, RInv, TypeOK
  <1>6. ListedLasting' /\ Writing'
    BY <1>1, <1>4 DEF RInv, ListedLasting, AppsIn, Writing
  <1>7. \A a \in Rendered(cp) : Holds(a.what)'
    <2>1. \A what : Holds(what) \/ what = KubeConfig.what => Holds(what)'
      BY <1>1, <1>0 DEF WrittenWell, Holds
    <2> QED BY <1>1, <1>3, <2>1 DEF RInv, Writing
  <1>8. OneRun'
    BY <1>1, <1>0 DEF WrittenWell, OneRun
  <1>9. KubeConfigCompletes'
    <2> SUFFICES ASSUME NEW f \in dir'
                 PROVE  /\ f.whole
                        /\ \A w \in f.of :
                             /\ \A n \in SecretMounts[w] : Holds(<<"secret", n>>)'
                             /\ \A n \in ConfigMapMounts[w] : Holds(<<"configMap", n>>)'
      BY DEF KubeConfigCompletes
    <2>1. f.whole /\ \E b \in Rendered(cp) : f.of = b.of
      BY <1>1, <1>0 DEF WrittenWell, RInv, Writing
    <2>2. f.of \subseteq BootstrapPods(cp)
      BY <1>2, <2>1, RenderedPods
    <2>3. ASSUME NEW w \in f.of
          PROVE  /\ \A n \in SecretMounts[w] : Holds(<<"secret", n>>)'
                 /\ \A n \in ConfigMapMounts[w] : Holds(<<"configMap", n>>)'
      BY <1>2, <1>7, <2>2, RenderedPods
    <2> QED BY <2>1, <2>3
  <1>10. LastingRecovered'
    <2> SUFFICES ASSUME NEW a \in lasting PROVE Holds(<<"pod", a[2]>>)'
      BY <1>1 DEF LastingRecovered
    <2>1. a \in AppsIn(store) /\ a[1] \notin unread
      BY <1>1 DEF RInv, ListedLasting, TypeOK
    <2>2. a[1] \in {"daemonSets", "deployments"}
      BY <2>1 DEF AppsIn
    <2>3. PICK w \in ControlPlane : w \in cp[a[1]] /\ AppOf[w] = a[2]
      BY <1>1, <2>1 DEF RInv, ListedLasting
    <2>4. w \in BootstrapPods(cp)
      BY <2>2, <2>3, ControlPlaneRecognised
    <2>5. PICK b \in Rendered(cp) : b.what = <<"pod", AppOf[w]>>
      BY <1>2, <2>4, RenderedPods
    <2> QED BY <1>7, <2>3, <2>5
  <1> QED BY <1>4, <1>5, <1>6, <1>8, <1>9, <1>10 DEF RInv

\* A write that fails leaves no whole kubeconfig.
LEMMA WriteFailsRInv ==
  ASSUME RInv, NEW a \in todo, WriteFileFails(a)
  PROVE  RInv'
  <1>1. /\ pc = "write" /\ dir' \in {dir, Written(a, FALSE)} /\ pc' = "done" /\ result' = "error"
        /\ unread' = {} /\ todo' = {}
        /\ UNCHANGED <<store, lasting, backend, cp, runs, changes>>
    BY DEF WriteFileFails, Fails
  <1>0. WrittenWell(a, FALSE)
    BY <1>1, WrittenFacts, Zenon
  <1>2. TypeOK'
    BY <1>1, <1>0 DEF WrittenWell, RInv, TypeOK
  <1>3. ~Holds(KubeConfig.what)'
    BY <1>1, <1>0 DEF WrittenWell, RInv, Writing, Holds
  <1>4. OneRun'
    BY <1>1, <1>0 DEF WrittenWell, RInv, OneRun
  <1>5. ListedLasting' /\ Writing'
    BY <1>1 DEF RInv, ListedLasting, AppsIn, Writing
  <1> QED BY <1>1, <1>2, <1>3, <1>4, <1>5 DEF RInv, KubeConfigCompletes, LastingRecovered

\* The cluster changes under the command.
LEMMA ChangeStoreRInv ==
  ASSUME RInv, NEW kind \in Kinds, NEW obj \in Objects(kind), ChangeStore(kind, obj)
  PROVE  RInv'
  <1>1. /\ changes < MaxChanges /\ changes' = changes + 1
        /\ lasting' = lasting \cap AppsIn(store')
        /\ UNCHANGED <<pc, backend, unread, cp, todo, dir, result, runs>>
    BY DEF ChangeStore
  <1>2. IsPlane(store')
    BY DEF ChangeStore, RInv, TypeOK, IsPlane
  <1>3. TypeOK'
    BY <1>1, <1>2 DEF RInv, TypeOK
  <1>4. ListedLasting'
    BY <1>1 DEF RInv, ListedLasting
  <1> QED BY <1>1, <1>3, <1>4 DEF RInv, Writing, KubeConfigCompletes, LastingRecovered, OneRun, Holds

LEMMA StepRInv ==
  ASSUME RInv, [Next]_vars
  PROVE  RInv'
  <1>1. CASE UNCHANGED vars
    <2> USE <1>1 DEF vars, RInv
    <2>1. TypeOK'
      BY DEF TypeOK
    <2>2. ListedLasting'
      BY DEF ListedLasting
    <2>3. Writing'
      BY DEF Writing, Holds
    <2>4. LastingRecovered'
      BY DEF LastingRecovered, Holds
    <2> QED BY <2>1, <2>2, <2>3, <2>4, DirRInv
  <1>2. ASSUME NEW a \in todo, WriteFile(a) PROVE RInv'
    BY <1>2, WriteOtherRInv, WriteKubeConfigRInv
  <1> QED BY <1>1, <1>2, StartRInv, ListRInv, PrepareRInv, WriteFailsRInv, ChangeStoreRInv DEF Next

----------------------------------------------------------------------------
(***************************************************************************)
(* The theorems                                                            *)
(***************************************************************************)
\* The inductive invariant.
THEOREM RecoverInvariant == Spec => []RInv
  BY InitRInv, StepRInv, PTL DEF Spec

\* Lists and files are of their kinds, at every point of every run.
THEOREM RecoverTypeCorrect == Spec => []TypeOK
  <1>1. RInv => TypeOK BY DEF RInv
  <1> QED BY <1>1, RecoverInvariant, PTL

\* A directory with a kubeconfig is complete.
THEOREM KubeConfigIsLast == Spec => []KubeConfigCompletes
  <1>1. RInv => KubeConfigCompletes BY DEF RInv
  <1> QED BY <1>1, RecoverInvariant, PTL

\* A run that succeeds has recovered the control plane that was there throughout.
THEOREM LastingIsRecovered == Spec => []LastingRecovered
  <1>1. RInv => LastingRecovered BY DEF RInv
  <1> QED BY <1>1, RecoverInvariant, PTL

\* A directory never mixes two runs.
THEOREM RunsDoNotMix == Spec => []OneRun
  <1>1. RInv => OneRun BY DEF RInv
  <1> QED BY <1>1, RecoverInvariant, PTL
============================================================================
