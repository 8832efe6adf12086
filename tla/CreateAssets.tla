---------------------------- MODULE CreateAssets ----------------------------
(***************************************************************************)
(* Creating the self-hosted assets (pkg/bootkube/create.go): CreateAssets  *)
(* waits for the api server, then createManifests creates the namespaces,  *)
(* the custom resource definitions, waits until the api server serves      *)
(* them, and creates everything else, one POST per manifest, looking up    *)
(* the resource of each kind through a cached discovery client.            *)
(*                                                                         *)
(* The api server is external.  It may refuse or lose any request, may     *)
(* already hold objects (of an earlier run of the command), and serves a   *)
(* custom resource, and names it in discovery, some time after its         *)
(* definition is created, either one first.                                *)
(***************************************************************************)
EXTENDS Integers

CONSTANTS
  Manifests,    \* what loadManifests found; empty documents are left out
  Namespaces,   \* the manifests of kind v1 Namespace
  Crds,         \* the manifests of kind CustomResourceDefinition
  NamespaceOf,  \* maps a manifest to the one in Namespaces it needs, if any
  DefinedBy,    \* maps a custom resource to its definition in Crds
  Group,        \* maps a definition to its groupVersion
  File          \* maps a manifest to the rank of its filepath

Others == Manifests \ (Namespaces \cup Crds)
CustomResources == DOMAIN DefinedBy

ASSUME ClassesAssumption ==
  /\ Namespaces \subseteq Manifests /\ Crds \subseteq Manifests
  /\ Namespaces \cap Crds = {}
  /\ CustomResources \subseteq Others
  /\ \A m \in CustomResources : DefinedBy[m] \in Crds
  /\ DOMAIN NamespaceOf \subseteq Others
  /\ \A m \in DOMAIN NamespaceOf : NamespaceOf[m] \in Namespaces
  /\ DOMAIN Group = Crds
ASSUME FileAssumption == File \in [Manifests -> Nat]

VARIABLES
  strict,     \* creater.strict: the flag --strict
  lossy,      \* whether requests may fail for no reason of their own
  pc,         \* where CreateAssets is: see Places
  todo,       \* the manifests the current loop has yet to do
  ok,         \* createManifests' result so far
  result,     \* what CreateAssets returned: "none" yet, "nil" or "error"
  cache,      \* resourceMapper.cache: the definitions it knows from discovery
  objects,    \* api server: the manifests it holds
  served,     \* api server: the definitions whose resources it serves
  discovered, \* api server: the definitions whose kinds discovery reports
  attempts,   \* history: how often a manifest was sent, or given up
  givenUp     \* history: the manifests that failed, definitions when waited for

history == <<attempts, givenUp>>
client == <<pc, todo, ok, result, cache, history>>
server == <<objects, served, discovered>>
flags == <<strict, lossy>>
vars == <<flags, client, server>>

Places == {"waitAPI", "namespaces", "crds", "waitCRDs", "others", "returned"}

\* The api server can take the object: its namespace exists, its kind is served.
Prerequisites(m) ==
  /\ m \in DOMAIN NamespaceOf => NamespaceOf[m] \in objects
  /\ m \in CustomResources => DefinedBy[m] \in served

\* The server may hold anything that can have been created before.
Init ==
  /\ strict \in BOOLEAN /\ lossy \in BOOLEAN
  /\ pc = "waitAPI"
  /\ todo = {}
  /\ ok = TRUE
  /\ result = "none"
  /\ cache = {}
  /\ objects \in SUBSET Manifests
  /\ served \in SUBSET (Crds \cap objects)
  /\ discovered \in SUBSET (Crds \cap objects)
  /\ \A m \in objects : Prerequisites(m)
  /\ givenUp = {}
  /\ attempts = [m \in Manifests |-> 0]

----------------------------------------------------------------------------
\* The api server comes up within the timeout of wait.Poll.
APIReady ==
  /\ pc = "waitAPI"
  /\ pc' = "namespaces" /\ todo' = Namespaces
  /\ UNCHANGED <<ok, result, cache, history, server>>

\* Or it does not, or the manifests cannot be loaded.  (A manifest directory
\* that does not exist has no manifests, and returns nil without waiting.)
APINotReady ==
  /\ pc = "waitAPI"
  /\ pc' = "returned" /\ result' = "error"
  /\ UNCHANGED <<todo, ok, cache, history, server>>

\* Mutant: strict mode is forgotten.
ReturnLenient(r) ==
  /\ pc' = "returned" /\ result' = "nil" /\ todo' = {}

\* createManifests returns r.  A failure is an error in strict mode only.
Return(r) ==
  /\ pc' = "returned"
  /\ result' = IF ~r /\ strict THEN "error" ELSE "nil"
  /\ todo' = {}

\* sort.Slice orders by filepath, and documents of one file arbitrarily.
First(m) == m \in todo /\ \A n \in todo : File[m] <= File[n]

\* resourceInfo: the kind is in the cache, or discovery is asked again and
\* its answer for the groupVersion replaces the cached one.  Built-in kinds
\* are always found.
Known(m) == m \notin CustomResources \/ DefinedBy[m] \in cache
SameGroup(m) == {c \in Crds : Group[c] = Group[DefinedBy[m]]}

\* Mutant: a cached groupVersion is never asked for again.
DiscoverableCached(m) ==
  m \in CustomResources =>
    DefinedBy[m] \in IF SameGroup(m) \cap cache = {} THEN discovered ELSE cache

Discoverable(m) == m \in CustomResources => DefinedBy[m] \in cache \cup discovered
CacheAfter(m) == IF Known(m) THEN cache
                 ELSE (cache \ SameGroup(m)) \cup (discovered \cap SameGroup(m))

Creating == pc \in {"namespaces", "crds", "others"}

Attempted(m) == attempts' = [attempts EXCEPT ![m] = @ + 1]

\* create succeeds: discovery knows the kind and the server takes the object.
Create(m) ==
  /\ Creating /\ First(m)
  /\ Discoverable(m) /\ Prerequisites(m) /\ m \notin objects
  /\ objects' = objects \cup {m}
  /\ cache' = CacheAfter(m)
  /\ todo' = todo \ {m}
  /\ Attempted(m)
  /\ UNCHANGED <<pc, ok, result, givenUp, served, discovered>>

\* Mutant: the first error ends the loop in either mode.
GiveUpLoop(m) ==
  /\ ok' = FALSE
  /\ givenUp' = IF pc = "crds" THEN givenUp ELSE givenUp \cup {m}
  /\ IF strict THEN Return(FALSE) ELSE todo' = {} /\ UNCHANGED <<pc, result>>

\* What createManifests does about an error.  (A definition that could not be
\* created is waited for all the same, and not given up yet.)
GiveUp(m) ==
  /\ ok' = FALSE
  /\ givenUp' = IF pc = "crds" THEN givenUp ELSE givenUp \cup {m}
  /\ IF strict THEN Return(FALSE) ELSE todo' = todo \ {m} /\ UNCHANGED <<pc, result>>

\* create fails: discovery does not know the kind, or the server refuses the
\* object, because it exists (AlreadyExists is not told apart) or lacks its
\* namespace.
CreateFails(m) ==
  /\ Creating /\ First(m)
  /\ ~Discoverable(m) \/ ~Prerequisites(m) \/ m \in objects
  /\ cache' = CacheAfter(m)
  /\ GiveUp(m)
  /\ Attempted(m)
  /\ UNCHANGED server

\* Or a request is lost, the one to discovery or the POST, or the answer to
\* the POST, the object being created.
RequestFails(m) ==
  /\ lossy
  /\ Creating /\ First(m)
  /\ \/ UNCHANGED <<cache, objects>>
     \/ Discoverable(m) /\ cache' = CacheAfter(m) /\ UNCHANGED objects
     \/ /\ Discoverable(m) /\ Prerequisites(m)
        /\ cache' = CacheAfter(m) /\ objects' = objects \cup {m}
  /\ GiveUp(m)
  /\ Attempted(m)
  /\ UNCHANGED <<served, discovered>>

\* waitForCRD sees the custom resource listed.
CRDServed(m) ==
  /\ pc = "waitCRDs" /\ First(m)
  /\ m \in served
  /\ todo' = todo \ {m}
  /\ UNCHANGED <<pc, ok, result, cache, history, server>>

\* Mutant: the poll has no timeout.
CRDNotServedForever(m) ==
  /\ pc = "waitCRDs" /\ First(m)
  /\ m \notin served
  /\ UNCHANGED <<client, server>>

\* It times out, gets an error other than 404, or finds no served version.
CRDNotServed(m) ==
  /\ pc = "waitCRDs" /\ First(m)
  /\ m \notin served \/ lossy
  /\ GiveUp(m)
  /\ UNCHANGED <<cache, attempts, server>>

\* Mutant: the custom resources are created without waiting.
NextLoopNoWait ==
  /\ Creating \/ pc = "waitCRDs"
  /\ todo = {}
  /\ \/ pc = "namespaces" /\ pc' = "crds" /\ todo' = Crds /\ UNCHANGED result
     \/ pc = "crds" /\ pc' = "others" /\ todo' = Others /\ UNCHANGED result
     \/ pc = "others" /\ Return(ok)
  /\ UNCHANGED <<ok, cache, history, server>>

\* The current loop is done.
NextLoop ==
  /\ Creating \/ pc = "waitCRDs"
  /\ todo = {}
  /\ \/ pc = "namespaces" /\ pc' = "crds" /\ todo' = Crds /\ UNCHANGED result
     \/ pc = "crds" /\ pc' = "waitCRDs" /\ todo' = Crds /\ UNCHANGED result
     \/ pc = "waitCRDs" /\ pc' = "others" /\ todo' = Others /\ UNCHANGED result
     \/ pc = "others" /\ Return(ok)
  /\ UNCHANGED <<ok, cache, history, server>>

\* api server: a definition it holds becomes effective.
Serve(m) ==
  /\ m \in (Crds \cap objects) \ served
  /\ served' = served \cup {m}
  /\ UNCHANGED <<flags, client, objects, discovered>>

\* api server: discovery reports its kind.
Discover(m) ==
  /\ m \in (Crds \cap objects) \ discovered
  /\ discovered' = discovered \cup {m}
  /\ UNCHANGED <<flags, client, objects, served>>

Step ==
  /\ \/ APIReady \/ APINotReady \/ NextLoop
     \/ \E m \in Manifests : \/ Create(m) \/ CreateFails(m) \/ RequestFails(m)
                             \/ CRDServed(m) \/ CRDNotServed(m)
  /\ UNCHANGED flags

Returned == pc = "returned" /\ UNCHANGED vars

Next == Step \/ (\E m \in Crds : Serve(m) \/ Discover(m)) \/ Returned

Spec == Init /\ [][Next]_vars

\* Every poll has a timeout, and a request is assumed to be answered or to
\* fail in the end, so the command always takes its next step.
FairSpec == Spec /\ WF_vars(Step)
----------------------------------------------------------------------------
\* The types of the variables; no manifest is sent twice.
TypeOK ==
  /\ strict \in BOOLEAN /\ lossy \in BOOLEAN
  /\ pc \in Places
  /\ todo \subseteq Manifests
  /\ ok \in BOOLEAN
  /\ result \in {"none", "nil", "error"}
  /\ cache \subseteq Crds
  /\ objects \subseteq Manifests
  /\ served \subseteq Crds
  /\ discovered \subseteq Crds
  /\ givenUp \subseteq Manifests
  /\ attempts \in [Manifests -> 0..1]

\* If createManifests reports success, and always if CreateAssets returns nil
\* in strict mode, the api server holds every manifest and serves every custom
\* resource, whatever was lost on the way.
NilMeansCreated ==
  result = "nil" /\ (strict \/ ok) => Manifests \subseteq objects /\ Crds \subseteq served

\* What a manifest needs: its namespace and its definition.
Needs(m) == {n \in Manifests : \/ m \in DOMAIN NamespaceOf /\ n = NamespaceOf[m]
                               \/ m \in CustomResources /\ n = DefinedBy[m]}

\* No manifest is sent to the api server before its namespace exists and its
\* definition is served, however slow the server, in either mode, unless one of
\* these two was given up itself: other failures do not matter, not even that
\* of the definition's own creation.
PrerequisitesFirst ==
  [][\A m \in Manifests :
       attempts'[m] # attempts[m] /\ Needs(m) \cap givenUp = {} => Prerequisites(m)]_vars

\* Strict mode sends nothing after the first failure; otherwise every manifest
\* is sent exactly once, whatever happened to the ones before it.
StrictOrAll ==
  /\ strict /\ ~ok => pc = "returned" /\ result = "error"
  /\ result = "nil" => \A m \in Manifests : attempts[m] = 1

\* A manifest fails only for a reason the api server has at that moment: the
\* discovery cache, filled when fewer definitions were reported, is none.
FailureHasReason ==
  [][~lossy /\ Creating => \A m \in Manifests :
       /\ attempts'[m] # attempts[m] /\ m \notin objects /\ Prerequisites(m)
       /\ m \in CustomResources => DefinedBy[m] \in discovered
       => m \in objects']_vars

\* The command always comes to an end.
Terminates == <>(pc = "returned")
=============================================================================
