------------------------- MODULE CreateAssetsProofs -------------------------
(***************************************************************************)
(* Proofs about the creation of the self-hosted assets, for any manifests, *)
(* any order of their files, an api server that holds anything beforehand, *)
(* and any requests lost, in strict mode and not.                          *)
(*                                                                         *)
(* The invariant says how far the three loops have come (Progress), and    *)
(* what that means for the api server, but for what was given up (SoFar).  *)
(***************************************************************************)
EXTENDS CreateAssets, TLAPS

\* The manifests createManifests has sent or given up.
Sent ==
  CASE pc = "waitAPI" -> {}
    [] pc = "namespaces" -> Namespaces \ todo
    [] pc = "crds" -> Namespaces \cup (Crds \ todo)
    [] pc = "waitCRDs" -> Namespaces \cup Crds
    [] OTHER -> Manifests \ todo

\* Every loop works on manifests of its own kind, each of them once; a run
\* that ends early ends in an error.
Progress ==
  /\ pc = "namespaces" => todo \subseteq Namespaces
  /\ pc \in {"crds", "waitCRDs"} => todo \subseteq Crds
  /\ pc = "others" => todo \subseteq Others
  /\ pc \in {"waitAPI", "returned"} => todo = {}
  /\ result # "error" => \A m \in Manifests : attempts[m] = IF m \in Sent THEN 1 ELSE 0
  /\ result = "none" <=> pc # "returned"
  /\ strict /\ ~ok => result = "error"

\* While nothing has failed, what was sent exists.  The namespaces that were
\* not given up exist anyway, and the definitions that were waited for and not
\* given up are served.
SoFar ==
  result # "error" =>
    /\ ok => Sent \subseteq objects /\ givenUp = {}
    /\ (Namespaces \cap Sent) \ givenUp \subseteq objects
    /\ pc = "waitCRDs" => Crds \ (todo \cup givenUp) \subseteq served
    /\ pc \in {"others", "returned"} => Crds \ givenUp \subseteq served

Inv == TypeOK /\ Progress /\ SoFar

USE ClassesAssumption, FileAssumption DEF CustomResources

LEMMA InitInv == Init => Inv
  <1> SUFFICES ASSUME Init PROVE Inv OBVIOUS
  <1>1. strict \in BOOLEAN /\ lossy \in BOOLEAN /\ ok \in BOOLEAN
    BY Zenon DEF Init
  <1>2. TypeOK
    BY <1>1 DEF Init, TypeOK, Places
  <1> QED BY <1>2 DEF Init, Inv, Progress, SoFar, Sent

\* The manifest in hand is of the loop's kind and is sent for the first time.
LEMMA InHand ==
  ASSUME Inv, Creating, NEW m \in Manifests, First(m)
  PROVE  /\ m \in todo /\ m \notin Sent /\ result = "none" /\ attempts[m] = 0
         /\ pc = "namespaces" => m \in Namespaces
         /\ pc = "crds" => m \in Crds
         /\ pc = "others" => m \in Others
  BY DEF Inv, Progress, Creating, First, Sent, Others

\* What the discovery cache holds is always a set of definitions.
LEMMA CacheType ==
  ASSUME TypeOK, NEW m \in Manifests
  PROVE  CacheAfter(m) \subseteq Crds
  BY DEF TypeOK, CacheAfter

\* Every request but the successful one ends in GiveUp.
LEMMA GiveUpInv ==
  ASSUME Inv, NEW m \in Manifests, First(m), GiveUp(m),
         UNCHANGED <<served, discovered, strict, lossy>>,
         objects \subseteq objects', objects' \subseteq Manifests, cache' \subseteq Crds,
         \/ Creating /\ Attempted(m)
         \/ pc = "waitCRDs" /\ UNCHANGED attempts
  PROVE  Inv'
  <1>1. /\ m \in todo /\ result = "none" /\ ok' = FALSE
        /\ attempts' \in [Manifests -> 0..1] /\ givenUp' \subseteq Manifests
        /\ givenUp \subseteq givenUp' /\ (pc # "crds" => m \in givenUp')
    <2>1. CASE Creating
      BY <2>1, InHand DEF GiveUp, Inv, TypeOK, Attempted, Creating
    <2>2. CASE ~Creating
      BY <2>2 DEF GiveUp, Inv, TypeOK, First, Progress
    <2> QED BY <2>1, <2>2
  <1>2. ok' \in BOOLEAN /\ strict' \in BOOLEAN /\ lossy' \in BOOLEAN
    BY <1>1, Zenon DEF Inv, TypeOK
  <1>3. CASE strict
    <2>1. pc' = "returned" /\ result' = "error" /\ todo' = {}
      BY <1>3 DEF GiveUp, Return
    <2> QED BY <1>1, <1>2, <1>3, <2>1 DEF Inv, TypeOK, Progress, SoFar, Places
  <1>4. CASE ~strict
    <2>1. pc' = pc /\ result' = result /\ todo' = todo \ {m}
      BY <1>4 DEF GiveUp
    <2>2. TypeOK'
      BY <1>1, <1>2, <2>1 DEF Inv, TypeOK
    <2>3. \A n \in Manifests : attempts'[n] = IF n \in Sent' THEN 1 ELSE 0
      <3>1. CASE Creating
        BY <1>1, <2>1, <3>1, InHand DEF Creating, Attempted, Inv, TypeOK, Progress, Sent, Others
      <3>2. CASE pc = "waitCRDs" /\ UNCHANGED attempts
        BY <1>1, <2>1, <3>2 DEF Inv, Progress, Sent
      <3> QED BY <3>1, <3>2
    <2>4. Namespaces \cap Sent' \subseteq (Namespaces \cap Sent) \cup givenUp'
      BY <1>1, <2>1 DEF Inv, Progress, Sent, First, Creating
    <2>5. SoFar'
      BY <1>1, <2>1, <2>4 DEF Inv, SoFar, Progress
    <2> QED BY <1>1, <1>4, <2>1, <2>2, <2>3, <2>5 DEF Inv, Progress
  <1> QED BY <1>3, <1>4

LEMMA CreateInv ==
  ASSUME Inv, NEW m \in Manifests, Create(m), UNCHANGED flags
  PROVE  Inv'
  <1>1. /\ pc' = pc /\ ok' = ok /\ result' = result /\ served' = served
        /\ discovered' = discovered /\ givenUp' = givenUp
        /\ strict' = strict /\ lossy' = lossy
        /\ objects' = objects \cup {m} /\ todo' = todo \ {m} /\ Creating
        /\ attempts' = [attempts EXCEPT ![m] = @ + 1] /\ cache' \subseteq Crds
    BY CacheType DEF Create, Attempted, flags, Inv
  <1>2. /\ m \in todo /\ m \notin Sent /\ result = "none" /\ attempts[m] = 0
        /\ pc = "namespaces" => m \in Namespaces
        /\ pc = "crds" => m \in Crds
        /\ pc = "others" => m \in Others
    BY InHand DEF Create
  <1>3. TypeOK'
    BY <1>1, <1>2 DEF Inv, TypeOK
  <1>4. Sent' = Sent \cup {m}
    BY <1>1, <1>2 DEF Sent, Creating, Others
  <1> QED BY <1>1, <1>2, <1>3, <1>4 DEF Inv, TypeOK, Progress, SoFar, Creating

LEMMA StepInv ==
  ASSUME Inv, [Next]_vars
  PROVE  Inv'
  <1> USE DEF server, client, history, flags
  <1>1. CASE APIReady /\ UNCHANGED flags
    BY <1>1 DEF APIReady, Inv, TypeOK, Progress, SoFar, Sent, Places
  <1>2. CASE APINotReady /\ UNCHANGED flags
    BY <1>2 DEF APINotReady, Inv, TypeOK, Progress, SoFar, Sent, Places
  <1>3. CASE NextLoop /\ UNCHANGED flags
    <2>1. CASE pc # "others"
      BY <1>3, <2>1 DEF NextLoop, Creating, Inv, TypeOK, Progress, SoFar, Sent, Places, Others
    <2>2. CASE pc = "others"
      <3>1. /\ pc' = "returned" /\ todo = {} /\ todo' = {}
            /\ result' = IF ~ok /\ strict THEN "error" ELSE "nil"
            /\ UNCHANGED <<ok, cache, history, server, strict, lossy>>
        BY <1>3, <2>2 DEF NextLoop, Return
      <3> QED BY <2>2, <3>1 DEF Inv, TypeOK, Progress, SoFar, Sent, Places
    <2> QED BY <2>1, <2>2
  <1>4. ASSUME NEW m \in Manifests, Create(m), UNCHANGED flags PROVE Inv'
    BY <1>4, CreateInv
  <1>5. ASSUME NEW m \in Manifests, CreateFails(m), UNCHANGED flags PROVE Inv'
    <2>1. objects' = objects /\ cache' \subseteq Crds /\ objects \subseteq Manifests
      BY <1>5, CacheType DEF CreateFails, Inv, TypeOK
    <2> QED BY <1>5, <2>1, GiveUpInv DEF CreateFails
  <1>6. ASSUME NEW m \in Manifests, RequestFails(m), UNCHANGED flags PROVE Inv'
    <2>1. /\ objects \subseteq objects' /\ objects' \subseteq Manifests /\ cache' \subseteq Crds
      BY <1>6, CacheType DEF RequestFails, Inv, TypeOK
    <2> QED BY <1>6, <2>1, GiveUpInv DEF RequestFails
  <1>7. ASSUME NEW m \in Manifests, CRDServed(m), UNCHANGED flags PROVE Inv'
    BY <1>7 DEF CRDServed, First, Inv, TypeOK, Progress, SoFar, Sent
  <1>8. ASSUME NEW m \in Manifests, CRDNotServed(m), UNCHANGED flags PROVE Inv'
    <2>1. objects' = objects /\ cache' = cache /\ objects \subseteq Manifests /\ cache \subseteq Crds
      BY <1>8 DEF CRDNotServed, Inv, TypeOK
    <2> QED BY <1>8, <2>1, GiveUpInv DEF CRDNotServed
  <1>9. ASSUME NEW m \in Crds, Serve(m) PROVE Inv'
    BY <1>9 DEF Serve, Inv, TypeOK, Progress, SoFar, Sent
  <1>10. ASSUME NEW m \in Crds, Discover(m) PROVE Inv'
    BY <1>10 DEF Discover, Inv, TypeOK, Progress, SoFar, Sent
  <1>11. CASE UNCHANGED vars
    BY <1>11 DEF vars, Inv, TypeOK, Progress, SoFar, Sent
  <1> QED BY <1>1, <1>2, <1>3, <1>4, <1>5, <1>6, <1>7, <1>8, <1>9, <1>10, <1>11
          DEF Next, Step, Returned

----------------------------------------------------------------------------
(***************************************************************************)
(* The theorems                                                            *)
(***************************************************************************)
\* The inductive invariant.
THEOREM CreateInvariant == Spec => []Inv
  BY InitInv, StepInv, PTL DEF Spec

\* A success createManifests reports is one: everything exists, every custom
\* resource is served.
THEOREM NilIsSuccess == Spec => []NilMeansCreated
  <1>1. Inv => NilMeansCreated
    <2> SUFFICES ASSUME Inv, result = "nil", strict \/ ok
                 PROVE  Manifests \subseteq objects /\ Crds \subseteq served
      BY DEF NilMeansCreated
    <2>1. ok /\ pc = "returned" /\ todo = {}
      BY DEF Inv, Progress
    <2> QED BY <2>1 DEF Inv, SoFar, Sent
  <1> QED BY <1>1, CreateInvariant, PTL

\* Strict mode stops at the first failure, the other mode sends everything.
THEOREM StrictOrEverything == Spec => []StrictOrAll
  <1>1. Inv => StrictOrAll
    BY DEF Inv, Progress, Sent, StrictOrAll
  <1> QED BY <1>1, CreateInvariant, PTL

\* Which manifest a step sends.
LEMMA SentBy ==
  ASSUME Inv, [Next]_vars, NEW m \in Manifests, attempts'[m] # attempts[m]
  PROVE  /\ Create(m) \/ CreateFails(m) \/ RequestFails(m)
         /\ Creating /\ First(m)
  <1>1. \E n \in Manifests : Create(n) \/ CreateFails(n) \/ RequestFails(n)
    BY DEF Next, Step, APIReady, APINotReady, NextLoop, CRDServed, CRDNotServed, Serve, Discover,
           Returned, vars, client, history
  <1>2. PICK n \in Manifests : Create(n) \/ CreateFails(n) \/ RequestFails(n)
    BY <1>1
  <1>3. attempts' = [attempts EXCEPT ![n] = @ + 1] /\ Creating /\ First(n)
    BY <1>2 DEF Create, CreateFails, RequestFails, Attempted
  <1>4. n = m
    BY <1>3 DEF Inv, TypeOK
  <1> QED BY <1>2, <1>3, <1>4

\* A manifest goes to an api server that can take it, unless its namespace or
\* its definition was given up.
THEOREM PrerequisitesComeFirst == Spec => PrerequisitesFirst
  <1>1. ASSUME Inv, [Next]_vars, NEW m \in Manifests, attempts'[m] # attempts[m],
               Needs(m) \cap givenUp = {}
        PROVE  Prerequisites(m)
    <2>1. Creating /\ First(m)
      BY <1>1, SentBy
    <2>2. /\ result = "none" /\ (pc = "namespaces" => m \in Namespaces)
          /\ (pc = "crds" => m \in Crds)
      BY <1>1, <2>1, InHand
    <2>3. CASE pc # "others"
      BY <2>1, <2>2, <2>3 DEF Creating, Prerequisites, Others
    <2>4. CASE pc = "others"
      <3>1. Namespaces \subseteq Sent
        BY <1>1, <2>4 DEF Inv, Progress, Sent, Others
      <3>2. Namespaces \ givenUp \subseteq objects /\ Crds \ givenUp \subseteq served
        BY <1>1, <2>2, <2>4, <3>1 DEF Inv, SoFar
      <3> QED BY <1>1, <3>2 DEF Needs, Prerequisites
    <2> QED BY <2>3, <2>4
  <1>2. Inv /\ [Next]_vars =>
          [\A m \in Manifests :
             attempts'[m] # attempts[m] /\ Needs(m) \cap givenUp = {} => Prerequisites(m)]_vars
    BY <1>1
  <1> QED BY <1>2, CreateInvariant, PTL DEF Spec, PrerequisitesFirst

\* Without lost requests only the api server's own reasons make a manifest fail.
THEOREM FailuresHaveReasons == Spec => FailureHasReason
  <1>1. ASSUME Inv, [Next]_vars, ~lossy, NEW m \in Manifests, attempts'[m] # attempts[m],
               m \notin objects, Prerequisites(m),
               m \in CustomResources => DefinedBy[m] \in discovered
        PROVE  m \in objects'
    <2>1. Create(m) \/ CreateFails(m) \/ RequestFails(m)
      BY <1>1, SentBy
    <2>2. Discoverable(m)
      BY <1>1 DEF Discoverable
    <2> QED BY <1>1, <2>1, <2>2 DEF Create, CreateFails, RequestFails
  <1>2. Inv /\ [Next]_vars =>
          [~lossy /\ Creating => \A m \in Manifests :
             /\ attempts'[m] # attempts[m] /\ m \notin objects /\ Prerequisites(m)
             /\ m \in CustomResources => DefinedBy[m] \in discovered
             => m \in objects']_vars
    BY <1>1
  <1> QED BY <1>2, CreateInvariant, PTL DEF Spec, FailureHasReason

\* The types of the variables; no manifest is ever sent twice.
THEOREM CreateTypeCorrect == Spec => []TypeOK
  <1>1. Inv => TypeOK
    BY DEF Inv
  <1> QED BY <1>1, CreateInvariant, PTL

----------------------------------------------------------------------------
\* The order of the places in CreateAssets.
Stage == [waitAPI |-> 0, namespaces |-> 1, crds |-> 2, waitCRDs |-> 3, others |-> 4, returned |-> 5]

\* A later loop is begun, or a manifest of this one is done.
Advances ==
  \/ Stage[pc'] > Stage[pc]
  \/ pc' = pc /\ todo' \subseteq todo /\ todo' # todo

\* What Terminates rests on: with finitely many manifests createManifests
\* comes to an end, for a manifest that fails, is lost or is never served is
\* given up and not tried again, and no loop is begun twice.
THEOREM CreateAdvances == Spec => [][Step => Advances]_vars
  <1>1. ASSUME Inv, Step PROVE Advances
    <2> USE DEF Stage
    <2>1. ASSUME APIReady \/ APINotReady \/ NextLoop PROVE Advances
      BY <2>1 DEF APIReady, APINotReady, NextLoop, Return, Creating, Advances
    <2>2. ASSUME NEW m \in Manifests, Create(m) \/ CRDServed(m) PROVE Advances
      BY <2>2 DEF Create, CRDServed, First, Advances
    <2>3. ASSUME NEW m \in Manifests, CreateFails(m) \/ RequestFails(m) \/ CRDNotServed(m)
          PROVE  Advances
      <3>1. m \in todo /\ GiveUp(m) /\ (Creating \/ pc = "waitCRDs")
        BY <2>3 DEF CreateFails, RequestFails, CRDNotServed, First
      <3> QED BY <3>1 DEF GiveUp, Return, Creating, Advances
    <2> QED BY <1>1, <2>1, <2>2, <2>3 DEF Step
  <1>2. Inv /\ [Next]_vars => [Step => Advances]_vars
    BY <1>1
  <1> QED BY <1>2, CreateInvariant, PTL DEF Spec
=============================================================================
