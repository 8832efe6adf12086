----------------------- MODULE StatusControllerProofs -----------------------
(***************************************************************************)
(* Proof that `bootkube start` gives up its bootstrap control plane only   *)
(* for one that was seen running, for any pods, any required ones and any  *)
(* history of the cluster.                                                 *)
(*                                                                         *)
(* PodStatus may look several required pods up under one key, overwriting  *)
(* what an earlier lookup found, and the pod of a key may be gone or       *)
(* different at each lookup.  The invariant therefore speaks of the map:   *)
(* every required pod done has an entry (LookedUp), and an entry "Running" *)
(* was true when it was made (EntriesTrue).                                *)
(***************************************************************************)
EXTENDS StatusController, TLAPS

SeenRunning(k) == \E rev \in 1..Len(history) : rev >= pollRev /\ Running(k, rev)

\* An entry of the map never says more than the cluster did since the poll began.
EntriesTrue ==
  /\ \A k \in Pods : status[k] = "Running" => SeenRunning(k)
  /\ \A w \in Watched : status[w] \in {NoEntry, doesNotExist}

\* A required pod that is done has an entry, under its name or a matching one.
LookedUp ==
  pc # "sleep" /\ outcome # "error" =>
    \A w \in Watched \ todo : \/ status[w] # NoEntry
                              \/ \E k \in Matches[w] : status[k] # NoEntry

\* What the nodes are looked at for, and what a nil return stands on.
PodsUp == pc = "nodes" \/ outcome = "nil" => todo = {} /\ AllPodsRunning

Inv == /\ TypeOK
       /\ EntriesTrue
       /\ LookedUp
       /\ PodsUp
       /\ outcome # "none" <=> pc = "returned"

USE MatchesAssumption, WatchedAssumption, MaxChangesAssumption

\* The stores hold what the cluster was at their revision.
LEMMA StoreTypes ==
  ASSUME TypeOK
  PROVE  /\ podStore \in [Pods -> PodPhases]
         /\ \A k \in Pods : podStore[k] = "Running" => podRev \in 1..Len(history) /\ Running(k, podRev)
  <1>1. CASE podRev = 0
    BY <1>1 DEF podStore, PodPhases
  <1>2. CASE podRev # 0
    <2>1. podRev \in 1..Len(history) /\ history[podRev] \in Clusters
      BY <1>2 DEF TypeOK
    <2> QED BY <1>2, <2>1 DEF podStore, Clusters, Running
  <1> QED BY <1>1, <1>2

LEMMA InitInv == Init => Inv
  <1> SUFFICES ASSUME Init PROVE Inv OBVIOUS
  <1>1. PICK ns \in [Nodes -> {"absent", "NotReady", "Ready"}] :
          history = << [pods |-> [p \in Pods |-> "absent"], nodes |-> ns] >>
    BY DEF Init
  <1> DEFINE c == [pods |-> [p \in Pods |-> "absent"], nodes |-> ns]
  <1>2. c \in Clusters /\ history = << c >>
    BY <1>1 DEF Clusters, PodPhases, NodePhases
  <1> HIDE DEF c
  <1>3. history \in Seq(Clusters) /\ Len(history) = 1
    <2>1. << c >> \in Seq(Clusters) /\ Len(<< c >>) = 1
      BY <1>2
    <2> QED BY <1>2, <2>1
  <1>4. TypeOK
    <2>1. status \in [Watched \cup Pods -> {"Pending", "Running", NoEntry, doesNotExist}]
      BY DEF Init
    <2>2. /\ pc = "sleep" /\ podRev = 0 /\ nodeRev = 0 /\ pollRev = 0 /\ names = {}
          /\ todo = {} /\ outcome = "none"
      BY DEF Init
    <2> QED BY <1>3, <2>1, <2>2 DEF TypeOK
  <1> QED BY <1>4 DEF Init, Inv, EntriesTrue, LookedUp, PodsUp, NoEntry, doesNotExist

\* The cluster only ever adds to its history.
LEMMA ChangeInv ==
  ASSUME Inv, Change
  PROVE  Inv'
  <1> DEFINE now == history[Len(history)]
  <1>1. now \in Clusters /\ Len(history) \in Nat
    BY DEF Inv, TypeOK
  <1>2. PICK c \in Clusters : history' = Append(history, c)
    <2>1. ASSUME NEW p \in Pods, NEW ph \in PodPhases
          PROVE  [now EXCEPT !.pods[p] = ph] \in Clusters
      BY <1>1 DEF Clusters
    <2>2. ASSUME NEW n \in Nodes, NEW ph \in NodePhases
          PROVE  [now EXCEPT !.nodes[n] = ph] \in Clusters
      BY <1>1 DEF Clusters
    <2> QED BY <2>1, <2>2 DEF Change
  <1>3. /\ history' \in Seq(Clusters) /\ Len(history') = Len(history) + 1
        /\ \A i \in 1..Len(history) : history'[i] = history[i]
        /\ Len(history) <= MaxChanges
    BY <1>2 DEF Inv, TypeOK, Change
  <1>4. UNCHANGED <<pc, podRev, nodeRev, names, todo, status, pollRev, outcome>>
    BY DEF Change, poll
  <1>5. TypeOK'
    BY <1>3, <1>4 DEF Inv, TypeOK
  <1>6. \A k \in Pods : SeenRunning(k) => SeenRunning(k)'
    BY <1>1, <1>3, <1>4 DEF SeenRunning, Running
  <1> QED BY <1>4, <1>5, <1>6 DEF Inv, EntriesTrue, LookedUp, PodsUp, AllPodsRunning

\* One lookup makes one true entry.
LEMMA PodStatusInv ==
  ASSUME Inv, NEW w \in Watched, PodStatus(w)
  PROVE  Inv'
  <1>1. PICK k \in Keys(w) : status' = [status EXCEPT ![k] = PhaseOf(k)]
    BY DEF PodStatus
  <1>2. /\ UNCHANGED <<pc, history, podRev, nodeRev, names, outcome, pollRev>>
        /\ todo' = todo \ {w} /\ pc = "pods" /\ outcome = "none"
    BY DEF PodStatus, Inv, TypeOK
  <1>3. k \in Watched \cup Pods /\ (k = w \/ k \in Matches[w])
    BY DEF Keys
  <1>4. /\ PhaseOf(k) \in {"Pending", "Running", doesNotExist}
        /\ k \in Watched => PhaseOf(k) = doesNotExist
        /\ k \in Pods /\ PhaseOf(k) = "Running" => SeenRunning(k)
    BY <1>3, StoreTypes DEF PhaseOf, PodPhases, doesNotExist, SeenRunning, Inv, TypeOK
  <1>5. status \in [Watched \cup Pods -> {"Pending", "Running", NoEntry, doesNotExist}]
    BY DEF Inv, TypeOK
  <1>6. TypeOK'
    BY <1>1, <1>2, <1>3, <1>4, <1>5 DEF Inv, TypeOK
  <1>7. EntriesTrue'
    BY <1>1, <1>2, <1>3, <1>4, <1>5 DEF Inv, EntriesTrue, SeenRunning, Running
  <1>8. LookedUp'
    BY <1>1, <1>2, <1>3, <1>4, <1>5 DEF Inv, LookedUp, NoEntry, doesNotExist
  <1> QED BY <1>2, <1>6, <1>7, <1>8 DEF Inv, PodsUp

LEMMA StepInv ==
  ASSUME Inv, [Next]_vars
  PROVE  Inv'
  <1> USE DEF poll
  <1>1. CASE Poll
    <2>1. status' \in [Watched \cup Pods -> {"Pending", "Running", NoEntry, doesNotExist}]
      BY <1>1 DEF Poll
    <2>2. names' \subseteq Pods /\ todo' \subseteq Watched
      BY <1>1 DEF Poll
    <2>3. /\ podRev \in 0..podRev /\ pollRev' = podRev /\ pc' = "pods"
          /\ UNCHANGED <<history, podRev, nodeRev, outcome>>
      BY <1>1 DEF Poll, Inv, TypeOK
    <2>4. TypeOK'
      BY <2>1, <2>2, <2>3 DEF Inv, TypeOK
    <2> QED BY <1>1, <2>4 DEF Poll, Inv, TypeOK, EntriesTrue, LookedUp, PodsUp, NoEntry
  <1>2. ASSUME NEW w \in Watched, PodStatus(w) PROVE Inv'
    BY <1>2, PodStatusInv
  <1>3. CASE PodsDone
    BY <1>3 DEF PodsDone, Inv, TypeOK, EntriesTrue, LookedUp, PodsUp, SeenRunning, Running,
                AllPodsRunning
  <1>4. CASE NodesDone
    BY <1>4 DEF NodesDone, Inv, TypeOK, EntriesTrue, LookedUp, PodsUp, SeenRunning, Running,
                AllPodsRunning
  <1>5. CASE TimeOut
    BY <1>5 DEF TimeOut, Inv, TypeOK, EntriesTrue, LookedUp, PodsUp, SeenRunning, Running
  <1>6. CASE Change
    BY <1>6, ChangeInv
  <1>7. CASE PodInformer \/ NodeInformer
    BY <1>7 DEF PodInformer, NodeInformer, Inv, TypeOK, EntriesTrue, LookedUp, PodsUp, SeenRunning,
                Running, AllPodsRunning
  <1>8. CASE UNCHANGED vars
    BY <1>8 DEF vars, Inv, TypeOK, EntriesTrue, LookedUp, PodsUp, SeenRunning, Running,
                AllPodsRunning
  <1> QED BY <1>1, <1>2, <1>3, <1>4, <1>5, <1>6, <1>7, <1>8 DEF Next, Polling, Returned

\* The inductive invariant.
THEOREM StatusInvariant == Spec => []Inv
  BY InitInv, StepInv, PTL DEF Spec

\* WaitUntilPodsRunning returns nil only after every required pod was seen
\* running since the last poll began.
THEOREM PivotIsJustified == Spec => []PivotJustified
  <1>1. Inv => PivotJustified
    <2> SUFFICES ASSUME Inv, outcome = "nil", NEW w \in Watched
                 PROVE  \E p \in Matches[w], rev \in 1..Len(history) :
                          rev >= pollRev /\ Running(p, rev)
      BY DEF PivotJustified
    <2>1. todo = {} /\ AllPodsRunning /\ pc = "returned"
      BY DEF Inv, PodsUp
    <2>2. status[w] = NoEntry
      BY <2>1 DEF Inv, TypeOK, EntriesTrue, AllPodsRunning, NoEntry, doesNotExist
    <2>3. PICK k \in Matches[w] : status[k] # NoEntry
      BY <2>1, <2>2 DEF Inv, LookedUp
    <2>4. k \in Pods /\ status[k] = "Running"
      BY <2>1, <2>3 DEF Inv, TypeOK, AllPodsRunning
    <2> QED BY <2>4 DEF Inv, EntriesTrue, SeenRunning
  <1> QED BY <1>1, StatusInvariant, PTL

\* The types of the variables: the stores never run ahead of the cluster.
THEOREM StatusTypeCorrect == Spec => []TypeOK
  <1>1. Inv => TypeOK
    BY DEF Inv
  <1> QED BY <1>1, StatusInvariant, PTL
=============================================================================
