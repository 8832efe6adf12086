-------------------------- MODULE StatusController --------------------------
(***************************************************************************)
(* WaitUntilPodsRunning (pkg/bootkube/status.go): two informers keep local *)
(* copies of the cluster's pods and nodes, and AllRunning is polled until  *)
(* the copies show every required pod running and every node ready; then   *)
(* `bootkube start` tears the bootstrap control plane down.                *)
(*                                                                         *)
(* The cluster is external.  It is the sequence of states it has been in;  *)
(* the store of an informer is one of those states, an earlier one perhaps, *)
(* or empty before its first List.  The informers go on while AllRunning   *)
(* reads their stores, pod by pod.                                         *)
(***************************************************************************)
EXTENDS Integers, Sequences

CONSTANTS
  Watched,     \* s.watchPods: the required pods, names without their suffix
  Pods,        \* the pods of the cluster
  Matches,     \* the Pods whose name a required one is a prefix of
  Nodes,       \* the nodes of the cluster
  MaxChanges   \* bound: how often the cluster changes

ASSUME MatchesAssumption == Matches \in [Watched -> SUBSET Pods]
ASSUME WatchedAssumption == Watched \cap Pods = {}
ASSUME MaxChangesAssumption == MaxChanges \in Nat

VARIABLES
  pc,        \* "sleep", "pods", "nodes" or "returned"
  history,   \* the states of the cluster so far, the current one last
  podRev,    \* the one s.podStore holds; 0: it is empty
  nodeRev,   \* the one s.nodeStore holds; 0: it is empty
  names,     \* PodStatus: podNames
  todo,      \* PodStatus: the required pods yet to be looked up
  status,    \* PodStatus: the map it returns; "" is no entry
  outcome,   \* what WaitUntilPodsRunning returned: "none" yet, "nil" or "error"
  pollRev    \* history: podRev when this poll began

poll == <<names, todo, status, pollRev>>
vars == <<pc, history, podRev, nodeRev, poll, outcome>>

\* A pod does not exist, is running, or is in any other phase.
PodPhases == {"absent", "Pending", "Running"}
\* A node does not exist, has no NodeReady condition yet, or has one.
NodePhases == {"absent", "noCondition", "NotReady", "Ready"}
Clusters == [pods : [Pods -> PodPhases], nodes : [Nodes -> NodePhases]]
NoEntry == ""
doesNotExist == "DoesNotExist"

\* The content of the two stores.
podStore == IF podRev = 0 THEN [p \in Pods |-> "absent"] ELSE history[podRev].pods
nodeStore == IF nodeRev = 0 THEN [n \in Nodes |-> "absent"] ELSE history[nodeRev].nodes

\* The assets are just created: no pod of the self-hosted control plane runs,
\* and the node the command runs on has registered itself or not.
Init ==
  /\ pc = "sleep"
  /\ \E ns \in [Nodes -> {"absent", "NotReady", "Ready"}] :
       history = << [pods |-> [p \in Pods |-> "absent"], nodes |-> ns] >>
  /\ podRev = 0 /\ nodeRev = 0
  /\ names = {} /\ todo = {}
  /\ status = [k \in Watched \cup Pods |-> NoEntry]
  /\ outcome = "none"
  /\ pollRev = 0

----------------------------------------------------------------------------
(***************************************************************************)
(* The cluster and the informers                                           *)
(***************************************************************************)
\* A pod or a node comes, changes or goes.
Change ==
  /\ Len(history) <= MaxChanges
  /\ LET now == history[Len(history)]
     IN \/ \E p \in Pods, ph \in PodPhases :
             /\ ph # now.pods[p]
             /\ history' = Append(history, [now EXCEPT !.pods[p] = ph])
        \/ \E n \in Nodes, ph \in NodePhases :
             /\ ph # now.nodes[n]
             /\ history' = Append(history, [now EXCEPT !.nodes[n] = ph])
  /\ UNCHANGED <<pc, podRev, nodeRev, poll, outcome>>

\* The List or Watch of an informer delivers something newer.
PodInformer ==
  /\ pc # "returned"
  /\ podRev' \in (podRev + 1)..Len(history)
  /\ UNCHANGED <<pc, history, nodeRev, poll, outcome>>

NodeInformer ==
  /\ pc # "returned"
  /\ nodeRev' \in (nodeRev + 1)..Len(history)
  /\ UNCHANGED <<pc, history, podRev, poll, outcome>>

----------------------------------------------------------------------------
(***************************************************************************)
(* wait.Poll and AllRunning                                                *)
(***************************************************************************)
\* The next poll: PodStatus makes its map and lists the keys of the store.
Poll ==
  /\ pc = "sleep"
  /\ pc' = "pods"
  /\ names' = {p \in Pods : podStore[p] # "absent"}
  /\ todo' = Watched
  /\ status' = [k \in Watched \cup Pods |-> NoEntry]
  /\ pollRev' = podRev
  /\ UNCHANGED <<history, podRev, nodeRev, outcome>>

\* Mutant: the names are compared as they are.
KeysExact(w) == {w}

\* The key a required pod is looked up by: any listed one it is a prefix of
\* (ListKeys has no order), or its own name.
Keys(w) == IF Matches[w] \cap names = {} THEN {w} ELSE Matches[w] \cap names

\* Mutant: a required pod that does not exist is passed over.
PhaseOfExisting(k) ==
  IF k \in Watched \/ podStore[k] = "absent" THEN NoEntry ELSE podStore[k]

\* A listed pod can be gone again when it is looked up.
PhaseOf(k) ==
  IF k \in Watched \/ podStore[k] = "absent" THEN doesNotExist ELSE podStore[k]

\* GetByKey of one required pod.
PodStatus(w) ==
  /\ pc = "pods" /\ w \in todo
  /\ \E k \in Keys(w) : status' = [status EXCEPT ![k] = PhaseOf(k)]
  /\ todo' = todo \ {w}
  /\ UNCHANGED <<pc, history, podRev, nodeRev, names, outcome, pollRev>>

AllPodsRunning == \A k \in DOMAIN status : status[k] \in {NoEntry, "Running"}

\* The pods decide whether the nodes are looked at.
PodsDone ==
  /\ pc = "pods" /\ todo = {}
  /\ pc' = IF AllPodsRunning THEN "nodes" ELSE "sleep"
  /\ UNCHANGED <<history, podRev, nodeRev, poll, outcome>>

\* NodeStatus has an entry for a node in the store that has the condition.
AllNodesReady == \A n \in Nodes : nodeStore[n] # "NotReady"

NodesDone ==
  /\ pc = "nodes"
  /\ IF AllNodesReady THEN pc' = "returned" /\ outcome' = "nil"
                      ELSE pc' = "sleep" /\ UNCHANGED outcome
  /\ UNCHANGED <<history, podRev, nodeRev, poll>>

\* wait.Poll gives up between two polls.
TimeOut ==
  /\ pc = "sleep"
  /\ pc' = "returned" /\ outcome' = "error"
  /\ UNCHANGED <<history, podRev, nodeRev, poll>>

Polling == Poll \/ (\E w \in Watched : PodStatus(w)) \/ PodsDone \/ NodesDone

Returned == pc = "returned" /\ UNCHANGED vars

Next == Polling \/ TimeOut \/ Change \/ PodInformer \/ NodeInformer \/ Returned

Spec == Init /\ [][Next]_vars

\* The poll goes on, and the informers catch up, for the api server answers.
FairSpec == /\ Spec
            /\ WF_vars(Polling) /\ WF_vars(PodInformer) /\ WF_vars(NodeInformer)
----------------------------------------------------------------------------
\* The types of the variables; no informer is ahead of the cluster.
TypeOK ==
  /\ pc \in {"sleep", "pods", "nodes", "returned"}
  /\ history \in Seq(Clusters) /\ Len(history) \in 1..(MaxChanges + 1)
  /\ podRev \in 0..Len(history)
  /\ nodeRev \in 0..Len(history)
  /\ names \subseteq Pods
  /\ todo \subseteq Watched
  /\ status \in [Watched \cup Pods -> {"Pending", "Running", NoEntry, doesNotExist}]
  /\ outcome \in {"none", "nil", "error"}
  /\ pollRev \in 0..podRev

Running(p, rev) == history[rev].pods[p] = "Running"

\* The command pivots only if for every required pod there was a pod of that
\* name running, at a time no earlier than what the store held when the last
\* poll began, although the store changes and pods go while it is read.
PivotJustified ==
  outcome = "nil" => \A w \in Watched :
    \E p \in Matches[w], rev \in 1..Len(history) : rev >= pollRev /\ Running(p, rev)

\* Every required pod has running pods only, and every node is ready.
Up == LET now == history[Len(history)]
      IN /\ \A w \in Watched : \E p \in Matches[w] : now.pods[p] = "Running"
         /\ \A p \in Pods : now.pods[p] # "Pending"
         /\ \A n \in Nodes : now.nodes[n] = "Ready"

\* When the self-hosted control plane comes up and stays up the wait ends,
\* before its timeout if that is far enough: nothing an earlier poll saw holds it.
PivotsWhenUp == <>[]Up => <>(outcome # "none")
=============================================================================
