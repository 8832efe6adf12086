------------------------ MODULE CheckpointLifecycle ------------------------
(***************************************************************************)
(* What the pod checkpointer promises of the checkpoints on a node's disk, *)
(* without its loop, its memory, its crashes or its state machine.  One    *)
(* step changes one file or directory of one pod:                          *)
(*                                                                         *)
(*   - a checkpoint is started only from a manifest that is stored;        *)
(*   - a stored manifest and its assets are given up only when the pod is  *)
(*     due for collection, the assets first and the running copy last, so  *)
(*     that what is left can always be found and collected again;          *)
(*   - assets are fetched only for a pod whose manifest is stored.         *)
(*                                                                         *)
(* Checkpointer implements it (ImplementsLifecycle there).                 *)
(***************************************************************************)
CONSTANT Pods

VARIABLES
  due,      \* the pods that may be collected; not the checkpointer's to choose
  stored,   \* the pods with a manifest in inactive-manifests
  running,  \* the pods with a manifest in the kubelet's manifests directory
  kept      \* the pods with secrets or configMaps stored

vars == <<due, stored, running, kept>>

Init == due \subseteq Pods /\ stored = {} /\ running = {} /\ kept = {}

\* The cluster changes its mind; the disk stays as it is.
Decide == UNCHANGED <<stored, running, kept>> /\ due' \subseteq Pods

\* The manifest is written; also after a crash that left the running copy only.
Store(p) == stored' = stored \cup {p} /\ UNCHANGED <<due, running, kept>>

Fetch(p) == p \in stored /\ kept' = kept \cup {p} /\ UNCHANGED <<due, stored, running>>

Start(p) == p \in stored /\ running' = running \cup {p} /\ UNCHANGED <<due, stored, kept>>

\* The parent is back: the running copy goes, the stored one stays.
Stop(p) == p \in stored /\ running' = running \ {p} /\ UNCHANGED <<due, stored, kept>>

\* Collection, in its order.
DropAssets(p) == p \in due /\ kept' = kept \ {p} /\ UNCHANGED <<due, stored, running>>

DropStored(p) ==
  /\ p \in due /\ p \notin kept
  /\ stored' = stored \ {p}
  /\ UNCHANGED <<due, running, kept>>

DropRunning(p) ==
  /\ p \in due /\ p \notin kept /\ p \notin stored
  /\ running' = running \ {p}
  /\ UNCHANGED <<due, stored, kept>>

Next == \/ Decide
        \/ \E p \in Pods : \/ Store(p) \/ Fetch(p) \/ Start(p) \/ Stop(p)
                           \/ DropAssets(p) \/ DropStored(p) \/ DropRunning(p)

Spec == Init /\ [][Next]_vars
============================================================================
