------------------------- MODULE CheckpointerClaims -------------------------
(***************************************************************************)
(* What a comment in the pod checkpointer says of it and the code does not *)
(* do; a run refutes it, and PROJECT.json (findings) tells what the        *)
(* counterexample shows.                                                   *)
(***************************************************************************)
EXTENDS Checkpointer

\* process.go:141 "If the checkpointer is stopped then stop all checkpoints.
\* Next cycle they may restart": once the self checkpoint is started again, so
\* are the checkpoints whose state asks for it.
RestartedAfterSelfStop ==
  Idle /\ Action(cpState[Self]) = "start" => \A p \in Pods :
    Action(cpState[p]) = "start" => active[p] # NoVersion
=============================================================================
