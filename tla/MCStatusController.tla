------------------------- MODULE MCStatusController -------------------------
(***************************************************************************)
(* Values for StatusController: two required pods, one with up to two       *)
(* replicas.                                                               *)
(***************************************************************************)
EXTENDS StatusController, TLC

CONSTANTS apiserver, scheduler, apiserver1, apiserver2, scheduler1

MCMatches == (apiserver :> {apiserver1, apiserver2} \cap Pods) @@ (scheduler :> {scheduler1})
=============================================================================
