--------------------------- MODULE MCCreateAssets ---------------------------
(***************************************************************************)
(* Values for CreateAssets: one namespace, two definitions of one          *)
(* groupVersion, a custom resource of each, and a pod of the namespace that *)
(* comes from the same file as the second custom resource.                 *)
(***************************************************************************)
EXTENDS CreateAssets, TLC

CONSTANTS ns, crd1, crd2, cr1, cr2, pod, group

MCManifests == {ns, crd1, crd2, cr1, cr2, pod}
MCNamespaceOf == (pod :> ns) @@ (cr2 :> ns)
MCDefinedBy == (cr1 :> crd1) @@ (cr2 :> crd2)
MCGroup == [c \in {crd1, crd2} |-> group]
MCFile == (ns :> 4) @@ (crd1 :> 3) @@ (crd2 :> 2) @@ (cr1 :> 1) @@ (cr2 :> 2) @@ (pod :> 2)
=============================================================================
