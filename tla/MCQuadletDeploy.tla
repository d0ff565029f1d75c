-------------------------- MODULE MCQuadletDeploy --------------------------
(* QuadletDeploy for TLC: template bodies and configuration contents are    *)
(* model values that no definition tells apart.                             *)
EXTENDS QuadletDeploy, TLC

Contents == Permutations(Bodies) \cup Permutations(Confs)

=============================================================================
