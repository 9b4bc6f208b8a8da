--------------------------- MODULE MCPlanificacion ---------------------------
(***************************************************************************)
(* Instances of Planificacion for TLC.                                     *)
(***************************************************************************)
EXTENDS PlanificacionCiclo

CONSTANTS p1, p2, p3

Dos == {p1, p2}
Tres == {p1, p2, p3}
Simetria == Permutations(Procesos)
=============================================================================
