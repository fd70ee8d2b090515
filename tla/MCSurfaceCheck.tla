--------------------------- MODULE MCSurfaceCheck ---------------------------
(* Every surface of the three tables, for two resources. *)
EXTENDS SurfaceCheck

MCAllSurfaces == DOMAIN AllSurfaces

(* Which resource is which makes no difference: nothing chooses among them. *)
MCSymmetry == Permutations(Objects)
=============================================================================
