--------------------------- MODULE MCTokenRefresh ---------------------------
(* TokenRefresh on small sets, without symmetry: the run checks liveness. *)
EXTENDS TokenRefresh
=============================================================================
