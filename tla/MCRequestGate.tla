---------------------------- MODULE MCRequestGate ----------------------------
(* RequestGate on small sets, without symmetry: the run checks liveness. *)
EXTENDS RequestGate
=============================================================================
