------------------------ MODULE MCCandidateSnapshot ------------------------
(* Small instances of CandidateSnapshot. *)
EXTENDS CandidateSnapshot
=============================================================================
