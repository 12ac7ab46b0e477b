------------------------ MODULE MCCandidateFailover ------------------------
(* Small instances of CandidateFailover. *)
EXTENDS CandidateFailover, TLC

Symmetry == Permutations(Requests) \union Permutations(Accounts)
=============================================================================
