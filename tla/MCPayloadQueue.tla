--------------------------- MODULE MCPayloadQueue ---------------------------
(* PayloadQueue on small sets.  The clears are interchangeable.            *)
EXTENDS PayloadQueue, TLC

ClearSymmetry == Permutations(Clears)
=============================================================================
