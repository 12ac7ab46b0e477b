--------------------------- MODULE MCResetCredit ---------------------------
(* Small instances of ResetCredit. *)
EXTENDS ResetCredit, TLC

CONSTANTS c1, c2, p1, p2

(* Two processes share the database. *)
TwoHomes == c1 :> p1 @@ c2 :> p2

(* One process, one call at a time. *)
OneHome == c1 :> p1

(* The two processes may be exchanged together with their calls. *)
Exchange == c1 :> c2 @@ c2 :> c1 @@ p1 :> p2 @@ p2 :> p1

Symmetry ==
    Permutations(Redeems) \union Permutations(Accounts) \union Permutations(Operations)
        \union {Exchange}
=============================================================================
