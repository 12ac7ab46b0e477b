-------------------------- MODULE MCAccountCooldown --------------------------
(* AccountCooldown with the code's lengths scaled down so that their order  *)
(* is kept: a challenge is shorter than the cleanup interval, which is not  *)
(* longer than the first rung; the forget time lies on the ladder, below    *)
(* its last rung.  Three rungs are enough for the ladder to be climbed,     *)
(* saturated, descended and forgotten.                                      *)
EXTENDS AccountCooldown, TLC

MCReasons == {"Default", "RateLimited", "Upstream5xx", "Upstream4xx", "Challenge"}

MCSecs == [r \in MCReasons |-> IF r = "Challenge" THEN 1 ELSE 2]

MCStatuses == {302, 401, 404, 429, 503}

MCLadder == <<2, 3, 4>>

Symmetry == Permutations(Accounts)
=============================================================================
