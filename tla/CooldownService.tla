--------------------------- MODULE CooldownService ---------------------------
(***************************************************************************)
(* The cooldown table as the candidate executor sees it: a set.            *)
(*                                                                         *)
(* Candidate selection never looks at deadlines, it only asks whether an   *)
(* account is cooling.  This module says which changes of the answer the   *)
(* executor has to expect: it is as permissive as possible (accounts may   *)
(* leave the set at any time), so that what is shown of CandidateFailover, *)
(* which is written against it, does not depend on the length of any       *)
(* cooldown.  What the table promises, that an account stays until its     *)
(* deadline, is CooldownDeadlines.                                         *)
(***************************************************************************)
CONSTANT Accounts

VARIABLE cooling        \* the accounts is_account_in_cooldown answers TRUE for

Init == cooling = {}

(* A failure was recorded: the account is cooling from now on. *)
Mark(a) == cooling' = cooling \union {a}

(* A success was recorded: this account, and only this one, is released. *)
Release(a) == cooling' = cooling \ {a}

(* Deadlines passed, or the runtime state was reset. *)
Expire == cooling' \in SUBSET cooling

Next ==
    \/ \E a \in Accounts : Mark(a) \/ Release(a)
    \/ Expire

Spec == Init /\ [][Next]_cooling
=============================================================================
