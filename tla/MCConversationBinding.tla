------------------------ MODULE MCConversationBinding ------------------------
(* ConversationBinding on small sets. *)
EXTENDS ConversationBinding, TLC

Symmetry == Permutations(Accounts) \union Permutations(Requests)
=============================================================================
