------------------------- MODULE ConversationBinding -------------------------
(***************************************************************************)
(* Which account serves a conversation (gateway/routing/                   *)
(* conversation_binding.rs, the setup in gateway/upstream/proxy_pipeline/  *)
(* request_setup.rs and the table in core/storage/                         *)
(* conversation_bindings.rs).                                              *)
(*                                                                         *)
(* Rows of different conversations are independent, so the model follows   *)
(* one conversation: one row, or none, and concurrent requests of that     *)
(* conversation.  Each database statement is an atomic step and nothing is *)
(* locked between them: a request reads the row during validation, picks   *)
(* candidates, reads the manual preference, claims the row if it saw none, *)
(* talks to accounts, and writes the row from what it read long before.    *)
(*                                                                         *)
(* Only the head of the candidate list is kept in order: the head is what  *)
(* the binding, the preference and the claim decide, the accounts after it *)
(* are tried in the order of the routing strategy, here any order.         *)
(***************************************************************************)
EXTENDS Naturals

CONSTANTS
    Accounts, Requests, Models,
    NoRow,              \* no row, no binding in the routing context
    None                \* no manual preference, no account chosen

Sources == {"create", "existing_only"}

VARIABLES
    row,                \* the row of conversation_bindings
    accounts,           \* the accounts that have not been deleted
    manual,             \* preferred_account_id
    unsupported,        \* (account, model) rejections remembered
    pc,
    source,             \* request -> RouteConversationSource
    model,              \* request -> the model it asks for
    binding,            \* request -> routing.existing_binding
    cold,               \* request -> the row was absent when it was loaded
    pinned,             \* request -> binding or preference fixed the head
    candidates,         \* request -> accounts it may use
    unfit,              \* history: at setup its bound account could not serve the model
    head,               \* request -> first candidate
    tried,              \* request -> candidates used up
    current,            \* request -> account of the running attempt
    served,             \* history: accounts that answered with a success status
    claimFailed         \* history: a claim ended in a storage error

shared == <<row, accounts, manual, unsupported, served, claimFailed>>
context == <<source, model, binding, cold, pinned, candidates, unfit, head>>
progress == <<pc, tried, current>>
vars == <<shared, context, progress>>

Row == [account : Accounts, epoch : Nat \ {0}]

ASSUME NullsAssumption == NoRow \notin Row /\ None \notin Accounts

Steps == {"load", "filter", "prepare", "rotate", "claim", "read_back",
          "attempt", "upstream", "succeeded", "rejected", "delivering", "done"}

TypeOK ==
    /\ row \in Row \union {NoRow}
    /\ accounts \subseteq Accounts
    /\ manual \in Accounts \union {None}
    /\ unsupported \subseteq Accounts \X Models
    /\ served \subseteq Accounts
    /\ claimFailed \in BOOLEAN
    /\ pc \in [Requests -> Steps]
    /\ source \in [Requests -> Sources]
    /\ model \in [Requests -> Models]
    /\ binding \in [Requests -> Row \union {NoRow}]
    /\ cold \in [Requests -> BOOLEAN]
    /\ pinned \in [Requests -> BOOLEAN]
    /\ candidates \in [Requests -> SUBSET Accounts]
    /\ unfit \in [Requests -> BOOLEAN]
    /\ head \in [Requests -> Accounts \union {None}]
    /\ tried \in [Requests -> SUBSET Accounts]
    /\ current \in [Requests -> Accounts \union {None}]
    /\ \A r \in Requests : tried[r] \subseteq candidates[r]
    /\ \A r \in Requests : current[r] # None => current[r] \in candidates[r]

(* The conversation is new, or an earlier request has bound it. *)
Init ==
    /\ row \in {NoRow} \union [account : Accounts, epoch : {1}]
    /\ accounts = Accounts
    /\ manual = None
    /\ unsupported = {}
    /\ served = {}
    /\ claimFailed = FALSE
    /\ pc = [r \in Requests |-> "load"]
    /\ source \in [Requests -> Sources]
    /\ model \in [Requests -> Models]
    /\ binding = [r \in Requests |-> NoRow]
    /\ cold = [r \in Requests |-> FALSE]
    /\ pinned = [r \in Requests |-> FALSE]
    /\ candidates = [r \in Requests |-> {}]
    /\ unfit = [r \in Requests |-> FALSE]
    /\ head = [r \in Requests |-> None]
    /\ tried = [r \in Requests |-> {}]
    /\ current = [r \in Requests |-> None]

-----------------------------------------------------------------------------
KnownUnsupported(a, m) == <<a, m>> \in unsupported

allows_initial_binding_create(r) == source[r] = "create"

Goto(r, step) == pc' = [pc EXCEPT ![r] = step]

(* load_conversation_binding, called while the request is validated. *)
load_conversation_binding(r) ==
    /\ pc[r] = "load"
    /\ binding' = [binding EXCEPT ![r] = row]
    /\ cold' = [cold EXCEPT ![r] = row = NoRow]
    /\ Goto(r, "filter")
    /\ UNCHANGED <<shared, source, model, pinned, candidates,
                   unfit, head, tried, current>>

(* drop_known_unsupported_model_candidates: known rejections are filtered  *)
(* out unless that would leave nobody.                                     *)
Eligible(S, m) ==
    LET ok == {a \in S : ~KnownUnsupported(a, m)}
    IN  IF ok = {} THEN S ELSE ok

(* prepare_gateway_candidates: any set of accounts may pass the group,      *)
(* plan, status and quota filters, a just deleted one too, since the        *)
(* deletion does not invalidate the snapshot cache; without candidates the  *)
(* request is answered with an error.                                       *)
prepare_gateway_candidates(r) ==
    /\ pc[r] = "filter"
    /\ \E S \in SUBSET Accounts :
         /\ candidates' = [candidates EXCEPT ![r] = Eligible(S, model[r])]
         /\ Goto(r, IF S = {} THEN "done" ELSE "prepare")
    /\ UNCHANGED <<shared, source, model, binding, cold, pinned,
                   unfit, head, tried, current>>

(* The check of prepare_request_setup: the bound account is known, by now, *)
(* not to serve the model.  The candidate filter ran earlier: it may have  *)
(* kept that account.                                                      *)
BoundUnfit(r) == binding[r] # NoRow /\ KnownUnsupported(binding[r].account, model[r])

GivesUp_if_filtered(r) == BoundUnfit(r) /\ binding[r].account \notin candidates[r]

GivesUp(r) == BoundUnfit(r)

(* prepare_conversation_routing_with_source, and the check that follows:   *)
(* the manual preference comes first, then the binding, and a binding      *)
(* whose account is known not to serve the model is given up.              *)
prepare_conversation_routing(r) ==
    LET bound     == binding[r] # NoRow
        preferred == manual # None /\ manual \in candidates[r]
        sticky    == bound /\ binding[r].account \in candidates[r]
        selected  == IF preferred THEN bound /\ binding[r].account = manual ELSE sticky
    IN  /\ pc[r] = "prepare"
        /\ head' = [head EXCEPT ![r] =
                      IF preferred THEN manual
                      ELSE IF sticky THEN binding[r].account ELSE None]
        /\ binding' = [binding EXCEPT ![r] = IF GivesUp(r) THEN NoRow ELSE @]
        /\ pinned' = [pinned EXCEPT ![r] = preferred \/ (selected /\ ~GivesUp(r))]
        /\ unfit' = [unfit EXCEPT ![r] = BoundUnfit(r)]
        /\ Goto(r, "rotate")
        /\ UNCHANGED <<shared, source, model, cold, candidates, tried, current>>

(* apply_candidate_rotation: unless the head is pinned the routing strategy *)
(* or the thread-aware distribution may put any candidate first, but a      *)
(* manual preference set in the meantime wins.                              *)
apply_candidate_rotation(r) ==
    /\ pc[r] = "rotate"
    /\ IF pinned[r]
       THEN UNCHANGED head
       ELSE \E a \in IF manual \in candidates[r] THEN {manual} ELSE candidates[r] :
              head' = [head EXCEPT ![r] = a]
    /\ Goto(r, IF binding[r] # NoRow \/ ~allows_initial_binding_create(r)
               THEN "attempt" ELSE "claim")
    /\ UNCHANGED <<shared, source, model, binding, cold, pinned,
                   candidates, unfit, tried, current>>

(* claim_conversation_binding, first statement: INSERT OR IGNORE. *)
ClaimedRow_overwrite(r) == [account |-> head[r], epoch |-> 1]

ClaimedRow(r) == IF row = NoRow THEN [account |-> head[r], epoch |-> 1] ELSE row

claim_insert(r) ==
    /\ pc[r] = "claim"
    /\ row' = ClaimedRow(r)
    /\ Goto(r, "read_back")
    /\ UNCHANGED <<accounts, manual, unsupported, served, claimFailed, context, tried, current>>

(* Either statement may end in a storage error, which is logged and        *)
(* ignored: the request goes on without a binding.                         *)
claim_error(r) ==
    /\ pc[r] \in {"claim", "read_back"}
    /\ claimFailed' = TRUE
    /\ Goto(r, "attempt")
    /\ UNCHANGED <<row, accounts, manual, unsupported, served, context, tried, current>>

(* Second statement, the read back, and the rest of                        *)
(* claim_initial_conversation_binding: adopt the winner and put its        *)
(* account first.  If the row has been deleted in between, the read back   *)
(* is an error too.                                                        *)
AdoptedHead(r) ==
    IF row # NoRow /\ row.account \in candidates[r] THEN row.account ELSE head[r]

claim_read_back(r) ==
    /\ pc[r] = "read_back"
    /\ binding' = [binding EXCEPT ![r] = row]
    /\ head' = [head EXCEPT ![r] = AdoptedHead(r)]
    /\ Goto(r, "attempt")
    /\ UNCHANGED <<shared, source, model, cold, pinned, candidates,
                   unfit, tried, current>>

-----------------------------------------------------------------------------
(* The candidate loop, as far as the binding is concerned: the head first, *)
(* then the others; a candidate may be skipped while more are left.        *)
Untried(r) == candidates[r] \ tried[r]

NextCandidates_preferred(r) ==
    IF manual # None THEN {manual} ELSE IF head[r] \in Untried(r) THEN {head[r]} ELSE Untried(r)

NextCandidates(r) == IF head[r] \in Untried(r) THEN {head[r]} ELSE Untried(r)

UseUp(r, a) ==
    /\ tried' = [tried EXCEPT ![r] = @ \union {a}]
    /\ current' = [current EXCEPT ![r] = None]
    /\ Goto(r, IF Untried(r) \ {a} = {} THEN "done" ELSE "attempt")

SkipCandidate(r) ==
    /\ pc[r] = "attempt"
    /\ \E a \in NextCandidates(r) : Untried(r) # {a} /\ UseUp(r, a)
    /\ UNCHANGED <<shared, context>>

Attempt(r) ==
    /\ pc[r] = "attempt"
    /\ \E a \in NextCandidates(r) : current' = [current EXCEPT ![r] = a]
    /\ Goto(r, "upstream")
    /\ UNCHANGED <<shared, context, tried>>

(* A success status; the delivery of the body is handed to another task. *)
Succeed(r) ==
    /\ pc[r] = "upstream"
    /\ served' = served \union {current[r]}
    /\ Goto(r, "succeeded")
    /\ UNCHANGED <<row, accounts, manual, unsupported, claimFailed, context, tried, current>>

(* A final answer with status >= 400 that is passed to the client. *)
Reject(r) ==
    /\ pc[r] = "upstream"
    /\ Goto(r, "rejected")
    /\ UNCHANGED <<shared, context, tried, current>>

Failover(r) ==
    /\ pc[r] = "upstream"
    /\ UseUp(r, current[r])
    /\ UNCHANGED <<shared, context>>

(* The account does not serve the model: remember it and go on, or pass    *)
(* the rejection on when it was the last candidate.                        *)
ModelUnsupported(r) ==
    /\ pc[r] = "upstream"
    /\ unsupported' = unsupported \union {<<current[r], model[r]>>}
    /\ IF Untried(r) = {current[r]}
       THEN Goto(r, "rejected") /\ UNCHANGED <<tried, current>>
       ELSE UseUp(r, current[r])
    /\ UNCHANGED <<row, accounts, manual, served, claimFailed, context>>

(* record_conversation_binding_terminal_response: a touch leaves account   *)
(* and epoch alone; a success elsewhere rebinds from the binding as it was *)
(* read; a success without a binding creates one.                          *)
RecordedRow_any_status(r) ==
    LET b == binding[r]
    IN  CASE b # NoRow /\ b.account = current[r] -> row
          [] b # NoRow /\ b.account # current[r] ->
                [account |-> current[r], epoch |-> b.epoch + 1]
          [] b = NoRow -> row

RecordedRow(r) ==
    LET b  == binding[r]
        ok == pc[r] = "succeeded"
    IN  CASE b # NoRow /\ b.account = current[r] -> row
          [] b # NoRow /\ b.account # current[r] /\ ok ->
                [account |-> current[r], epoch |-> b.epoch + 1]
          [] b = NoRow /\ ok /\ allows_initial_binding_create(r) ->
                [account |-> current[r], epoch |-> 1]
          [] OTHER -> row

record_terminal_response(r) ==
    /\ pc[r] \in {"succeeded", "rejected"}
    /\ row' \in {RecordedRow(r), row}       \* a storage error is logged only
    /\ Goto(r, IF pc[r] = "succeeded" THEN "delivering" ELSE "done")
    /\ UNCHANGED <<accounts, manual, unsupported, served, claimFailed, context, tried, current>>

(* The delivery, which runs beside the recording, completed well. *)
clear_model_rejection_after_success(r) ==
    /\ pc[r] \in {"succeeded", "delivering"}
    /\ unsupported' = unsupported \ {<<current[r], model[r]>>}
    /\ UNCHANGED <<row, accounts, manual, served, claimFailed, context, progress>>

(* The request ends without a response to record: the row cannot be        *)
(* loaded, the client is gone, the deadline has passed or the attempt      *)
(* ended in a gateway error.                                               *)
EndUnrecorded(r) ==
    /\ pc[r] \in {"load", "attempt", "upstream"}
    /\ Goto(r, "done")
    /\ UNCHANGED <<shared, context, tried, current>>

-----------------------------------------------------------------------------
(* Storage::delete_account removes the account, its preference and its     *)
(* conversation bindings in one transaction.                               *)
delete_account(a) ==
    /\ a \in accounts
    /\ accounts' = accounts \ {a}
    /\ row' = IF row # NoRow /\ row.account = a THEN NoRow ELSE row
    /\ manual' = IF manual = a THEN None ELSE manual
    /\ UNCHANGED <<unsupported, served, claimFailed, context, progress>>

set_manual_preferred_account(a) ==
    /\ a \in accounts
    /\ manual' = a
    /\ UNCHANGED <<row, accounts, unsupported, served, claimFailed, context, progress>>

clear_manual_preferred_account ==
    /\ manual' = None
    /\ UNCHANGED <<row, accounts, unsupported, served, claimFailed, context, progress>>

(* A remembered rejection expires. *)
ForgetUnsupported ==
    /\ \E p \in unsupported : unsupported' = unsupported \ {p}
    /\ UNCHANGED <<row, accounts, manual, served, claimFailed, context, progress>>

RequestStep(r) ==
    \/ load_conversation_binding(r) \/ prepare_gateway_candidates(r)
    \/ prepare_conversation_routing(r) \/ apply_candidate_rotation(r)
    \/ claim_insert(r) \/ claim_error(r) \/ claim_read_back(r)
    \/ SkipCandidate(r) \/ Attempt(r)
    \/ Succeed(r) \/ Reject(r) \/ Failover(r) \/ ModelUnsupported(r)
    \/ record_terminal_response(r) \/ clear_model_rejection_after_success(r)
    \/ EndUnrecorded(r)

Next ==
    \/ \E r \in Requests : RequestStep(r)
    \/ \E a \in Accounts : delete_account(a) \/ set_manual_preferred_account(a)
    \/ clear_manual_preferred_account
    \/ ForgetUnsupported

Spec == Init /\ [][Next]_vars

-----------------------------------------------------------------------------
Undisturbed == accounts = Accounts /\ ~claimFailed

PastClaim(r) == pc[r] \in {"attempt", "upstream", "succeeded", "rejected"}

(***************************************************************************)
(* claim_initial_conversation_binding "closes the cold-start race where    *)
(* concurrent parent/subtask requests could both observe no binding and    *)
(* select different accounts": while the first binding stands, no account  *)
(* was deleted and no claim ended in a storage error, every request that   *)
(* found no row and may create one starts with the bound account, if that  *)
(* account is among its candidates, whatever its routing strategy proposed.*)
(***************************************************************************)
ColdStartsConverge ==
    Undisturbed /\ row # NoRow =>
        \A r \in Requests :
            PastClaim(r) /\ cold[r] /\ allows_initial_binding_create(r)
                /\ row.epoch = 1 /\ row.account \in candidates[r]
              => head[r] = row.account

(***************************************************************************)
(* "rebinding only after successful failover" (CHANGELOG): a row beyond    *)
(* its first epoch names an account that really answered this conversation *)
(* with success, however stale the binding was from which it was written.  *)
(***************************************************************************)
RebindFollowsSuccess ==
    row # NoRow /\ row.epoch > 1 => row.account \in served

(***************************************************************************)
(* A binding that is given up because its account does not serve the model *)
(* stays valid for other models (the comment at request_setup.rs line 69): *)
(* a request that may not create bindings leaves the row alone from then   *)
(* on, wherever it succeeds.  What matters is a rejection that is learned  *)
(* after the candidate filter: the account is still a candidate, is tried, *)
(* rejects the model, and another account answers.  (A request that may    *)
(* create a binding claims, reads the same row back and moves it.)         *)
(***************************************************************************)
GivenUpBindingStays ==
    [][\A r \in Requests :
          unfit[r] /\ ~allows_initial_binding_create(r) /\ record_terminal_response(r)
            => row' = row]_vars

(***************************************************************************)
(* A binding that another request has established is never overwritten by  *)
(* a fresh first-epoch row for another account, the way a late success     *)
(* without a binding would do it; only the deletion of an account between  *)
(* the two statements of a claim, or a claim that failed, opens that       *)
(* window.                                                                 *)
(***************************************************************************)
NoBlindCreate ==
    [][row # NoRow /\ row' # NoRow /\ row'.account # row.account /\ row'.epoch = 1
         => ~Undisturbed]_vars
=============================================================================
