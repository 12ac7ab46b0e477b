---------------------- MODULE ConversationBindingProofs ----------------------
(***************************************************************************)
(* Proofs about ConversationBinding for any number of accounts, concurrent *)
(* requests and models.                                                    *)
(***************************************************************************)
EXTENDS ConversationBinding, TLAPS

Upstream == {"upstream", "succeeded", "rejected"}

(* The head of the list is a candidate once the list is in order. *)
HeadIsCandidate(r) ==
    /\ pc[r] \in {"claim", "read_back", "attempt"} \union Upstream
         => head[r] \in candidates[r]
    /\ pc[r] = "rotate" /\ pinned[r] => head[r] \in candidates[r]

(* Whoever may not claim never does, and a binding that such a request has *)
(* given up does not come back.                                            *)
GivenUpForGood(r) ==
    /\ pc[r] \in {"load", "filter", "prepare"} => ~unfit[r]
    /\ pc[r] \in {"claim", "read_back"} => allows_initial_binding_create(r)
    /\ unfit[r] /\ ~allows_initial_binding_create(r) => binding[r] = NoRow

(* Nothing is tried before the claim is settled. *)
NothingTried(r) ==
    pc[r] \in {"load", "filter", "prepare", "rotate", "claim", "read_back"}
      => tried[r] = {} /\ current[r] = None

(* An attempt has an account, and a success of it is in the history. *)
AttemptHasAccount(r) ==
    /\ pc[r] \in Upstream => current[r] # None
    /\ pc[r] = "succeeded" => current[r] \in served

(* A cold request sees no binding before it has read its claim back, and   *)
(* then starts with the binding's account if it can.                       *)
ColdUntilClaim(r) ==
    /\ pc[r] \in {"claim", "read_back"} => binding[r] = NoRow
    /\ cold[r] /\ pc[r] \in {"filter", "prepare", "rotate"} => binding[r] = NoRow
    /\ cold[r] /\ PastClaim(r) /\ binding[r] # NoRow
         /\ binding[r].account \in candidates[r]
         => head[r] = binding[r].account

(* While no account is deleted the row never disappears, a first-epoch row *)
(* is what every request that has read it still holds, and everyone who    *)
(* may create a binding has one before the first attempt.                  *)
SeesFirstBinding(r) ==
    /\ binding[r] # NoRow => row # NoRow
    /\ binding[r] # NoRow /\ row.epoch = 1 => binding[r] = row
    /\ pc[r] = "read_back" => row # NoRow
    /\ PastClaim(r) /\ allows_initial_binding_create(r) => binding[r] # NoRow

RequestInv(r) ==
    /\ HeadIsCandidate(r)
    /\ GivenUpForGood(r)
    /\ NothingTried(r)
    /\ AttemptHasAccount(r)
    /\ ColdUntilClaim(r)
    /\ Undisturbed => SeesFirstBinding(r)

BindingInv ==
    /\ TypeOK
    /\ RebindFollowsSuccess
    /\ \A r \in Requests : RequestInv(r)

USE NullsAssumption

-----------------------------------------------------------------------------
(* A request keeps its part of the invariant through steps of others that  *)
(* leave the row, the accounts and its own state alone.                    *)
LEMMA OthersUnaffected ==
    ASSUME NEW r \in Requests, RequestInv(r), TypeOK, TypeOK',
           row' = row, accounts' = accounts, claimFailed' = claimFailed,
           served \subseteq served',
           pc'[r] = pc[r], source'[r] = source[r], binding'[r] = binding[r],
           cold'[r] = cold[r], pinned'[r] = pinned[r],
           candidates'[r] = candidates[r], unfit'[r] = unfit[r],
           head'[r] = head[r], tried'[r] = tried[r], current'[r] = current[r]
    PROVE  RequestInv(r)'
BY DEF RequestInv, HeadIsCandidate, GivenUpForGood, NothingTried, AttemptHasAccount,
       Undisturbed, ColdUntilClaim, SeesFirstBinding, PastClaim, Upstream,
       allows_initial_binding_create

(* The same when the row changes to a later epoch, or from nothing to a    *)
(* first binding while nobody holds one.                                   *)
LEMMA OthersSeeNewRow ==
    ASSUME NEW r \in Requests, RequestInv(r), TypeOK, TypeOK',
           row' \in Row,
           \/ row'.epoch > 1
           \/ row = NoRow
           \/ row' = row
           \/ ~Undisturbed,
           accounts' = accounts, claimFailed' = claimFailed, served' = served,
           pc'[r] = pc[r], source'[r] = source[r], binding'[r] = binding[r],
           cold'[r] = cold[r], pinned'[r] = pinned[r],
           candidates'[r] = candidates[r], unfit'[r] = unfit[r],
           head'[r] = head[r], tried'[r] = tried[r], current'[r] = current[r]
    PROVE  RequestInv(r)'
<1>1. /\ HeadIsCandidate(r)' /\ GivenUpForGood(r)' /\ NothingTried(r)'
      /\ AttemptHasAccount(r)' /\ ColdUntilClaim(r)'
  BY DEF RequestInv, HeadIsCandidate, GivenUpForGood, NothingTried, AttemptHasAccount,
         ColdUntilClaim, PastClaim, Upstream, allows_initial_binding_create
<1>2. ASSUME Undisturbed PROVE SeesFirstBinding(r)'
  <2>1. row' # NoRow
    OBVIOUS
  <2>2. SeesFirstBinding(r)
    BY <1>2 DEF RequestInv
  <2>3. binding[r] # NoRow /\ row'.epoch = 1 => binding[r] = row'
    BY <1>2, <2>2 DEF SeesFirstBinding, Row
  <2> QED
    BY <2>1, <2>2, <2>3 DEF SeesFirstBinding, PastClaim, allows_initial_binding_create
<1> QED
  BY <1>1, <1>2 DEF RequestInv, Undisturbed

-----------------------------------------------------------------------------
(* One lemma for each step of a request. *)

LEMMA LoadKeepsInv ==
    ASSUME BindingInv, NEW r \in Requests, load_conversation_binding(r)
    PROVE  BindingInv'
<1>1. TypeOK'
  BY DEF BindingInv, load_conversation_binding, Goto, shared, TypeOK, Steps, Row
<1>2. RebindFollowsSuccess'
  BY DEF BindingInv, load_conversation_binding, Goto, shared, RebindFollowsSuccess
<1>3. ASSUME NEW s \in Requests, s # r PROVE RequestInv(s)'
  BY <1>1, <1>3, OthersUnaffected
     DEF BindingInv, load_conversation_binding, Goto, shared, TypeOK
<1>4. RequestInv(r)'
  BY DEF BindingInv, load_conversation_binding, Goto, shared, TypeOK, 
         RequestInv, HeadIsCandidate, GivenUpForGood, NothingTried,
         AttemptHasAccount, Undisturbed, ColdUntilClaim, SeesFirstBinding, PastClaim,
         Upstream, allows_initial_binding_create
<1> QED
  BY <1>1, <1>2, <1>3, <1>4 DEF BindingInv

LEMMA FilterKeepsInv ==
    ASSUME BindingInv, NEW r \in Requests, prepare_gateway_candidates(r)
    PROVE  BindingInv'
<1>0. PICK S \in SUBSET Accounts :
         /\ candidates' = [candidates EXCEPT ![r] = Eligible(S, model[r])]
         /\ Goto(r, IF S = {} THEN "done" ELSE "prepare")
  BY DEF prepare_gateway_candidates
<1>a. Eligible(S, model[r]) \in SUBSET Accounts
  BY DEF Eligible, BindingInv, TypeOK
<1>c. tried[r] = {} /\ current[r] = None /\ pc[r] = "filter"
  BY DEF BindingInv, RequestInv, NothingTried, prepare_gateway_candidates
<1>1. TypeOK'
  BY <1>0, <1>a, <1>c DEF BindingInv, prepare_gateway_candidates, Goto, shared, TypeOK, Steps, Row
<1>2. RebindFollowsSuccess'
  BY DEF BindingInv, prepare_gateway_candidates, Goto, shared, RebindFollowsSuccess
<1>3. ASSUME NEW s \in Requests, s # r PROVE RequestInv(s)'
  BY <1>1, <1>3, <1>0, OthersUnaffected
     DEF BindingInv, prepare_gateway_candidates, Goto, shared, TypeOK
<1>4. RequestInv(r)'
  BY <1>0, <1>a, <1>c DEF BindingInv, prepare_gateway_candidates, Goto, shared, TypeOK, 
         RequestInv, HeadIsCandidate, GivenUpForGood, NothingTried,
         AttemptHasAccount, Undisturbed, ColdUntilClaim, SeesFirstBinding, PastClaim,
         Upstream, allows_initial_binding_create
<1> QED
  BY <1>1, <1>2, <1>3, <1>4 DEF BindingInv

LEMMA PrepareKeepsInv ==
    ASSUME BindingInv, NEW r \in Requests, prepare_conversation_routing(r)
    PROVE  BindingInv'
<1>1. TypeOK'
  BY DEF BindingInv, prepare_conversation_routing, BoundUnfit, Goto, shared, TypeOK, Steps, Row
<1>2. RebindFollowsSuccess'
  BY DEF BindingInv, prepare_conversation_routing, Goto, shared, RebindFollowsSuccess
<1>3. ASSUME NEW s \in Requests, s # r PROVE RequestInv(s)'
  BY <1>1, <1>3, OthersUnaffected
     DEF BindingInv, prepare_conversation_routing, Goto, shared, TypeOK
<1>4. RequestInv(r)'
  BY DEF BindingInv, prepare_conversation_routing, Goto, shared, TypeOK, 
         RequestInv, HeadIsCandidate, GivenUpForGood, NothingTried,
         AttemptHasAccount, Undisturbed, ColdUntilClaim, SeesFirstBinding, PastClaim,
         Upstream, allows_initial_binding_create, GivesUp
<1> QED
  BY <1>1, <1>2, <1>3, <1>4 DEF BindingInv

LEMMA RotateKeepsInv ==
    ASSUME BindingInv, NEW r \in Requests, apply_candidate_rotation(r)
    PROVE  BindingInv'
<1>1. TypeOK'
  BY DEF BindingInv, apply_candidate_rotation, Goto, shared, TypeOK, Steps, Row
<1>2. RebindFollowsSuccess'
  BY DEF BindingInv, apply_candidate_rotation, Goto, shared, RebindFollowsSuccess
<1>3. ASSUME NEW s \in Requests, s # r PROVE RequestInv(s)'
  BY <1>1, <1>3, OthersUnaffected
     DEF BindingInv, apply_candidate_rotation, Goto, shared, TypeOK
<1>4. RequestInv(r)'
  BY DEF BindingInv, apply_candidate_rotation, Goto, shared, TypeOK, 
         RequestInv, HeadIsCandidate, GivenUpForGood, NothingTried,
         AttemptHasAccount, Undisturbed, ColdUntilClaim, SeesFirstBinding, PastClaim,
         Upstream, allows_initial_binding_create
<1> QED
  BY <1>1, <1>2, <1>3, <1>4 DEF BindingInv

LEMMA ReadBackKeepsInv ==
    ASSUME BindingInv, NEW r \in Requests, claim_read_back(r)
    PROVE  BindingInv'
<1>1. TypeOK'
  BY DEF BindingInv, claim_read_back, Goto, shared, AdoptedHead, TypeOK, Steps, Row
<1>2. RebindFollowsSuccess'
  BY DEF BindingInv, claim_read_back, Goto, shared, AdoptedHead, RebindFollowsSuccess
<1>3. ASSUME NEW s \in Requests, s # r PROVE RequestInv(s)'
  BY <1>1, <1>3, OthersUnaffected
     DEF BindingInv, claim_read_back, Goto, shared, AdoptedHead, TypeOK
<1>4. RequestInv(r)'
  BY DEF BindingInv, claim_read_back, Goto, shared, AdoptedHead, TypeOK, 
         RequestInv, HeadIsCandidate, GivenUpForGood, NothingTried,
         AttemptHasAccount, Undisturbed, ColdUntilClaim, SeesFirstBinding, PastClaim,
         Upstream, allows_initial_binding_create
<1> QED
  BY <1>1, <1>2, <1>3, <1>4 DEF BindingInv

(* INSERT OR IGNORE: the row is new only if there was none. *)
LEMMA ClaimKeepsInv ==
    ASSUME BindingInv, NEW r \in Requests, claim_insert(r)
    PROVE  BindingInv'
<1>0. /\ head[r] \in Accounts
      /\ row' \in Row /\ (row = NoRow \/ row' = row)
      /\ row = NoRow => row'.epoch = 1
  BY DEF BindingInv, claim_insert, ClaimedRow, TypeOK, Row, RequestInv, HeadIsCandidate
<1>1. TypeOK'
  BY <1>0 DEF BindingInv, claim_insert, Goto, context, TypeOK, Steps
<1>2. RebindFollowsSuccess'
  BY <1>0 DEF BindingInv, claim_insert, context, RebindFollowsSuccess
<1>3. ASSUME NEW s \in Requests, s # r PROVE RequestInv(s)'
  BY <1>0, <1>1, <1>3, OthersSeeNewRow
     DEF BindingInv, claim_insert, Goto, context, TypeOK
<1>4. RequestInv(r)'
  BY <1>0 DEF BindingInv, claim_insert, Goto, context, TypeOK,
         RequestInv, HeadIsCandidate, GivenUpForGood, NothingTried,
         AttemptHasAccount, Undisturbed, ColdUntilClaim, SeesFirstBinding, PastClaim,
         Upstream, allows_initial_binding_create
<1> QED
  BY <1>1, <1>2, <1>3, <1>4 DEF BindingInv

(* A failed claim disturbs the cold start and nothing else. *)
LEMMA ClaimErrorKeepsInv ==
    ASSUME BindingInv, NEW r \in Requests, claim_error(r)
    PROVE  BindingInv'
<1>1. TypeOK'
  BY DEF BindingInv, claim_error, Goto, context, TypeOK, Steps
<1>2. RebindFollowsSuccess'
  BY DEF BindingInv, claim_error, RebindFollowsSuccess
<1>3. ~Undisturbed'
  BY DEF claim_error, Undisturbed
<1>4. ASSUME NEW s \in Requests, s # r PROVE RequestInv(s)'
  BY <1>1, <1>3, <1>4
     DEF BindingInv, claim_error, Goto, context, TypeOK,
         RequestInv, HeadIsCandidate, GivenUpForGood, NothingTried,
         AttemptHasAccount, ColdUntilClaim, PastClaim, Upstream,
         allows_initial_binding_create
<1>5. binding[r] = NoRow
  BY DEF BindingInv, RequestInv, ColdUntilClaim, claim_error
<1>6. RequestInv(r)'
  BY <1>1, <1>3, <1>5
     DEF BindingInv, claim_error, Goto, context, TypeOK,
         RequestInv, HeadIsCandidate, GivenUpForGood, NothingTried,
         AttemptHasAccount, ColdUntilClaim, PastClaim, Upstream,
         allows_initial_binding_create
<1> QED
  BY <1>1, <1>2, <1>4, <1>6 DEF BindingInv

LEMMA EndKeepsInv ==
    ASSUME BindingInv, NEW r \in Requests, EndUnrecorded(r)
    PROVE  BindingInv'
<1>1. TypeOK'
  BY DEF BindingInv, EndUnrecorded, Goto, shared, context, TypeOK, Steps
<1>2. RebindFollowsSuccess'
  BY DEF BindingInv, EndUnrecorded, shared, RebindFollowsSuccess
<1>3. ASSUME NEW s \in Requests, s # r PROVE RequestInv(s)'
  BY <1>1, <1>3, OthersUnaffected
     DEF BindingInv, EndUnrecorded, Goto, shared, context, TypeOK
<1>4. RequestInv(r)'
  BY DEF BindingInv, EndUnrecorded, Goto, shared, context, TypeOK,
         RequestInv, HeadIsCandidate, GivenUpForGood, NothingTried,
         AttemptHasAccount, Undisturbed, ColdUntilClaim, SeesFirstBinding, PastClaim,
         Upstream, allows_initial_binding_create
<1> QED
  BY <1>1, <1>2, <1>3, <1>4 DEF BindingInv

(* The next candidate is one of the candidates, and a candidate that is    *)
(* used up leaves the request in the loop or done.                         *)
LEMMA NextIsCandidate ==
    ASSUME TypeOK, NEW r \in Requests, NEW a \in NextCandidates(r)
    PROVE  a \in candidates[r] /\ a \in Accounts
BY DEF NextCandidates, Untried, TypeOK

LEMMA UseUpKeepsInv ==
    ASSUME BindingInv, NEW r \in Requests, NEW a \in candidates[r], UseUp(r, a),
           pc[r] \in {"attempt", "upstream"},
           row' = row, accounts' = accounts, claimFailed' = claimFailed,
           served' = served, manual' = manual,
           unsupported' \subseteq Accounts \X Models, UNCHANGED context
    PROVE  BindingInv'
<1>1. TypeOK'
  BY DEF BindingInv, UseUp, Goto, context, TypeOK, Steps
<1>2. RebindFollowsSuccess'
  BY DEF BindingInv, RebindFollowsSuccess
<1>3. ASSUME NEW s \in Requests, s # r PROVE RequestInv(s)'
  BY <1>1, <1>3, OthersUnaffected DEF BindingInv, UseUp, Goto, context, TypeOK
<1>4. RequestInv(r)'
  BY DEF BindingInv, UseUp, Goto, context, TypeOK,
         RequestInv, HeadIsCandidate, GivenUpForGood, NothingTried,
         AttemptHasAccount, Undisturbed, ColdUntilClaim, SeesFirstBinding, PastClaim,
         Upstream, allows_initial_binding_create
<1> QED
  BY <1>1, <1>2, <1>3, <1>4 DEF BindingInv

LEMMA AttemptKeepsInv ==
    ASSUME BindingInv, NEW r \in Requests, Attempt(r)
    PROVE  BindingInv'
<1>0. PICK a \in NextCandidates(r) : current' = [current EXCEPT ![r] = a]
  BY DEF Attempt
<1>a. a \in candidates[r] /\ a \in Accounts
  BY NextIsCandidate DEF BindingInv
<1>1. TypeOK'
  BY <1>0, <1>a DEF BindingInv, Attempt, Goto, shared, context, TypeOK, Steps
<1>2. RebindFollowsSuccess'
  BY DEF BindingInv, Attempt, shared, RebindFollowsSuccess
<1>3. ASSUME NEW s \in Requests, s # r PROVE RequestInv(s)'
  BY <1>0, <1>1, <1>3, OthersUnaffected
     DEF BindingInv, Attempt, Goto, shared, context, TypeOK
<1>4. RequestInv(r)'
  BY <1>0, <1>a DEF BindingInv, Attempt, Goto, shared, context, TypeOK,
         RequestInv, HeadIsCandidate, GivenUpForGood, NothingTried,
         AttemptHasAccount, Undisturbed, ColdUntilClaim, SeesFirstBinding, PastClaim,
         Upstream, allows_initial_binding_create
<1> QED
  BY <1>1, <1>2, <1>3, <1>4 DEF BindingInv

(* The end of an attempt, with success or with a final rejection. *)
LEMMA AnswerKeepsInv ==
    ASSUME BindingInv, NEW r \in Requests, pc[r] = "upstream",
           \/ Goto(r, "succeeded") /\ current[r] \in served'
           \/ Goto(r, "rejected"),
           served \subseteq served', served' \subseteq served \union {current[r]},
           unsupported' \subseteq Accounts \X Models,
           UNCHANGED <<row, accounts, manual, claimFailed, context, tried, current>>
    PROVE  BindingInv'
<1>0. current[r] \in Accounts
  BY DEF BindingInv, RequestInv, AttemptHasAccount, Upstream, TypeOK
<1>1. TypeOK'
  BY <1>0 DEF BindingInv, Goto, context, TypeOK, Steps
<1>2. RebindFollowsSuccess'
  BY DEF BindingInv, RebindFollowsSuccess
<1>3. ASSUME NEW s \in Requests, s # r PROVE RequestInv(s)'
  BY <1>1, <1>3, OthersUnaffected DEF BindingInv, Goto, context, TypeOK
<1>4. RequestInv(r)'
  BY DEF BindingInv, Goto, context, TypeOK,
         RequestInv, HeadIsCandidate, GivenUpForGood, NothingTried,
         AttemptHasAccount, Undisturbed, ColdUntilClaim, SeesFirstBinding, PastClaim,
         Upstream, allows_initial_binding_create
<1> QED
  BY <1>1, <1>2, <1>3, <1>4 DEF BindingInv

(* The row a terminal response leaves: unchanged, or a later epoch for an  *)
(* account that served, or - only after a deletion - a fresh binding.      *)
LEMMA RecordedRowCases ==
    ASSUME BindingInv, NEW r \in Requests, pc[r] \in {"succeeded", "rejected"}
    PROVE  \/ RecordedRow(r) = row
           \/ /\ RecordedRow(r) \in Row
              /\ RecordedRow(r).epoch > 1
              /\ RecordedRow(r).account \in served
           \/ /\ ~Undisturbed
              /\ RecordedRow(r) \in Row
              /\ RecordedRow(r).epoch = 1
<1>1. current[r] \in Accounts /\ (pc[r] = "succeeded" => current[r] \in served)
  BY DEF BindingInv, RequestInv, AttemptHasAccount, Upstream, TypeOK
<1>2. binding[r] \in Row \union {NoRow}
  BY DEF BindingInv, TypeOK
<1>3. CASE binding[r] # NoRow
  BY <1>1, <1>2, <1>3 DEF RecordedRow, Row
<1>4. CASE binding[r] = NoRow
  <2>1. allows_initial_binding_create(r) => ~Undisturbed
    BY <1>4 DEF BindingInv, RequestInv, SeesFirstBinding, PastClaim
  <2> QED
    BY <2>1, <1>1, <1>4 DEF RecordedRow, Row
<1> QED
  BY <1>3, <1>4

LEMMA RecordKeepsInv ==
    ASSUME BindingInv, NEW r \in Requests, record_terminal_response(r)
    PROVE  BindingInv'
<1>0. \/ row' = row
      \/ row' \in Row /\ row'.epoch > 1 /\ row'.account \in served
      \/ ~Undisturbed /\ row' \in Row /\ row'.epoch = 1
  BY RecordedRowCases DEF record_terminal_response
<1>1. TypeOK'
  BY <1>0 DEF BindingInv, record_terminal_response, Goto, context, TypeOK, Steps
<1>2. RebindFollowsSuccess'
  BY <1>0 DEF BindingInv, record_terminal_response, RebindFollowsSuccess
<1>3. ASSUME NEW s \in Requests, s # r PROVE RequestInv(s)'
  <2>1. CASE row' = row
    BY <2>1, <1>1, <1>3, OthersUnaffected
       DEF BindingInv, record_terminal_response, Goto, context, TypeOK
  <2>2. CASE row' # row
    BY <2>2, <1>0, <1>1, <1>3, OthersSeeNewRow
       DEF BindingInv, record_terminal_response, Goto, context, TypeOK
  <2> QED
    BY <2>1, <2>2
<1>4. RequestInv(r)'
  <2>1. Undisturbed => SeesFirstBinding(r)'
    BY <1>0 DEF BindingInv, record_terminal_response, Goto, context, TypeOK,
                RequestInv, SeesFirstBinding, PastClaim, Row
  <2> QED
    BY <2>1 DEF BindingInv, record_terminal_response, Goto, context, TypeOK,
         RequestInv, HeadIsCandidate, GivenUpForGood, NothingTried,
         AttemptHasAccount, Undisturbed, ColdUntilClaim, SeesFirstBinding, PastClaim,
         Upstream, allows_initial_binding_create
<1> QED
  BY <1>1, <1>2, <1>3, <1>4 DEF BindingInv

(* Deleting an account voids the part of the invariant that is about an    *)
(* undisturbed cold start, and nothing else.                               *)
LEMMA DeleteKeepsInv ==
    ASSUME BindingInv, NEW a \in Accounts, delete_account(a)
    PROVE  BindingInv'
<1>1. TypeOK'
  BY DEF BindingInv, delete_account, context, progress, TypeOK
<1>2. RebindFollowsSuccess'
  BY DEF BindingInv, delete_account, RebindFollowsSuccess
<1>3. accounts' # Accounts
  BY DEF delete_account
<1>4. ASSUME NEW r \in Requests PROVE RequestInv(r)'
  BY <1>3 DEF BindingInv, delete_account, context, progress,
         RequestInv, HeadIsCandidate, GivenUpForGood, NothingTried,
         AttemptHasAccount, Undisturbed, ColdUntilClaim, SeesFirstBinding, PastClaim,
         Upstream, allows_initial_binding_create
<1> QED
  BY <1>1, <1>2, <1>4 DEF BindingInv

-----------------------------------------------------------------------------
(* The inductive step. *)
LEMMA StepKeepsInv == BindingInv /\ [Next]_vars => BindingInv'
<1> SUFFICES ASSUME BindingInv, [Next]_vars PROVE BindingInv'
  OBVIOUS
<1>0. TypeOK
  BY DEF BindingInv
<1>1. ASSUME NEW r \in Requests, RequestStep(r) PROVE BindingInv'
  <2>1. CASE load_conversation_binding(r)
    BY <2>1, LoadKeepsInv
  <2>2. CASE prepare_gateway_candidates(r)
    BY <2>2, FilterKeepsInv
  <2>3. CASE prepare_conversation_routing(r)
    BY <2>3, PrepareKeepsInv
  <2>4. CASE apply_candidate_rotation(r)
    BY <2>4, RotateKeepsInv
  <2>5. CASE claim_insert(r)
    BY <2>5, ClaimKeepsInv
  <2>6. CASE claim_read_back(r)
    BY <2>6, ReadBackKeepsInv
  <2>7. CASE SkipCandidate(r)
    <3>1. PICK a \in NextCandidates(r) : UseUp(r, a)
      BY <2>7 DEF SkipCandidate
    <3> QED
      BY <3>1, <2>7, <1>0, NextIsCandidate, UseUpKeepsInv
         DEF SkipCandidate, shared, TypeOK
  <2>8. CASE Attempt(r)
    BY <2>8, AttemptKeepsInv
  <2>9. CASE Succeed(r)
    BY <2>9, <1>0, AnswerKeepsInv DEF Succeed, TypeOK
  <2>10. CASE Reject(r)
    BY <2>10, <1>0, AnswerKeepsInv DEF Reject, shared, TypeOK
  <2>11. CASE Failover(r)
    <3>1. current[r] \in candidates[r]
      BY <2>11, <1>0 DEF Failover, BindingInv, RequestInv, AttemptHasAccount, Upstream, TypeOK
    <3> QED
      BY <3>1, <2>11, <1>0, UseUpKeepsInv DEF Failover, shared, TypeOK
  <2>12. CASE ModelUnsupported(r)
    <3>1. current[r] \in candidates[r]
      BY <2>12, <1>0
         DEF ModelUnsupported, BindingInv, RequestInv, AttemptHasAccount, Upstream, TypeOK
    <3>2. unsupported' \subseteq Accounts \X Models
      BY <3>1, <2>12, <1>0 DEF ModelUnsupported, TypeOK
    <3>3. CASE Untried(r) = {current[r]}
      BY <3>2, <3>3, <2>12, AnswerKeepsInv DEF ModelUnsupported
    <3>4. CASE Untried(r) # {current[r]}
      BY <3>1, <3>2, <3>4, <2>12, UseUpKeepsInv DEF ModelUnsupported
    <3> QED
      BY <3>3, <3>4
  <2>13. CASE record_terminal_response(r)
    BY <2>13, RecordKeepsInv
  <2>14. CASE clear_model_rejection_after_success(r)
    <3>1. TypeOK'
      BY <1>0, <2>14 DEF clear_model_rejection_after_success, context, progress, TypeOK
    <3>2. ASSUME NEW s \in Requests PROVE RequestInv(s)'
      BY <3>1, <1>0, <2>14, OthersUnaffected
         DEF BindingInv, clear_model_rejection_after_success, context, progress
    <3> QED
      BY <3>1, <3>2, <2>14
         DEF BindingInv, clear_model_rejection_after_success, RebindFollowsSuccess
  <2>15. CASE claim_error(r)
    BY <2>15, ClaimErrorKeepsInv
  <2>16. CASE EndUnrecorded(r)
    BY <2>16, EndKeepsInv
  <2> QED
    BY <1>1, <2>1, <2>2, <2>3, <2>4, <2>5, <2>6, <2>7, <2>8, <2>9, <2>10,
       <2>11, <2>12, <2>13, <2>14, <2>15, <2>16 DEF RequestStep
<1>2. ASSUME NEW a \in Accounts, delete_account(a) PROVE BindingInv'
  BY <1>2, DeleteKeepsInv
<1>3. ASSUME NEW a \in Accounts, set_manual_preferred_account(a) PROVE BindingInv'
  <2>1. TypeOK'
    BY <1>0, <1>3 DEF set_manual_preferred_account, context, progress, TypeOK
  <2>2. ASSUME NEW r \in Requests PROVE RequestInv(r)'
    BY <2>1, <1>0, <1>3, OthersUnaffected
       DEF BindingInv, set_manual_preferred_account, context, progress
  <2> QED
    BY <2>1, <2>2, <1>3 DEF BindingInv, set_manual_preferred_account, RebindFollowsSuccess
<1>6. CASE clear_manual_preferred_account
  <2>1. TypeOK'
    BY <1>0, <1>6 DEF clear_manual_preferred_account, context, progress, TypeOK
  <2>2. ASSUME NEW r \in Requests PROVE RequestInv(r)'
    BY <2>1, <1>0, <1>6, OthersUnaffected
       DEF BindingInv, clear_manual_preferred_account, context, progress
  <2> QED
    BY <2>1, <2>2, <1>6 DEF BindingInv, clear_manual_preferred_account, RebindFollowsSuccess
<1>4. CASE ForgetUnsupported
  <2>1. TypeOK'
    BY <1>0, <1>4 DEF ForgetUnsupported, context, progress, TypeOK
  <2>2. ASSUME NEW r \in Requests PROVE RequestInv(r)'
    BY <2>1, <1>0, <1>4, OthersUnaffected
       DEF BindingInv, ForgetUnsupported, context, progress
  <2> QED
    BY <2>1, <2>2, <1>4 DEF BindingInv, ForgetUnsupported, RebindFollowsSuccess
<1>5. CASE UNCHANGED vars
  <2>1. TypeOK'
    BY <1>0, <1>5 DEF vars, shared, context, progress, TypeOK
  <2>2. ASSUME NEW r \in Requests PROVE RequestInv(r)'
    BY <2>1, <1>0, <1>5, OthersUnaffected
       DEF BindingInv, vars, shared, context, progress
  <2> QED
    BY <2>1, <2>2, <1>5 DEF BindingInv, vars, shared, RebindFollowsSuccess
<1> QED
  BY <1>1, <1>2, <1>3, <1>4, <1>5, <1>6 DEF Next

LEMMA BindingInvariant == Spec => []BindingInv
<1>1. Init => BindingInv
  <2> SUFFICES ASSUME Init PROVE BindingInv
    OBVIOUS
  <2>0. row \in Row \union {NoRow}
    <3>1. row \in {NoRow} \union [account : Accounts, epoch : {1}]
      BY DEF Init
    <3> QED
      BY <3>1, 1 \in Nat \ {0} DEF Row
  <2>a. claimFailed \in BOOLEAN
    BY DEF Init
  <2>1. TypeOK
    BY <2>0, <2>a DEF Init, TypeOK, Steps
  <2>2. RebindFollowsSuccess
    BY DEF Init, RebindFollowsSuccess
  <2>3. ASSUME NEW r \in Requests PROVE RequestInv(r)
    BY DEF Init, RequestInv, HeadIsCandidate, GivenUpForGood, NothingTried,
           AttemptHasAccount, Undisturbed, ColdUntilClaim, SeesFirstBinding, PastClaim,
           Upstream, allows_initial_binding_create
  <2> QED
    BY <2>1, <2>2, <2>3 DEF BindingInv
<1> QED
  BY <1>1, StepKeepsInv, PTL DEF Spec

(* The routing state of every request stays well formed; in particular a   *)
(* request only ever talks to one of its own candidates.                   *)
THEOREM TypeCorrect == Spec => []TypeOK
BY BindingInvariant, PTL DEF BindingInv

(* A conversation moves to another account only after that account has     *)
(* answered it with success.                                               *)
THEOREM RebindsFollowSuccess == Spec => []RebindFollowsSuccess
BY BindingInvariant, PTL DEF BindingInv

(* A request that had to give up its binding for the model it asks for,    *)
(* and that may not create one, never rewrites the row, whichever account  *)
(* answers it and whenever the rejection was learned.                      *)
THEOREM GivenUpBindingsStay == Spec => GivenUpBindingStays
<1>1. BindingInv /\ [Next]_vars =>
        [\A r \in Requests :
            unfit[r] /\ ~allows_initial_binding_create(r) /\ record_terminal_response(r)
              => row' = row]_vars
  <2> SUFFICES ASSUME BindingInv, NEW r \in Requests, unfit[r],
                      ~allows_initial_binding_create(r), record_terminal_response(r)
               PROVE  row' = row
    OBVIOUS
  <2>1. binding[r] = NoRow
    BY DEF BindingInv, RequestInv, GivenUpForGood
  <2>2. RecordedRow(r) = row
    BY <2>1 DEF RecordedRow
  <2> QED
    BY <2>2 DEF record_terminal_response
<1> QED
  BY <1>1, BindingInvariant, PTL DEF Spec, GivenUpBindingStays

(* Any number of concurrent cold starts converge on the first claim. *)
THEOREM ColdStartsAlwaysConverge == Spec => []ColdStartsConverge
<1>1. BindingInv => ColdStartsConverge
  <2> SUFFICES ASSUME BindingInv, Undisturbed, row # NoRow,
                      NEW r \in Requests, PastClaim(r), cold[r],
                      allows_initial_binding_create(r),
                      row.epoch = 1, row.account \in candidates[r]
               PROVE  head[r] = row.account
    BY DEF ColdStartsConverge
  <2>1. RequestInv(r)
    BY DEF BindingInv
  <2>2. binding[r] # NoRow /\ binding[r] = row
    BY <2>1 DEF RequestInv, SeesFirstBinding
  <2> QED
    BY <2>1, <2>2 DEF RequestInv, ColdUntilClaim
<1> QED
  BY <1>1, BindingInvariant, PTL

(* An established binding is never overwritten blindly by a first-epoch    *)
(* one while no account is deleted.                                        *)
THEOREM NeverBlindlyCreated == Spec => NoBlindCreate
<1> DEFINE A == row # NoRow /\ row' # NoRow /\ row'.account # row.account /\ row'.epoch = 1
                  => ~Undisturbed
<1>1. BindingInv /\ [Next]_vars => [A]_vars
  <2> SUFFICES ASSUME BindingInv, Next, row # NoRow, row' # NoRow,
                      row'.account # row.account, row'.epoch = 1
               PROVE  ~Undisturbed
    OBVIOUS
  <2>1. ASSUME NEW r \in Requests, RequestStep(r) PROVE ~Undisturbed
    <3>1. CASE record_terminal_response(r)
      BY <3>1, RecordedRowCases DEF record_terminal_response
    <3>2. CASE ~record_terminal_response(r)
      <4>1. row' = row
        BY <3>2, <2>1
           DEF RequestStep, load_conversation_binding, prepare_gateway_candidates,
               prepare_conversation_routing, apply_candidate_rotation,
               claim_insert, ClaimedRow, claim_error, EndUnrecorded, claim_read_back, SkipCandidate, Attempt,
               Succeed, Reject, Failover, ModelUnsupported,
               clear_model_rejection_after_success, shared
      <4> QED
        BY <4>1
    <3> QED
      BY <3>1, <3>2
  <2> QED
    BY <2>1 DEF Next, delete_account, set_manual_preferred_account,
                clear_manual_preferred_account, ForgetUnsupported
<1> QED
  BY <1>1, BindingInvariant, PTL DEF Spec, NoBlindCreate
=============================================================================
