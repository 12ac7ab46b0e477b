---------------------------- MODULE ResetCredit ----------------------------
(***************************************************************************)
(* Redeeming a rate-limit reset credit (usage/usage_reset_credits.rs, the  *)
(* durable operations of core/src/storage/reset_credit_operations.rs, and  *)
(* the HTTP call of usage/usage_http.rs).                                  *)
(*                                                                         *)
(* A credit is worth money and the provider's POST cannot be undone, so    *)
(* every redemption is a durable operation: claimed before anything is     *)
(* sent, with the redeem request id that every replay reuses, and finished *)
(* in the transaction that gives the account's guard back.  Several        *)
(* processes share the database; each has its own lock and its own         *)
(* interrupted flag per account.  A call is cancelled at any of its        *)
(* awaits, a process dies at any step, a write to the database may fail,   *)
(* and a request whose answer was lost may still reach the provider.       *)
(*                                                                         *)
(* The provider is modelled from the code's use of it: a redeem request id *)
(* is an idempotency key, so what it decided for an id it decides again.   *)
(***************************************************************************)
CONSTANTS
    Accounts, Operations,
    Redeems,            \* redeem request ids, never drawn twice (UUID v4)
    Processes, Callers,
    Home,               \* caller -> the process it runs in
    LegacyOps,          \* operations that may be older than migration 136
    NoOp, NoGuard, NoId, Idle

Status == {"pending", "completed", "failed"}

Row == [account : Accounts, redeem : Redeems, status : Status]

(* At the provider, waiting for the first or the second answer. *)
Sent == {"sent", "resent"}

(* Past a successful claim. *)
Working == {"claimed", "fetching", "sending", "refreshing", "failing",
            "completing", "enriching"} \union Sent

(* One run of consume_reset_credit_async: where it is, its arguments, and  *)
(* its redeem_request_id and is_resume once it has claimed.                *)
Run == [at : {"locking"} \union Working, op : Operations, account : Accounts,
        redeem : Redeems \union {NoId}, resume : BOOLEAN]

ASSUME ResetCreditAssumption ==
    /\ Home \in [Callers -> Processes]
    /\ LegacyOps \subseteq Operations
    /\ NoOp \notin Row /\ NoGuard \notin Operations
    /\ NoId \notin Redeems /\ Idle \notin Run

VARIABLES
    ops,                \* reset_credit_operations
    guard,              \* reset_credit_operation_accounts: account -> operation
    interrupted,        \* process -> account -> ResetCreditState.interrupted
    call,               \* caller -> its run, or Idle
    outcome,            \* provider: redeem request id -> what it decided
    late,               \* ids with a request that may still arrive, unanswered
    resumed,            \* history: operations that were ever resumed
    legacy              \* history: operations older than the guard table

db == <<ops, guard>>
provider == <<outcome, late>>
history == <<resumed, legacy>>
vars == <<db, interrupted, call, provider, history>>

TypeOK ==
    /\ ops \in [Operations -> Row \union {NoOp}]
    /\ guard \in [Accounts -> Operations \union {NoGuard}]
    /\ interrupted \in [Processes -> [Accounts -> BOOLEAN]]
    /\ call \in [Callers -> Run \union {Idle}]
    /\ outcome \in [Redeems -> {"unknown", "charged", "refused"}]
    /\ late \subseteq Redeems
    /\ resumed \subseteq Operations /\ legacy \subseteq LegacyOps
    /\ \A a \in Accounts : guard[a] # NoGuard =>
         ops[guard[a]] # NoOp /\ ops[guard[a]].account = a

Pending(o) == ops[o] # NoOp /\ ops[o].status = "pending"

(* Migration 136: an account with pending operations is guarded by one of  *)
(* them, and what those have sent may still be on its way.                 *)
Init ==
    /\ ops \in [Operations -> Row \union {NoOp}]
    /\ \A o \in Operations : ops[o] # NoOp => o \in LegacyOps /\ Pending(o)
    /\ \A o1, o2 \in Operations :
         ops[o1] # NoOp /\ ops[o2] # NoOp /\ ops[o1].redeem = ops[o2].redeem => o1 = o2
    /\ guard \in [Accounts -> Operations \union {NoGuard}]
    /\ \A a \in Accounts :
         IF guard[a] = NoGuard
         THEN \A o \in Operations : Pending(o) => ops[o].account # a
         ELSE Pending(guard[a]) /\ ops[guard[a]].account = a
    /\ interrupted = [p \in Processes |-> [a \in Accounts |-> FALSE]]
    /\ call = [c \in Callers |-> Idle]
    /\ outcome = [r \in Redeems |-> "unknown"]
    /\ late = {ops[o].redeem : o \in {x \in Operations : ops[x] # NoOp}}
    /\ resumed = {}
    /\ legacy = {o \in Operations : ops[o] # NoOp}

---------------------------------------------------------------------------
(* Storage: each of these is one transaction.                              *)

(* The pending operation an account's guard protects; a guard that         *)
(* protects nothing pending is stale and is dropped where this is called.  *)
pending_operation_for_guard(a) ==
    IF guard[a] # NoGuard /\ Pending(guard[a]) /\ ops[guard[a]].account = a
    THEN guard[a] ELSE NoGuard

(* Created: a new operation of an account without a pending one. *)
Claimable(o, a) ==
    ops[o] = NoOp /\ pending_operation_for_guard(a) = NoGuard

(* Mutant: a replay is let in past the guard of another operation. *)
Replayable_unguarded(o, a) == Pending(o) /\ ops[o].account = a

(* Existing and pending: a replay, unless another one guards the account. *)
Replayable(o, a) ==
    /\ Pending(o) /\ ops[o].account = a
    /\ pending_operation_for_guard(a) \in {NoGuard, o}

Conflicting(o, a) == ops[o] # NoOp /\ ops[o].account # a

(* Mutant: the update is not restricted to pending rows. *)
Finishable_any_status(o, a) == ops[o] # NoOp /\ ops[o].account = a

Finishable(o, a) == Pending(o) /\ ops[o].account = a

(* finish_reset_credit_operation: the row and its guard in one             *)
(* transaction.  A call only finishes an operation it has claimed, so the  *)
(* answers NotFound and AccountConflict do not arise.                      *)
finish(o, a, s) ==
    /\ ops' = IF Finishable(o, a) THEN [ops EXCEPT ![o].status = s] ELSE ops
    /\ guard' = [guard EXCEPT ![a] = IF @ = o THEN NoGuard ELSE @]

---------------------------------------------------------------------------
(* The steps of consume_reset_credit_async.                                *)

At(c, labels) == call[c] # Idle /\ call[c].at \in labels

goto(c, l) == call' = [call EXCEPT ![c].at = l]

return(c) == call' = [call EXCEPT ![c] = Idle]

set_interrupted(c, b) ==
    interrupted' = [interrupted EXCEPT ![Home[c]][call[c].account] = b]

(* A call arrives, for any account and any operation id, new or old. *)
Call(c, o, a) ==
    /\ call[c] = Idle
    /\ call' = [call EXCEPT ![c] = [at |-> "locking", op |-> o, account |-> a,
                                   redeem |-> NoId, resume |-> FALSE]]
    /\ UNCHANGED <<db, interrupted, provider, history>>

(* The account lock of this process is free. *)
LockFree(c) ==
    \A d \in Callers \ {c} :
        At(d, Working) /\ Home[d] = Home[c] => call[d].account # call[c].account

DrawnBefore(r) == \E o \in Operations : ops[o] # NoOp /\ ops[o].redeem = r

(* Mutant: a replay is sent under the id drawn for this call. *)
ReplayId_redrawn(o, candidate) == candidate

(* The redeem request id of a replay is the stored one. *)
ReplayId(o, candidate) == ops[o].redeem

claim(c, id, replay) ==
    call' = [call EXCEPT ![c].at = "claimed", ![c].redeem = id, ![c].resume = replay]

(* Mutant: the guard is committed before the row is inserted. *)
claim_created_guard_first(c, candidate) ==
    /\ At(c, {"locking"}) /\ LockFree(c)
    /\ Claimable(call[c].op, call[c].account)
    /\ guard' = [guard EXCEPT ![call[c].account] = call[c].op]
    /\ return(c)
    /\ UNCHANGED <<ops, interrupted, provider, history>>

claim_created(c, candidate) ==
    /\ At(c, {"locking"}) /\ LockFree(c)
    /\ Claimable(call[c].op, call[c].account)
    /\ ops' = [ops EXCEPT ![call[c].op] =
                 [account |-> call[c].account, redeem |-> candidate, status |-> "pending"]]
    /\ guard' = [guard EXCEPT ![call[c].account] = call[c].op]
    /\ claim(c, candidate, FALSE)
    /\ UNCHANGED <<interrupted, provider, history>>

claim_existing(c, candidate) ==
    /\ At(c, {"locking"}) /\ LockFree(c)
    /\ Replayable(call[c].op, call[c].account)
    /\ guard' = [guard EXCEPT ![call[c].account] = call[c].op]
    /\ claim(c, ReplayId(call[c].op, candidate), TRUE)
    /\ resumed' = resumed \union {call[c].op}
    /\ UNCHANGED <<ops, interrupted, provider, legacy>>

claim_reset_credit_operation(c) ==
    \E candidate \in {r \in Redeems : ~DrawnBefore(r)} :
        claim_created(c, candidate) \/ claim_existing(c, candidate)

(* Already finished, guarded by another operation, another account's, or   *)
(* the claim itself failed: the call returns what it found.                *)
ReturnFromClaim(c) ==
    /\ At(c, {"locking"}) /\ LockFree(c)
    /\ \/ UNCHANGED guard
       \/ /\ ~Claimable(call[c].op, call[c].account) /\ ~Replayable(call[c].op, call[c].account)
          /\ ~Conflicting(call[c].op, call[c].account)
          /\ guard' = [guard EXCEPT ![call[c].account] =
                         pending_operation_for_guard(call[c].account)]
    /\ return(c)
    /\ UNCHANGED <<ops, interrupted, provider, history>>

(* A new operation is refused while an earlier redemption of this process  *)
(* was cut off; otherwise load_token succeeds or fails.                    *)
load_token(c) ==
    /\ At(c, {"claimed"})
    /\ \/ goto(c, "failing")
       \/ /\ call[c].resume \/ ~interrupted[Home[c]][call[c].account]
          /\ goto(c, IF call[c].resume THEN "sending" ELSE "fetching")
    /\ UNCHANGED <<db, interrupted, provider, history>>

(* Only a new operation looks at the balance first. *)
fetch_snapshot_with_retry(c) ==
    /\ At(c, {"fetching"})
    /\ goto(c, "sending") \/ goto(c, "failing")
    /\ UNCHANGED <<db, interrupted, provider, history>>

consume_for_account(c) ==
    /\ At(c, {"sending"})
    /\ set_interrupted(c, TRUE)
    /\ goto(c, "sent")
    /\ UNCHANGED <<db, provider, history>>

---------------------------------------------------------------------------
(* The provider's answers.                                                 *)

Decide(r, d) ==
    /\ outcome[r] \in {"unknown", d}
    /\ outcome' = [outcome EXCEPT ![r] = d]

Accepted(c) ==
    /\ At(c, Sent)
    /\ Decide(call[c].redeem, "charged")
    /\ set_interrupted(c, FALSE)
    /\ goto(c, "completing")
    /\ UNCHANGED <<db, late, history>>

(* A 4xx that is neither 401 nor ambiguous. *)
Refused(c) ==
    /\ At(c, Sent)
    /\ Decide(call[c].redeem, "refused")
    /\ set_interrupted(c, FALSE)
    /\ goto(c, "failing")
    /\ UNCHANGED <<db, late, history>>

(* 401: this request was not looked at.  The second one is final. *)
Unauthorized(c) ==
    /\ \/ At(c, {"sent"}) /\ goto(c, "refreshing") /\ UNCHANGED interrupted
       \/ At(c, {"resent"}) /\ goto(c, "failing") /\ set_interrupted(c, FALSE)
    /\ UNCHANGED <<db, provider, history>>

refresh_token_for_reset(c) ==
    /\ At(c, {"refreshing"})
    /\ \/ goto(c, "resent") /\ UNCHANGED interrupted
       \/ goto(c, "failing") /\ set_interrupted(c, FALSE)
    /\ UNCHANGED <<db, provider, history>>

(* What becomes of a request nobody waits for any more: it was lost, or it *)
(* may still arrive.                                                       *)
Abandon(r) == late' = late \/ late' = late \union {r}

(* Mutant: every error of the POST fails the operation. *)
is_ambiguous_never(c) ==
    /\ At(c, Sent)
    /\ Abandon(call[c].redeem)
    /\ set_interrupted(c, FALSE)
    /\ goto(c, "failing")
    /\ UNCHANGED <<db, outcome, history>>

(* No answer, 408, 429 or 5xx: the operation stays pending. *)
is_ambiguous_non_idempotent(c) ==
    /\ At(c, Sent)
    /\ Abandon(call[c].redeem)
    /\ set_interrupted(c, FALSE)
    /\ return(c)
    /\ UNCHANGED <<db, outcome, history>>

(* A request whose answer nobody will see reaches the provider. *)
Arrive(r) ==
    /\ r \in late
    /\ outcome[r] = "unknown"
    /\ Decide(r, "charged") \/ Decide(r, "refused")
    /\ UNCHANGED <<db, interrupted, call, late, history>>

---------------------------------------------------------------------------
(* The end of the call.                                                    *)

fail_operation(c) ==
    /\ At(c, {"failing"})
    /\ finish(call[c].op, call[c].account, "failed") \/ UNCHANGED db
    /\ return(c)
    /\ UNCHANGED <<interrupted, provider, history>>

(* A finished operation is completed for good when it was still pending or *)
(* another call has completed it; anything else interrupts the account.    *)
complete_operation(c) ==
    /\ At(c, {"completing"})
    /\ \/ /\ finish(call[c].op, call[c].account, "completed")
          /\ IF ops'[call[c].op].status = "completed"
             THEN goto(c, "enriching") /\ UNCHANGED interrupted
             ELSE return(c) /\ set_interrupted(c, TRUE)
       \/ return(c) /\ set_interrupted(c, TRUE) /\ UNCHANGED db
    /\ UNCHANGED <<provider, history>>

(* The usage refresh, and the result that is saved with it if it can be. *)
update_completed(c) ==
    /\ At(c, {"enriching"})
    /\ \/ guard' = [guard EXCEPT ![call[c].account] = IF @ = call[c].op THEN NoGuard ELSE @]
       \/ UNCHANGED guard
    /\ return(c)
    /\ UNCHANGED <<ops, interrupted, provider, history>>

(* The caller goes away while the call awaits something. *)
Cancel(c) ==
    /\ At(c, {"locking", "fetching", "refreshing", "enriching"} \union Sent)
    /\ IF At(c, Sent) THEN Abandon(call[c].redeem) ELSE UNCHANGED late
    /\ return(c)
    /\ UNCHANGED <<db, interrupted, outcome, history>>

(* The process stops and is started again. *)
Crash(p) ==
    LET here == {c \in Callers : Home[c] = p}
    IN  /\ \E lost \in SUBSET {call[c].redeem : c \in {d \in here : At(d, Sent)}} :
             late' = late \union lost
        /\ call' = [c \in Callers |-> IF c \in here THEN Idle ELSE call[c]]
        /\ interrupted' = [interrupted EXCEPT ![p] = [a \in Accounts |-> FALSE]]
        /\ UNCHANGED <<db, outcome, history>>

Step(c) ==
    \/ \E o \in Operations, a \in Accounts : Call(c, o, a)
    \/ claim_reset_credit_operation(c)
    \/ ReturnFromClaim(c)
    \/ load_token(c)
    \/ fetch_snapshot_with_retry(c)
    \/ consume_for_account(c)
    \/ Accepted(c)
    \/ Refused(c)
    \/ Unauthorized(c)
    \/ refresh_token_for_reset(c)
    \/ is_ambiguous_non_idempotent(c)
    \/ fail_operation(c)
    \/ complete_operation(c)
    \/ update_completed(c)
    \/ Cancel(c)

Next ==
    \/ \E c \in Callers : Step(c)
    \/ \E r \in Redeems : Arrive(r)
    \/ \E p \in Processes : Crash(p)

Spec == Init /\ [][Next]_vars

---------------------------------------------------------------------------
(* Properties.                                                             *)

Charged(o) == ops[o] # NoOp /\ outcome[ops[o].redeem] = "charged"

(* At most one operation of an account is being redeemed, over all         *)
(* processes: two calls that have claimed pending operations of one        *)
(* account work on the same operation (the guard of claim_reset_credit_-   *)
(* operation, also for rows that are older than the guard table).          *)
OneRedemptionPerAccount ==
    \A c, d \in Callers :
        /\ At(c, Working) /\ At(d, Working) /\ call[c].account = call[d].account
        /\ Pending(call[c].op) /\ Pending(call[d].op)
        => call[c].op = call[d].op

(* Whoever is at the provider for an operation uses the redeem request id  *)
(* that is stored for it, so a replay can be told from a second redemption *)
(* ("the persisted redeem request id is authoritative"), and no two        *)
(* operations share one.                                                   *)
OneIdPerOperation ==
    /\ \A c \in Callers : At(c, Sent) => call[c].redeem = ops[call[c].op].redeem
    /\ \A r \in Redeems : outcome[r] = "charged" =>
         \E o \in Operations : /\ ops[o] # NoOp /\ ops[o].redeem = r
                               /\ \A x \in Operations \ {o} :
                                    ops[x] # NoOp => ops[x].redeem # r

(* An account has at most one pending operation, apart from the ones that  *)
(* are older than the guard table (claim_reset_credit_operation and the    *)
(* common transaction of finish_reset_credit_operation).                   *)
OnePendingPerAccount ==
    \A x, y \in Operations \ legacy :
        Pending(x) /\ Pending(y) /\ ops[x].account = ops[y].account => x = y

(* An operation that failed in its first call never cost a credit, not     *)
(* even through a request that arrives later: only answers that settle the *)
(* matter fail it (is_ambiguous_non_idempotent, consume_with_retry).       *)
FirstTryFailureIsFree ==
    \A o \in Operations \ resumed :
        ops[o] # NoOp /\ ops[o].status = "failed" =>
            ~Charged(o) /\ ops[o].redeem \notin late

(* The ledger as the database and the provider know it. *)
LedgerStatus == [o \in Operations |-> IF ops[o] = NoOp THEN "none" ELSE ops[o].status]

Spent == {o \in Operations : Charged(o)}

Ledger == INSTANCE CreditLedger WITH status <- LedgerStatus, spent <- Spent

(* Per operation: opened once, charged at most once, completed only if it  *)
(* was charged, and never revised (the whole of consume_reset_credit_async *)
(* with its transactions, as the abstract ledger sees it).                 *)
RefinesLedger == Ledger!Spec

(* "cancelled_redemption_cannot_start_another_charge": while it is open    *)
(* whether an operation was charged, no other operation of its account is. *)
NoChargeAfterUncertain ==
    \A x, y \in Operations :
        /\ Charged(x) /\ ops[x].status = "failed"
        /\ Charged(y) /\ ops[y].account = ops[x].account
        => x = y
=============================================================================
