------------------------- MODULE CandidateFailover -------------------------
(***************************************************************************)
(* One request and its list of candidate accounts (gateway/upstream/       *)
(* proxy_pipeline/candidate_executor.rs), many requests at a time.         *)
(*                                                                         *)
(* For each candidate in turn: stop if the client has gone or the deadline *)
(* has passed, skip the account if it is cooling or full, else count it in *)
(* flight and send.  A failover gets one retry on the same account, a 400  *)
(* that may be due to session state one retry without it; a response that  *)
(* survives the preflight is handed to a delivery task, which outlives the *)
(* loop and takes the in-flight guard with it.                             *)
(*                                                                         *)
(* Requests share the cooldown set, of which only CooldownService is       *)
(* assumed, and the in-flight counters.  Every counter access and every    *)
(* await is a step of its own.                                             *)
(***************************************************************************)
EXTENDS Integers, FiniteSets

CONSTANTS
    Accounts, Requests,
    MaxCandidates,      \* bound: length of a candidate list
    Limit,              \* account_max_inflight, 0 for none
    None                \* no guard held

ASSUME FailoverAssumption ==
    /\ MaxCandidates \in Nat \ {0}
    /\ Limit \in Nat
    /\ None \notin Accounts
    /\ IsFiniteSet(Requests)

VARIABLES
    cooling,            \* state of the cooldown service
    inflight,           \* ACCOUNT_INFLIGHT; a missing entry is 0
    order, count,       \* request -> its candidates, and how many
    anthropic,          \* request -> protocol_type is anthropic_native
    idx,                \* request -> current candidate
    pc,
    round,              \* request -> which attempt on this candidate
    calls,              \* request -> attempts sent to this candidate
    ok,                 \* request -> the response has a success status
    guard,              \* request -> account whose AccountInFlightGuard it owns
    cancelled,          \* request -> the client has gone
    expired,            \* request -> the total deadline has passed
    answers, logs,      \* request -> responses sent, final log records
    unrecorded          \* requests whose finalization found no storage

input == <<order, count, anthropic>>
attempt == <<round, calls, ok>>
outcome == <<answers, logs, unrecorded>>
vars == <<cooling, inflight, input, idx, pc, attempt, guard, cancelled, expired, outcome>>

Cooldown == INSTANCE CooldownService

Steps == {"head", "enter", "send", "upstream", "preflight", "deliver",
          "body", "finalize", "done"}

FieldTypes ==
    /\ cooling \subseteq Accounts
    /\ inflight \in [Accounts -> Nat]
    /\ order \in [Requests -> [1..MaxCandidates -> Accounts]]
    /\ count \in [Requests -> 1..MaxCandidates]
    /\ anthropic \in [Requests -> BOOLEAN]
    /\ idx \in [Requests -> 1..(MaxCandidates + 1)]
    /\ pc \in [Requests -> Steps]
    /\ round \in [Requests -> {"first", "retry", "stripped"}]
    /\ calls \in [Requests -> Nat]
    /\ ok \in [Requests -> BOOLEAN]
    /\ guard \in [Requests -> Accounts \union {None}]
    /\ cancelled \in [Requests -> BOOLEAN]
    /\ expired \in [Requests -> BOOLEAN]
    /\ answers \in [Requests -> Nat]
    /\ logs \in [Requests -> Nat]
    /\ unrecorded \subseteq Requests

(* Past the last candidate only the exhausted answer is left. *)
IndexInRange(r) ==
    /\ idx[r] <= count[r] + 1
    /\ idx[r] > count[r] => pc[r] \in {"head", "done"}

TypeOK == FieldTypes /\ \A r \in Requests : IndexInRange(r)

(* A candidate list has no account twice. *)
Init ==
    /\ Cooldown!Init
    /\ inflight = [a \in Accounts |-> 0]
    /\ order \in [Requests -> {f \in [1..MaxCandidates -> Accounts] :
                                \A i, j \in 1..MaxCandidates : f[i] = f[j] => i = j}]
    /\ count \in [Requests -> 1..MaxCandidates]
    /\ anthropic \in [Requests -> BOOLEAN]
    /\ idx = [r \in Requests |-> 1]
    /\ pc = [r \in Requests |-> "head"]
    /\ round = [r \in Requests |-> "first"]
    /\ calls = [r \in Requests |-> 0]
    /\ ok = [r \in Requests |-> FALSE]
    /\ guard = [r \in Requests |-> None]
    /\ cancelled = [r \in Requests |-> FALSE]
    /\ expired = [r \in Requests |-> FALSE]
    /\ answers = [r \in Requests |-> 0]
    /\ logs = [r \in Requests |-> 0]
    /\ unrecorded = {}

-----------------------------------------------------------------------------
Candidate(r) == order[r][idx[r]]

HasMore(r) == idx[r] < count[r]

AtCandidate_unbounded(r) == pc[r] = "head"

AtCandidate(r) == pc[r] = "head" /\ idx[r] <= count[r]

Goto(r, step) == pc' = [pc EXCEPT ![r] = step]

(* request.respond fails silently when the client has gone. *)
Answer(r) == answers' = [answers EXCEPT ![r] = IF cancelled[r] THEN @ ELSE @ + 1]

log_final_result(r) == logs' = [logs EXCEPT ![r] = @ + 1]

acquire_account_inflight(r) ==
    /\ inflight' = [inflight EXCEPT ![Candidate(r)] = @ + 1]
    /\ guard' = [guard EXCEPT ![r] = Candidate(r)]

(* AccountInFlightGuard::drop: never below zero, the entry goes with it. *)
DropGuard_moved(r) == UNCHANGED inflight /\ guard' = [guard EXCEPT ![r] = None]

DropGuard(r) ==
    /\ inflight' = [a \in Accounts |->
                      IF a = guard[r] /\ inflight[a] > 0 THEN inflight[a] - 1 ELSE inflight[a]]
    /\ guard' = [guard EXCEPT ![r] = None]

NextCandidate(r) ==
    /\ idx' = [idx EXCEPT ![r] = @ + 1]
    /\ Goto(r, "head")
    /\ round' = [round EXCEPT ![r] = "first"]
    /\ calls' = [calls EXCEPT ![r] = 0]
    /\ ok' = [ok EXCEPT ![r] = FALSE]

(* An attempt may or may not mark its account. *)
MayMark(r) == UNCHANGED cooling \/ Cooldown!Mark(Candidate(r))

-----------------------------------------------------------------------------
(* The checks before a candidate. *)

(* finalize_cancelled_candidate; an attempt or a preflight that is under   *)
(* way is dropped first (with_response_cancellation), but an attempt that  *)
(* ended just before has given its verdict on the account.                 *)
finalize_cancelled_candidate(r) ==
    /\ AtCandidate(r) \/ pc[r] \in {"send", "upstream", "preflight"}
    /\ cancelled[r]
    /\ \/ UNCHANGED cooling
       \/ pc[r] = "upstream" /\ (MayMark(r) \/ Cooldown!Release(Candidate(r)))
    /\ log_final_result(r)
    /\ DropGuard(r)
    /\ Goto(r, "done")
    /\ UNCHANGED <<input, idx, attempt, cancelled, expired, answers, unrecorded>>

respond_total_timeout(r) ==
    /\ AtCandidate(r)
    /\ ~cancelled[r] /\ expired[r]
    /\ log_final_result(r)
    /\ Answer(r)
    /\ Goto(r, "done")
    /\ UNCHANGED <<cooling, inflight, input, idx, attempt, guard, cancelled, expired, unrecorded>>

(* candidate_skip_reason_for_proxy: the last candidate is skipped only for *)
(* a cooldown and only by the Anthropic protocol.                          *)
SkipsCandidate_any(r) ==
    \/ Candidate(r) \in cooling
    \/ Limit > 0 /\ inflight[Candidate(r)] >= Limit

SkipsCandidate(r) ==
    \/ Candidate(r) \in cooling /\ (HasMore(r) \/ anthropic[r])
    \/ Limit > 0 /\ inflight[Candidate(r)] >= Limit /\ HasMore(r)

should_skip_candidate(r) ==
    /\ AtCandidate(r)
    /\ ~cancelled[r] /\ ~expired[r]
    /\ IF SkipsCandidate(r)
       THEN NextCandidate(r)
       ELSE Goto(r, "enter") /\ UNCHANGED <<idx, attempt>>
    /\ UNCHANGED <<cooling, inflight, input, guard, cancelled, expired, outcome>>

Enter(r) ==
    /\ pc[r] = "enter"
    /\ acquire_account_inflight(r)
    /\ Goto(r, "send")
    /\ UNCHANGED <<cooling, input, idx, attempt, cancelled, expired, outcome>>

(* run_candidate_attempt: the cancellation is polled before the attempt, so *)
(* nothing is sent for a client that has gone.                              *)
run_candidate_attempt_unbiased(r) ==
    /\ pc[r] = "send"
    /\ calls' = [calls EXCEPT ![r] = @ + 1]
    /\ Goto(r, "upstream")
    /\ UNCHANGED <<cooling, inflight, input, idx, round, ok, guard, cancelled, expired, outcome>>

run_candidate_attempt(r) ==
    /\ pc[r] = "send"
    /\ ~cancelled[r]
    /\ calls' = [calls EXCEPT ![r] = @ + 1]
    /\ Goto(r, "upstream")
    /\ UNCHANGED <<cooling, inflight, input, idx, round, ok, guard, cancelled, expired, outcome>>

-----------------------------------------------------------------------------
(* The decisions an attempt comes back with. *)

Retry(r, which) ==
    /\ round' = [round EXCEPT ![r] = which]
    /\ Goto(r, "send")
    /\ UNCHANGED <<inflight, idx, calls, ok, guard>>

(* should_retry_same_account_after_failover *)
RetriesSameAccount_always(r) == round[r] # "stripped"

RetriesSameAccount(r) == round[r] = "first"

(* Failover is decided only while there are more candidates, and every     *)
(* path to it marks the account.  The first one retries the same account.  *)
CandidateFailover(r) ==
    /\ pc[r] = "upstream"
    /\ ~cancelled[r] /\ HasMore(r)
    /\ Cooldown!Mark(Candidate(r))
    /\ IF RetriesSameAccount(r)
       THEN Retry(r, "retry")
       ELSE DropGuard(r) /\ NextCandidate(r)
    /\ UNCHANGED <<input, cancelled, expired, outcome>>

(* Terminal error: an actionable one (usage limit, deactivation) moves on  *)
(* to the next candidate if there is one, except after the stripped retry. *)
TerminalFailover(r) ==
    /\ pc[r] = "upstream"
    /\ ~cancelled[r] /\ HasMore(r) /\ round[r] # "stripped"
    /\ MayMark(r)
    /\ DropGuard(r)
    /\ NextCandidate(r)
    /\ UNCHANGED <<input, cancelled, expired, outcome>>

respond_terminal_attempt_no_log(r) ==
    /\ pc[r] = "upstream"
    /\ ~cancelled[r]
    /\ MayMark(r)
    /\ DropGuard(r)
    /\ Goto(r, "done")
    /\ UNCHANGED <<input, idx, attempt, cancelled, expired, outcome>>

respond_terminal_attempt(r) ==
    /\ pc[r] = "upstream"
    /\ ~cancelled[r]
    /\ MayMark(r)
    /\ log_final_result(r)
    /\ Answer(r)
    /\ DropGuard(r)
    /\ Goto(r, "done")
    /\ UNCHANGED <<input, idx, attempt, cancelled, expired, unrecorded>>

(* RespondUpstream: a success releases the account, anything else may mark *)
(* it.                                                                     *)
RespondUpstream(r) ==
    /\ pc[r] = "upstream"
    /\ ~cancelled[r]
    /\ \E success \in BOOLEAN :
         /\ ok' = [ok EXCEPT ![r] = success]
         /\ IF success THEN Cooldown!Release(Candidate(r)) ELSE MayMark(r)
    /\ Goto(r, "preflight")
    /\ UNCHANGED <<inflight, input, idx, round, calls, guard, cancelled, expired, outcome>>

(* A 400 to a request with session state is retried once without it; later *)
(* candidates are sent without it anyway, except some of Anthropic.        *)
StrippedRetry(r) ==
    /\ pc[r] = "preflight"
    /\ ~cancelled[r] /\ ~ok[r]
    /\ round[r] # "stripped"
    /\ idx[r] = 1 \/ anthropic[r]
    /\ Retry(r, "stripped")
    /\ UNCHANGED <<cooling, input, cancelled, expired, outcome>>

(* preflight_stream_response: with more candidates every response without  *)
(* a success status, and a stream that fails before its first content, is  *)
(* passed over.                                                            *)
PreflightFailover(r) ==
    /\ pc[r] = "preflight"
    /\ ~cancelled[r] /\ HasMore(r)
    /\ MayMark(r)
    /\ DropGuard(r)
    /\ NextCandidate(r)
    /\ UNCHANGED <<input, cancelled, expired, outcome>>

(* finalize_upstream_response: the request and the guard move to a task.   *)
finalize_upstream_response(r) ==
    /\ pc[r] = "preflight"
    /\ ~cancelled[r]
    /\ ok[r] \/ ~HasMore(r)
    /\ Goto(r, "deliver")
    /\ UNCHANGED <<cooling, inflight, input, idx, attempt, guard, cancelled, expired, outcome>>

(* defer_upstream_response cannot start that task: it answers 503 itself,  *)
(* or the HTTP front answers for the dropped request.  The error ends the  *)
(* loop and nothing is logged.                                             *)
DeliveryNotStarted(r) ==
    /\ pc[r] = "preflight"
    /\ ~cancelled[r]
    /\ ok[r] \/ ~HasMore(r)
    /\ DropGuard(r)
    /\ Answer(r)
    /\ unrecorded' = unrecorded \union {r}
    /\ Goto(r, "done")
    /\ UNCHANGED <<cooling, input, idx, attempt, cancelled, expired, logs>>

-----------------------------------------------------------------------------
(* Delivery, and the end. *)

(* The head of the response.  If the body cannot be read even that far,    *)
(* the HTTP front answers for the dropped request (gateway_endpoint.rs).   *)
RespondHead(r) ==
    /\ pc[r] = "deliver"
    /\ Answer(r)
    /\ Goto(r, "body")
    /\ UNCHANGED <<cooling, inflight, input, idx, attempt, guard, cancelled, expired,
                   logs, unrecorded>>

EndDelivery(r) ==
    /\ pc[r] = "body"
    /\ DropGuard(r)
    /\ Goto(r, "finalize")
    /\ UNCHANGED <<cooling, input, idx, attempt, cancelled, expired, outcome>>

(* finalize_bridge_result marks the account of a failed stream, then logs. *)
(* Without a storage handle nothing is done at all, and a panic on the way *)
(* is only reported to the service's own log.                              *)
finalize_bridge_result(r) ==
    /\ pc[r] = "finalize"
    /\ MayMark(r)
    /\ \/ log_final_result(r) /\ UNCHANGED unrecorded
       \/ unrecorded' = unrecorded \union {r} /\ UNCHANGED logs
    /\ Goto(r, "done")
    /\ UNCHANGED <<inflight, input, idx, attempt, guard, cancelled, expired, answers>>

(* Exhausted: 503, or the aggregate fallback's own answer. *)
Exhausted(r) ==
    /\ pc[r] = "head"
    /\ idx[r] > count[r]
    /\ log_final_result(r)
    /\ Answer(r)
    /\ Goto(r, "done")
    /\ UNCHANGED <<cooling, inflight, input, idx, attempt, guard, cancelled, expired, unrecorded>>

-----------------------------------------------------------------------------
ClientGone(r) ==
    /\ pc[r] # "done" /\ ~cancelled[r]
    /\ cancelled' = [cancelled EXCEPT ![r] = TRUE]
    /\ UNCHANGED <<cooling, inflight, input, idx, pc, attempt, guard, expired, outcome>>

DeadlinePasses(r) ==
    /\ pc[r] # "done" /\ ~expired[r]
    /\ expired' = [expired EXCEPT ![r] = TRUE]
    /\ UNCHANGED <<cooling, inflight, input, idx, pc, attempt, guard, cancelled, outcome>>

CooldownsExpire ==
    /\ Cooldown!Expire
    /\ UNCHANGED <<inflight, input, idx, pc, attempt, guard, cancelled, expired, outcome>>

RequestStep(r) ==
    \/ finalize_cancelled_candidate(r) \/ respond_total_timeout(r)
    \/ should_skip_candidate(r) \/ Enter(r) \/ run_candidate_attempt(r)
    \/ CandidateFailover(r) \/ TerminalFailover(r) \/ respond_terminal_attempt(r)
    \/ RespondUpstream(r) \/ StrippedRetry(r)
    \/ PreflightFailover(r) \/ finalize_upstream_response(r) \/ DeliveryNotStarted(r)
    \/ RespondHead(r) \/ EndDelivery(r) \/ finalize_bridge_result(r)
    \/ Exhausted(r)

Next ==
    \/ \E r \in Requests : RequestStep(r) \/ ClientGone(r) \/ DeadlinePasses(r)
    \/ CooldownsExpire

Spec == Init /\ [][Next]_vars

-----------------------------------------------------------------------------
(***************************************************************************)
(* account_inflight_count is exact: it equals the guards alive, through    *)
(* retries, failover, cancellation and the hand-over to the delivery task. *)
(* A leaked count would have should_skip_candidate pass the account over   *)
(* for good, a lost one would let the limit be exceeded.                   *)
(***************************************************************************)
InflightExact ==
    \A a \in Accounts : inflight[a] = Cardinality({r \in Requests : guard[r] = a})

(***************************************************************************)
(* A request that has ended was answered exactly once, unless its client   *)
(* had gone, and logged exactly once, whichever way out of                 *)
(* execute_candidate_sequence it took.  Only the hand-over to the delivery *)
(* task can end without a record (the service's own log alone reports it): *)
(* the task cannot be started, the storage is unavailable at the           *)
(* finalization, or the finalization panics.                               *)
(***************************************************************************)
OneOutcome ==
    \A r \in Requests :
        /\ answers[r] <= 1 /\ logs[r] <= 1
        /\ pc[r] = "done" => answers[r] = 1 \/ cancelled[r]
        /\ pc[r] = "done" => logs[r] = 1 \/ r \in unrecorded

(***************************************************************************)
(* The "no available account" answer after the loop is for Anthropic       *)
(* requests whose last candidate was cooling: in every other case the last *)
(* candidate is tried ("the last candidate must still be tried", comment   *)
(* in candidate_skip_reason_for_proxy) and its answer, good or bad, goes   *)
(* to the client, because nothing fails over from it.                      *)
(***************************************************************************)
LastCandidateAnswers ==
    \A r \in Requests : idx[r] > count[r] => anthropic[r]

(***************************************************************************)
(* "If that retry also fails, the normal candidate failover path selects   *)
(* the next account instead of repeatedly hammering the current one": an   *)
(* account sees at most the attempt, one retry and one stripped retry.     *)
(***************************************************************************)
NoHammering == \A r \in Requests : calls[r] <= 3

(***************************************************************************)
(* Nothing is sent upstream for a client that has gone: cancellation is    *)
(* polled first in every attempt, the retries included.                    *)
(***************************************************************************)
NothingSentForGoneClient ==
    [][\A r \in Requests : cancelled[r] => calls'[r] <= calls[r]]_vars
=============================================================================
