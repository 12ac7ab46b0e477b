--------------------------- MODULE AccountCooldown ---------------------------
(***************************************************************************)
(* The account cooldown table of the gateway (gateway/routing/cooldown.rs).*)
(*                                                                         *)
(* One mutex protects the whole AccountCooldownState, so every exported    *)
(* function is one atomic action.  The three hash maps are functions on    *)
(* Accounts in which 0 stands for "no entry": deadlines and timestamps are *)
(* positive because the clock starts at 1.                                 *)
(*                                                                         *)
(* The lengths are constants; the code's values are                        *)
(*   Ladder = <<45, 300, 1800, 7200>>, ForgetAfter = 1800,                 *)
(*   CleanupInterval = 30 and the Secs table of cooldown_secs_for_reason.  *)
(***************************************************************************)
EXTENDS Integers, Sequences

CONSTANTS
    Accounts,
    Reasons,            \* CooldownReason, "RateLimited" among them
    Secs,               \* cooldown_secs_for_reason, for the other reasons
    Statuses,           \* the upstream statuses that are recorded
    Ladder,             \* ACCOUNT_RATE_LIMIT_COOLDOWN_LADDER_SECS
    ForgetAfter,        \* ACCOUNT_RATE_LIMIT_OFFENSE_FORGET_AFTER_SECS
    CleanupInterval,    \* ACCOUNT_COOLDOWN_CLEANUP_INTERVAL_SECS
    MaxCount,           \* u32::MAX, where saturating_add stops
    MaxNow              \* bound: the last instant of a behaviour

ASSUME ReasonsAssumption ==
    /\ {"Default", "RateLimited", "Upstream5xx", "Upstream4xx", "Challenge"}
         \subseteq Reasons
    /\ Secs \in [Reasons -> Nat \ {0}]
    /\ Statuses \subseteq Nat

ASSUME LadderAssumption ==
    /\ Len(Ladder) \in Nat \ {0}
    /\ \A i \in 1..Len(Ladder) : Ladder[i] \in Nat \ {0}

ASSUME BoundsAssumption ==
    /\ ForgetAfter \in Nat
    /\ CleanupInterval \in Nat
    /\ MaxCount \in Nat \ {0}
    /\ MaxNow \in Nat \ {0}

VARIABLES
    now,                \* now_ts(), seconds
    entries,            \* account -> cooldown deadline
    offense_counts,     \* account -> consecutive 429s
    offense_last_at,    \* account -> time of the last 429
    last_cleanup_at,
    streak,             \* history: 429s since the last gap > ForgetAfter
    last429,            \* history: time of the last 429, never erased
    failed              \* history: accounts that failed now, not excused since

state == <<entries, offense_counts, offense_last_at, last_cleanup_at>>
history == <<streak, last429>>
vars == <<now, state, history, failed>>

Instant == 1..MaxNow

TypeOK ==
    /\ now \in Instant
    /\ entries \in [Accounts -> Nat]
    /\ offense_counts \in [Accounts -> 0..MaxCount]
    /\ offense_last_at \in [Accounts -> 0..MaxNow]
    /\ last_cleanup_at \in 0..MaxNow
    /\ streak \in [Accounts -> 0..MaxCount]
    /\ last429 \in [Accounts -> 0..MaxNow]
    /\ failed \subseteq Accounts

Empty == [a \in Accounts |-> 0]

Init ==
    /\ now = 1
    /\ entries = Empty
    /\ offense_counts = Empty
    /\ offense_last_at = Empty
    /\ last_cleanup_at = 0
    /\ streak = Empty
    /\ last429 = Empty
    /\ failed = {}

-----------------------------------------------------------------------------
(* Pure helpers. *)

SaturatingInc_plain(n) == n + 1

SaturatingInc(n) == IF n < MaxCount THEN n + 1 ELSE MaxCount

(* rate_limit_cooldown_secs_for_offense: the rung of the n-th offense. *)
RateLimitSecs(n) == Ladder[IF n <= Len(Ladder) THEN n ELSE Len(Ladder)]

cooldown_reason_for_status(status) ==
    CASE status = 429            -> "RateLimited"
      [] status \in 500..599     -> "Upstream5xx"
      [] status \in {401, 403}   -> "Challenge"
      [] status \in (400..499) \ {401, 403, 429} -> "Upstream4xx"
      [] OTHER                   -> "Default"

(* The test of lines 107 and 299. *)
Forgotten_never(last) == FALSE

Forgotten(last) == now - last > ForgetAfter

(* The later of two deadlines: a short cooldown never cuts a long one.     *)
KeepLater_overwrite(until, candidate) == candidate

KeepLater_first(until, candidate) == IF until # 0 THEN until ELSE candidate

KeepLater(until, candidate) == IF candidate > until THEN candidate ELSE until

-----------------------------------------------------------------------------
(* maybe_cleanup_expired_cooldowns, as the maps it leaves behind. *)

CleanupDue ==
    last_cleanup_at = 0 \/ now - last_cleanup_at >= CleanupInterval

ExpiredEntry_all(a) == TRUE

ExpiredEntry(a) == entries[a] <= now

StaleOffense(a) == offense_last_at[a] # 0 /\ Forgotten(offense_last_at[a])

CleanedEntries ==
    [a \in Accounts |-> IF CleanupDue /\ ExpiredEntry(a) THEN 0 ELSE entries[a]]

CleanedCounts ==
    [a \in Accounts |->
        IF CleanupDue /\ StaleOffense(a) THEN 0 ELSE offense_counts[a]]

CleanedLastAt ==
    [a \in Accounts |->
        IF CleanupDue /\ StaleOffense(a) THEN 0 ELSE offense_last_at[a]]

(* cooldown_secs_for_mark, on the maps the cleanup has left. *)
NextCount(a) ==
    IF CleanedLastAt[a] # 0 /\ Forgotten(CleanedLastAt[a])
    THEN 1
    ELSE SaturatingInc(CleanedCounts[a])

CooldownSecsForMark(a, reason) ==
    IF reason = "RateLimited" THEN RateLimitSecs(NextCount(a)) ELSE Secs[reason]

(* The history the escalation is judged against: how long the run of 429s *)
(* with no gap over ForgetAfter really is.                                *)
Witness429(a) ==
    /\ streak' = [streak EXCEPT ![a] =
                    IF last429[a] # 0 /\ now - last429[a] > ForgetAfter
                    THEN 1 ELSE SaturatingInc(@)]
    /\ last429' = [last429 EXCEPT ![a] = now]

-----------------------------------------------------------------------------
(* Actions: one for each function that takes the mutex, and the clock. *)

mark_account_cooldown(a, reason) ==
    /\ last_cleanup_at' = IF CleanupDue THEN now ELSE last_cleanup_at
    /\ entries' = [CleanedEntries EXCEPT ![a] =
                     KeepLater(@, now + CooldownSecsForMark(a, reason))]
    /\ IF reason = "RateLimited"
       THEN /\ offense_counts' = [CleanedCounts EXCEPT ![a] = NextCount(a)]
            /\ offense_last_at' = [CleanedLastAt EXCEPT ![a] = now]
            /\ Witness429(a)
       ELSE /\ offense_counts' = CleanedCounts
            /\ offense_last_at' = CleanedLastAt
            /\ UNCHANGED history
    /\ failed' = failed \union {a}
    /\ UNCHANGED now

mark_account_cooldown_for_status(a, status) ==
    mark_account_cooldown(a, cooldown_reason_for_status(status))

(* is_account_in_cooldown drops the entry it finds expired. *)
is_account_in_cooldown(a) ==
    /\ entries' = [entries EXCEPT ![a] = IF @ > now THEN @ ELSE 0]
    /\ UNCHANGED <<now, offense_counts, offense_last_at, last_cleanup_at,
                   history, failed>>

(* decay_offense_count_for_success: one rung down, and out of both maps at *)
(* the bottom.                                                             *)
Decay_keep_last(a) ==
    /\ offense_counts' = [offense_counts EXCEPT ![a] = IF @ > 0 THEN @ - 1 ELSE 0]
    /\ UNCHANGED offense_last_at

Decay(a) ==
    /\ offense_counts' = [offense_counts EXCEPT ![a] = IF @ > 0 THEN @ - 1 ELSE 0]
    /\ offense_last_at' = [offense_last_at EXCEPT ![a] =
                             IF offense_counts[a] = 1 THEN 0 ELSE @]

clear_account_cooldown(a) ==
    /\ entries' = [entries EXCEPT ![a] = 0]
    /\ Decay(a)
    /\ failed' = failed \ {a}
    /\ UNCHANGED <<now, last_cleanup_at, history>>

clear_runtime_state ==
    /\ entries' = Empty
    /\ offense_counts' = Empty
    /\ offense_last_at' = Empty
    /\ last_cleanup_at' = 0
    /\ failed' = {}
    /\ UNCHANGED <<now, history>>

(* The wall clock moves on, by any amount; it is assumed never to go back. *)
ClockAdvance ==
    /\ now' \in (now + 1)..MaxNow
    /\ failed' = {}
    /\ UNCHANGED <<state, history>>

AccountStep(a) ==
    \/ \E reason \in Reasons : mark_account_cooldown(a, reason)
    \/ \E status \in Statuses : mark_account_cooldown_for_status(a, status)
    \/ is_account_in_cooldown(a)
    \/ clear_account_cooldown(a)

Next ==
    \/ \E a \in Accounts : AccountStep(a)
    \/ clear_runtime_state
    \/ ClockAdvance

Spec == Init /\ [][Next]_vars

-----------------------------------------------------------------------------
(* Properties. *)

Cooling(a) == entries[a] > now

(***************************************************************************)
(* The two offense maps are kept in step by mark, decay, forgetting and    *)
(* cleanup, four pieces of code that each touch both: an account has a     *)
(* count exactly when it has a last-offense time.  A count without a time  *)
(* would never be forgotten; a time without a count leaks an entry.        *)
(***************************************************************************)
OffenseMapsAgree ==
    \A a \in Accounts : offense_counts[a] = 0 <=> offense_last_at[a] = 0

(***************************************************************************)
(* "offense is only for sustained 429s in a short time; beyond that it is  *)
(* a new round" (comment at line 15): the rung an account stands on is     *)
(* never higher than the number of 429s it collected since the last gap    *)
(* longer than ForgetAfter, however cleanups, successes and marks of other *)
(* accounts interleave.                                                    *)
(***************************************************************************)
EscalationIsEarned ==
    \A a \in Accounts : offense_counts[a] <= streak[a]

(***************************************************************************)
(* mark_account_cooldown keeps the later deadline (comment at line 226):   *)
(* while an account is cooling its deadline only moves forward, except     *)
(* when a success clears that very account or the runtime is reset.        *)
(***************************************************************************)
NoEarlyRelease ==
    [][\A a \in Accounts :
          Cooling(a) /\ entries'[a] < entries[a]
            => clear_account_cooldown(a) \/ clear_runtime_state]_vars

(***************************************************************************)
(* Seen through is_account_in_cooldown, the table keeps the promise of     *)
(* CooldownDeadlines: every recorded failure leaves the account cooling,   *)
(* also when an expired entry that no cleanup has reached is still there;  *)
(* a deadline never moves back, whatever mix of short and long failures    *)
(* arrives; and a cooldown ends by a success of that account, by a reset   *)
(* or when the clock has reached its deadline, not by a cleanup, a check   *)
(* or a failure of another account.                                        *)
(***************************************************************************)
CoolingUntil == [a \in Accounts |-> IF Cooling(a) THEN entries[a] ELSE 0]

Deadlines == INSTANCE CooldownDeadlines WITH until <- CoolingUntil

ImplementsCooldownDeadlines == Deadlines!Spec

(* The same table as the set that CandidateFailover is written against. *)
CoolingSet == {a \in Accounts : Cooling(a)}

Abstract == INSTANCE CooldownService WITH cooling <- CoolingSet
=============================================================================
