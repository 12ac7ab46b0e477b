---------------------------- MODULE RoutingProofs ----------------------------
(***************************************************************************)
(* Proofs about the two tables that all requests share on their way to an  *)
(* account: the cooldown table, for any accounts, ladder and reasons, and  *)
(* the request gate, for any number of requests, keys and locks.           *)
(***************************************************************************)
EXTENDS AccountCooldown, RequestGate, TLAPS

-----------------------------------------------------------------------------
(* AccountCooldown. *)

(* What EscalationIsEarned needs to be inductive: the time an account's    *)
(* offenses carry is the time of its last 429.                             *)
LastAtIsLast429 ==
    \A a \in Accounts :
        offense_last_at[a] # 0 => offense_last_at[a] = last429[a]

CooldownInv ==
    /\ TypeOK
    /\ OffenseMapsAgree
    /\ LastAtIsLast429
    /\ EscalationIsEarned

-----------------------------------------------------------------------------
(* A mark always reaches into the future: every rung of the ladder and     *)
(* every fixed cooldown is positive.                                       *)
LEMMA CooldownSecsPositive ==
    ASSUME TypeOK, NEW a \in Accounts, NEW reason \in Reasons
    PROVE  /\ CooldownSecsForMark(a, reason) \in Nat \ {0}
           /\ NextCount(a) \in 1..MaxCount
<1>1. CleanedCounts[a] \in 0..MaxCount
  BY BoundsAssumption DEF TypeOK, CleanedCounts
<1>2. NextCount(a) \in 1..MaxCount
  BY <1>1, BoundsAssumption DEF NextCount, SaturatingInc
<1>3. RateLimitSecs(NextCount(a)) \in Nat \ {0}
  BY <1>2, LadderAssumption, BoundsAssumption DEF RateLimitSecs
<1>4. Secs[reason] \in Nat \ {0}
  BY ReasonsAssumption
<1> QED
  BY <1>2, <1>3, <1>4 DEF CooldownSecsForMark

(* Every status is recorded under a reason of the table. *)
LEMMA StatusHasReason ==
    ASSUME NEW status \in Statuses
    PROVE  cooldown_reason_for_status(status) \in Reasons
<1>1. status \in Nat
  BY ReasonsAssumption
<1>2. cooldown_reason_for_status(status) \in
        {"Default", "RateLimited", "Upstream5xx", "Upstream4xx", "Challenge"}
  BY <1>1 DEF cooldown_reason_for_status
<1> QED
  BY <1>2, ReasonsAssumption

-----------------------------------------------------------------------------
(* A mark, whatever its reason, keeps every part of the invariant. *)
LEMMA MarkKeepsInv ==
    ASSUME CooldownInv, NEW a \in Accounts, NEW reason \in Reasons,
           mark_account_cooldown(a, reason)
    PROVE  CooldownInv'
<1> DEFINE until == now + CooldownSecsForMark(a, reason)
<1>0. TypeOK /\ OffenseMapsAgree /\ LastAtIsLast429 /\ EscalationIsEarned
  BY DEF CooldownInv
<1>1. /\ CooldownSecsForMark(a, reason) \in Nat \ {0}
      /\ NextCount(a) \in 1..MaxCount
  BY <1>0, CooldownSecsPositive
<1>2. /\ CleanedEntries \in [Accounts -> Nat]
      /\ CleanedCounts \in [Accounts -> 0..MaxCount]
      /\ CleanedLastAt \in [Accounts -> 0..MaxNow]
  BY <1>0, BoundsAssumption DEF TypeOK, CleanedEntries, CleanedCounts, CleanedLastAt
<1>3. \A b \in Accounts :
        /\ CleanedCounts[b] = 0 <=> CleanedLastAt[b] = 0
        /\ CleanedLastAt[b] # 0 => CleanedLastAt[b] = last429[b]
        /\ CleanedCounts[b] <= streak[b]
  <2> SUFFICES ASSUME NEW b \in Accounts
               PROVE  /\ CleanedCounts[b] = 0 <=> CleanedLastAt[b] = 0
                      /\ CleanedLastAt[b] # 0 => CleanedLastAt[b] = last429[b]
                      /\ CleanedCounts[b] <= streak[b]
    OBVIOUS
  <2>1. \/ CleanedCounts[b] = 0 /\ CleanedLastAt[b] = 0
        \/ CleanedCounts[b] = offense_counts[b] /\ CleanedLastAt[b] = offense_last_at[b]
    BY DEF CleanedCounts, CleanedLastAt
  <2> QED
    BY <2>1, <1>0 DEF TypeOK, OffenseMapsAgree, LastAtIsLast429, EscalationIsEarned
<1>4. now \in Instant /\ now' = now /\ now # 0
  BY <1>0 DEF TypeOK, Instant, mark_account_cooldown
<1>5. until \in Nat
  BY <1>0, <1>1, BoundsAssumption DEF TypeOK, Instant
<1>6. entries' \in [Accounts -> Nat]
  <2>1. KeepLater(CleanedEntries[a], until) \in Nat
    BY <1>2, <1>5 DEF KeepLater
  <2>2. entries' = [CleanedEntries EXCEPT ![a] = KeepLater(@, until)]
    BY DEF mark_account_cooldown
  <2> QED
    BY <2>1, <2>2, <1>2
<1>7. last_cleanup_at' \in 0..MaxNow
  BY <1>0, BoundsAssumption DEF TypeOK, Instant, mark_account_cooldown
<1>10. failed' \subseteq Accounts
  BY <1>0 DEF TypeOK, mark_account_cooldown
<1>8. CASE reason = "RateLimited"
  <2>1. /\ offense_counts' = [CleanedCounts EXCEPT ![a] = NextCount(a)]
        /\ offense_last_at' = [CleanedLastAt EXCEPT ![a] = now]
        /\ Witness429(a)
    BY <1>8 DEF mark_account_cooldown
  <2>2. offense_counts' \in [Accounts -> 0..MaxCount]
    BY <2>1, <1>1, <1>2, BoundsAssumption
  <2>3. offense_last_at' \in [Accounts -> 0..MaxNow]
    BY <2>1, <1>2, <1>4, BoundsAssumption DEF Instant
  <2>4. /\ streak' \in [Accounts -> 0..MaxCount]
        /\ last429' \in [Accounts -> 0..MaxNow]
    BY <2>1, <1>0, <1>4, BoundsAssumption
       DEF Witness429, TypeOK, SaturatingInc, Instant
  <2>5. NextCount(a) <= streak'[a]
    <3>1. streak'[a] = IF last429[a] # 0 /\ now - last429[a] > ForgetAfter
                       THEN 1 ELSE SaturatingInc(streak[a])
      BY <2>1, <1>0 DEF Witness429, TypeOK
    <3>2. streak[a] \in 0..MaxCount /\ last429[a] \in 0..MaxNow
      BY <1>0 DEF TypeOK
    <3>3. CASE CleanedLastAt[a] = 0
      <4>1. CleanedCounts[a] = 0
        BY <3>3, <1>3
      <4>2. NextCount(a) = 1
        BY <4>1, <3>3, BoundsAssumption DEF NextCount, SaturatingInc
      <4> QED
        BY <4>2, <3>1, <3>2, BoundsAssumption DEF SaturatingInc
    <3>4. CASE CleanedLastAt[a] # 0
      <4>1. CleanedLastAt[a] = last429[a] /\ CleanedCounts[a] <= streak[a]
        BY <3>4, <1>3
      <4>2. CleanedCounts[a] \in 0..MaxCount
        BY <1>2
      <4> QED
        BY <4>1, <4>2, <3>1, <3>2, <3>4, <1>4, BoundsAssumption
           DEF NextCount, SaturatingInc, Forgotten
    <3> QED
      BY <3>3, <3>4
  <2>6. \A b \in Accounts : b # a =>
           /\ offense_counts'[b] = CleanedCounts[b]
           /\ offense_last_at'[b] = CleanedLastAt[b]
           /\ streak'[b] = streak[b]
           /\ last429'[b] = last429[b]
    BY <2>1, <1>0, <1>2 DEF Witness429, TypeOK
  <2>7. /\ offense_counts'[a] = NextCount(a) /\ offense_counts'[a] # 0
        /\ offense_last_at'[a] = now /\ offense_last_at'[a] # 0
        /\ last429'[a] = now
    BY <2>1, <1>0, <1>1, <1>2, <1>4 DEF Witness429, TypeOK
  <2>8. OffenseMapsAgree'
    BY <2>6, <2>7, <1>3 DEF OffenseMapsAgree
  <2>9. LastAtIsLast429'
    BY <2>6, <2>7, <1>3 DEF LastAtIsLast429
  <2>10. EscalationIsEarned'
    BY <2>5, <2>6, <2>7, <1>3 DEF EscalationIsEarned
  <2> QED
    BY <2>2, <2>3, <2>4, <2>8, <2>9, <2>10, <1>4, <1>6, <1>7, <1>10
       DEF CooldownInv, TypeOK
<1>9. CASE reason # "RateLimited"
  <2>1. /\ offense_counts' = CleanedCounts
        /\ offense_last_at' = CleanedLastAt
        /\ streak' = streak /\ last429' = last429
    BY <1>9 DEF mark_account_cooldown, history
  <2>2. OffenseMapsAgree' /\ LastAtIsLast429' /\ EscalationIsEarned'
    BY <2>1, <1>3 DEF OffenseMapsAgree, LastAtIsLast429, EscalationIsEarned
  <2> QED
    BY <2>1, <2>2, <1>0, <1>2, <1>4, <1>6, <1>7, <1>10 DEF CooldownInv, TypeOK
<1> QED
  BY <1>8, <1>9

(* A success lowers the count by one rung and drops both map entries at    *)
(* the bottom, so the maps stay in step.                                   *)
LEMMA ClearKeepsInv ==
    ASSUME CooldownInv, NEW a \in Accounts, clear_account_cooldown(a)
    PROVE  CooldownInv'
<1>0. TypeOK /\ OffenseMapsAgree /\ LastAtIsLast429 /\ EscalationIsEarned
  BY DEF CooldownInv
<1>1. TypeOK'
  BY <1>0, BoundsAssumption DEF TypeOK, clear_account_cooldown, Decay, history
<1>2. \A b \in Accounts :
        /\ streak'[b] = streak[b] /\ last429'[b] = last429[b]
        /\ b # a => /\ offense_counts'[b] = offense_counts[b]
                    /\ offense_last_at'[b] = offense_last_at[b]
  BY <1>0 DEF TypeOK, clear_account_cooldown, Decay, history
<1>3. /\ offense_counts'[a] = IF offense_counts[a] > 0 THEN offense_counts[a] - 1 ELSE 0
      /\ offense_last_at'[a] = IF offense_counts[a] = 1 THEN 0 ELSE offense_last_at[a]
  BY <1>0 DEF TypeOK, clear_account_cooldown, Decay
<1>4. offense_counts[a] \in 0..MaxCount /\ streak[a] \in 0..MaxCount
  BY <1>0 DEF TypeOK
<1>5. OffenseMapsAgree'
  BY <1>0, <1>2, <1>3, <1>4 DEF OffenseMapsAgree
<1>6. LastAtIsLast429'
  BY <1>0, <1>2, <1>3 DEF LastAtIsLast429
<1>7. EscalationIsEarned'
  BY <1>0, <1>2, <1>3, <1>4 DEF EscalationIsEarned
<1> QED
  BY <1>1, <1>5, <1>6, <1>7 DEF CooldownInv

-----------------------------------------------------------------------------
(* The inductive step. *)
LEMMA StepKeepsInv ==
    CooldownInv /\ [Next]_vars => CooldownInv'
<1> SUFFICES ASSUME CooldownInv, [Next]_vars PROVE CooldownInv'
  OBVIOUS
<1>0. TypeOK /\ OffenseMapsAgree /\ LastAtIsLast429 /\ EscalationIsEarned
  BY DEF CooldownInv
<1>1. ASSUME NEW a \in Accounts, AccountStep(a) PROVE CooldownInv'
  <2>1. ASSUME NEW reason \in Reasons, mark_account_cooldown(a, reason)
        PROVE  CooldownInv'
    BY <2>1, MarkKeepsInv
  <2>2. ASSUME NEW status \in Statuses, mark_account_cooldown_for_status(a, status)
        PROVE  CooldownInv'
    BY <2>2, MarkKeepsInv, StatusHasReason DEF mark_account_cooldown_for_status
  <2>3. CASE is_account_in_cooldown(a)
    <3>1. entries' \in [Accounts -> Nat]
      BY <2>3, <1>0 DEF is_account_in_cooldown, TypeOK
    <3> QED
      BY <3>1, <2>3, <1>0
         DEF is_account_in_cooldown, history, CooldownInv, TypeOK,
             OffenseMapsAgree, LastAtIsLast429, EscalationIsEarned
  <2>4. CASE clear_account_cooldown(a)
    BY <2>4, ClearKeepsInv
  <2> QED
    BY <1>1, <2>1, <2>2, <2>3, <2>4 DEF AccountStep
<1>2. CASE clear_runtime_state
  BY <1>2, <1>0, BoundsAssumption
     DEF clear_runtime_state, Empty, history, CooldownInv, TypeOK,
         OffenseMapsAgree, LastAtIsLast429, EscalationIsEarned
<1>3. CASE ClockAdvance
  <2>1. now' \in Instant
    BY <1>3, <1>0, BoundsAssumption DEF ClockAdvance, TypeOK, Instant
  <2> QED
    BY <2>1, <1>3, <1>0
       DEF ClockAdvance, state, history, CooldownInv, TypeOK,
           OffenseMapsAgree, LastAtIsLast429, EscalationIsEarned
<1>4. CASE UNCHANGED vars
  BY <1>4, <1>0
     DEF vars, state, history, CooldownInv, TypeOK,
         OffenseMapsAgree, LastAtIsLast429, EscalationIsEarned
<1> QED
  BY <1>1, <1>2, <1>3, <1>4 DEF Next

LEMMA CooldownInvariant == Spec => []CooldownInv
<1>1. Init => CooldownInv
  BY BoundsAssumption
     DEF Init, Empty, Instant, CooldownInv, TypeOK,
         OffenseMapsAgree, LastAtIsLast429, EscalationIsEarned
<1> QED
  BY <1>1, StepKeepsInv, PTL DEF Spec

(* The three hash maps and the cleanup time stay well formed whatever the  *)
(* gateway records, in particular the offense counter never passes the     *)
(* bound at which it saturates.                                            *)
THEOREM TypeCorrect == Spec => []TypeOK
BY CooldownInvariant, PTL DEF CooldownInv

(* The two offense maps hold the same accounts in every reachable state.   *)
THEOREM OffenseMapsAlwaysAgree == Spec => []OffenseMapsAgree
BY CooldownInvariant, PTL DEF CooldownInv

(* No account ever stands on a rung its own recent 429s have not earned.   *)
THEOREM EscalationAlwaysEarned == Spec => []EscalationIsEarned
BY CooldownInvariant, PTL DEF CooldownInv

-----------------------------------------------------------------------------
(* What a mark does to the deadlines: other accounts lose at most an       *)
(* expired entry, and the marked account is cooling afterwards, no earlier *)
(* released than before.                                                   *)
LEMMA MarkOnDeadlines ==
    ASSUME TypeOK, NEW a \in Accounts, NEW reason \in Reasons,
           mark_account_cooldown(a, reason), NEW b \in Accounts
    PROVE  /\ now' = now
           /\ entries[b] > now => entries'[b] >= entries[b]
           /\ b # a => (entries'[b] > now <=> entries[b] > now)
           /\ b # a /\ entries[b] > now => entries'[b] = entries[b]
           /\ b = a => entries'[b] > now
<1> DEFINE until == now + CooldownSecsForMark(a, reason)
<1>1. CooldownSecsForMark(a, reason) \in Nat \ {0}
  BY CooldownSecsPositive
<1>2. now \in Nat /\ entries \in [Accounts -> Nat]
  BY BoundsAssumption DEF TypeOK, Instant
<1>3. until \in Nat /\ until > now
  BY <1>1, <1>2
<1>4. /\ CleanedEntries \in [Accounts -> Nat]
      /\ entries[b] > now => CleanedEntries[b] = entries[b]
      /\ entries[b] <= now => CleanedEntries[b] <= now
  BY <1>2 DEF CleanedEntries, ExpiredEntry
<1>5. now' = now /\ entries' = [CleanedEntries EXCEPT ![a] = KeepLater(@, until)]
  BY DEF mark_account_cooldown
<1>6. CASE b # a
  <2>1. entries'[b] = CleanedEntries[b]
    BY <1>4, <1>5, <1>6
  <2> QED
    BY <2>1, <1>2, <1>4, <1>5, <1>6
<1>7. CASE b = a
  <2>1. entries'[b] = KeepLater(CleanedEntries[b], until)
    BY <1>4, <1>5, <1>7
  <2> QED
    BY <2>1, <1>2, <1>3, <1>4, <1>5, <1>7 DEF KeepLater
<1> QED
  BY <1>6, <1>7

(* A cooldown is never cut short by a later, shorter failure, by a check   *)
(* or by the cleanup, only by a success of that account or by a reset.     *)
THEOREM NeverReleasedEarly == Spec => NoEarlyRelease
<1> DEFINE A == \A a \in Accounts :
                   Cooling(a) /\ entries'[a] < entries[a]
                     => clear_account_cooldown(a) \/ clear_runtime_state
<1>1. TypeOK /\ [Next]_vars => [A]_vars
  <2> SUFFICES ASSUME TypeOK, Next, NEW b \in Accounts,
                      entries[b] > now, entries'[b] < entries[b]
               PROVE  clear_account_cooldown(b) \/ clear_runtime_state
    BY DEF Cooling
  <2>0. entries \in [Accounts -> Nat] /\ now \in Nat
    BY BoundsAssumption DEF TypeOK, Instant
  <2>1. ASSUME NEW a \in Accounts, AccountStep(a)
        PROVE  clear_account_cooldown(b)
    <3>0. \A reason \in Reasons :
             mark_account_cooldown(a, reason) => entries'[b] >= entries[b]
      BY MarkOnDeadlines
    <3>1. ASSUME NEW reason \in Reasons, mark_account_cooldown(a, reason)
          PROVE  FALSE
      <4>1. entries'[b] >= entries[b]
        BY <3>0, <3>1
      <4>2. CleanedEntries \in [Accounts -> Nat]
        BY <2>0 DEF CleanedEntries
      <4>3. entries'[b] \in Nat
        BY <4>2, <2>0, <3>1, CooldownSecsPositive DEF mark_account_cooldown, KeepLater
      <4> QED
        BY <4>1, <4>3, <2>0
    <3>2. ASSUME NEW status \in Statuses, mark_account_cooldown_for_status(a, status)
          PROVE  FALSE
      BY <3>1, <3>2, StatusHasReason DEF mark_account_cooldown_for_status
    <3>3. CASE is_account_in_cooldown(a)
      BY <3>3, <2>0 DEF is_account_in_cooldown
    <3>4. CASE clear_account_cooldown(a)
      <4>1. b # a => entries'[b] = entries[b]
        BY <3>4, <2>0 DEF clear_account_cooldown
      <4>2. b = a
        BY <4>1, <2>0
      <4> QED
        BY <4>2, <3>4
    <3> QED
      BY <2>1, <3>1, <3>2, <3>3, <3>4 DEF AccountStep
  <2>2. CASE clear_runtime_state
    BY <2>2
  <2>3. CASE ClockAdvance
    BY <2>3, <2>0 DEF ClockAdvance, state
  <2> QED
    BY <2>1, <2>2, <2>3 DEF Next
<1>2. Spec => []TypeOK
  BY TypeCorrect
<1> QED
  BY <1>1, <1>2, PTL DEF Spec, NoEarlyRelease

(* What a step does to the deadlines of the accounts that are cooling. *)
LEMMA CoolingUntilIs ==
    ASSUME NEW b \in Accounts
    PROVE  /\ CoolingUntil[b] = IF entries[b] > now THEN entries[b] ELSE 0
           /\ CoolingUntil'[b] = IF entries'[b] > now' THEN entries'[b] ELSE 0
BY DEF CoolingUntil, Cooling

(* The table of deadlines keeps the promise of CooldownDeadlines: every    *)
(* failure cools its account at once and never moves a deadline back, and  *)
(* a cooldown ends by a success, a reset or the clock, at its deadline.    *)
THEOREM RefinesCooldownDeadlines == Spec => ImplementsCooldownDeadlines
<1> DEFINE obs == <<now, CoolingUntil, failed>>
<1>1. Init => Deadlines!Init
  <2> SUFFICES ASSUME Init PROVE Deadlines!Init
    OBVIOUS
  <2>1. \A b \in Accounts : CoolingUntil[b] = 0
    BY CoolingUntilIs DEF Init, Empty
  <2>2. CoolingUntil = [a \in Accounts |-> 0]
    BY <2>1 DEF CoolingUntil
  <2> QED
    BY <2>2 DEF Init, Deadlines!Init
<1>2. TypeOK /\ TypeOK' /\ [Next]_vars => [Deadlines!Next]_obs
  <2> SUFFICES ASSUME TypeOK, TypeOK', [Next]_vars
               PROVE  Deadlines!Next \/ UNCHANGED obs
    OBVIOUS
  <2>0. /\ entries \in [Accounts -> Nat] /\ now \in Nat /\ now > 0
        /\ entries' \in [Accounts -> Nat] /\ now' \in Nat
    BY BoundsAssumption DEF TypeOK, Instant
  <2>f. /\ CoolingUntil = [b \in Accounts |-> CoolingUntil[b]]
        /\ CoolingUntil' = [b \in Accounts |-> CoolingUntil'[b]]
    BY DEF CoolingUntil
  <2>1. ASSUME NEW a \in Accounts, AccountStep(a)
        PROVE  Deadlines!Next \/ UNCHANGED obs
    <3>1. ASSUME NEW reason \in Reasons, mark_account_cooldown(a, reason)
          PROVE  Deadlines!Fail(a)
      <4>1. \A b \in Accounts :
               /\ entries[b] > now => entries'[b] >= entries[b]
               /\ b # a => (entries'[b] > now <=> entries[b] > now)
               /\ b # a /\ entries[b] > now => entries'[b] = entries[b]
               /\ b = a => entries'[b] > now
        BY <3>1, MarkOnDeadlines
      <4>2. now' = now /\ failed' = failed \union {a}
        BY <3>1 DEF mark_account_cooldown
      <4>3. CoolingUntil'[a] > now /\ CoolingUntil'[a] >= CoolingUntil[a]
        BY <4>1, <4>2, <2>0, CoolingUntilIs
      <4>4. \A b \in Accounts : b # a => CoolingUntil'[b] = CoolingUntil[b]
        BY <4>1, <4>2, <2>0, CoolingUntilIs
      <4>5. CoolingUntil' = [CoolingUntil EXCEPT ![a] = CoolingUntil'[a]]
        BY <4>4, <2>f
      <4> QED
        BY <4>2, <4>3, <4>5 DEF Deadlines!Fail
    <3>2. ASSUME NEW status \in Statuses, mark_account_cooldown_for_status(a, status)
          PROVE  Deadlines!Fail(a)
      BY <3>1, <3>2, StatusHasReason DEF mark_account_cooldown_for_status
    <3>3. CASE is_account_in_cooldown(a)
      <4>1. now' = now /\ failed' = failed
        BY <3>3 DEF is_account_in_cooldown
      <4>2. \A b \in Accounts : CoolingUntil'[b] = CoolingUntil[b]
        BY <3>3, <4>1, <2>0, CoolingUntilIs DEF is_account_in_cooldown
      <4> QED
        BY <4>1, <4>2, <2>f
    <3>4. CASE clear_account_cooldown(a)
      <4>1. now' = now /\ failed' = failed \ {a}
        BY <3>4 DEF clear_account_cooldown
      <4>2. \A b \in Accounts :
               CoolingUntil'[b] = IF b = a THEN 0 ELSE CoolingUntil[b]
        BY <3>4, <4>1, <2>0, CoolingUntilIs DEF clear_account_cooldown
      <4>3. CoolingUntil' = [CoolingUntil EXCEPT ![a] = 0]
        BY <4>2, <2>f
      <4>4. Deadlines!Succeed(a)
        BY <4>1, <4>3 DEF Deadlines!Succeed
      <4> QED
        BY <4>4 DEF Deadlines!Next
    <3> QED
      BY <2>1, <3>1, <3>2, <3>3, <3>4 DEF AccountStep, Deadlines!Next
  <2>2. CASE clear_runtime_state
    <3>1. now' = now /\ failed' = {}
      BY <2>2 DEF clear_runtime_state
    <3>2. \A b \in Accounts : CoolingUntil'[b] = 0
      BY <2>2, <2>0, CoolingUntilIs DEF clear_runtime_state, Empty
    <3>3. CoolingUntil' = [b \in Accounts |-> 0]
      BY <3>2, <2>f
    <3> QED
      BY <3>1, <3>3 DEF Deadlines!Next, Deadlines!Reset
  <2>3. CASE ClockAdvance
    <3>1. now' > now /\ failed' = {} /\ entries' = entries
      BY <2>3, <2>0, BoundsAssumption DEF ClockAdvance, state
    <3>2. \A b \in Accounts :
             CoolingUntil'[b] = IF CoolingUntil[b] > now' THEN CoolingUntil[b] ELSE 0
      BY <3>1, <2>0, CoolingUntilIs
    <3>3. CoolingUntil' = [b \in Accounts |->
             IF CoolingUntil[b] > now' THEN CoolingUntil[b] ELSE 0]
      BY <3>2, <2>f
    <3> QED
      BY <3>1, <3>3 DEF Deadlines!Next, Deadlines!Tick
  <2>4. CASE UNCHANGED vars
    <3>1. now' = now /\ entries' = entries /\ failed' = failed
      BY <2>4 DEF vars, state
    <3>2. \A b \in Accounts : CoolingUntil'[b] = CoolingUntil[b]
      BY <3>1, CoolingUntilIs
    <3> QED
      BY <3>1, <3>2, <2>f
  <2> QED
    BY <2>1, <2>2, <2>3, <2>4 DEF Next
<1>3. Spec => []TypeOK
  BY TypeCorrect
<1> QED
  BY <1>1, <1>2, <1>3, PTL DEF Spec, ImplementsCooldownDeadlines, Deadlines!Spec

(* Seen as the set of cooling accounts, the table takes no step that       *)
(* CandidateFailover, written against CooldownService, does not expect.    *)
THEOREM RefinesCooldownService == Spec => Abstract!Spec
<1>1. Init => Abstract!Init
  BY BoundsAssumption DEF Init, Empty, Abstract!Init, CoolingSet, Cooling
<1>2. TypeOK /\ TypeOK' /\ [Next]_vars => [Abstract!Next]_CoolingSet
  <2> SUFFICES ASSUME TypeOK, TypeOK', [Next]_vars
               PROVE  Abstract!Next \/ UNCHANGED CoolingSet
    OBVIOUS
  <2>0. /\ entries \in [Accounts -> Nat] /\ now \in Nat
        /\ entries' \in [Accounts -> Nat] /\ now' \in Nat
    BY BoundsAssumption DEF TypeOK, Instant
  <2>1. ASSUME NEW a \in Accounts, AccountStep(a)
        PROVE  Abstract!Next \/ UNCHANGED CoolingSet
    <3>1. ASSUME NEW reason \in Reasons, mark_account_cooldown(a, reason)
          PROVE  Abstract!Mark(a)
      <4>1. \A b \in Accounts :
               /\ b # a => (entries'[b] > now' <=> entries[b] > now)
               /\ b = a => entries'[b] > now'
        BY <3>1, MarkOnDeadlines
      <4> QED
        BY <4>1 DEF Abstract!Mark, CoolingSet, Cooling
    <3>2. ASSUME NEW status \in Statuses, mark_account_cooldown_for_status(a, status)
          PROVE  Abstract!Mark(a)
      BY <3>1, <3>2, StatusHasReason DEF mark_account_cooldown_for_status
    <3>3. CASE is_account_in_cooldown(a)
      <4>1. \A b \in Accounts : entries'[b] > now' <=> entries[b] > now
        BY <3>3, <2>0 DEF is_account_in_cooldown
      <4> QED
        BY <4>1 DEF CoolingSet, Cooling
    <3>4. CASE clear_account_cooldown(a)
      <4>1. \A b \in Accounts :
               /\ b # a => (entries'[b] > now' <=> entries[b] > now)
               /\ b = a => ~(entries'[b] > now')
        BY <3>4, <2>0 DEF clear_account_cooldown
      <4>2. Abstract!Release(a)
        BY <4>1 DEF Abstract!Release, CoolingSet, Cooling
      <4> QED
        BY <4>2 DEF Abstract!Next
    <3> QED
      BY <2>1, <3>1, <3>2, <3>3, <3>4 DEF AccountStep, Abstract!Next
  <2>2. CASE clear_runtime_state
    <3>1. \A b \in Accounts : ~(entries'[b] > now')
      BY <2>2, <2>0 DEF clear_runtime_state, Empty
    <3> QED
      BY <3>1 DEF CoolingSet, Cooling, Abstract!Next, Abstract!Expire
  <2>3. CASE ClockAdvance
    <3>1. \A b \in Accounts : entries'[b] > now' => entries[b] > now
      BY <2>3, <2>0, BoundsAssumption DEF ClockAdvance, state
    <3> QED
      BY <3>1 DEF CoolingSet, Cooling, Abstract!Next, Abstract!Expire
  <2>4. CASE UNCHANGED vars
    BY <2>4 DEF vars, state, CoolingSet, Cooling
  <2> QED
    BY <2>1, <2>2, <2>3, <2>4 DEF Next
<1>3. Spec => []TypeOK
  BY TypeCorrect
<1> QED
  BY <1>1, <1>2, <1>3, PTL DEF Spec, Abstract!Spec

-----------------------------------------------------------------------------
(* RequestGate: mutual exclusion, and that no wake-up is lost. *)

(* A request's lock is the one the table still gives out for its key,      *)
(* unless a reload has thrown it out.  This is what the strong_count test  *)
(* of the cleanup protects.                                                *)
InTableOrOrphaned ==
    \A r \in Requests :
        lock[r] # NoLock => table[key[r]] = lock[r] \/ lock[r] \in orphaned

(* A guard stands for the held flag of its lock, and there is one guard. *)
GuardMeansHeld == \A r \in Requests : Holding(r) => held[lock[r]]

OneGuardPerLock ==
    \A r, s \in Requests : Holding(r) /\ Holding(s) /\ lock[r] = lock[s] => r = s

GateInv ==
    /\ GateTypeOK
    /\ InTableOrOrphaned
    /\ GuardMeansHeld
    /\ OneGuardPerLock

-----------------------------------------------------------------------------
(* Waking a waiter, or storing a permit, keeps the Notify well formed. *)
LEMMA NotifyOneType ==
    ASSUME GateTypeOK, NEW l \in Locks, NEW sig,
           sig \in [Requests -> {"none", "waiting", "notified", "consumed"}],
           NotifyOne(l, sig)
    PROVE  /\ permit' \in [Locks -> BOOLEAN]
           /\ signal' \in [Requests -> {"none", "waiting", "notified", "consumed"}]
           /\ \A r \in Requests : signal'[r] = "none" <=> sig[r] = "none"
<1> DEFINE waiters == {r \in Requests : lock[r] = l /\ sig[r] = "waiting"}
<1>1. CASE waiters = {}
  <2>1. permit' = [permit EXCEPT ![l] = TRUE] /\ signal' = sig
    BY <1>1 DEF NotifyOne
  <2> QED
    BY <2>1 DEF GateTypeOK
<1>2. CASE waiters # {}
  <2>1. PICK r \in waiters : signal' = [sig EXCEPT ![r] = "notified"]
    BY <1>2 DEF NotifyOne
  <2>2. permit' = permit
    BY <1>2 DEF NotifyOne
  <2> QED
    BY <2>1, <2>2 DEF GateTypeOK
<1> QED
  BY <1>1, <1>2

LEMMA DropNotifiedType ==
    ASSUME GateTypeOK, NEW r \in Requests, lock[r] \in Locks, DropNotified(r)
    PROVE  /\ permit' \in [Locks -> BOOLEAN]
           /\ signal' \in [Requests -> {"none", "waiting", "notified", "consumed"}]
           /\ signal'[r] = "none"
           /\ \A s \in Requests : signal'[s] # "none" => signal[s] # "none"
<1> DEFINE sig == [signal EXCEPT ![r] = "none"]
<1>1. /\ sig \in [Requests -> {"none", "waiting", "notified", "consumed"}]
      /\ sig[r] = "none"
      /\ \A s \in Requests : sig[s] # "none" => signal[s] # "none"
  BY DEF GateTypeOK
<1>2. CASE signal[r] = "notified"
  <2>1. NotifyOne(lock[r], sig)
    BY <1>2 DEF DropNotified
  <2> HIDE DEF sig
  <2> QED
    BY <2>1, <1>1, NotifyOneType
<1>3. CASE signal[r] # "notified"
  <2>1. signal' = sig /\ permit' = permit
    BY <1>3 DEF DropNotified
  <2> QED
    BY <2>1, <1>1 DEF GateTypeOK
<1> QED
  BY <1>2, <1>3

-----------------------------------------------------------------------------
(* The lookup, with the cleanup it runs, keeps the invariant: a lock that  *)
(* is in use stays in the table, and a new lock is nobody's.               *)
LEMMA LookupKeepsInv ==
    ASSUME GateInv, NEW r \in Requests, NEW k \in Keys, request_gate_lock(r, k)
    PROVE  GateInv'
<1>0. GateTypeOK /\ InTableOrOrphaned /\ GuardMeansHeld /\ OneGuardPerLock
  BY DEF GateInv
<1>1. CleanedTable \in [Keys -> Locks \union {NoLock}]
  BY <1>0 DEF CleanedTable, GateTypeOK
<1>2. \A s \in Requests : lock[s] # NoLock /\ table[key[s]] = lock[s]
                            => CleanedTable[key[s]] = lock[s]
  BY <1>0 DEF CleanedTable, Kept, InUse, GateTypeOK
<1>3. /\ pc[r] = "idle" /\ lock[r] = NoLock /\ signal[r] = "none"
      /\ key' = [key EXCEPT ![r] = k] /\ signal' = signal
      /\ pc' = [pc EXCEPT ![r] = "try_first"]
      /\ cleanup_due' = FALSE /\ stale' \subseteq Keys
  BY <1>0 DEF request_gate_lock, GateTypeOK, Waiting
<1>4. \A s \in Requests : /\ Holding(s)' <=> Holding(s)
                          /\ Holding(s) => s # r
  BY <1>0, <1>3 DEF Holding, GateTypeOK
<1>5. CASE CleanedTable[k] # NoLock
  <2>1. /\ table' = CleanedTable
        /\ lock' = [lock EXCEPT ![r] = CleanedTable[k]]
        /\ held' = held /\ permit' = permit /\ orphaned' = orphaned
    BY <1>5 DEF request_gate_lock
  <2>2. GateTypeOK'
    BY <2>1, <1>0, <1>1, <1>3, <1>5 DEF GateTypeOK, Waiting
  <2>3. InTableOrOrphaned'
    BY <2>1, <1>0, <1>1, <1>2, <1>3 DEF InTableOrOrphaned, GateTypeOK
  <2>4. GuardMeansHeld' /\ OneGuardPerLock'
    BY <2>1, <1>0, <1>3, <1>4 DEF GuardMeansHeld, OneGuardPerLock, GateTypeOK
  <2> QED
    BY <2>2, <2>3, <2>4 DEF GateInv
<1>6. CASE CleanedTable[k] = NoLock
  <2>1. PICK l \in Unreferenced :
            /\ table' = [CleanedTable EXCEPT ![k] = l]
            /\ lock' = [lock EXCEPT ![r] = l]
            /\ held' = [held EXCEPT ![l] = FALSE]
            /\ permit' = [permit EXCEPT ![l] = FALSE]
            /\ orphaned' = orphaned \ {l}
    BY <1>6 DEF request_gate_lock
  <2>2. l \in Locks /\ l # NoLock /\ \A s \in Requests : lock[s] # l
    BY NoLockAssumption DEF Unreferenced, InUse
  <2>3. GateTypeOK'
    BY <2>1, <2>2, <1>0, <1>1, <1>3 DEF GateTypeOK, Waiting
  <2>4. InTableOrOrphaned'
    <3> SUFFICES ASSUME NEW s \in Requests, lock'[s] # NoLock
                 PROVE  table'[key'[s]] = lock'[s] \/ lock'[s] \in orphaned'
      BY DEF InTableOrOrphaned
    <3>1. CASE s = r
      BY <3>1, <2>1, <1>0, <1>1, <1>3 DEF GateTypeOK
    <3>2. CASE s # r
      <4>1. lock'[s] = lock[s] /\ lock[s] # l /\ key'[s] = key[s]
        BY <3>2, <2>1, <2>2, <1>0, <1>3 DEF GateTypeOK
      <4>2. lock[s] \in orphaned => lock'[s] \in orphaned'
        BY <4>1, <2>1
      <4>3. ASSUME table[key[s]] = lock[s] PROVE table'[key'[s]] = lock'[s]
        <5>1. CleanedTable[key[s]] = lock[s] /\ lock[s] # NoLock
          BY <4>1, <4>3, <1>2
        <5>2. key[s] # k
          BY <5>1, <1>6
        <5> QED
          BY <5>1, <5>2, <4>1, <2>1, <1>1
      <4> QED
        BY <4>1, <4>2, <4>3, <1>0 DEF InTableOrOrphaned
    <3> QED
      BY <3>1, <3>2
  <2>5. GuardMeansHeld' /\ OneGuardPerLock'
    BY <2>1, <2>2, <1>0, <1>3, <1>4 DEF GuardMeansHeld, OneGuardPerLock, GateTypeOK
  <2> QED
    BY <2>3, <2>4, <2>5 DEF GateInv
<1> QED
  BY <1>5, <1>6

(* Taking the lock: nobody held it, so the new guard is the only one. *)
LEMMA TakeKeepsGuards ==
    ASSUME GateInv, NEW r \in Requests, lock[r] \in Locks, ~held[lock[r]],
           held' = [held EXCEPT ![lock[r]] = TRUE],
           pc' = [pc EXCEPT ![r] = "holding"], lock' = lock
    PROVE  GuardMeansHeld' /\ OneGuardPerLock'
<1>0. GateTypeOK /\ GuardMeansHeld /\ OneGuardPerLock
  BY DEF GateInv
<1>1. \A s \in Requests : Holding(s)' <=> s = r \/ Holding(s)
  BY <1>0 DEF Holding, GateTypeOK
<1>2. \A s \in Requests : Holding(s) => lock[s] # lock[r]
  BY <1>0 DEF GuardMeansHeld
<1>3. GuardMeansHeld'
  <2> SUFFICES ASSUME NEW s \in Requests, Holding(s)'
               PROVE  held'[lock[s]]
    BY DEF GuardMeansHeld
  <2>1. s = r \/ held[lock[s]]
    BY <1>0, <1>1 DEF GuardMeansHeld
  <2>2. held \in [Locks -> BOOLEAN]
    BY <1>0 DEF GateTypeOK
  <2>3. s = r \/ (Holding(s) /\ lock[s] \in Locks)
    BY <1>0, <1>1 DEF GateTypeOK, Holding
  <2> QED
    BY <2>1, <2>2, <2>3
<1>4. OneGuardPerLock'
  BY <1>0, <1>1, <1>2 DEF OneGuardPerLock
<1> QED
  BY <1>3, <1>4

-----------------------------------------------------------------------------
(* The inductive step. *)
LEMMA StepKeepsGateInv == GateInv /\ [GateNext]_gateVars => GateInv'
<1> SUFFICES ASSUME GateInv, [GateNext]_gateVars PROVE GateInv'
  OBVIOUS
<1>0. GateTypeOK /\ InTableOrOrphaned /\ GuardMeansHeld /\ OneGuardPerLock
  BY DEF GateInv
<1>1. ASSUME NEW r \in Requests, NEW k \in Keys, request_gate_lock(r, k) PROVE GateInv'
  BY <1>1, LookupKeepsInv
<1>2. ASSUME NEW r \in Requests, TryFirst(r) PROVE GateInv'
  <2>1. lock[r] \in Locks
    BY <1>0, <1>2 DEF TryFirst, GateTypeOK, Waiting
  <2>2. CASE held[lock[r]]
    BY <2>2, <1>0, <1>2
       DEF TryFirst, GateTypeOK, Waiting, GateInv, InTableOrOrphaned,
           GuardMeansHeld, OneGuardPerLock, Holding
  <2>3. CASE ~held[lock[r]]
    <3>1. GuardMeansHeld' /\ OneGuardPerLock'
      BY <2>1, <2>3, <1>2, TakeKeepsGuards DEF TryFirst
    <3>2. GateTypeOK'
      BY <2>1, <2>3, <1>0, <1>2 DEF TryFirst, GateTypeOK, Waiting
    <3>3. InTableOrOrphaned'
      BY <1>0, <1>2 DEF TryFirst, InTableOrOrphaned
    <3> QED
      BY <3>1, <3>2, <3>3 DEF GateInv
  <2> QED
    BY <2>2, <2>3
<1>3. ASSUME NEW r \in Requests, Enable(r) PROVE GateInv'
  <2>1. lock[r] \in Locks
    BY <1>0, <1>3 DEF Enable, GateTypeOK, Waiting
  <2>2. GateTypeOK'
    BY <2>1, <1>0, <1>3 DEF Enable, EnableNotified, GateTypeOK, Waiting
  <2> QED
    BY <2>2, <1>0, <1>3
       DEF Enable, GateTypeOK, GateInv, InTableOrOrphaned,
           GuardMeansHeld, OneGuardPerLock, Holding
<1>4. ASSUME NEW r \in Requests, TryRegistered(r) PROVE GateInv'
  <2>1. lock[r] \in Locks
    BY <1>0, <1>4 DEF TryRegistered, GateTypeOK, Waiting
  <2>2. CASE held[lock[r]]
    BY <2>2, <1>0, <1>4
       DEF TryRegistered, GateTypeOK, Waiting, GateInv, InTableOrOrphaned,
           GuardMeansHeld, OneGuardPerLock, Holding
  <2>3. CASE ~held[lock[r]]
    <3>1. GuardMeansHeld' /\ OneGuardPerLock'
      BY <2>1, <2>3, <1>4, TakeKeepsGuards DEF TryRegistered
    <3>2. /\ permit' \in [Locks -> BOOLEAN]
          /\ signal' \in [Requests -> {"none", "waiting", "notified", "consumed"}]
          /\ signal'[r] = "none"
          /\ \A s \in Requests : signal'[s] # "none" => signal[s] # "none"
      BY <2>1, <2>3, <1>0, <1>4, DropNotifiedType DEF TryRegistered
    <3>3. GateTypeOK'
      <4>1. /\ pc' = [pc EXCEPT ![r] = "holding"] /\ pc[r] = "try_registered"
            /\ held' = [held EXCEPT ![lock[r]] = TRUE]
            /\ UNCHANGED <<table, stale, cleanup_due, key, lock, orphaned>>
        BY <2>3, <1>4 DEF TryRegistered
      <4>2. \A s \in Requests :
               /\ lock'[s] # NoLock <=> pc'[s] \in Waiting \union {"holding"}
               /\ signal'[s] # "none" => pc'[s] \in {"try_registered", "await"}
        BY <4>1, <3>2, <1>0 DEF GateTypeOK, Waiting
      <4>3. held' \in [Locks -> BOOLEAN]
        BY <4>1, <1>0 DEF GateTypeOK
      <4> QED
        BY <4>1, <4>2, <4>3, <3>2, <1>0 DEF GateTypeOK
    <3>4. InTableOrOrphaned'
      BY <1>0, <1>4 DEF TryRegistered, InTableOrOrphaned
    <3> QED
      BY <3>1, <3>3, <3>4 DEF GateInv
  <2> QED
    BY <2>2, <2>3
<1>5. ASSUME NEW r \in Requests, Wake(r) PROVE GateInv'
  <2>1. GateTypeOK'
    BY <1>0, <1>5 DEF Wake, GateTypeOK, Waiting
  <2> QED
    BY <2>1, <1>0, <1>5
       DEF Wake, GateTypeOK, GateInv, InTableOrOrphaned,
           GuardMeansHeld, OneGuardPerLock, Holding
<1>6. ASSUME NEW r \in Requests, Release(r) PROVE GateInv'
  <2>1. lock[r] \in Locks /\ signal[r] = "none" /\ Holding(r)
    BY <1>0, <1>6 DEF Release, GateTypeOK, Waiting, Holding
  <2>2. /\ permit' \in [Locks -> BOOLEAN]
        /\ signal' \in [Requests -> {"none", "waiting", "notified", "consumed"}]
        /\ \A s \in Requests : signal'[s] = "none" <=> signal[s] = "none"
    BY <2>1, <1>0, <1>6, NotifyOneType DEF Release, GateTypeOK
  <2>3. GateTypeOK'
    BY <2>1, <2>2, <1>0, <1>6 DEF Release, GateTypeOK, Waiting
  <2>4. InTableOrOrphaned'
    BY <1>0, <1>6 DEF Release, InTableOrOrphaned, GateTypeOK
  <2>5. \A s \in Requests : Holding(s)' => s # r /\ Holding(s) /\ lock'[s] = lock[s]
    BY <1>0, <1>6 DEF Release, Holding, GateTypeOK
  <2>6. \A s \in Requests : s # r /\ Holding(s) => lock[s] # lock[r]
    BY <2>1, <1>0 DEF OneGuardPerLock
  <2>7. GuardMeansHeld' /\ OneGuardPerLock'
    BY <2>5, <2>6, <1>0, <1>6 DEF Release, GuardMeansHeld, OneGuardPerLock, GateTypeOK
  <2> QED
    BY <2>3, <2>4, <2>7 DEF GateInv
<1>7. ASSUME NEW r \in Requests, GiveUp(r) PROVE GateInv'
  <2>1. lock[r] \in Locks
    BY <1>0, <1>7 DEF GiveUp, GateTypeOK, Waiting
  <2>2. /\ permit' \in [Locks -> BOOLEAN]
        /\ signal' \in [Requests -> {"none", "waiting", "notified", "consumed"}]
        /\ signal'[r] = "none"
        /\ \A s \in Requests : signal'[s] # "none" => signal[s] # "none"
    BY <2>1, <1>0, <1>7, DropNotifiedType DEF GiveUp
  <2>3. GateTypeOK'
    BY <2>2, <1>0, <1>7 DEF GiveUp, GateTypeOK, Waiting
  <2>4. InTableOrOrphaned'
    BY <1>0, <1>7 DEF GiveUp, InTableOrOrphaned, GateTypeOK
  <2>5. \A s \in Requests : Holding(s)' => s # r /\ Holding(s) /\ lock'[s] = lock[s]
    BY <1>0, <1>7 DEF GiveUp, Holding, GateTypeOK
  <2>6. GuardMeansHeld' /\ OneGuardPerLock'
    BY <2>5, <1>0, <1>7 DEF GiveUp, GuardMeansHeld, OneGuardPerLock
  <2> QED
    BY <2>3, <2>4, <2>6 DEF GateInv
<1>8. CASE clear_gate_runtime_state
  <2>1. GateTypeOK'
    BY <1>0, <1>8 DEF clear_gate_runtime_state, GateTypeOK
  <2>2. InTableOrOrphaned'
    BY <1>0, <1>8 DEF clear_gate_runtime_state, InTableOrOrphaned, InUse, GateTypeOK
  <2> QED
    BY <2>1, <2>2, <1>0, <1>8
       DEF clear_gate_runtime_state, GateInv, GuardMeansHeld, OneGuardPerLock, Holding
<1>9. CASE Elapse
  BY <1>0, <1>9
     DEF Elapse, GateTypeOK, GateInv, InTableOrOrphaned,
         GuardMeansHeld, OneGuardPerLock, Holding
<1>10. CASE UNCHANGED gateVars
  BY <1>0, <1>10
     DEF gateVars, GateTypeOK, GateInv, InTableOrOrphaned,
         GuardMeansHeld, OneGuardPerLock, Holding
<1> QED
  BY <1>1, <1>2, <1>3, <1>4, <1>5, <1>6, <1>7, <1>8, <1>9, <1>10
     DEF GateNext, Progress

LEMMA GateInvariant == GateSpec => []GateInv
<1>1. GateInit => GateInv
  BY NoLockAssumption
     DEF GateInit, Waiting, GateTypeOK, GateInv, InTableOrOrphaned,
         GuardMeansHeld, OneGuardPerLock, Holding
<1> QED
  BY <1>1, StepKeepsGateInv, PTL DEF GateSpec

(* The gate's state is well formed, and a request refers to a lock exactly *)
(* while it is at the gate or holds its guard.                             *)
THEOREM GateTypeCorrect == GateSpec => []GateTypeOK
BY GateInvariant, PTL DEF GateInv

(* Two requests with one gate key hold a guard together only across a      *)
(* configuration reload: neither the cleanup nor the wait queue hands out  *)
(* a second one.  (A request that gave up waiting goes upstream without.)  *)
THEOREM GateExcludes == GateSpec => []MutualExclusion
<1>1. GateInv => MutualExclusion
  <2> SUFFICES ASSUME GateInv, NEW r \in Requests, NEW s \in Requests,
                      r # s, Holding(r), Holding(s), key[r] = key[s]
               PROVE  lock[r] # lock[s] /\ (lock[r] \in orphaned \/ lock[s] \in orphaned)
    BY DEF MutualExclusion
  <2>1. lock[r] # lock[s]
    BY DEF GateInv, OneGuardPerLock
  <2>2. lock[r] # NoLock /\ lock[s] # NoLock
    BY DEF GateInv, GateTypeOK, Holding, Waiting
  <2> QED
    BY <2>1, <2>2 DEF GateInv, InTableOrOrphaned
<1> QED
  BY <1>1, GateInvariant, PTL

-----------------------------------------------------------------------------
(* The wait queue.  A wake-up that a registration has used up              *)
(* ("consumed") is no help to the others, for its owner may give up        *)
(* without passing it on: what keeps a sleeper safe is a request that is   *)
(* certain to try the lock or to pass its wake-up on.                      *)

Sleeping(r) == signal[r] = "waiting"

Rescuer(s) == pc[s] \in {"enable", "try_registered"} \/ signal[s] = "notified"

(* Of lock l: if it is free and somebody sleeps on it, somebody will come. *)
Attended(l) ==
    ~held[l] /\ (\E r \in Requests : lock[r] = l /\ Sleeping(r))
      => \E s \in Requests : lock[s] = l /\ Rescuer(s)

WakeInv == \A l \in Locks : Attended(l)

(* notify_one leaves nobody asleep on the lock without a rescuer. *)
LEMMA NotifyOneWakes ==
    ASSUME NEW l \in Locks, NEW sig,
           sig \in [Requests -> {"none", "waiting", "notified", "consumed"}],
           NotifyOne(l, sig)
    PROVE  /\ (\E r \in Requests : lock[r] = l /\ signal'[r] = "waiting")
                 => \E s \in Requests :
                        lock[s] = l /\ sig[s] = "waiting" /\ signal'[s] = "notified"
           /\ \A r \in Requests : \/ signal'[r] = sig[r]
                                  \/ /\ sig[r] = "waiting" /\ signal'[r] = "notified"
                                     /\ lock[r] = l
<1> DEFINE waiters == {r \in Requests : lock[r] = l /\ sig[r] = "waiting"}
<1>1. CASE waiters = {}
  <2>1. signal' = sig
    BY <1>1 DEF NotifyOne
  <2> QED
    BY <1>1, <2>1
<1>2. CASE waiters # {}
  <2>1. PICK r \in waiters : signal' = [sig EXCEPT ![r] = "notified"]
    BY <1>2 DEF NotifyOne
  <2> QED
    BY <2>1
<1> QED
  BY <1>1, <1>2

(* A Notified that is dropped: if it had been woken, the wake-up goes to a *)
(* request that still sleeps.                                              *)
LEMMA DropNotifiedWakes ==
    ASSUME GateTypeOK, NEW r \in Requests, lock[r] \in Locks, DropNotified(r)
    PROVE  /\ signal'[r] = "none"
           /\ \A s \in Requests : s # r =>
                 \/ signal'[s] = signal[s]
                 \/ signal[s] = "waiting" /\ signal'[s] = "notified" /\ lock[s] = lock[r]
           /\ signal[r] = "notified" /\ (\E s \in Requests : lock[s] = lock[r] /\ signal'[s] = "waiting")
                 => \E s \in Requests : s # r /\ lock[s] = lock[r] /\ signal'[s] = "notified"
<1> DEFINE sig == [signal EXCEPT ![r] = "none"]
<1>1. /\ sig \in [Requests -> {"none", "waiting", "notified", "consumed"}]
      /\ sig[r] = "none"
      /\ \A s \in Requests : s # r => sig[s] = signal[s]
  BY DEF GateTypeOK
<1>2. CASE signal[r] = "notified"
  <2>1. NotifyOne(lock[r], sig)
    BY <1>2 DEF DropNotified
  <2> HIDE DEF sig
  <2> QED
    BY <2>1, <1>1, NotifyOneWakes
<1>3. CASE signal[r] # "notified"
  <2>1. signal' = sig
    BY <1>3 DEF DropNotified
  <2> QED
    BY <2>1, <1>1, <1>3
<1> QED
  BY <1>2, <1>3

LEMMA StepKeepsWakeInv == GateTypeOK /\ WakeInv /\ [GateNext]_gateVars => WakeInv'
<1> SUFFICES ASSUME GateTypeOK, WakeInv, [GateNext]_gateVars, NEW l \in Locks
             PROVE  Attended(l)'
  BY DEF WakeInv
<1>0. Attended(l)
  BY DEF WakeInv
<1>1. ASSUME NEW r \in Requests, NEW k \in Keys, request_gate_lock(r, k)
      PROVE  Attended(l)'
  <2>1. /\ pc[r] = "idle" /\ signal[r] = "none" /\ signal' = signal
        /\ pc' = [pc EXCEPT ![r] = "try_first"]
        /\ \A s \in Requests : s # r => lock'[s] = lock[s]
    BY <1>1 DEF request_gate_lock, GateTypeOK
  <2>2. \A s \in Requests : Rescuer(s) => s # r /\ Rescuer(s)'
    BY <2>1 DEF Rescuer, GateTypeOK
  <2>3. \A s \in Requests : Sleeping(s)' => s # r /\ Sleeping(s)
    BY <2>1 DEF Sleeping
  <2>4. (\E s \in Requests : lock[s] = l) => held'[l] = held[l]
    BY <1>1 DEF request_gate_lock, Unreferenced, InUse, GateTypeOK
  <2> QED
    BY <1>0, <2>1, <2>2, <2>3, <2>4 DEF Attended
<1>2. ASSUME NEW r \in Requests, TryFirst(r) PROVE Attended(l)'
  <2>1. /\ signal' = signal /\ lock' = lock
        /\ \A s \in Requests : Rescuer(s) => Rescuer(s)'
        /\ held[l] => held'[l]
    BY <1>2 DEF TryFirst, Rescuer, GateTypeOK
  <2> QED
    BY <1>0, <2>1 DEF Attended, Sleeping
<1>3. ASSUME NEW r \in Requests, Enable(r) PROVE Attended(l)'
  <2>1. /\ lock' = lock /\ held' = held
        /\ Rescuer(r) /\ Rescuer(r)'
        /\ \A s \in Requests : s # r => signal'[s] = signal[s] /\ pc'[s] = pc[s]
    BY <1>3 DEF Enable, EnableNotified, Rescuer, GateTypeOK
  <2> QED
    BY <1>0, <2>1 DEF Attended, Sleeping, Rescuer
<1>4. ASSUME NEW r \in Requests, TryRegistered(r) PROVE Attended(l)'
  <2>1. lock[r] \in Locks
    BY <1>4 DEF TryRegistered, GateTypeOK, Waiting
  <2>2. CASE held[lock[r]]
    <3>1. /\ lock' = lock /\ held' = held /\ signal' = signal
          /\ \A s \in Requests : s # r => pc'[s] = pc[s]
      BY <1>4, <2>2 DEF TryRegistered, GateTypeOK
    <3> QED
      BY <1>0, <2>2, <3>1 DEF Attended, Sleeping, Rescuer
  <2>3. CASE ~held[lock[r]]
    <3>1. /\ lock' = lock /\ held' = [held EXCEPT ![lock[r]] = TRUE] /\ DropNotified(r)
          /\ \A s \in Requests : s # r => pc'[s] = pc[s]
      BY <1>4, <2>3 DEF TryRegistered, GateTypeOK
    <3>2. CASE l = lock[r]
      BY <2>1, <3>1, <3>2 DEF Attended, GateTypeOK
    <3>3. CASE l # lock[r]
      <4>1. \A s \in Requests : lock[s] = l => s # r /\ signal'[s] = signal[s]
        BY <2>1, <3>1, <3>3, DropNotifiedWakes
      <4>2. held'[l] = held[l]
        BY <3>1, <3>3 DEF GateTypeOK
      <4> QED
        BY <1>0, <3>1, <4>1, <4>2 DEF Attended, Sleeping, Rescuer
    <3> QED
      BY <3>2, <3>3
  <2> QED
    BY <2>2, <2>3
<1>5. ASSUME NEW r \in Requests, Wake(r) PROVE Attended(l)'
  <2>1. /\ lock' = lock /\ held' = held /\ Rescuer(r)' /\ ~Sleeping(r)'
        /\ \A s \in Requests : s # r => signal'[s] = signal[s] /\ pc'[s] = pc[s]
    BY <1>5 DEF Wake, Rescuer, Sleeping, GateTypeOK
  <2> QED
    BY <1>0, <2>1 DEF Attended, Sleeping, Rescuer
<1>6. ASSUME NEW r \in Requests, Release(r) PROVE Attended(l)'
  <2>1. lock[r] \in Locks /\ signal[r] = "none"
    BY <1>6 DEF Release, GateTypeOK, Waiting
  <2>2. /\ NotifyOne(lock[r], signal)
        /\ held' = [held EXCEPT ![lock[r]] = FALSE]
        /\ \A s \in Requests : s # r => lock'[s] = lock[s] /\ pc'[s] = pc[s]
        /\ lock'[r] = NoLock
    BY <1>6 DEF Release, GateTypeOK
  <2>3. signal \in [Requests -> {"none", "waiting", "notified", "consumed"}]
    BY DEF GateTypeOK
  <2>4. CASE l = lock[r]
    BY <2>1, <2>2, <2>3, <2>4, NotifyOneWakes, NoLockAssumption DEF Attended, Sleeping, Rescuer
  <2>5. CASE l # lock[r]
    <3>1. \A s \in Requests : lock'[s] = l \/ lock[s] = l =>
              s # r /\ lock'[s] = lock[s] /\ signal'[s] = signal[s] /\ pc'[s] = pc[s]
      BY <2>1, <2>2, <2>3, <2>5, NotifyOneWakes, NoLockAssumption
    <3>2. held'[l] = held[l]
      BY <2>2, <2>5 DEF GateTypeOK
    <3> QED
      BY <1>0, <3>1, <3>2 DEF Attended, Sleeping, Rescuer
  <2> QED
    BY <2>4, <2>5
<1>7. ASSUME NEW r \in Requests, GiveUp(r) PROVE Attended(l)'
  <2>1. lock[r] \in Locks /\ DropNotified(r) /\ pc[r] \notin {"enable", "try_registered"}
    BY <1>7 DEF GiveUp, GateTypeOK, Waiting
  <2>2. /\ held' = held /\ lock'[r] = NoLock
        /\ \A s \in Requests : s # r => lock'[s] = lock[s] /\ pc'[s] = pc[s]
    BY <1>7 DEF GiveUp, GateTypeOK
  <2>3. SUFFICES ASSUME ~held[l], NEW w \in Requests, lock'[w] = l, signal'[w] = "waiting"
                 PROVE  \E s \in Requests : lock'[s] = l /\ Rescuer(s)'
    BY <2>2 DEF Attended, Sleeping
  <2>4. w # r /\ lock[w] = l /\ signal[w] = "waiting"
    BY <2>1, <2>2, <2>3, NoLockAssumption, DropNotifiedWakes
  <2>5. PICK s \in Requests : lock[s] = l /\ Rescuer(s)
    BY <1>0, <2>3, <2>4 DEF Attended, Sleeping
  <2>6. CASE s # r
    BY <2>1, <2>2, <2>5, <2>6, DropNotifiedWakes DEF Rescuer
  <2>7. CASE s = r
    <3>1. signal[r] = "notified" /\ lock[r] = l
      BY <2>1, <2>5, <2>7 DEF Rescuer
    <3>2. PICK t \in Requests : t # r /\ lock[t] = l /\ signal'[t] = "notified"
      BY <2>1, <2>3, <2>4, <3>1, DropNotifiedWakes
    <3> QED
      BY <2>2, <3>2 DEF Rescuer
  <2> QED
    BY <2>6, <2>7
<1>8. CASE UNCHANGED <<held, pc, lock, signal>>
  BY <1>0, <1>8 DEF Attended, Sleeping, Rescuer
<1> QED
  BY <1>1, <1>2, <1>3, <1>4, <1>5, <1>6, <1>7, <1>8
     DEF GateNext, Progress, gateVars, clear_gate_runtime_state, Elapse

LEMMA WakeInvariant == GateSpec => []WakeInv
<1>1. GateInit => WakeInv
  BY DEF GateInit, WakeInv, Attended, Sleeping
<1> QED
  BY <1>1, StepKeepsWakeInv, GateTypeCorrect, PTL DEF GateSpec

(* acquire_async registers before it checks, and a release, a timeout or a *)
(* cancellation passes the wake-up on: no request sleeps on a free lock    *)
(* that nobody is about to try.                                            *)
THEOREM WakeupsNeverLost == GateSpec => []NoLostWakeup
<1>1. GateTypeOK /\ WakeInv => NoLostWakeup
  <2> SUFFICES ASSUME GateTypeOK, WakeInv, NEW r \in Requests, pc[r] = "await",
                      signal[r] = "waiting", ~held[lock[r]]
               PROVE  \E s \in Requests :
                         /\ lock[s] = lock[r]
                         /\ \/ pc[s] \in {"enable", "try_registered"}
                            \/ signal[s] = "notified"
    BY DEF NoLostWakeup
  <2>1. lock[r] \in Locks
    BY DEF GateTypeOK, Waiting
  <2> QED
    BY <2>1 DEF WakeInv, Attended, Sleeping, Rescuer
<1> QED
  BY <1>1, GateTypeCorrect, WakeInvariant, PTL
=============================================================================
