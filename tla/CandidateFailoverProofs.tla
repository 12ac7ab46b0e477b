---------------------- MODULE CandidateFailoverProofs ----------------------
(***************************************************************************)
(* Proofs about CandidateFailover for any number of accounts, candidates   *)
(* and concurrent requests, and any account limit.                         *)
(***************************************************************************)
EXTENDS CandidateFailover, FiniteSetTheorems, TLAPS

Undecided == {"head", "enter", "send", "upstream", "preflight", "deliver"}

(* Nothing is answered or logged before the request leaves the loop, and   *)
(* nothing is logged while the delivery task has it.                       *)
OutcomeInv(r) ==
    /\ pc[r] \in Undecided => answers[r] = 0 /\ logs[r] = 0
    /\ pc[r] \in {"body", "finalize"} =>
         logs[r] = 0 /\ answers[r] <= 1 /\ (answers[r] = 1 \/ cancelled[r])
    /\ pc[r] = "done" =>
         /\ answers[r] <= 1 /\ (answers[r] = 1 \/ cancelled[r])
         /\ logs[r] <= 1 /\ (logs[r] = 1 \/ r \in unrecorded)

MaxCalls(which) == IF which = "first" THEN 1 ELSE IF which = "retry" THEN 2 ELSE 3

(* Each round sends once. *)
CallsInv(r) ==
    /\ calls[r] <= MaxCalls(round[r])
    /\ pc[r] = "send" => calls[r] < MaxCalls(round[r])
    /\ pc[r] \in {"head", "enter"} => calls[r] = 0 /\ round[r] = "first"

(* No guard is held between two candidates, so none is ever overwritten. *)
GuardInv(r) == pc[r] \in {"head", "enter"} => guard[r] = None

ExhaustedInv(r) == idx[r] > count[r] => anthropic[r]

RequestInv(r) ==
    /\ IndexInRange(r)
    /\ OutcomeInv(r)
    /\ CallsInv(r)
    /\ GuardInv(r)
    /\ ExhaustedInv(r)

FailoverInv ==
    /\ FieldTypes
    /\ InflightExact
    /\ \A r \in Requests : RequestInv(r)

(* A step of request r leaves the others alone; of r it may change anything. *)
OthersKept(r) ==
    /\ UNCHANGED input
    /\ unrecorded \subseteq unrecorded'
    /\ \A s \in Requests \ {r} :
         /\ idx'[s] = idx[s] /\ pc'[s] = pc[s]
         /\ round'[s] = round[s] /\ calls'[s] = calls[s]
         /\ guard'[s] = guard[s] /\ cancelled'[s] = cancelled[s]
         /\ answers'[s] = answers[s] /\ logs'[s] = logs[s]

USE FailoverAssumption

-----------------------------------------------------------------------------
(* The in-flight counters. *)

Holders(a) == {r \in Requests : guard[r] = a}

LEMMA HoldersFinite ==
    ASSUME NEW a
    PROVE  IsFiniteSet(Holders(a)) /\ Cardinality(Holders(a)) \in Nat
<1>1. Holders(a) \subseteq Requests
  BY DEF Holders
<1> QED
  BY <1>1, FS_Subset, FS_CardinalityType

LEMMA AcquireKeepsExact ==
    ASSUME FieldTypes, InflightExact, NEW r \in Requests, guard[r] = None,
           Candidate(r) \in Accounts, acquire_account_inflight(r)
    PROVE  InflightExact'
<1> SUFFICES ASSUME NEW a \in Accounts
             PROVE  inflight'[a] = Cardinality(Holders(a)')
  BY DEF InflightExact, Holders
<1>0. inflight[a] = Cardinality(Holders(a))
  BY DEF InflightExact, Holders
<1>1. CASE a = Candidate(r)
  <2>1. Holders(a)' = Holders(a) \union {r} /\ r \notin Holders(a)
    BY <1>1 DEF Holders, acquire_account_inflight, FieldTypes
  <2>2. Cardinality(Holders(a)') = Cardinality(Holders(a)) + 1
    BY <2>1, HoldersFinite, FS_AddElement
  <2> QED
    BY <1>0, <1>1, <2>2 DEF acquire_account_inflight, FieldTypes
<1>2. CASE a # Candidate(r)
  <2>1. Holders(a)' = Holders(a)
    BY <1>2 DEF Holders, acquire_account_inflight, FieldTypes
  <2> QED
    BY <1>0, <1>2, <2>1 DEF acquire_account_inflight, FieldTypes
<1> QED
  BY <1>1, <1>2

LEMMA DropKeepsExact ==
    ASSUME FieldTypes, InflightExact, NEW r \in Requests, DropGuard(r)
    PROVE  InflightExact'
<1> SUFFICES ASSUME NEW a \in Accounts
             PROVE  inflight'[a] = Cardinality(Holders(a)')
  BY DEF InflightExact, Holders
<1>0. inflight[a] = Cardinality(Holders(a))
  BY DEF InflightExact, Holders
<1>1. CASE a = guard[r]
  <2>1. Holders(a)' = Holders(a) \ {r} /\ r \in Holders(a)
    BY <1>1 DEF Holders, DropGuard, FieldTypes
  <2>2. Cardinality(Holders(a)') = Cardinality(Holders(a)) - 1
    BY <2>1, HoldersFinite, FS_RemoveElement
  <2>3. Cardinality(Holders(a)) > 0
    BY <2>1, HoldersFinite, FS_EmptySet
  <2> QED
    BY <1>0, <1>1, <2>2, <2>3, HoldersFinite DEF DropGuard, FieldTypes
<1>2. CASE a # guard[r]
  <2>1. Holders(a)' = Holders(a)
    BY <1>2 DEF Holders, DropGuard, FieldTypes
  <2> QED
    BY <1>0, <1>2, <2>1 DEF DropGuard, FieldTypes
<1> QED
  BY <1>1, <1>2

LEMMA UntouchedKeepsExact ==
    ASSUME InflightExact, UNCHANGED <<inflight, guard>>
    PROVE  InflightExact'
BY DEF InflightExact

LEMMA OthersKeepInv ==
    ASSUME NEW r \in Requests, NEW s \in Requests, s # r, RequestInv(s), OthersKept(r)
    PROVE  RequestInv(s)'
BY DEF RequestInv, IndexInRange, OutcomeInv, CallsInv, GuardInv, ExhaustedInv,
       OthersKept, input, Undecided, MaxCalls
-----------------------------------------------------------------------------
(* One lemma for each step of a request. *)

LEMMA IndexTypes ==
    ASSUME FieldTypes, NEW r \in Requests
    PROVE  /\ idx[r] \in Nat /\ count[r] \in Nat
           /\ idx[r] >= 1 /\ count[r] <= MaxCandidates
BY DEF FieldTypes

LEMMA CandidateIsAccount ==
    ASSUME FieldTypes, NEW r \in Requests, idx[r] <= count[r]
    PROVE  Candidate(r) \in Accounts
<1>1. idx[r] \in 1..MaxCandidates
  BY IndexTypes
<1> QED
  BY <1>1 DEF Candidate, FieldTypes

(* Marking or releasing an account leaves a set of accounts. *)
LEMMA CoolingTyped ==
    ASSUME FieldTypes, NEW r \in Requests, idx[r] <= count[r],
           \/ UNCHANGED cooling
           \/ MayMark(r)
           \/ Cooldown!Mark(Candidate(r))
           \/ Cooldown!Release(Candidate(r))
    PROVE  cooling' \subseteq Accounts
<1>1. Candidate(r) \in Accounts /\ cooling \subseteq Accounts
  BY CandidateIsAccount DEF FieldTypes
<1> QED
  BY <1>1 DEF MayMark, Cooldown!Mark, Cooldown!Release

(* The parts that actions share keep the types of what they change. *)
LEMMA OutcomeTyped ==
    ASSUME FieldTypes, NEW r \in Requests
    PROVE  /\ Answer(r) => answers' \in [Requests -> Nat]
           /\ log_final_result(r) => logs' \in [Requests -> Nat]
<1>1. answers \in [Requests -> Nat] /\ logs \in [Requests -> Nat]
  BY DEF FieldTypes
<1> QED
  BY <1>1 DEF Answer, log_final_result

LEMMA DropTyped ==
    ASSUME FieldTypes, NEW r \in Requests, DropGuard(r)
    PROVE  /\ inflight' \in [Accounts -> Nat]
           /\ guard' \in [Requests -> Accounts \union {None}]
BY DEF DropGuard, FieldTypes

LEMMA NextTyped ==
    ASSUME FieldTypes, NEW r \in Requests, idx[r] <= count[r], NextCandidate(r)
    PROVE  /\ idx' \in [Requests -> 1..(MaxCandidates + 1)]
           /\ pc' \in [Requests -> Steps]
           /\ round' \in [Requests -> {"first", "retry", "stripped"}]
           /\ calls' \in [Requests -> Nat]
           /\ ok' \in [Requests -> BOOLEAN]
<1>1. idx[r] + 1 \in 1..(MaxCandidates + 1)
  BY IndexTypes
<1> QED
  BY <1>1 DEF NextCandidate, Goto, FieldTypes, Steps

(* What a step of r has to show. *)
LEMMA StepKeepsInv ==
    ASSUME FailoverInv, NEW r \in Requests,
           FieldTypes', InflightExact', RequestInv(r)', OthersKept(r)
    PROVE  FailoverInv'
BY OthersKeepInv DEF FailoverInv

LEMMA CancelledKeepsInv ==
    ASSUME FailoverInv, NEW r \in Requests, finalize_cancelled_candidate(r)
    PROVE  FailoverInv'
<1>0. /\ FieldTypes /\ InflightExact /\ RequestInv(r)
      /\ idx[r] \in Nat /\ count[r] \in Nat
  BY IndexTypes DEF FailoverInv
<1>a. idx[r] <= count[r]
  BY <1>0 DEF finalize_cancelled_candidate, AtCandidate, HasMore, RequestInv, IndexInRange
<1>c. cooling' \subseteq Accounts
  BY <1>0, <1>a, CoolingTyped DEF finalize_cancelled_candidate
<1>1. FieldTypes'
  BY <1>0, <1>a, <1>c, DropTyped, OutcomeTyped
     DEF finalize_cancelled_candidate, AtCandidate, Goto, input,
         attempt, FieldTypes, Steps
<1>2. InflightExact'
  BY <1>0, DropKeepsExact DEF finalize_cancelled_candidate
<1>3. RequestInv(r)'
  BY <1>0, <1>a
     DEF finalize_cancelled_candidate, AtCandidate, log_final_result,
         DropGuard, Goto, input, attempt, FieldTypes, RequestInv,
         IndexInRange, OutcomeInv, CallsInv, GuardInv, ExhaustedInv,
         Undecided, MaxCalls
<1>4. OthersKept(r)
  BY <1>0
     DEF finalize_cancelled_candidate, log_final_result, DropGuard,
         Goto, input, attempt, FieldTypes, OthersKept
<1> QED
  BY <1>1, <1>2, <1>3, <1>4, StepKeepsInv

LEMMA TimeoutKeepsInv ==
    ASSUME FailoverInv, NEW r \in Requests, respond_total_timeout(r)
    PROVE  FailoverInv'
<1>0. /\ FieldTypes /\ InflightExact /\ RequestInv(r)
      /\ idx[r] \in Nat /\ count[r] \in Nat
  BY IndexTypes DEF FailoverInv
<1>a. idx[r] <= count[r]
  BY <1>0 DEF respond_total_timeout, AtCandidate, HasMore, RequestInv, IndexInRange
<1>1. FieldTypes'
  BY <1>0, <1>a, OutcomeTyped
     DEF respond_total_timeout, AtCandidate, Goto, input, attempt,
         FieldTypes, Steps
<1>2. InflightExact'
  BY <1>0, UntouchedKeepsExact DEF respond_total_timeout
<1>3. RequestInv(r)'
  BY <1>0, <1>a
     DEF respond_total_timeout, AtCandidate, log_final_result, Answer,
         Goto, input, attempt, FieldTypes, RequestInv, IndexInRange,
         OutcomeInv, CallsInv, GuardInv, ExhaustedInv, Undecided, MaxCalls
<1>4. OthersKept(r)
  BY <1>0
     DEF respond_total_timeout, log_final_result, Answer, Goto, input,
         attempt, FieldTypes, OthersKept
<1> QED
  BY <1>1, <1>2, <1>3, <1>4, StepKeepsInv

LEMMA SkipKeepsInv ==
    ASSUME FailoverInv, NEW r \in Requests, should_skip_candidate(r)
    PROVE  FailoverInv'
<1>0. /\ FieldTypes /\ InflightExact /\ RequestInv(r)
      /\ idx[r] \in Nat /\ count[r] \in Nat
  BY IndexTypes DEF FailoverInv
<1>a. idx[r] <= count[r]
  BY <1>0 DEF should_skip_candidate, AtCandidate, HasMore, RequestInv, IndexInRange
<1>1. FieldTypes'
  BY <1>0, <1>a, NextTyped
     DEF should_skip_candidate, AtCandidate, SkipsCandidate, HasMore,
         Goto, input, attempt, outcome, FieldTypes, Steps
<1>2. InflightExact'
  BY <1>0, UntouchedKeepsExact DEF should_skip_candidate, NextCandidate
<1>3. RequestInv(r)'
  BY <1>0, <1>a
     DEF should_skip_candidate, AtCandidate, SkipsCandidate, HasMore,
         NextCandidate, Goto, input, attempt, outcome, FieldTypes,
         RequestInv, IndexInRange, OutcomeInv, CallsInv, GuardInv,
         ExhaustedInv, Undecided, MaxCalls
<1>4. OthersKept(r)
  <2>1. CASE SkipsCandidate(r)
    BY <1>0, <2>1 DEF should_skip_candidate, NextCandidate, Goto, input,
         outcome, FieldTypes, OthersKept
  <2>2. CASE ~SkipsCandidate(r)
    BY <1>0, <2>2 DEF should_skip_candidate, Goto, input, attempt, outcome,
         FieldTypes, OthersKept
  <2> QED
    BY <2>1, <2>2
<1> QED
  BY <1>1, <1>2, <1>3, <1>4, StepKeepsInv

LEMMA EnterKeepsInv ==
    ASSUME FailoverInv, NEW r \in Requests, Enter(r)
    PROVE  FailoverInv'
<1>0. /\ FieldTypes /\ InflightExact /\ RequestInv(r)
      /\ idx[r] \in Nat /\ count[r] \in Nat
  BY IndexTypes DEF FailoverInv
<1>a. idx[r] <= count[r]
  BY <1>0 DEF Enter, AtCandidate, HasMore, RequestInv, IndexInRange
<1>b. Candidate(r) \in Accounts
  BY <1>0, <1>a, CandidateIsAccount
<1>1. FieldTypes'
  <2>1. inflight' \in [Accounts -> Nat] /\ guard' \in [Requests -> Accounts \union {None}]
    BY <1>0, <1>b DEF Enter, acquire_account_inflight, FieldTypes
  <2>2. pc' \in [Requests -> Steps]
    BY <1>0 DEF Enter, Goto, FieldTypes, Steps
  <2> QED
    BY <1>0, <2>1, <2>2 DEF Enter, input, attempt, outcome, FieldTypes
<1>2. InflightExact'
  BY <1>0, <1>b, AcquireKeepsExact DEF Enter, RequestInv, GuardInv
<1>3. RequestInv(r)'
  BY <1>0, <1>a
     DEF Enter, acquire_account_inflight, Goto, input, attempt,
         outcome, FieldTypes, RequestInv, IndexInRange, OutcomeInv,
         CallsInv, GuardInv, ExhaustedInv, Undecided, MaxCalls
<1>4. OthersKept(r)
  BY <1>0
     DEF Enter, acquire_account_inflight, Goto, input, attempt,
         outcome, FieldTypes, OthersKept
<1> QED
  BY <1>1, <1>2, <1>3, <1>4, StepKeepsInv

LEMMA SendKeepsInv ==
    ASSUME FailoverInv, NEW r \in Requests, run_candidate_attempt(r)
    PROVE  FailoverInv'
<1>0. /\ FieldTypes /\ InflightExact /\ RequestInv(r)
      /\ idx[r] \in Nat /\ count[r] \in Nat
  BY IndexTypes DEF FailoverInv
<1>a. idx[r] <= count[r]
  BY <1>0 DEF run_candidate_attempt, AtCandidate, HasMore, RequestInv, IndexInRange
<1>1. FieldTypes'
  BY <1>0, <1>a
     DEF run_candidate_attempt, Goto, input, outcome, FieldTypes, Steps
<1>2. InflightExact'
  BY <1>0, UntouchedKeepsExact DEF run_candidate_attempt
<1>3. RequestInv(r)'
  BY <1>0, <1>a
     DEF run_candidate_attempt, Goto, input, outcome, FieldTypes,
         RequestInv, IndexInRange, OutcomeInv, CallsInv, GuardInv,
         ExhaustedInv, Undecided, MaxCalls
<1>4. OthersKept(r)
  BY <1>0
     DEF run_candidate_attempt, Goto, input, outcome, FieldTypes,
         OthersKept
<1> QED
  BY <1>1, <1>2, <1>3, <1>4, StepKeepsInv

LEMMA FailoverKeepsInv ==
    ASSUME FailoverInv, NEW r \in Requests, CandidateFailover(r)
    PROVE  FailoverInv'
<1>0. /\ FieldTypes /\ InflightExact /\ RequestInv(r)
      /\ idx[r] \in Nat /\ count[r] \in Nat
  BY IndexTypes DEF FailoverInv
<1>a. idx[r] <= count[r]
  BY <1>0 DEF CandidateFailover, AtCandidate, HasMore, RequestInv, IndexInRange
<1>c. cooling' \subseteq Accounts
  BY <1>0, <1>a, CoolingTyped DEF CandidateFailover
<1>1. FieldTypes'
  BY <1>0, <1>a, <1>c, DropTyped, NextTyped
     DEF CandidateFailover, RetriesSameAccount, Retry, HasMore, Goto,
         input, outcome, FieldTypes, Steps
<1>2. InflightExact'
  BY <1>0, DropKeepsExact, UntouchedKeepsExact
     DEF CandidateFailover, RetriesSameAccount, Retry, NextCandidate,
         Goto
<1>3. RequestInv(r)'
  BY <1>0, <1>a
     DEF CandidateFailover, RetriesSameAccount, Retry, DropGuard,
         NextCandidate, HasMore, Goto, input, outcome, FieldTypes,
         RequestInv, IndexInRange, OutcomeInv, CallsInv, GuardInv,
         ExhaustedInv, Undecided, MaxCalls
<1>4. OthersKept(r)
  <2>1. CASE RetriesSameAccount(r)
    BY <1>0, <2>1 DEF CandidateFailover, Retry, Goto, input, outcome,
         FieldTypes, OthersKept
  <2>2. CASE ~RetriesSameAccount(r)
    BY <1>0, <2>2 DEF CandidateFailover, DropGuard, NextCandidate, Goto,
         input, outcome, FieldTypes, OthersKept
  <2> QED
    BY <2>1, <2>2
<1> QED
  BY <1>1, <1>2, <1>3, <1>4, StepKeepsInv

LEMMA TerminalFailoverKeepsInv ==
    ASSUME FailoverInv, NEW r \in Requests, TerminalFailover(r)
    PROVE  FailoverInv'
<1>0. /\ FieldTypes /\ InflightExact /\ RequestInv(r)
      /\ idx[r] \in Nat /\ count[r] \in Nat
  BY IndexTypes DEF FailoverInv
<1>a. idx[r] <= count[r]
  BY <1>0 DEF TerminalFailover, AtCandidate, HasMore, RequestInv, IndexInRange
<1>c. cooling' \subseteq Accounts
  BY <1>0, <1>a, CoolingTyped DEF TerminalFailover
<1>1. FieldTypes'
  BY <1>0, <1>a, <1>c, DropTyped, NextTyped
     DEF TerminalFailover, HasMore, Goto, input, outcome, FieldTypes,
         Steps
<1>2. InflightExact'
  BY <1>0, DropKeepsExact DEF TerminalFailover
<1>3. RequestInv(r)'
  BY <1>0, <1>a
     DEF TerminalFailover, DropGuard, NextCandidate, HasMore, Goto,
         input, outcome, FieldTypes, RequestInv, IndexInRange, OutcomeInv,
         CallsInv, GuardInv, ExhaustedInv, Undecided, MaxCalls
<1>4. OthersKept(r)
  BY <1>0
     DEF TerminalFailover, DropGuard, NextCandidate, Goto, input,
         outcome, FieldTypes, OthersKept
<1> QED
  BY <1>1, <1>2, <1>3, <1>4, StepKeepsInv

LEMMA TerminalKeepsInv ==
    ASSUME FailoverInv, NEW r \in Requests, respond_terminal_attempt(r)
    PROVE  FailoverInv'
<1>0. /\ FieldTypes /\ InflightExact /\ RequestInv(r)
      /\ idx[r] \in Nat /\ count[r] \in Nat
  BY IndexTypes DEF FailoverInv
<1>a. idx[r] <= count[r]
  BY <1>0 DEF respond_terminal_attempt, AtCandidate, HasMore, RequestInv, IndexInRange
<1>c. cooling' \subseteq Accounts
  BY <1>0, <1>a, CoolingTyped DEF respond_terminal_attempt
<1>1. FieldTypes'
  BY <1>0, <1>a, <1>c, DropTyped, OutcomeTyped
     DEF respond_terminal_attempt, Goto, input, attempt, FieldTypes,
         Steps
<1>2. InflightExact'
  BY <1>0, DropKeepsExact DEF respond_terminal_attempt
<1>3. RequestInv(r)'
  BY <1>0, <1>a
     DEF respond_terminal_attempt, log_final_result, Answer, DropGuard,
         Goto, input, attempt, FieldTypes, RequestInv, IndexInRange,
         OutcomeInv, CallsInv, GuardInv, ExhaustedInv, Undecided, MaxCalls
<1>4. OthersKept(r)
  BY <1>0
     DEF respond_terminal_attempt, log_final_result, Answer, DropGuard,
         Goto, input, attempt, FieldTypes, OthersKept
<1> QED
  BY <1>1, <1>2, <1>3, <1>4, StepKeepsInv

LEMMA RespondKeepsInv ==
    ASSUME FailoverInv, NEW r \in Requests, RespondUpstream(r)
    PROVE  FailoverInv'
<1>0. /\ FieldTypes /\ InflightExact /\ RequestInv(r)
      /\ idx[r] \in Nat /\ count[r] \in Nat
  BY IndexTypes DEF FailoverInv
<1>a. idx[r] <= count[r]
  BY <1>0 DEF RespondUpstream, AtCandidate, HasMore, RequestInv, IndexInRange
<1>c. cooling' \subseteq Accounts
  BY <1>0, <1>a, CoolingTyped DEF RespondUpstream
<1>1. FieldTypes'
  BY <1>0, <1>a, <1>c
     DEF RespondUpstream, Goto, input, outcome, FieldTypes, Steps
<1>2. InflightExact'
  BY <1>0, UntouchedKeepsExact DEF RespondUpstream
<1>3. RequestInv(r)'
  BY <1>0, <1>a
     DEF RespondUpstream, Goto, input, outcome, FieldTypes, RequestInv,
         IndexInRange, OutcomeInv, CallsInv, GuardInv, ExhaustedInv,
         Undecided, MaxCalls
<1>4. OthersKept(r)
  BY <1>0
     DEF RespondUpstream, Goto, input, outcome, FieldTypes, OthersKept
<1> QED
  BY <1>1, <1>2, <1>3, <1>4, StepKeepsInv

LEMMA StrippedKeepsInv ==
    ASSUME FailoverInv, NEW r \in Requests, StrippedRetry(r)
    PROVE  FailoverInv'
<1>0. /\ FieldTypes /\ InflightExact /\ RequestInv(r)
      /\ idx[r] \in Nat /\ count[r] \in Nat
  BY IndexTypes DEF FailoverInv
<1>1. FieldTypes'
  BY <1>0
     DEF StrippedRetry, Retry, Goto, input, outcome, FieldTypes, Steps
<1>2. InflightExact'
  BY <1>0, UntouchedKeepsExact DEF StrippedRetry, Retry
<1>3. RequestInv(r)'
  BY <1>0
     DEF StrippedRetry, Retry, Goto, input, outcome, FieldTypes,
         RequestInv, IndexInRange, OutcomeInv, CallsInv, GuardInv,
         ExhaustedInv, Undecided, MaxCalls
<1>4. OthersKept(r)
  BY <1>0
     DEF StrippedRetry, Retry, Goto, input, outcome, FieldTypes,
         OthersKept
<1> QED
  BY <1>1, <1>2, <1>3, <1>4, StepKeepsInv

LEMMA PreflightKeepsInv ==
    ASSUME FailoverInv, NEW r \in Requests, PreflightFailover(r)
    PROVE  FailoverInv'
<1>0. /\ FieldTypes /\ InflightExact /\ RequestInv(r)
      /\ idx[r] \in Nat /\ count[r] \in Nat
  BY IndexTypes DEF FailoverInv
<1>a. idx[r] <= count[r]
  BY <1>0 DEF PreflightFailover, AtCandidate, HasMore, RequestInv, IndexInRange
<1>c. cooling' \subseteq Accounts
  BY <1>0, <1>a, CoolingTyped DEF PreflightFailover
<1>1. FieldTypes'
  BY <1>0, <1>a, <1>c, DropTyped, NextTyped
     DEF PreflightFailover, HasMore, Goto, input, outcome, FieldTypes,
         Steps
<1>2. InflightExact'
  BY <1>0, DropKeepsExact DEF PreflightFailover
<1>3. RequestInv(r)'
  BY <1>0, <1>a
     DEF PreflightFailover, DropGuard, NextCandidate, HasMore, Goto,
         input, outcome, FieldTypes, RequestInv, IndexInRange, OutcomeInv,
         CallsInv, GuardInv, ExhaustedInv, Undecided, MaxCalls
<1>4. OthersKept(r)
  BY <1>0
     DEF PreflightFailover, DropGuard, NextCandidate, Goto, input,
         outcome, FieldTypes, OthersKept
<1> QED
  BY <1>1, <1>2, <1>3, <1>4, StepKeepsInv

LEMMA FinalizeKeepsInv ==
    ASSUME FailoverInv, NEW r \in Requests, finalize_upstream_response(r)
    PROVE  FailoverInv'
<1>0. /\ FieldTypes /\ InflightExact /\ RequestInv(r)
      /\ idx[r] \in Nat /\ count[r] \in Nat
  BY IndexTypes DEF FailoverInv
<1>1. FieldTypes'
  BY <1>0
     DEF finalize_upstream_response, Goto, input, attempt, outcome,
         FieldTypes, Steps
<1>2. InflightExact'
  BY <1>0, UntouchedKeepsExact DEF finalize_upstream_response
<1>3. RequestInv(r)'
  BY <1>0
     DEF finalize_upstream_response, Goto, input, attempt, outcome,
         FieldTypes, RequestInv, IndexInRange, OutcomeInv, CallsInv,
         GuardInv, ExhaustedInv, Undecided, MaxCalls
<1>4. OthersKept(r)
  BY <1>0
     DEF finalize_upstream_response, Goto, input, attempt, outcome,
         FieldTypes, OthersKept
<1> QED
  BY <1>1, <1>2, <1>3, <1>4, StepKeepsInv

LEMMA NotStartedKeepsInv ==
    ASSUME FailoverInv, NEW r \in Requests, DeliveryNotStarted(r)
    PROVE  FailoverInv'
<1>0. /\ FieldTypes /\ InflightExact /\ RequestInv(r)
      /\ idx[r] \in Nat /\ count[r] \in Nat
  BY IndexTypes DEF FailoverInv
<1>1. FieldTypes'
  BY <1>0, DropTyped, OutcomeTyped
     DEF DeliveryNotStarted, Goto, input, attempt, FieldTypes, Steps
<1>2. InflightExact'
  BY <1>0, DropKeepsExact DEF DeliveryNotStarted
<1>3. RequestInv(r)'
  BY <1>0
     DEF DeliveryNotStarted, DropGuard, Answer, Goto, input, attempt,
         FieldTypes, RequestInv, IndexInRange, OutcomeInv, CallsInv,
         GuardInv, ExhaustedInv, Undecided, MaxCalls
<1>4. OthersKept(r)
  BY <1>0
     DEF DeliveryNotStarted, DropGuard, Answer, Goto, input, attempt,
         FieldTypes, OthersKept
<1> QED
  BY <1>1, <1>2, <1>3, <1>4, StepKeepsInv

LEMMA HeadKeepsInv ==
    ASSUME FailoverInv, NEW r \in Requests, RespondHead(r)
    PROVE  FailoverInv'
<1>0. /\ FieldTypes /\ InflightExact /\ RequestInv(r)
      /\ idx[r] \in Nat /\ count[r] \in Nat
  BY IndexTypes DEF FailoverInv
<1>1. FieldTypes'
  BY <1>0, OutcomeTyped
     DEF RespondHead, Goto, input, attempt, FieldTypes, Steps
<1>2. InflightExact'
  BY <1>0, UntouchedKeepsExact DEF RespondHead
<1>3. RequestInv(r)'
  BY <1>0
     DEF RespondHead, Answer, Goto, input, attempt, FieldTypes,
         RequestInv, IndexInRange, OutcomeInv, CallsInv, GuardInv,
         ExhaustedInv, Undecided, MaxCalls
<1>4. OthersKept(r)
  BY <1>0
     DEF RespondHead, Answer, Goto, input, attempt, FieldTypes,
         OthersKept
<1> QED
  BY <1>1, <1>2, <1>3, <1>4, StepKeepsInv

LEMMA EndDeliveryKeepsInv ==
    ASSUME FailoverInv, NEW r \in Requests, EndDelivery(r)
    PROVE  FailoverInv'
<1>0. /\ FieldTypes /\ InflightExact /\ RequestInv(r)
      /\ idx[r] \in Nat /\ count[r] \in Nat
  BY IndexTypes DEF FailoverInv
<1>1. FieldTypes'
  BY <1>0, DropTyped
     DEF EndDelivery, Goto, input, attempt, outcome, FieldTypes, Steps
<1>2. InflightExact'
  BY <1>0, DropKeepsExact DEF EndDelivery
<1>3. RequestInv(r)'
  BY <1>0
     DEF EndDelivery, DropGuard, Goto, input, attempt, outcome,
         FieldTypes, RequestInv, IndexInRange, OutcomeInv, CallsInv,
         GuardInv, ExhaustedInv, Undecided, MaxCalls
<1>4. OthersKept(r)
  BY <1>0
     DEF EndDelivery, DropGuard, Goto, input, attempt, outcome,
         FieldTypes, OthersKept
<1> QED
  BY <1>1, <1>2, <1>3, <1>4, StepKeepsInv

LEMMA BridgeKeepsInv ==
    ASSUME FailoverInv, NEW r \in Requests, finalize_bridge_result(r)
    PROVE  FailoverInv'
<1>0. /\ FieldTypes /\ InflightExact /\ RequestInv(r)
      /\ idx[r] \in Nat /\ count[r] \in Nat
  BY IndexTypes DEF FailoverInv
<1>a. idx[r] <= count[r]
  BY <1>0 DEF finalize_bridge_result, AtCandidate, HasMore, RequestInv, IndexInRange
<1>c. cooling' \subseteq Accounts
  BY <1>0, <1>a, CoolingTyped DEF finalize_bridge_result
<1>1. FieldTypes'
  BY <1>0, <1>a, <1>c, OutcomeTyped
     DEF finalize_bridge_result, Goto, input, attempt, FieldTypes,
         Steps
<1>2. InflightExact'
  BY <1>0, UntouchedKeepsExact DEF finalize_bridge_result
<1>3. RequestInv(r)'
  BY <1>0, <1>a
     DEF finalize_bridge_result, log_final_result, Goto, input,
         attempt, FieldTypes, RequestInv, IndexInRange, OutcomeInv,
         CallsInv, GuardInv, ExhaustedInv, Undecided, MaxCalls
<1>4. OthersKept(r)
  BY <1>0
     DEF finalize_bridge_result, log_final_result, Goto, input,
         attempt, FieldTypes, OthersKept
<1> QED
  BY <1>1, <1>2, <1>3, <1>4, StepKeepsInv

LEMMA ExhaustedKeepsInv ==
    ASSUME FailoverInv, NEW r \in Requests, Exhausted(r)
    PROVE  FailoverInv'
<1>0. /\ FieldTypes /\ InflightExact /\ RequestInv(r)
      /\ idx[r] \in Nat /\ count[r] \in Nat
  BY IndexTypes DEF FailoverInv
<1>1. FieldTypes'
  BY <1>0, OutcomeTyped
     DEF Exhausted, Goto, input, attempt, FieldTypes, Steps
<1>2. InflightExact'
  BY <1>0, UntouchedKeepsExact DEF Exhausted
<1>3. RequestInv(r)'
  BY <1>0
     DEF Exhausted, log_final_result, Answer, Goto, input, attempt,
         FieldTypes, RequestInv, IndexInRange, OutcomeInv, CallsInv,
         GuardInv, ExhaustedInv, Undecided, MaxCalls
<1>4. OthersKept(r)
  BY <1>0
     DEF Exhausted, log_final_result, Answer, Goto, input, attempt,
         FieldTypes, OthersKept
<1> QED
  BY <1>1, <1>2, <1>3, <1>4, StepKeepsInv

LEMMA GoneKeepsInv ==
    ASSUME FailoverInv, NEW r \in Requests, ClientGone(r)
    PROVE  FailoverInv'
<1>0. /\ FieldTypes /\ InflightExact /\ RequestInv(r)
      /\ idx[r] \in Nat /\ count[r] \in Nat
  BY IndexTypes DEF FailoverInv
<1>1. FieldTypes'
  BY <1>0 DEF ClientGone, input, attempt, outcome, FieldTypes, Steps
<1>2. InflightExact'
  BY <1>0, UntouchedKeepsExact DEF ClientGone
<1>3. RequestInv(r)'
  BY <1>0
     DEF ClientGone, input, attempt, outcome, FieldTypes, RequestInv,
         IndexInRange, OutcomeInv, CallsInv, GuardInv, ExhaustedInv,
         Undecided, MaxCalls
<1>4. OthersKept(r)
  BY <1>0
     DEF ClientGone, input, attempt, outcome, FieldTypes, OthersKept
<1> QED
  BY <1>1, <1>2, <1>3, <1>4, StepKeepsInv

LEMMA DeadlineKeepsInv ==
    ASSUME FailoverInv, NEW r \in Requests, DeadlinePasses(r)
    PROVE  FailoverInv'
<1>0. /\ FieldTypes /\ InflightExact /\ RequestInv(r)
      /\ idx[r] \in Nat /\ count[r] \in Nat
  BY IndexTypes DEF FailoverInv
<1>1. FieldTypes'
  BY <1>0 DEF DeadlinePasses, input, attempt, outcome, FieldTypes, Steps
<1>2. InflightExact'
  BY <1>0, UntouchedKeepsExact DEF DeadlinePasses
<1>3. RequestInv(r)'
  BY <1>0
     DEF DeadlinePasses, input, attempt, outcome, FieldTypes,
         RequestInv, IndexInRange, OutcomeInv, CallsInv, GuardInv,
         ExhaustedInv, Undecided, MaxCalls
<1>4. OthersKept(r)
  BY <1>0
     DEF DeadlinePasses, input, attempt, outcome, FieldTypes,
         OthersKept
<1> QED
  BY <1>1, <1>2, <1>3, <1>4, StepKeepsInv

-----------------------------------------------------------------------------
LEMMA ExpireKeepsInv ==
    ASSUME FailoverInv, CooldownsExpire
    PROVE  FailoverInv'
<1>1. FieldTypes'
  BY DEF FailoverInv, CooldownsExpire, Cooldown!Expire, input, attempt, outcome,
         FieldTypes
<1>2. InflightExact'
  BY UntouchedKeepsExact DEF FailoverInv, CooldownsExpire
<1>3. ASSUME NEW r \in Requests PROVE RequestInv(r)'
  BY DEF FailoverInv, CooldownsExpire, input, attempt, outcome,
         RequestInv, IndexInRange, OutcomeInv, CallsInv, GuardInv, ExhaustedInv
<1> QED
  BY <1>1, <1>2, <1>3 DEF FailoverInv

LEMMA InitEstablishesInv == Init => FailoverInv
<1> SUFFICES ASSUME Init PROVE FailoverInv
  OBVIOUS
<1>1. FieldTypes
  BY DEF Init, FieldTypes, Steps, Cooldown!Init
<1>2. InflightExact
  <2>1. \A a \in Accounts : {r \in Requests : guard[r] = a} = {}
    BY DEF Init
  <2> QED
    BY <2>1, FS_EmptySet DEF Init, InflightExact
<1>3. ASSUME NEW r \in Requests PROVE RequestInv(r)
  <2>1. count[r] \in Nat /\ count[r] >= 1
    BY DEF Init
  <2> QED
    BY <2>1 DEF Init, RequestInv, IndexInRange, OutcomeInv, CallsInv, GuardInv,
           ExhaustedInv, Undecided, MaxCalls
<1> QED
  BY <1>1, <1>2, <1>3 DEF FailoverInv

LEMMA NextKeepsInv == FailoverInv /\ [Next]_vars => FailoverInv'
<1> SUFFICES ASSUME FailoverInv, [Next]_vars PROVE FailoverInv'
  OBVIOUS
<1>1. ASSUME NEW r \in Requests, RequestStep(r) PROVE FailoverInv'
  BY <1>1, CancelledKeepsInv, TimeoutKeepsInv, SkipKeepsInv, EnterKeepsInv,
     SendKeepsInv, FailoverKeepsInv, TerminalFailoverKeepsInv, TerminalKeepsInv,
     RespondKeepsInv, StrippedKeepsInv, PreflightKeepsInv, FinalizeKeepsInv, NotStartedKeepsInv,
     HeadKeepsInv, EndDeliveryKeepsInv, BridgeKeepsInv, ExhaustedKeepsInv
     DEF RequestStep
<1>2. ASSUME NEW r \in Requests, ClientGone(r) \/ DeadlinePasses(r) PROVE FailoverInv'
  BY <1>2, GoneKeepsInv, DeadlineKeepsInv
<1>3. CASE UNCHANGED vars
  <2>1. FieldTypes' /\ InflightExact'
    BY <1>3 DEF FailoverInv, vars, input, attempt, outcome, FieldTypes, InflightExact
  <2>2. ASSUME NEW r \in Requests PROVE RequestInv(r)'
    BY <1>3 DEF FailoverInv, vars, input, attempt, outcome,
         RequestInv, IndexInRange, OutcomeInv, CallsInv, GuardInv, ExhaustedInv
  <2> QED
    BY <2>1, <2>2 DEF FailoverInv
<1> QED
  BY <1>1, <1>2, <1>3, ExpireKeepsInv DEF Next

LEMMA InvariantHolds == Spec => []FailoverInv
BY InitEstablishesInv, NextKeepsInv, PTL DEF Spec

(* A request never runs past the end of its candidate list. *)
THEOREM TypeCorrect == Spec => []TypeOK
<1>1. FailoverInv => TypeOK
  BY DEF FailoverInv, RequestInv, TypeOK
<1> QED
  BY <1>1, InvariantHolds, PTL

(* The in-flight counter of an account is the number of guards alive. *)
THEOREM InflightAlwaysExact == Spec => []InflightExact
<1>1. FailoverInv => InflightExact
  BY DEF FailoverInv
<1> QED
  BY <1>1, InvariantHolds, PTL

(* One answer and one log record, whichever way the request ends. *)
THEOREM AlwaysOneOutcome == Spec => []OneOutcome
<1>1. FailoverInv => OneOutcome
  <2> SUFFICES ASSUME FailoverInv, NEW r \in Requests
               PROVE  /\ answers[r] <= 1 /\ logs[r] <= 1
                      /\ pc[r] = "done" => answers[r] = 1 \/ cancelled[r]
                      /\ pc[r] = "done" => logs[r] = 1 \/ r \in unrecorded
    BY DEF OneOutcome
  <2>1. pc[r] \in Steps
    BY DEF FailoverInv, FieldTypes
  <2> QED
    BY <2>1 DEF FailoverInv, RequestInv, OutcomeInv, Steps, Undecided
<1> QED
  BY <1>1, InvariantHolds, PTL

(* Only an Anthropic request can run out of candidates. *)
THEOREM LastCandidateAlwaysAnswers == Spec => []LastCandidateAnswers
<1>1. FailoverInv => LastCandidateAnswers
  BY DEF FailoverInv, RequestInv, ExhaustedInv, LastCandidateAnswers
<1> QED
  BY <1>1, InvariantHolds, PTL

(* At most three attempts on one account. *)
THEOREM NeverHammers == Spec => []NoHammering
<1>1. FailoverInv => NoHammering
  <2> SUFFICES ASSUME FailoverInv, NEW r \in Requests PROVE calls[r] <= 3
    BY DEF NoHammering
  <2>1. calls[r] \in Nat /\ calls[r] <= MaxCalls(round[r])
    BY DEF FailoverInv, FieldTypes, RequestInv, CallsInv
  <2> QED
    BY <2>1 DEF MaxCalls
<1> QED
  BY <1>1, InvariantHolds, PTL

(* No step sends anything for a request whose client has gone. *)
THEOREM NothingEverSentForGoneClient == Spec => NothingSentForGoneClient
<1> DEFINE Quiet == \A r \in Requests : cancelled[r] => calls'[r] <= calls[r]
<1>1. FailoverInv /\ [Next]_vars => [Quiet]_vars
  <2> SUFFICES ASSUME FailoverInv, [Next]_vars, NEW s \in Requests, cancelled[s]
               PROVE  calls'[s] <= calls[s]
    OBVIOUS
  <2>0. calls \in [Requests -> Nat] /\ calls[s] \in Nat
    BY DEF FailoverInv, FieldTypes
  <2>1. CASE calls' = calls
    BY <2>0, <2>1
  <2>2. ASSUME NEW r \in Requests, NextCandidate(r) PROVE calls'[s] <= calls[s]
    BY <2>0, <2>2 DEF NextCandidate
  <2>3. ASSUME NEW r \in Requests, run_candidate_attempt(r) PROVE calls'[s] <= calls[s]
    BY <2>0, <2>3 DEF run_candidate_attempt
  <2>4. ASSUME NEW r \in Requests, RequestStep(r)
        PROVE  calls' = calls \/ NextCandidate(r) \/ run_candidate_attempt(r)
    BY <2>4 DEF RequestStep, finalize_cancelled_candidate, respond_total_timeout,
         should_skip_candidate, Enter, CandidateFailover, Retry, TerminalFailover,
         respond_terminal_attempt, RespondUpstream, StrippedRetry,
         PreflightFailover, finalize_upstream_response, DeliveryNotStarted, RespondHead, EndDelivery,
         finalize_bridge_result, Exhausted, attempt
  <2>5. ASSUME NEW r \in Requests, ClientGone(r) \/ DeadlinePasses(r)
        PROVE  calls' = calls
    BY <2>5 DEF ClientGone, DeadlinePasses, attempt
  <2>6. CooldownsExpire \/ UNCHANGED vars => calls' = calls
    BY DEF CooldownsExpire, vars, attempt
  <2> QED
    BY <2>1, <2>2, <2>3, <2>4, <2>5, <2>6 DEF Next
<1> QED
  BY <1>1, InvariantHolds, PTL DEF Spec, NothingSentForGoneClient
=============================================================================
