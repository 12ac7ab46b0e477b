------------------------- MODULE ResetCreditProofs -------------------------
(***************************************************************************)
(* That reset credits are redeemed under the guard and within the ledger,  *)
(* for any accounts, operations, processes and callers.                    *)
(***************************************************************************)
EXTENDS ResetCredit, TLAPS

(* The labels at which the call has not learned of a charge. *)
Early == {"claimed", "fetching", "sending", "refreshing", "failing"} \union Sent

(* No two operations share a redeem request id. *)
IdsDistinct ==
    \A x, y \in Operations :
        ops[x] # NoOp /\ ops[y] # NoOp /\ ops[x].redeem = ops[y].redeem => x = y

(* The provider has only seen ids that are stored. *)
IdsStored ==
    \A r \in Redeems : outcome[r] # "unknown" \/ r \in late => DrawnBefore(r)

(* A call works on a stored operation of its account, under the stored id, *)
(* and holds the account's guard for as long as the operation is pending.  *)
RunInv(c) ==
    At(c, Working) =>
        /\ ops[call[c].op] # NoOp
        /\ ops[call[c].op].account = call[c].account
        /\ ops[call[c].op].redeem = call[c].redeem
        /\ Pending(call[c].op) => guard[call[c].account] = call[c].op
        /\ call[c].at = "completing" => outcome[call[c].redeem] = "charged"
        /\ call[c].at = "enriching" => ops[call[c].op].status = "completed"

(* A pending operation has its account's guard, unless it is older than    *)
(* the guards.                                                             *)
GuardInv ==
    \A o \in Operations \ legacy : Pending(o) => guard[ops[o].account] = o

CompletedInv ==
    \A o \in Operations :
        ops[o] # NoOp /\ ops[o].status = "completed" => outcome[ops[o].redeem] = "charged"

(* Until it is resumed, an operation is known to one call at most; it has  *)
(* cost nothing while that call is early, nor after that call has failed.  *)
FirstTry(o) ==
    o \notin resumed /\ ops[o] # NoOp =>
        /\ ops[o].status = "failed" =>
             /\ outcome[ops[o].redeem] # "charged" /\ ops[o].redeem \notin late
             /\ \A c \in Callers : At(c, Working) => call[c].op # o
        /\ \A c \in Callers : At(c, Working) /\ call[c].op = o =>
             /\ \A d \in Callers : At(d, Working) /\ call[d].op = o => d = c
             /\ call[c].at \in Early =>
                  /\ ops[o].status = "pending"
                  /\ outcome[ops[o].redeem] # "charged" /\ ops[o].redeem \notin late

LedgerInv ==
    /\ TypeOK
    /\ IdsDistinct
    /\ IdsStored
    /\ \A c \in Callers : RunInv(c)
    /\ GuardInv
    /\ CompletedInv
    /\ \A o \in Operations : FirstTry(o)

-----------------------------------------------------------------------------
(* What a move, a return and a claim do to the calls. *)
LEMMA GotoFacts ==
    ASSUME TypeOK, NEW c \in Callers, call[c] # Idle,
           NEW l \in {"locking"} \union Working, goto(c, l)
    PROVE  /\ call' \in [Callers -> Run \union {Idle}]
           /\ call'[c] # Idle /\ call'[c].at = l
           /\ call'[c].op = call[c].op /\ call'[c].account = call[c].account
           /\ call'[c].redeem = call[c].redeem /\ call'[c].resume = call[c].resume
           /\ \A d \in Callers \ {c} : call'[d] = call[d]
<1>1. call[c] \in Run
  BY DEF TypeOK
<1>2. call'[c] = [call[c] EXCEPT !.at = l] /\ \A d \in Callers \ {c} : call'[d] = call[d]
  BY DEF goto, TypeOK
<1>3. call'[c] \in Run
  BY <1>1, <1>2 DEF Run
<1>4. call' = [call EXCEPT ![c] = call'[c]]
  BY <1>2 DEF TypeOK, goto
<1> QED
  BY <1>1, <1>2, <1>3, <1>4, ResetCreditAssumption DEF Run, TypeOK

LEMMA ReturnFacts ==
    ASSUME TypeOK, NEW c \in Callers, return(c)
    PROVE  /\ call' \in [Callers -> Run \union {Idle}]
           /\ call'[c] = Idle
           /\ \A d \in Callers \ {c} : call'[d] = call[d]
BY DEF return, TypeOK

LEMMA ClaimFacts ==
    ASSUME TypeOK, NEW c \in Callers, call[c] # Idle,
           NEW id \in Redeems, NEW b \in BOOLEAN, claim(c, id, b)
    PROVE  /\ call' \in [Callers -> Run \union {Idle}]
           /\ call'[c] # Idle /\ call'[c].at = "claimed"
           /\ call'[c].op = call[c].op /\ call'[c].account = call[c].account
           /\ call'[c].redeem = id
           /\ \A d \in Callers \ {c} : call'[d] = call[d]
<1>1. call[c] \in Run
  BY DEF TypeOK
<1>2. /\ call'[c] = [call[c] EXCEPT !.at = "claimed", !.redeem = id, !.resume = b]
      /\ \A d \in Callers \ {c} : call'[d] = call[d]
  BY DEF claim, TypeOK
<1>3. call'[c] \in Run
  BY <1>1, <1>2 DEF Run, Working
<1>4. call' = [call EXCEPT ![c] = call'[c]]
  BY <1>2 DEF TypeOK, claim
<1> QED
  BY <1>1, <1>2, <1>3, <1>4, ResetCreditAssumption DEF Run, TypeOK

(* The flag of an account is TRUE or FALSE, whoever writes it. *)
LEMMA FlagFacts ==
    ASSUME TypeOK, NEW c \in Callers, call[c] # Idle, NEW b \in BOOLEAN, set_interrupted(c, b)
    PROVE  interrupted' \in [Processes -> [Accounts -> BOOLEAN]]
BY ResetCreditAssumption DEF TypeOK, set_interrupted, Run

-----------------------------------------------------------------------------
LEMMA InitLedger == Init => LedgerInv
<1> SUFFICES ASSUME Init PROVE LedgerInv
  OBVIOUS
<1>1. TypeOK
  <2>1. late \subseteq Redeems
    BY DEF Init, Row
  <2>2. \A a \in Accounts : guard[a] # NoGuard =>
          ops[guard[a]] # NoOp /\ ops[guard[a]].account = a
    BY DEF Init, Pending
  <2> QED
    BY <2>1, <2>2 DEF Init, TypeOK
<1>2. IdsDistinct
  BY DEF Init, IdsDistinct
<1>3. IdsStored
  BY DEF Init, IdsStored, DrawnBefore
<1>4. \A c \in Callers : RunInv(c)
  BY DEF Init, RunInv, At
<1>5. GuardInv /\ CompletedInv
  BY DEF Init, GuardInv, CompletedInv, Pending
<1>6. \A o \in Operations : FirstTry(o)
  BY DEF Init, FirstTry, At, Pending
<1> QED
  BY <1>1, <1>2, <1>3, <1>4, <1>5, <1>6 DEF LedgerInv

(* A call moves on before it has learned of a charge. *)
LEMMA MoveStep ==
    ASSUME LedgerInv, NEW c \in Callers, At(c, Early), NEW l \in Early, goto(c, l),
           interrupted' \in [Processes -> [Accounts -> BOOLEAN]],
           UNCHANGED <<db, provider, history>>
    PROVE  LedgerInv'
<1> USE DEF db, provider, history
<1>0. TypeOK /\ call[c] # Idle /\ l \in {"locking"} \union Working /\ At(c, Working)
  BY DEF LedgerInv, At, Early, Working
<1>1. /\ call' \in [Callers -> Run \union {Idle}]
      /\ call'[c] # Idle /\ call'[c].at = l
      /\ call'[c].op = call[c].op /\ call'[c].account = call[c].account
      /\ call'[c].redeem = call[c].redeem
      /\ \A d \in Callers \ {c} : call'[d] = call[d]
  BY <1>0, GotoFacts
<1>2. TypeOK'
  BY <1>1 DEF LedgerInv, TypeOK
<1>3. IdsDistinct' /\ IdsStored' /\ GuardInv' /\ CompletedInv'
  BY DEF LedgerInv, IdsDistinct, IdsStored, GuardInv, CompletedInv, DrawnBefore, Pending
<1>4. ASSUME NEW d \in Callers PROVE RunInv(d)'
  BY <1>0, <1>1 DEF LedgerInv, RunInv, At, Pending, Early, Sent
<1>5. \A d \in Callers : /\ At(d, Working)' <=> At(d, Working)
                         /\ At(d, Working) => call'[d].op = call[d].op
                         /\ d # c => call'[d] = call[d]
  BY <1>0, <1>1 DEF At, Working, Early
<1>6. ASSUME NEW o \in Operations PROVE FirstTry(o)'
  BY <1>0, <1>1, <1>5 DEF LedgerInv, FirstTry, At
<1> QED
  BY <1>2, <1>3, <1>4, <1>6 DEF LedgerInv

(* A call ends without having written to the database; its request may     *)
(* still be under way.                                                     *)
LEMMA LeaveStep ==
    ASSUME LedgerInv, NEW c \in Callers, call[c] # Idle, return(c),
           interrupted' \in [Processes -> [Accounts -> BOOLEAN]],
           \/ late' = late
           \/ At(c, Sent) /\ late' = late \union {call[c].redeem},
           UNCHANGED <<db, outcome, history>>
    PROVE  LedgerInv'
<1> USE DEF db, history
<1>0. TypeOK
  BY DEF LedgerInv
<1>1. /\ call' \in [Callers -> Run \union {Idle}]
      /\ call'[c] = Idle
      /\ \A d \in Callers \ {c} : call'[d] = call[d]
  BY <1>0, ReturnFacts
<1>2. At(c, Sent) => At(c, Working) /\ call[c].at \in Early
  BY DEF At, Working, Early
<1>3. At(c, Sent) => /\ call[c].op \in Operations /\ ops[call[c].op] # NoOp
                     /\ ops[call[c].op].redeem = call[c].redeem
                     /\ call[c].redeem \in Redeems
  <2>1. At(c, Sent) => call[c] \in Run /\ RunInv(c)
    BY DEF LedgerInv, TypeOK, At
  <2> QED
    BY <1>2, <2>1, <1>0, ResetCreditAssumption DEF RunInv, Run, TypeOK, Row
<1>4. TypeOK'
  BY <1>1, <1>3 DEF LedgerInv, TypeOK
<1>5. IdsDistinct' /\ GuardInv' /\ CompletedInv'
  BY DEF LedgerInv, IdsDistinct, GuardInv, CompletedInv, Pending
<1>6. IdsStored'
  BY <1>3 DEF LedgerInv, IdsStored, DrawnBefore
<1>7. ASSUME NEW d \in Callers PROVE RunInv(d)'
  BY <1>1 DEF LedgerInv, RunInv, At, Pending
<1>8. ASSUME NEW o \in Operations PROVE FirstTry(o)'
  <2> SUFFICES ASSUME o \notin resumed, ops[o] # NoOp PROVE FirstTry(o)'
    BY DEF FirstTry
  <2>0. FirstTry(o) /\ IdsDistinct
    BY DEF LedgerInv
  <2>1. ops[o].redeem \in late' => ops[o].redeem \in late \/ (At(c, Working) /\ call[c].op = o)
    BY <1>2, <1>3, <2>0 DEF IdsDistinct
  <2>2. \A d \in Callers : At(d, Working)' => d # c /\ At(d, Working) /\ call'[d] = call[d]
    BY <1>1 DEF At
  <2> QED
    BY <2>0, <2>1, <2>2 DEF FirstTry
<1> QED
  BY <1>4, <1>5, <1>6, <1>7, <1>8 DEF LedgerInv

LEMMA CallStep ==
    ASSUME LedgerInv, NEW c \in Callers, NEW o \in Operations, NEW a \in Accounts,
           Call(c, o, a)
    PROVE  LedgerInv'
<1> USE DEF db, provider, history
<1>1. /\ call' \in [Callers -> Run \union {Idle}]
      /\ call'[c] # Idle => call'[c].at = "locking"
      /\ \A d \in Callers \ {c} : call'[d] = call[d]
  BY DEF LedgerInv, TypeOK, Call, Run
<1>2. TypeOK'
  BY <1>1 DEF LedgerInv, TypeOK, Call
<1>3. IdsDistinct' /\ IdsStored' /\ GuardInv' /\ CompletedInv'
  BY DEF LedgerInv, IdsDistinct, IdsStored, GuardInv, CompletedInv, DrawnBefore, Pending, Call
<1>4. \A d \in Callers : At(d, Working)' => At(d, Working) /\ call'[d] = call[d]
  BY <1>1 DEF At, Working, Sent
<1>5. ASSUME NEW d \in Callers PROVE RunInv(d)'
  BY <1>4 DEF LedgerInv, RunInv, Pending, Call
<1>6. ASSUME NEW x \in Operations PROVE FirstTry(x)'
  BY <1>4 DEF LedgerInv, FirstTry, Call
<1> QED
  BY <1>2, <1>3, <1>5, <1>6 DEF LedgerInv

(* A new operation: nobody works on it yet, and its id is new. *)
LEMMA CreatedStep ==
    ASSUME LedgerInv, NEW c \in Callers, NEW id \in Redeems, ~DrawnBefore(id),
           claim_created(c, id)
    PROVE  LedgerInv'
<1> DEFINE o == call[c].op
           a == call[c].account
<1>0. /\ TypeOK /\ call[c] # Idle /\ o \in Operations /\ a \in Accounts
      /\ ops[o] = NoOp /\ pending_operation_for_guard(a) = NoGuard
      /\ UNCHANGED <<interrupted, outcome, late, resumed, legacy>>
  BY DEF LedgerInv, TypeOK, claim_created, At, Claimable, Run, provider, history
<1>1. /\ call' \in [Callers -> Run \union {Idle}]
      /\ call'[c] # Idle /\ call'[c].at = "claimed"
      /\ call'[c].op = o /\ call'[c].account = a /\ call'[c].redeem = id
      /\ \A d \in Callers \ {c} : call'[d] = call[d]
  BY <1>0, ClaimFacts DEF claim_created
<1>2. /\ ops' \in [Operations -> Row \union {NoOp}]
      /\ ops'[o] # NoOp /\ ops'[o].account = a /\ ops'[o].redeem = id
      /\ ops'[o].status = "pending"
      /\ \A x \in Operations \ {o} : ops'[x] = ops[x]
  BY <1>0, ResetCreditAssumption DEF claim_created, TypeOK, Row, Status
<1>3. /\ guard' \in [Accounts -> Operations \union {NoGuard}]
      /\ guard'[a] = o /\ \A b \in Accounts \ {a} : guard'[b] = guard[b]
  BY <1>0 DEF claim_created, TypeOK
<1>4. \A b \in Accounts : guard[b] # o
  BY <1>0, ResetCreditAssumption DEF TypeOK
<1>5. TypeOK'
  <2>1. ASSUME NEW b \in Accounts, guard'[b] # NoGuard
        PROVE  ops'[guard'[b]] # NoOp /\ ops'[guard'[b]].account = b
    <3>1. CASE b = a
      BY <3>1, <1>2, <1>3
    <3>2. CASE b # a
      <4>1. guard'[b] = guard[b] /\ guard[b] \in Operations \ {o}
        BY <3>2, <2>1, <1>0, <1>3, <1>4 DEF TypeOK
      <4>2. ops[guard[b]] # NoOp /\ ops[guard[b]].account = b
        BY <4>1, <2>1, <1>0 DEF TypeOK
      <4> QED
        BY <4>1, <4>2, <1>2
    <3> QED
      BY <3>1, <3>2
  <2> QED
    BY <2>1, <1>0, <1>1, <1>2, <1>3 DEF TypeOK
<1>6. IdsDistinct' /\ IdsStored'
  BY <1>0, <1>2 DEF LedgerInv, IdsDistinct, IdsStored, DrawnBefore
<1>7. outcome[id] = "unknown" /\ id \notin late
  BY DEF LedgerInv, IdsStored
<1>8. \A x \in Operations : x # o /\ Pending(x) /\ ops[x].account = a => guard[a] # x
  BY <1>0, ResetCreditAssumption DEF pending_operation_for_guard
<1>9. \A x \in Operations : x # o => (Pending(x)' <=> Pending(x)) /\ ops'[x] = ops[x]
  BY <1>2 DEF Pending
<1>10. \A d \in Callers : At(d, Working) => /\ call[d].op \in Operations
                                             /\ call[d].account \in Accounts
                                             /\ call[d].op # o
  BY <1>0 DEF LedgerInv, RunInv, At, TypeOK, Run
<1>11. \A d \in Callers : d # c => (At(d, Working)' <=> At(d, Working)) /\ call'[d] = call[d]
  BY <1>1 DEF At
<1>12. \A x \in Operations : ops[x] # NoOp => ops[x].account \in Accounts
  BY <1>0 DEF TypeOK, Row
<1>13. GuardInv'
  BY <1>0, <1>2, <1>3, <1>8, <1>9, <1>12 DEF LedgerInv, GuardInv, Pending
<1>14. CompletedInv'
  BY <1>0, <1>2, <1>7 DEF LedgerInv, CompletedInv
<1>15. ASSUME NEW d \in Callers PROVE RunInv(d)'
  <2>1. CASE d = c
    BY <2>1, <1>1, <1>2, <1>3 DEF RunInv
  <2>2. CASE d # c
    BY <2>2, <1>0, <1>3, <1>8, <1>9, <1>10, <1>11 DEF LedgerInv, RunInv
  <2> QED
    BY <2>1, <2>2
<1>16. ASSUME NEW x \in Operations PROVE FirstTry(x)'
  <2>1. CASE x = o
    BY <2>1, <1>0, <1>1, <1>2, <1>7, <1>10, <1>11 DEF FirstTry
  <2>2. CASE x # o
    BY <2>2, <1>0, <1>1, <1>9, <1>11 DEF LedgerInv, FirstTry
  <2> QED
    BY <2>1, <2>2
<1> QED
  BY <1>5, <1>6, <1>13, <1>14, <1>15, <1>16 DEF LedgerInv

(* A replay: it takes the stored id, and the guard it has or is owed. *)
LEMMA ExistingStep ==
    ASSUME LedgerInv, NEW c \in Callers, NEW candidate \in Redeems,
           claim_existing(c, candidate)
    PROVE  LedgerInv'
<1> DEFINE o == call[c].op
           a == call[c].account
           id == ops[o].redeem
<1>0. /\ TypeOK /\ call[c] # Idle /\ o \in Operations /\ a \in Accounts
      /\ Pending(o) /\ ops[o].account = a
      /\ pending_operation_for_guard(a) \in {NoGuard, o}
      /\ UNCHANGED <<ops, interrupted, outcome, late, legacy>>
      /\ resumed' = resumed \union {o}
  BY DEF LedgerInv, TypeOK, claim_existing, At, Replayable, Run, provider
<1>1. id \in Redeems
  BY <1>0 DEF TypeOK, Row, Pending
<1>2. /\ call' \in [Callers -> Run \union {Idle}]
      /\ call'[c] # Idle /\ call'[c].at = "claimed"
      /\ call'[c].op = o /\ call'[c].account = a /\ call'[c].redeem = id
      /\ \A d \in Callers \ {c} : call'[d] = call[d]
  <2>1. claim(c, id, TRUE)
    BY DEF claim_existing, ReplayId
  <2> QED
    BY <1>0, <1>1, <2>1, ClaimFacts
<1>3. /\ guard' \in [Accounts -> Operations \union {NoGuard}]
      /\ guard'[a] = o /\ \A b \in Accounts \ {a} : guard'[b] = guard[b]
  BY <1>0 DEF claim_existing, TypeOK
<1>4. TypeOK'
  BY <1>0, <1>2, <1>3 DEF TypeOK, Pending
<1>5. IdsDistinct' /\ IdsStored' /\ CompletedInv'
  BY <1>0 DEF LedgerInv, IdsDistinct, IdsStored, CompletedInv, DrawnBefore
<1>6. \A x \in Operations : x # o /\ Pending(x) /\ ops[x].account = a => guard[a] # x
  BY <1>0, ResetCreditAssumption DEF pending_operation_for_guard
<1>7. \A x \in Operations : ops[x] # NoOp => ops[x].account \in Accounts
  BY <1>0 DEF TypeOK, Row
<1>8. GuardInv'
  BY <1>0, <1>3, <1>6, <1>7 DEF LedgerInv, GuardInv, Pending
<1>9. \A d \in Callers : At(d, Working) => call[d].op \in Operations /\ call[d].account \in Accounts
  BY <1>0 DEF At, TypeOK, Run
<1>10. ASSUME NEW d \in Callers PROVE RunInv(d)'
  <2>1. CASE d = c
    BY <2>1, <1>0, <1>2, <1>3 DEF RunInv, Pending
  <2>2. CASE d # c
    <3>1. RunInv(d) /\ (At(d, Working)' <=> At(d, Working)) /\ call'[d] = call[d]
      BY <2>2, <1>2 DEF LedgerInv, At
    <3>2. At(d, Working) /\ Pending(call[d].op) => guard'[call[d].account] = call[d].op
      BY <3>1, <1>0, <1>3, <1>6, <1>9 DEF RunInv, Pending
    <3> QED
      BY <3>1, <3>2, <1>0 DEF RunInv, Pending
  <2> QED
    BY <2>1, <2>2
<1>11. ASSUME NEW x \in Operations PROVE FirstTry(x)'
  <2> SUFFICES ASSUME x \notin resumed, x # o, ops[x] # NoOp PROVE FirstTry(x)'
    BY <1>0 DEF FirstTry
  <2>1. FirstTry(x)
    BY DEF LedgerInv
  <2>2. \A d \in Callers : At(d, Working)' /\ call'[d].op = x =>
          d # c /\ At(d, Working) /\ call'[d] = call[d]
    BY <1>2 DEF At
  <2> QED
    BY <2>1, <2>2, <1>0 DEF FirstTry
<1> QED
  BY <1>4, <1>5, <1>8, <1>10, <1>11 DEF LedgerInv

(* A call ends, and takes back a guard that protects nothing pending. *)
LEMMA GuardStep ==
    ASSUME LedgerInv, NEW c \in Callers, call[c] # Idle, return(c),
           NEW a \in Accounts, guard' = [guard EXCEPT ![a] = NoGuard],
           \A x \in Operations : guard[a] = x /\ Pending(x) => ops[x].account # a,
           UNCHANGED <<ops, interrupted, provider, history>>
    PROVE  LedgerInv'
<1> USE DEF provider, history
<1>0. TypeOK
  BY DEF LedgerInv
<1>1. /\ call' \in [Callers -> Run \union {Idle}]
      /\ call'[c] = Idle
      /\ \A d \in Callers \ {c} : call'[d] = call[d]
  BY <1>0, ReturnFacts
<1>2. /\ guard' \in [Accounts -> Operations \union {NoGuard}]
      /\ guard'[a] = NoGuard /\ \A b \in Accounts \ {a} : guard'[b] = guard[b]
  BY <1>0 DEF TypeOK
<1>3. TypeOK'
  BY <1>0, <1>1, <1>2 DEF TypeOK
<1>4. IdsDistinct' /\ IdsStored' /\ CompletedInv'
  BY DEF LedgerInv, IdsDistinct, IdsStored, CompletedInv, DrawnBefore
<1>5. \A x \in Operations : ops[x] # NoOp => ops[x].account \in Accounts
  BY <1>0 DEF TypeOK, Row
<1>6. GuardInv'
  BY <1>2, <1>5 DEF LedgerInv, GuardInv, Pending
<1>7. \A d \in Callers : At(d, Working)' => d # c /\ At(d, Working) /\ call'[d] = call[d]
  BY <1>1 DEF At
<1>8. ASSUME NEW d \in Callers PROVE RunInv(d)'
  <2>1. RunInv(d)
    BY DEF LedgerInv
  <2>2. At(d, Working) => call[d].op \in Operations /\ call[d].account \in Accounts
    BY <1>0 DEF At, TypeOK, Run
  <2>3. At(d, Working) /\ Pending(call[d].op) => guard'[call[d].account] = call[d].op
    BY <2>1, <2>2, <1>2 DEF RunInv
  <2> QED
    BY <2>1, <2>3, <1>7 DEF RunInv, Pending
<1>9. ASSUME NEW x \in Operations PROVE FirstTry(x)'
  BY <1>7 DEF LedgerInv, FirstTry
<1> QED
  BY <1>3, <1>4, <1>6, <1>8, <1>9 DEF LedgerInv

LEMMA ReturnFromClaimStep ==
    ASSUME LedgerInv, NEW c \in Callers, ReturnFromClaim(c)
    PROVE  LedgerInv'
<1> DEFINE a == call[c].account
<1>0. /\ TypeOK /\ call[c] # Idle /\ a \in Accounts /\ return(c)
      /\ UNCHANGED <<ops, interrupted, provider, history>>
  BY DEF LedgerInv, TypeOK, ReturnFromClaim, At, Run
<1>1. CASE guard' = guard
  <2>1. UNCHANGED <<db, outcome, history>> /\ late' = late /\ interrupted' = interrupted
    BY <1>0, <1>1 DEF db, provider
  <2> QED
    BY <1>0, <2>1, LeaveStep DEF TypeOK
<1>2. CASE guard' = [guard EXCEPT ![a] = pending_operation_for_guard(a)]
  <2>1. CASE pending_operation_for_guard(a) = NoGuard
    <3>1. \A x \in Operations : guard[a] = x /\ Pending(x) => ops[x].account # a
      BY <2>1, ResetCreditAssumption DEF pending_operation_for_guard
    <3> QED
      BY <1>0, <1>2, <2>1, <3>1, GuardStep
  <2>2. CASE pending_operation_for_guard(a) # NoGuard
    <3>1. guard' = guard
      BY <1>0, <1>2, <2>2 DEF pending_operation_for_guard, TypeOK
    <3> QED
      BY <3>1, <1>1
  <2> QED
    BY <2>1, <2>2
<1> QED
  BY <1>1, <1>2 DEF ReturnFromClaim

(* The provider decides about an id that no first try relies on. *)
LEMMA DecideFacts ==
    ASSUME TypeOK, NEW r \in Redeems, NEW d \in {"charged", "refused"}, Decide(r, d)
    PROVE  /\ outcome' \in [Redeems -> {"unknown", "charged", "refused"}]
           /\ outcome'[r] = d /\ outcome[r] \in {"unknown", d}
           /\ \A x \in Redeems \ {r} : outcome'[x] = outcome[x]
BY DEF TypeOK, Decide

LEMMA AnswerStep ==
    ASSUME LedgerInv, NEW c \in Callers, At(c, Sent),
           NEW d \in {"charged", "refused"}, Decide(call[c].redeem, d),
           goto(c, IF d = "charged" THEN "completing" ELSE "failing"),
           interrupted' \in [Processes -> [Accounts -> BOOLEAN]],
           UNCHANGED <<db, late, history>>
    PROVE  LedgerInv'
<1> DEFINE o == call[c].op
           r == call[c].redeem
           l == IF d = "charged" THEN "completing" ELSE "failing"
<1> USE DEF db, history
<1>0. /\ TypeOK /\ call[c] # Idle /\ At(c, Working) /\ call[c].at \in Early
      /\ l \in {"locking"} \union Working /\ RunInv(c)
  BY DEF LedgerInv, At, Working, Early
<1>1. /\ o \in Operations /\ ops[o] # NoOp /\ ops[o].redeem = r /\ r \in Redeems
  <2>1. call[c] \in Run
    BY <1>0 DEF TypeOK
  <2> QED
    BY <1>0, <2>1 DEF RunInv, Run, TypeOK, Row
<1>2. /\ call' \in [Callers -> Run \union {Idle}]
      /\ call'[c] # Idle /\ call'[c].at = l
      /\ call'[c].op = o /\ call'[c].account = call[c].account
      /\ call'[c].redeem = r
      /\ \A x \in Callers \ {c} : call'[x] = call[x]
  <2>1. goto(c, l)
    OBVIOUS
  <2> QED
    BY <1>0, <2>1, GotoFacts
<1>3. /\ outcome' \in [Redeems -> {"unknown", "charged", "refused"}]
      /\ outcome'[r] = d /\ outcome[r] \in {"unknown", d}
      /\ \A x \in Redeems \ {r} : outcome'[x] = outcome[x]
  BY <1>0, <1>1, DecideFacts
<1>4. TypeOK'
  BY <1>0, <1>2, <1>3 DEF TypeOK
<1>5. IdsDistinct' /\ GuardInv'
  BY DEF LedgerInv, IdsDistinct, GuardInv, Pending
<1>6. IdsStored'
  BY <1>1, <1>3 DEF LedgerInv, IdsStored, DrawnBefore
<1>7. \A x \in Redeems : outcome[x] = "charged" => outcome'[x] = "charged"
  BY <1>3
<1>8. \A x \in Operations : ops[x] # NoOp => ops[x].redeem \in Redeems
  BY <1>0 DEF TypeOK, Row
<1>9. CompletedInv'
  BY <1>7, <1>8 DEF LedgerInv, CompletedInv
<1>10. \A x \in Callers : /\ At(x, Working)' <=> At(x, Working)
                          /\ At(x, Working) => call'[x].op = call[x].op
                          /\ x # c => call'[x] = call[x]
  BY <1>0, <1>2 DEF At
<1>11. ASSUME NEW x \in Callers PROVE RunInv(x)'
  <2>1. CASE x = c
    BY <2>1, <1>0, <1>2, <1>3 DEF RunInv, Pending
  <2>2. CASE x # c
    <3>1. RunInv(x) /\ call'[x] = call[x] /\ (At(x, Working)' <=> At(x, Working))
      BY <2>2, <1>2 DEF LedgerInv, At
    <3>2. At(x, Working) => call[x].redeem \in Redeems
      BY <3>1, <1>0, <1>8 DEF RunInv, TypeOK, Run, At
    <3> QED
      BY <3>1, <3>2, <1>7 DEF RunInv, Pending
  <2> QED
    BY <2>1, <2>2
<1>12. ASSUME NEW x \in Operations PROVE FirstTry(x)'
  <2> SUFFICES ASSUME x \notin resumed, ops[x] # NoOp PROVE FirstTry(x)'
    BY DEF FirstTry
  <2>0. FirstTry(x) /\ IdsDistinct
    BY DEF LedgerInv
  <2>1. CASE x = o
    <3>1. \A y \in Callers : At(y, Working) /\ call[y].op = o => y = c
      BY <2>0, <2>1, <1>0 DEF FirstTry
    <3>2. /\ ops[o].status = "pending" /\ ops[o].redeem \notin late
      BY <2>0, <2>1, <1>0 DEF FirstTry
    <3>3. call'[c].at \in Early => outcome'[r] # "charged"
      BY <1>2, <1>3 DEF Early, Sent
    <3>4. \A y \in Callers : At(y, Working)' /\ call'[y].op = o => y = c
      BY <3>1, <1>2 DEF At
    <3> QED
      BY <2>1, <3>2, <3>3, <3>4, <1>1 DEF FirstTry
  <2>2. CASE x # o
    <3>1. outcome'[ops[x].redeem] = outcome[ops[x].redeem]
      BY <2>0, <2>2, <1>1, <1>3, <1>8 DEF IdsDistinct
    <3>2. \A y \in Callers : At(y, Working)' /\ call'[y].op = x =>
            At(y, Working) /\ call'[y] = call[y]
      BY <2>2, <1>2 DEF At
    <3> QED
      BY <2>0, <3>1, <3>2 DEF FirstTry
  <2> QED
    BY <2>1, <2>2
<1> QED
  BY <1>4, <1>5, <1>6, <1>9, <1>11, <1>12 DEF LedgerInv

LEMMA ArriveStep ==
    ASSUME LedgerInv, NEW r \in Redeems, Arrive(r)
    PROVE  LedgerInv'
<1> USE DEF db, history
<1>0. TypeOK
  BY DEF LedgerInv
<1>1. PICK d \in {"charged", "refused"} : Decide(r, d)
  BY DEF Arrive
<1>2. /\ outcome' \in [Redeems -> {"unknown", "charged", "refused"}]
      /\ outcome[r] = "unknown" /\ r \in late
      /\ \A x \in Redeems \ {r} : outcome'[x] = outcome[x]
  BY <1>0, <1>1, DecideFacts DEF Arrive
<1>3. TypeOK'
  BY <1>0, <1>2 DEF TypeOK, Arrive
<1>4. IdsDistinct' /\ GuardInv'
  BY DEF LedgerInv, IdsDistinct, GuardInv, Pending, Arrive
<1>5. IdsStored'
  BY <1>2 DEF LedgerInv, IdsStored, DrawnBefore, Arrive
<1>6. \A x \in Redeems : outcome[x] = "charged" => outcome'[x] = "charged"
  BY <1>2
<1>7. \A x \in Operations : ops[x] # NoOp => ops[x].redeem \in Redeems
  BY <1>0 DEF TypeOK, Row
<1>8. CompletedInv'
  BY <1>6, <1>7 DEF LedgerInv, CompletedInv, Arrive
<1>9. ASSUME NEW x \in Callers PROVE RunInv(x)'
  <2>1. RunInv(x)
    BY DEF LedgerInv
  <2>2. At(x, Working) => call[x].redeem \in Redeems
    BY <2>1, <1>0, <1>7 DEF RunInv, TypeOK, Run, At
  <2> QED
    BY <2>1, <2>2, <1>6 DEF RunInv, Pending, At, Arrive
<1>10. ASSUME NEW x \in Operations PROVE FirstTry(x)'
  <2>1. FirstTry(x)
    BY DEF LedgerInv
  <2> QED
    BY <2>1, <1>2, <1>7 DEF FirstTry, At, Arrive
<1> QED
  BY <1>3, <1>4, <1>5, <1>8, <1>9, <1>10 DEF LedgerInv

(* finish ends a pending operation and never leaves it its guard. *)
LEMMA FinishFacts ==
    ASSUME TypeOK, NEW o \in Operations, NEW a \in Accounts, ops[o] # NoOp,
           ops[o].account = a, NEW s \in {"completed", "failed"}, finish(o, a, s)
    PROVE  /\ ops' \in [Operations -> Row \union {NoOp}]
           /\ \A x \in Operations \ {o} : ops'[x] = ops[x]
           /\ ops'[o] # NoOp /\ ops'[o].account = a /\ ops'[o].redeem = ops[o].redeem
           /\ ops[o].status = "pending" => ops'[o].status = s
           /\ ops[o].status # "pending" => ops'[o].status = ops[o].status
           /\ ops'[o].status # "pending"
           /\ guard' \in [Accounts -> Operations \union {NoGuard}]
           /\ \A b \in Accounts \ {a} : guard'[b] = guard[b]
           /\ guard[a] # o => guard'[a] = guard[a]
           /\ guard[a] = o => guard'[a] = NoGuard
<1>1. ops[o] \in Row
  BY DEF TypeOK
<1>2. CASE Finishable(o, a)
  <2>1. ops' = [ops EXCEPT ![o] = [ops[o] EXCEPT !.status = s]]
    BY <1>2 DEF finish
  <2>2. [ops[o] EXCEPT !.status = s] \in Row
    BY <1>1 DEF Row, Status
  <2> QED
    BY <1>1, <1>2, <2>1, <2>2, ResetCreditAssumption DEF TypeOK, Row, finish, Finishable, Pending
<1>3. CASE ~Finishable(o, a)
  BY <1>3 DEF TypeOK, finish, Finishable, Pending
<1> QED
  BY <1>2, <1>3

LEMMA FinishStep ==
    ASSUME LedgerInv, NEW c \in Callers, NEW s \in {"completed", "failed"},
           At(c, {IF s = "completed" THEN "completing" ELSE "failing"}),
           finish(call[c].op, call[c].account, s),
           \/ return(c)
           \/ goto(c, "enriching") /\ ops'[call[c].op].status = "completed",
           interrupted' \in [Processes -> [Accounts -> BOOLEAN]],
           UNCHANGED <<provider, history>>
    PROVE  LedgerInv'
<1> DEFINE o == call[c].op
           a == call[c].account
<1> USE DEF provider, history
<1>0. /\ TypeOK /\ call[c] # Idle /\ At(c, Working) /\ RunInv(c)
      /\ s = "completed" => call[c].at = "completing"
      /\ s = "failed" => call[c].at \in Early
  BY DEF LedgerInv, At, Working, Early
<1>1. /\ o \in Operations /\ a \in Accounts /\ ops[o] # NoOp /\ ops[o].account = a
      /\ Pending(o) => guard[a] = o
      /\ s = "completed" => outcome[ops[o].redeem] = "charged"
  <2>1. call[c] \in Run
    BY <1>0 DEF TypeOK
  <2> QED
    BY <1>0, <2>1 DEF RunInv, Run
<1>2. /\ ops' \in [Operations -> Row \union {NoOp}]
      /\ \A x \in Operations \ {o} : ops'[x] = ops[x]
      /\ ops'[o] # NoOp /\ ops'[o].account = a /\ ops'[o].redeem = ops[o].redeem
      /\ ops[o].status = "pending" => ops'[o].status = s
      /\ ops[o].status # "pending" => ops'[o].status = ops[o].status
      /\ ops'[o].status # "pending"
  BY <1>0, <1>1, FinishFacts
<1>3. /\ guard' \in [Accounts -> Operations \union {NoGuard}]
      /\ \A b \in Accounts \ {a} : guard'[b] = guard[b]
      /\ guard[a] # o => guard'[a] = guard[a]
      /\ guard[a] = o => guard'[a] = NoGuard
  BY <1>0, <1>1, FinishFacts
<1>4. /\ call' \in [Callers -> Run \union {Idle}]
      /\ \A d \in Callers \ {c} : call'[d] = call[d]
      /\ \/ call'[c] = Idle
         \/ /\ call'[c] # Idle /\ call'[c].at = "enriching"
            /\ call'[c].op = o /\ call'[c].account = a /\ call'[c].redeem = call[c].redeem
            /\ ops'[o].status = "completed"
  <2>1. CASE return(c)
    BY <2>1, <1>0, ReturnFacts
  <2>2. CASE goto(c, "enriching") /\ ops'[o].status = "completed"
    <3>1. "enriching" \in {"locking"} \union Working
      BY DEF Working
    <3> QED
      BY <2>2, <3>1, <1>0, GotoFacts
  <2> QED
    BY <2>1, <2>2
<1>5. TypeOK'
  <2>1. ASSUME NEW b \in Accounts, guard'[b] # NoGuard
        PROVE  ops'[guard'[b]] # NoOp /\ ops'[guard'[b]].account = b
    <3>1. guard'[b] = guard[b] /\ guard[b] \in Operations
      BY <2>1, <1>0, <1>3 DEF TypeOK
    <3>2. ops[guard[b]] # NoOp /\ ops[guard[b]].account = b
      BY <2>1, <3>1, <1>0 DEF TypeOK
    <3> QED
      BY <3>1, <3>2, <1>1, <1>2
  <2> QED
    BY <2>1, <1>0, <1>2, <1>3, <1>4 DEF TypeOK
<1>6. \A x \in Operations : /\ ops'[x] # NoOp <=> ops[x] # NoOp
                            /\ ops[x] # NoOp => /\ ops'[x].redeem = ops[x].redeem
                                                /\ ops'[x].account = ops[x].account
                                                /\ ops[x].account \in Accounts
  BY <1>0, <1>1, <1>2 DEF TypeOK, Row
<1>7. IdsDistinct' /\ IdsStored'
  BY <1>6 DEF LedgerInv, IdsDistinct, IdsStored, DrawnBefore
<1>8. CompletedInv'
  BY <1>1, <1>2, <1>6 DEF LedgerInv, CompletedInv
<1>9. \A x \in Operations : Pending(x)' => x # o /\ Pending(x) /\ ops'[x] = ops[x]
  BY <1>2 DEF Pending
<1>10. \A x \in Operations, b \in Accounts : x # o /\ guard[b] = x => guard'[b] = x
  BY <1>3
<1>11. GuardInv'
  BY <1>6, <1>9, <1>10 DEF LedgerInv, GuardInv, Pending
<1>12. \A d \in Callers : At(d, Working)' =>
          /\ At(d, Working)
          /\ call'[d].op = call[d].op /\ call'[d].account = call[d].account
          /\ call'[d].redeem = call[d].redeem
          /\ call[d].op \in Operations /\ call[d].account \in Accounts
          /\ d # c => call'[d] = call[d]
          /\ d = c => call'[d].at = "enriching" /\ ops'[o].status = "completed"
  BY <1>0, <1>4 DEF At, TypeOK, Run
<1>13. ASSUME NEW d \in Callers PROVE RunInv(d)'
  <2> SUFFICES ASSUME At(d, Working)' PROVE RunInv(d)'
    BY DEF RunInv
  <2>1. RunInv(d) /\ At(d, Working)
    BY <1>12 DEF LedgerInv
  <2>2. Pending(call[d].op)' => guard'[call[d].account] = call[d].op
    BY <2>1, <1>9, <1>10, <1>12 DEF RunInv
  <2>3. call'[d].at = "enriching" => ops'[call[d].op].status = "completed"
    BY <2>1, <1>2, <1>12 DEF RunInv
  <2> QED
    BY <2>1, <2>2, <2>3, <1>6, <1>12 DEF RunInv, Pending
<1>14. ASSUME NEW x \in Operations PROVE FirstTry(x)'
  <2> SUFFICES ASSUME x \notin resumed, ops[x] # NoOp PROVE FirstTry(x)'
    BY <1>6 DEF FirstTry
  <2>0. FirstTry(x)
    BY DEF LedgerInv
  <2>1. CASE x # o
    <3>1. \A d \in Callers : At(d, Working)' /\ call'[d].op = x =>
            At(d, Working) /\ call'[d] = call[d]
      BY <2>1, <1>12
    <3> QED
      BY <2>0, <2>1, <3>1, <1>2 DEF FirstTry
  <2>2. CASE x = o
    <3>1. \A d \in Callers : At(d, Working) /\ call[d].op = o => d = c
      BY <2>0, <2>2, <1>0 DEF FirstTry
    <3>2. ops[o].status # "failed"
      BY <2>0, <2>2, <1>0 DEF FirstTry
    <3>3. ops'[o].status = "failed" =>
            outcome[ops[o].redeem] # "charged" /\ ops[o].redeem \notin late
      BY <2>0, <2>2, <3>2, <1>0, <1>2 DEF FirstTry
    <3>4. \A d \in Callers : At(d, Working)' /\ call'[d].op = o =>
            d = c /\ call'[d].at \notin Early /\ ops'[o].status = "completed"
      BY <3>1, <1>12 DEF Early, Sent
    <3> QED
      BY <2>2, <3>3, <3>4, <1>2 DEF FirstTry
  <2> QED
    BY <2>1, <2>2
<1> QED
  BY <1>5, <1>7, <1>8, <1>11, <1>13, <1>14 DEF LedgerInv

LEMMA UpdateStep ==
    ASSUME LedgerInv, NEW c \in Callers, update_completed(c)
    PROVE  LedgerInv'
<1> DEFINE a == call[c].account
<1>0. /\ TypeOK /\ call[c] # Idle /\ return(c) /\ a \in Accounts /\ call[c].op \in Operations
      /\ UNCHANGED <<ops, interrupted, provider, history>>
  BY DEF LedgerInv, TypeOK, update_completed, At, Run
<1>1. ~Pending(call[c].op)
  BY DEF LedgerInv, RunInv, update_completed, At, Working, Pending
<1>2. CASE guard' = guard
  <2>1. UNCHANGED <<db, outcome, history>> /\ late' = late /\ interrupted' = interrupted
    BY <1>0, <1>2 DEF db, provider
  <2> QED
    BY <1>0, <2>1, LeaveStep DEF TypeOK
<1>3. CASE guard[a] = call[c].op /\ guard' = [guard EXCEPT ![a] = NoGuard]
  <2>1. \A x \in Operations : guard[a] = x /\ Pending(x) => ops[x].account # a
    BY <1>1, <1>3
  <2> QED
    BY <1>0, <1>3, <2>1, GuardStep
<1>4. guard' = guard \/ (guard[a] = call[c].op /\ guard' = [guard EXCEPT ![a] = NoGuard])
  BY <1>0 DEF update_completed, TypeOK
<1> QED
  BY <1>2, <1>3, <1>4

(* The calls of a process vanish, and their requests may still arrive. *)
LEMMA CrashStep ==
    ASSUME LedgerInv, NEW p \in Processes, Crash(p)
    PROVE  LedgerInv'
<1> DEFINE here == {c \in Callers : Home[c] = p}
<1> USE DEF db, history
<1>0. TypeOK /\ UNCHANGED <<db, outcome, history>>
  BY DEF LedgerInv, Crash
<1>1. /\ call' \in [Callers -> Run \union {Idle}]
      /\ \A c \in Callers : IF c \in here THEN call'[c] = Idle ELSE call'[c] = call[c]
  BY <1>0 DEF Crash, TypeOK
<1>2. PICK lost \in SUBSET {call[c].redeem : c \in {d \in here : At(d, Sent)}} :
        late' = late \union lost
  BY DEF Crash
<1>3. \A r \in lost : \E c \in here : /\ At(c, Sent) /\ At(c, Working) /\ call[c].at \in Early
                                      /\ call[c].redeem = r
  BY <1>2 DEF At, Working, Early
<1>4. \A c \in Callers : At(c, Working) =>
        /\ call[c].op \in Operations /\ ops[call[c].op] # NoOp
        /\ ops[call[c].op].redeem = call[c].redeem /\ call[c].redeem \in Redeems
  <2> SUFFICES ASSUME NEW c \in Callers, At(c, Working)
               PROVE  /\ call[c].op \in Operations /\ ops[call[c].op] # NoOp
                      /\ ops[call[c].op].redeem = call[c].redeem /\ call[c].redeem \in Redeems
    OBVIOUS
  <2>1. RunInv(c) /\ call[c] \in Run
    BY <1>0 DEF LedgerInv, TypeOK, At
  <2> QED
    BY <2>1, <1>0 DEF RunInv, Run, TypeOK, Row
<1>5. TypeOK'
  <2>1. late' \subseteq Redeems
    BY <1>0, <1>2, <1>3, <1>4 DEF TypeOK
  <2>2. interrupted' \in [Processes -> [Accounts -> BOOLEAN]]
    BY <1>0 DEF Crash, TypeOK
  <2> QED
    BY <2>1, <2>2, <1>0, <1>1 DEF TypeOK
<1>6. IdsDistinct' /\ GuardInv' /\ CompletedInv'
  BY <1>0 DEF LedgerInv, IdsDistinct, GuardInv, CompletedInv, Pending
<1>7. IdsStored'
  BY <1>0, <1>2, <1>3, <1>4 DEF LedgerInv, IdsStored, DrawnBefore
<1>8. \A c \in Callers : At(c, Working)' => c \notin here /\ At(c, Working) /\ call'[c] = call[c]
  BY <1>1 DEF At
<1>9. ASSUME NEW c \in Callers PROVE RunInv(c)'
  BY <1>0, <1>8 DEF LedgerInv, RunInv, Pending
<1>10. ASSUME NEW x \in Operations PROVE FirstTry(x)'
  <2> SUFFICES ASSUME x \notin resumed, ops[x] # NoOp PROVE FirstTry(x)'
    BY <1>0 DEF FirstTry
  <2>0. FirstTry(x) /\ IdsDistinct
    BY DEF LedgerInv
  <2>1. ops[x].redeem \in late' =>
          \/ ops[x].redeem \in late
          \/ \E c \in here : At(c, Working) /\ call[c].op = x /\ call[c].at \in Early
    BY <2>0, <1>2, <1>3, <1>4 DEF IdsDistinct
  <2> QED
    BY <2>0, <2>1, <1>0, <1>8 DEF FirstTry
<1> QED
  BY <1>5, <1>6, <1>7, <1>9, <1>10 DEF LedgerInv

-----------------------------------------------------------------------------
LEMMA StepKeepsInv ==
    ASSUME LedgerInv, NEW c \in Callers, Step(c)
    PROVE  LedgerInv'
<1>0. TypeOK
  BY DEF LedgerInv
<1>1. ASSUME NEW o \in Operations, NEW a \in Accounts, Call(c, o, a) PROVE LedgerInv'
  BY <1>1, CallStep
<1>2. CASE claim_reset_credit_operation(c)
  BY <1>2, CreatedStep, ExistingStep DEF claim_reset_credit_operation
<1>3. CASE ReturnFromClaim(c)
  BY <1>3, ReturnFromClaimStep
<1>4. ASSUME NEW l \in Early, At(c, Early), goto(c, l), UNCHANGED <<db, provider, history>>,
             interrupted' = interrupted \/ set_interrupted(c, TRUE) \/ set_interrupted(c, FALSE)
      PROVE  LedgerInv'
  <2>1. interrupted' \in [Processes -> [Accounts -> BOOLEAN]]
    BY <1>0, <1>4, FlagFacts DEF At, TypeOK
  <2> QED
    BY <1>4, <2>1, MoveStep
<1>5. CASE load_token(c)
  BY <1>5, <1>4 DEF load_token, At, Early
<1>6. CASE fetch_snapshot_with_retry(c)
  BY <1>6, <1>4 DEF fetch_snapshot_with_retry, At, Early
<1>7. CASE consume_for_account(c)
  BY <1>7, <1>4 DEF consume_for_account, At, Early, Sent
<1>8. CASE Unauthorized(c)
  BY <1>8, <1>4 DEF Unauthorized, At, Early, Sent
<1>9. CASE refresh_token_for_reset(c)
  BY <1>9, <1>4 DEF refresh_token_for_reset, At, Early, Sent
<1>10. CASE Accepted(c)
  <2>1. interrupted' \in [Processes -> [Accounts -> BOOLEAN]]
    BY <1>0, <1>10, FlagFacts DEF Accepted, At
  <2> QED
    BY <1>10, <2>1, AnswerStep DEF Accepted
<1>11. CASE Refused(c)
  <2>1. interrupted' \in [Processes -> [Accounts -> BOOLEAN]]
    BY <1>0, <1>11, FlagFacts DEF Refused, At
  <2> QED
    BY <1>11, <2>1, AnswerStep DEF Refused
<1>12. CASE is_ambiguous_non_idempotent(c)
  <2>1. interrupted' \in [Processes -> [Accounts -> BOOLEAN]]
    BY <1>0, <1>12, FlagFacts DEF is_ambiguous_non_idempotent, At
  <2> QED
    BY <1>12, <2>1, LeaveStep DEF is_ambiguous_non_idempotent, Abandon, At
<1>13. CASE Cancel(c)
  BY <1>0, <1>13, LeaveStep DEF Cancel, Abandon, At, TypeOK
<1>14. CASE fail_operation(c)
  <2>1. /\ At(c, {"failing"}) /\ call[c] # Idle /\ return(c)
        /\ interrupted' \in [Processes -> [Accounts -> BOOLEAN]]
        /\ UNCHANGED <<provider, history>> /\ late' = late /\ outcome' = outcome
    BY <1>0, <1>14 DEF fail_operation, At, TypeOK, provider
  <2>2. CASE finish(call[c].op, call[c].account, "failed")
    BY <2>1, <2>2, FinishStep
  <2>3. CASE UNCHANGED db
    BY <2>1, <2>3, LeaveStep
  <2> QED
    BY <1>14, <2>2, <2>3 DEF fail_operation
<1>15. CASE complete_operation(c)
  <2>1. /\ At(c, {"completing"}) /\ call[c] # Idle
        /\ UNCHANGED <<provider, history>> /\ late' = late /\ outcome' = outcome
    BY <1>15 DEF complete_operation, At, provider
  <2>2. interrupted' \in [Processes -> [Accounts -> BOOLEAN]]
    BY <1>0, <1>15, <2>1, FlagFacts DEF complete_operation, TypeOK
  <2>3. CASE /\ finish(call[c].op, call[c].account, "completed")
             /\ \/ return(c)
                \/ goto(c, "enriching") /\ ops'[call[c].op].status = "completed"
    BY <2>1, <2>2, <2>3, FinishStep
  <2>4. CASE return(c) /\ UNCHANGED db
    BY <2>1, <2>2, <2>4, LeaveStep
  <2> QED
    BY <1>15, <2>3, <2>4 DEF complete_operation
<1>16. CASE update_completed(c)
  BY <1>16, UpdateStep
<1> QED
  BY <1>1, <1>2, <1>3, <1>5, <1>6, <1>7, <1>8, <1>9, <1>10, <1>11, <1>12, <1>13, <1>14,
     <1>15, <1>16 DEF Step

LEMMA NextKeepsInv == LedgerInv /\ [Next]_vars => LedgerInv'
<1> SUFFICES ASSUME LedgerInv, [Next]_vars PROVE LedgerInv'
  OBVIOUS
<1>1. ASSUME NEW c \in Callers, Step(c) PROVE LedgerInv'
  BY <1>1, StepKeepsInv
<1>2. ASSUME NEW r \in Redeems, Arrive(r) PROVE LedgerInv'
  BY <1>2, ArriveStep
<1>3. ASSUME NEW p \in Processes, Crash(p) PROVE LedgerInv'
  BY <1>3, CrashStep
<1>4. CASE UNCHANGED vars
  BY <1>4 DEF vars, db, provider, history, LedgerInv, TypeOK, IdsDistinct, IdsStored, RunInv, GuardInv,
     CompletedInv, FirstTry, At, Pending, DrawnBefore
<1> QED
  BY <1>1, <1>2, <1>3, <1>4 DEF Next

LEMMA LedgerInvariant == Spec => []LedgerInv
BY InitLedger, NextKeepsInv, PTL DEF Spec

(* Every row, guard, call and flag keeps its shape, and a guard names an   *)
(* operation of its own account.                                           *)
THEOREM TypeCorrect == Spec => []TypeOK
<1>1. LedgerInv => TypeOK
  BY DEF LedgerInv
<1> QED
  BY <1>1, LedgerInvariant, PTL

(* However many processes and calls there are, one operation of an account *)
(* is redeemed at a time.                                                  *)
THEOREM AlwaysOneRedemption == Spec => []OneRedemptionPerAccount
<1>1. LedgerInv => OneRedemptionPerAccount
  BY DEF LedgerInv, RunInv, OneRedemptionPerAccount
<1> QED
  BY <1>1, LedgerInvariant, PTL

(* Every request to the provider carries the stored id of its operation,   *)
(* and a charged id belongs to exactly one operation.                      *)
THEOREM AlwaysOneId == Spec => []OneIdPerOperation
<1>1. LedgerInv => OneIdPerOperation
  <2> SUFFICES ASSUME LedgerInv PROVE OneIdPerOperation
    OBVIOUS
  <2>1. \A c \in Callers : At(c, Sent) => call[c].redeem = ops[call[c].op].redeem
    BY DEF LedgerInv, RunInv, At, Working
  <2>2. ASSUME NEW r \in Redeems, outcome[r] = "charged"
        PROVE  \E o \in Operations : /\ ops[o] # NoOp /\ ops[o].redeem = r
                                     /\ \A x \in Operations \ {o} :
                                          ops[x] # NoOp => ops[x].redeem # r
    BY <2>2 DEF LedgerInv, IdsStored, IdsDistinct, DrawnBefore
  <2> QED
    BY <2>1, <2>2 DEF OneIdPerOperation
<1> QED
  BY <1>1, LedgerInvariant, PTL

(* An account has one pending operation at most, apart from old rows. *)
THEOREM AlwaysOnePending == Spec => []OnePendingPerAccount
<1>1. LedgerInv => OnePendingPerAccount
  BY DEF LedgerInv, GuardInv, OnePendingPerAccount
<1> QED
  BY <1>1, LedgerInvariant, PTL

(* What failed in its first call has not been and will not be charged. *)
THEOREM FirstFailureAlwaysFree == Spec => []FirstTryFailureIsFree
<1>1. LedgerInv => FirstTryFailureIsFree
  BY DEF LedgerInv, FirstTry, FirstTryFailureIsFree, Charged
<1> QED
  BY <1>1, LedgerInvariant, PTL

-----------------------------------------------------------------------------
(* The ledger does not see steps that touch neither rows nor decisions. *)
LEMMA LedgerStutters ==
    ASSUME ops' = ops, outcome' = outcome
    PROVE  UNCHANGED <<LedgerStatus, Spent>>
BY DEF LedgerStatus, Spent, Charged

(* A decision charges the one operation whose id it is about, or nobody. *)
LEMMA LedgerCharges ==
    ASSUME LedgerInv, ops' = ops, NEW r \in Redeems, DrawnBefore(r),
           NEW d \in {"charged", "refused"}, Decide(r, d)
    PROVE  [Ledger!Next]_<<LedgerStatus, Spent>>
<1>1. PICK o \in Operations : ops[o] # NoOp /\ ops[o].redeem = r
  BY DEF DrawnBefore
<1>2. /\ outcome'[r] = d /\ outcome[r] \in {"unknown", d}
      /\ \A x \in Redeems \ {r} : outcome'[x] = outcome[x]
  BY DecideFacts DEF LedgerInv
<1>3. \A x \in Operations \ {o} : Charged(x)' <=> Charged(x)
  <2> SUFFICES ASSUME NEW x \in Operations \ {o}, ops[x] # NoOp
               PROVE  outcome'[ops[x].redeem] = outcome[ops[x].redeem]
    BY DEF Charged
  <2>1. ops[x].redeem \in Redeems \ {r}
    BY <1>1 DEF LedgerInv, TypeOK, Row, IdsDistinct
  <2> QED
    BY <2>1, <1>2
<1>4. LedgerStatus' = LedgerStatus
  BY DEF LedgerStatus
<1>5. CASE d = "charged" /\ outcome[r] = "unknown"
  <2>1. ~Charged(o) /\ Charged(o)'
    BY <1>1, <1>2, <1>5 DEF Charged
  <2>2. o \notin Spent /\ Spent' = Spent \union {o}
    BY <2>1, <1>3 DEF Spent
  <2>3. LedgerStatus[o] # "none"
    BY <1>1 DEF LedgerInv, TypeOK, Row, Status, LedgerStatus
  <2>4. Ledger!Charge(o)
    BY <2>2, <2>3, <1>4 DEF Ledger!Charge
  <2> QED
    BY <2>4 DEF Ledger!Next
<1>6. CASE d = "refused" \/ outcome[r] = d
  <2>1. Charged(o)' <=> Charged(o)
    BY <1>1, <1>2, <1>6 DEF Charged
  <2>2. Spent' = Spent
    BY <2>1, <1>3 DEF Spent
  <2> QED
    BY <2>2, <1>4
<1> QED
  BY <1>2, <1>5, <1>6

(* Finishing a pending operation completes it if it was charged, or fails  *)
(* it; finishing it again changes nothing.                                 *)
LEMMA LedgerFinishes ==
    ASSUME LedgerInv, NEW c \in Callers, NEW s \in {"completed", "failed"},
           At(c, {IF s = "completed" THEN "completing" ELSE "failing"}),
           finish(call[c].op, call[c].account, s), outcome' = outcome
    PROVE  [Ledger!Next]_<<LedgerStatus, Spent>>
<1> DEFINE o == call[c].op
<1>0. TypeOK /\ RunInv(c) /\ At(c, Working) /\ call[c] \in Run
  BY DEF LedgerInv, TypeOK, At, Working
<1>1. /\ o \in Operations /\ call[c].account \in Accounts
      /\ ops[o] # NoOp /\ ops[o].account = call[c].account
      /\ s = "completed" => outcome[ops[o].redeem] = "charged"
  BY <1>0 DEF RunInv, Run, At
<1>2. /\ \A x \in Operations \ {o} : ops'[x] = ops[x]
      /\ ops'[o] # NoOp /\ ops'[o].redeem = ops[o].redeem
      /\ ops[o].status = "pending" => ops'[o].status = s
      /\ ops[o].status # "pending" => ops'[o].status = ops[o].status
  BY <1>0, <1>1, FinishFacts
<1>3. Spent' = Spent
  BY <1>1, <1>2 DEF Spent, Charged
<1>4. CASE ops[o].status # "pending"
  <2>1. LedgerStatus' = LedgerStatus
    BY <1>1, <1>2, <1>4 DEF LedgerStatus
  <2> QED
    BY <2>1, <1>3
<1>5. CASE ops[o].status = "pending"
  <2>1. LedgerStatus' = [LedgerStatus EXCEPT ![o] = s] /\ LedgerStatus[o] = "pending"
    BY <1>1, <1>2, <1>5 DEF LedgerStatus
  <2>2. s = "completed" => o \in Spent
    BY <1>1 DEF Spent, Charged
  <2>3. Ledger!Complete(o) \/ Ledger!Fail(o)
    BY <2>1, <2>2, <1>3 DEF Ledger!Complete, Ledger!Fail
  <2> QED
    BY <2>3, <1>1 DEF Ledger!Next
<1> QED
  BY <1>4, <1>5

LEMMA LedgerOpens ==
    ASSUME LedgerInv, NEW c \in Callers, NEW id \in Redeems, ~DrawnBefore(id),
           claim_created(c, id)
    PROVE  [Ledger!Next]_<<LedgerStatus, Spent>>
<1> DEFINE o == call[c].op
<1>0. /\ o \in Operations /\ ops[o] = NoOp /\ outcome' = outcome
      /\ call[c].account \in Accounts /\ outcome[id] = "unknown"
  BY DEF LedgerInv, TypeOK, claim_created, At, Claimable, Run, provider, IdsStored
<1>1. /\ ops'[o] # NoOp /\ ops'[o].redeem = id /\ ops'[o].status = "pending"
      /\ \A x \in Operations \ {o} : ops'[x] = ops[x]
  BY <1>0, ResetCreditAssumption DEF claim_created, LedgerInv, TypeOK, Row, Status
<1>2. LedgerStatus[o] = "none" /\ LedgerStatus' = [LedgerStatus EXCEPT ![o] = "pending"]
  BY <1>0, <1>1 DEF LedgerStatus
<1>3. Spent' = Spent
  BY <1>0, <1>1 DEF Spent, Charged
<1>4. Ledger!Open(o)
  BY <1>2, <1>3 DEF Ledger!Open
<1> QED
  BY <1>0, <1>4 DEF Ledger!Next

(* Through crashes, cancellations, lost answers and replays in any number  *)
(* of processes, an operation is opened once, charged at most once,        *)
(* completed only if it was charged, and never revised.                    *)
THEOREM RefinesCreditLedger == Spec => RefinesLedger
<1>1. Init => Ledger!Init
  <2> SUFFICES ASSUME Init PROVE Ledger!Init
    OBVIOUS
  <2>1. LedgerStatus \in [Operations -> {"none", "pending"}]
    BY DEF Init, LedgerStatus, Pending
  <2>2. Spent = {}
    BY DEF Init, Spent, Charged, Row
  <2> QED
    BY <2>1, <2>2 DEF Ledger!Init
<1>2. LedgerInv /\ [Next]_vars => [Ledger!Next]_<<LedgerStatus, Spent>>
  <2> SUFFICES ASSUME LedgerInv, [Next]_vars PROVE [Ledger!Next]_<<LedgerStatus, Spent>>
    OBVIOUS
  <2> USE DEF db, provider, history
  <2>0. ASSUME ops' = ops, outcome' = outcome PROVE [Ledger!Next]_<<LedgerStatus, Spent>>
    BY <2>0, LedgerStutters
  <2>1. ASSUME NEW c \in Callers, claim_reset_credit_operation(c)
        PROVE  [Ledger!Next]_<<LedgerStatus, Spent>>
    <3>1. PICK id \in Redeems : ~DrawnBefore(id) /\ (claim_created(c, id) \/ claim_existing(c, id))
      BY <2>1 DEF claim_reset_credit_operation
    <3>2. claim_existing(c, id) => ops' = ops /\ outcome' = outcome
      BY DEF claim_existing
    <3> QED
      BY <3>1, <3>2, <2>0, LedgerOpens
  <2>2. ASSUME NEW c \in Callers, At(c, Sent) PROVE call[c].redeem \in Redeems /\ DrawnBefore(call[c].redeem)
    <3>1. RunInv(c) /\ At(c, Working) /\ call[c] \in Run
      BY <2>2 DEF LedgerInv, TypeOK, At, Working
    <3> QED
      BY <3>1 DEF RunInv, Run, LedgerInv, TypeOK, Row, DrawnBefore
  <2>3. ASSUME NEW c \in Callers, Accepted(c) \/ Refused(c)
        PROVE  [Ledger!Next]_<<LedgerStatus, Spent>>
    BY <2>2, <2>3, LedgerCharges DEF Accepted, Refused
  <2>4. ASSUME NEW r \in Redeems, Arrive(r) PROVE [Ledger!Next]_<<LedgerStatus, Spent>>
    BY <2>4, LedgerCharges DEF Arrive, LedgerInv, IdsStored
  <2>5. ASSUME NEW c \in Callers, fail_operation(c) PROVE [Ledger!Next]_<<LedgerStatus, Spent>>
    <3>1. CASE finish(call[c].op, call[c].account, "failed")
      BY <2>5, <3>1, LedgerFinishes DEF fail_operation
    <3>2. CASE UNCHANGED db
      BY <2>0, <2>5, <3>2 DEF fail_operation
    <3> QED
      BY <2>5, <3>1, <3>2 DEF fail_operation
  <2>6. ASSUME NEW c \in Callers, complete_operation(c)
        PROVE  [Ledger!Next]_<<LedgerStatus, Spent>>
    <3>1. CASE finish(call[c].op, call[c].account, "completed")
      BY <2>6, <3>1, LedgerFinishes DEF complete_operation
    <3>2. CASE UNCHANGED db
      BY <2>0, <2>6, <3>2 DEF complete_operation
    <3> QED
      BY <2>6, <3>1, <3>2 DEF complete_operation
  <2>7. ASSUME NEW c \in Callers, Step(c) PROVE [Ledger!Next]_<<LedgerStatus, Spent>>
    BY <2>0, <2>1, <2>3, <2>5, <2>6, <2>7 DEF Step, Call, ReturnFromClaim, load_token,
       fetch_snapshot_with_retry, consume_for_account, Unauthorized, refresh_token_for_reset,
       is_ambiguous_non_idempotent, update_completed, Cancel
  <2>8. ASSUME NEW p \in Processes, Crash(p) PROVE [Ledger!Next]_<<LedgerStatus, Spent>>
    BY <2>0, <2>8 DEF Crash
  <2>9. CASE UNCHANGED vars
    BY <2>0, <2>9 DEF vars
  <2> QED
    BY <2>4, <2>7, <2>8, <2>9 DEF Next
<1> QED
  BY <1>1, <1>2, LedgerInvariant, PTL DEF Spec, RefinesLedger, Ledger!Spec
=============================================================================
