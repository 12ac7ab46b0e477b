-------------------------- MODULE TokenRefreshProofs --------------------------
(***************************************************************************)
(* TLAPS proofs for TokenRefresh: the shape of its state, that a late      *)
(* answer never overwrites newer credentials, that no completion runs      *)
(* after the drain, that only a grant whose answer was lost is presented   *)
(* again and that an answer on its way to the row is never abandoned, for  *)
(* any accounts, callers, slots and numbers issued.                        *)
(*                                                                         *)
(* RefreshInv says of every token somebody carries between two steps that  *)
(* it is not newer than the last number issued, and of what a completion   *)
(* or an exchanger is about to store that it is not older than the row it  *)
(* expects to replace.  With the compare-and-swap this gives the order of  *)
(* the rows.  OwnerInv adds whose a grant is: one refresh of an account    *)
(* runs at a time, no two accounts know the same grant, and what is about  *)
(* to be stored is known to nobody else or is the grant it replaces.       *)
(***************************************************************************)
EXTENDS TokenRefresh, TLAPS

(* Nothing in token t was issued after number n. *)
Bound(t, n) == t.grant <= n /\ t.access <= n

(* Token t may replace token u. *)
Newer(t, u) == t.root = u.root /\ t.access >= u.access /\ t.grant >= u.grant

GoodRow(t, n) == t = None \/ (t \in Token /\ Bound(t, n))

GoodCall(k, n) ==
    /\ k \in Call
    /\ k.pc # "idle" => k.acc \in Accounts /\ k.token \in Token /\ Bound(k.token, n)

GoodCompletion(k, n) ==
    /\ k \in Completion
    /\ k.pc # "idle" =>
           /\ k.acc \in Accounts /\ k.expected \in Token /\ k.token \in Token
           /\ Newer(k.token, k.expected) /\ Bound(k.token, n)

GoodExchanger(k, n) ==
    /\ k \in Exchanger
    /\ k.pc # "idle" =>
           /\ k.expected \in Token /\ k.token \in Token
           /\ Newer(k.token, k.expected) /\ Bound(k.token, n)

RowInv ==
    /\ stored \in [Accounts -> Token \union {None}]
    /\ \A a \in Accounts : GoodRow(stored[a], issued)

CallInv ==
    /\ call \in [Callers -> Call]
    /\ \A c \in Callers : GoodCall(call[c], issued)

CompletionInv ==
    /\ completion \in [Callers -> Completion]
    /\ \A c \in Callers : GoodCompletion(completion[c], issued)

ExchangerInv ==
    /\ exchanger \in [Accounts -> Exchanger]
    /\ \A a \in Accounts : GoodExchanger(exchanger[a], issued)

GrantInv == issued \in Number /\ grants \in [Number -> Fate]

(* A drain belongs to a shutdown, and when it is done no completion runs. *)
DrainInv ==
    /\ shutdown \in BOOLEAN
    /\ drain \in {"idle", "load", "await", "done"}
    /\ signal \in {"none", "waiting", "notified"}
    /\ drain # "idle" => shutdown
    /\ QuietAfterDrain

RefreshInv == RowInv /\ CallInv /\ CompletionInv /\ ExchangerInv /\ GrantInv /\ DrainInv

(* What NeverOverwritesNewer says of one step. *)
RowStep ==
    \A a \in Accounts : stored'[a] # None /\ stored'[a] # stored[a] =>
           \/ stored'[a].root = issued'
           \/ /\ stored[a] # None
              /\ stored'[a].root = stored[a].root
              /\ stored'[a].access >= stored[a].access
              /\ stored'[a].grant >= stored[a].grant

-----------------------------------------------------------------------------
(* Numbers and tokens.                                                     *)

LEMMA Raised ==
    ASSUME NEW n \in Number, NEW m \in Number, n <= m
    PROVE  /\ \A t : GoodRow(t, n) => GoodRow(t, m)
           /\ \A k : GoodCall(k, n) => GoodCall(k, m)
           /\ \A k : GoodCompletion(k, n) => GoodCompletion(k, m)
           /\ \A k : GoodExchanger(k, n) => GoodExchanger(k, m)
<1>1. \A t \in Token : Bound(t, n) => Bound(t, m)
  BY MaxIssuedAssumption DEF Bound, Token, Number
<1>2. QED
  BY <1>1 DEF GoodRow, GoodCall, GoodCompletion, GoodExchanger

LEMMA NewerIsReflexive ==
    ASSUME NEW t \in Token
    PROVE  Newer(t, t)
  BY MaxIssuedAssumption DEF Newer, Token, Number

(* A number just issued. *)
LEMMA Issued ==
    ASSUME GrantInv, Issue
    PROVE  issued' \in Number /\ issued \in Number /\ issued <= issued'
  BY MaxIssuedAssumption DEF GrantInv, Issue, Number

LEMMA NotIssued ==
    ASSUME GrantInv, UNCHANGED issued
    PROVE  issued' \in Number /\ issued \in Number /\ issued <= issued'
  BY MaxIssuedAssumption DEF GrantInv, Number

(* The provider's answer: a new access token and perhaps a new grant. *)
LEMMA Answer ==
    ASSUME GrantInv, Issue, NEW t \in Token, NEW u \in Token, Newer(t, u), Bound(t, issued),
           NEW rotates \in BOOLEAN, NEW s \in Token,
           s.root = t.root, s.access = issued', s.grant = IF rotates THEN issued' ELSE t.grant
    PROVE  Newer(s, u) /\ Bound(s, issued')
  BY MaxIssuedAssumption DEF GrantInv, Issue, Token, Number, Newer, Bound

-----------------------------------------------------------------------------
(* One entry of a function changes, or none.                               *)

LEMMA RowKept ==
    ASSUME RowInv, GrantInv, issued' \in Number, issued <= issued', UNCHANGED stored
    PROVE  RowInv' /\ RowStep
  BY Raised DEF RowInv, RowStep, GrantInv

LEMMA RowUpdated ==
    ASSUME RowInv, GrantInv, issued' \in Number, issued <= issued', NEW a \in Accounts, NEW t,
           GoodRow(t, issued'), stored' = [stored EXCEPT ![a] = t],
           \/ t = None
           \/ t.root = issued'
           \/ stored[a] # None /\ Newer(t, stored[a])
    PROVE  RowInv' /\ RowStep
<1>1. \A b \in Accounts : GoodRow(stored'[b], issued')
  BY Raised DEF RowInv, GrantInv
<1>2. stored' \in [Accounts -> Token \union {None}]
  BY DEF RowInv, GoodRow
<1>3. RowStep
  BY DEF RowInv, RowStep, Newer
<1>4. QED
  BY <1>1, <1>2, <1>3 DEF RowInv

LEMMA CallKept ==
    ASSUME CallInv, GrantInv, issued' \in Number, issued <= issued', UNCHANGED call
    PROVE  CallInv'
  BY Raised DEF CallInv, GrantInv

LEMMA CallUpdated ==
    ASSUME CallInv, GrantInv, issued' \in Number, issued <= issued', NEW c \in Callers, NEW k,
           GoodCall(k, issued'), call' = [call EXCEPT ![c] = k]
    PROVE  CallInv'
<1>1. \A d \in Callers : GoodCall(call'[d], issued')
  BY Raised DEF CallInv, GrantInv
<1>2. call' \in [Callers -> Call]
  BY DEF CallInv, GoodCall
<1>3. QED
  BY <1>1, <1>2 DEF CallInv

LEMMA CompletionKept ==
    ASSUME CompletionInv, GrantInv, issued' \in Number, issued <= issued', UNCHANGED completion
    PROVE  CompletionInv'
  BY Raised DEF CompletionInv, GrantInv

LEMMA CompletionUpdated ==
    ASSUME CompletionInv, GrantInv, issued' \in Number, issued <= issued', NEW c \in Callers, NEW k,
           GoodCompletion(k, issued'), completion' = [completion EXCEPT ![c] = k]
    PROVE  CompletionInv'
<1>1. \A d \in Callers : GoodCompletion(completion'[d], issued')
  BY Raised DEF CompletionInv, GrantInv
<1>2. completion' \in [Callers -> Completion]
  BY DEF CompletionInv, GoodCompletion
<1>3. QED
  BY <1>1, <1>2 DEF CompletionInv

LEMMA ExchangerKept ==
    ASSUME ExchangerInv, GrantInv, issued' \in Number, issued <= issued', UNCHANGED exchanger
    PROVE  ExchangerInv'
  BY Raised DEF ExchangerInv, GrantInv

LEMMA ExchangerUpdated ==
    ASSUME ExchangerInv, GrantInv, issued' \in Number, issued <= issued', NEW a \in Accounts, NEW k,
           GoodExchanger(k, issued'), exchanger' = [exchanger EXCEPT ![a] = k]
    PROVE  ExchangerInv'
<1>1. \A b \in Accounts : GoodExchanger(exchanger'[b], issued')
  BY Raised DEF ExchangerInv, GrantInv
<1>2. exchanger' \in [Accounts -> Exchanger]
  BY DEF ExchangerInv, GoodExchanger
<1>3. QED
  BY <1>1, <1>2 DEF ExchangerInv

(* Idle entries are good. *)
LEMMA IdleIsGood ==
    ASSUME NEW n
    PROVE  /\ GoodCall(NoCall, n)
           /\ GoodCompletion(NoCompletion, n)
           /\ GoodExchanger(NoExchange, n)
  BY DEF GoodCall, GoodCompletion, GoodExchanger, NoCall, NoCompletion, NoExchange,
         Call, Completion, Exchanger

(* A step that leaves the drain alone and starts no completion. *)
LEMMA DrainKept ==
    ASSUME DrainInv, UNCHANGED <<shutdown, drain>>, signal' \in {"none", "waiting", "notified"},
           \A c \in Callers : Running(c)' => Running(c)
    PROVE  DrainInv'
  BY DEF DrainInv, QuietAfterDrain

(* The compare-and-swap of a token that is not older than the expected. *)
LEMMA SwapKeeps ==
    ASSUME RowInv, GrantInv, issued' \in Number, issued <= issued', NEW a \in Accounts,
           NEW expected \in Token, NEW next \in Token, Newer(next, expected),
           Bound(next, issued'), CompareAndSwap(a, expected, next)
    PROVE  RowInv' /\ RowStep
<1>1. CASE Current(a, expected)
  <2>1. stored' = [stored EXCEPT ![a] = next] /\ stored[a] # None /\ stored[a] = expected
    BY <1>1 DEF CompareAndSwap, Current
  <2>2. QED
    BY <2>1, RowUpdated DEF GoodRow
<1>2. CASE ~Current(a, expected)
  BY <1>2, RowKept DEF CompareAndSwap
<1>3. QED
  BY <1>1, <1>2

-----------------------------------------------------------------------------
(* The caller's side.                                                      *)

(* A caller's step that changes only its own call, perhaps admitting a     *)
(* completion when no shutdown is under way.                               *)
LEMMA CallerKeeps ==
    ASSUME RefreshInv, NEW c \in Callers, CallerStep(c)
    PROVE  RefreshInv' /\ RowStep
<1> USE DEF RefreshInv
<1>1. /\ UNCHANGED <<stored, issued, grants, exchanger, shutdown, drain, signal>>
      /\ issued' \in Number /\ issued <= issued' /\ GrantInv'
  BY NotIssued DEF CallerStep, BeginRefresh, TakeLock, TakeSlot, Register, Cancel, GrantInv
<1>2. RowInv' /\ RowStep /\ ExchangerInv'
  BY <1>1, RowKept, ExchangerKept
<1>3. GoodCall(call[c], issued) /\ call \in [Callers -> Call]
  BY DEF CallInv
<1>4. CASE UNCHANGED completion
  <2>1. CompletionInv'
    BY <1>1, <1>4, CompletionKept
  <2>2. DrainInv'
    BY <1>1, <1>4, DrainKept DEF DrainInv, Running
  <2>3. ASSUME NEW a \in Accounts, BeginRefresh(c, a) PROVE CallInv'
    <3>1. GoodRow(stored[a], issued)
      BY DEF RowInv
    <3>2. GoodCall([pc |-> "lock", acc |-> a, token |-> stored[a]], issued')
      BY <1>1, <2>3, <3>1 DEF GoodRow, GoodCall, Call, BeginRefresh
    <3>3. QED
      BY <1>1, <2>3, <3>2, CallUpdated DEF BeginRefresh
  <2>4. ASSUME NEW pc \in {"slot", "register"}, call[c].pc # "idle",
               call' = [call EXCEPT ![c].pc = pc]
        PROVE  CallInv'
    <3>1. GoodCall([call[c] EXCEPT !.pc = pc], issued')
      BY <1>1, <1>3, <2>4 DEF GoodCall, Call
    <3>2. QED
      BY <1>1, <2>4, <3>1, CallUpdated
  <2>5. ASSUME EndCall(c) PROVE CallInv'
    BY <1>1, <2>5, IdleIsGood, CallUpdated DEF EndCall
  <2>6. CallInv'
    <3>1. CASE TakeLock(c)
      BY <2>4, <3>1 DEF TakeLock
    <3>2. CASE TakeSlot(c)
      BY <2>4, <2>5, <3>2 DEF TakeSlot
    <3>3. CASE Register(c)
      <4>1. CASE shutdown
        BY <2>5, <3>3, <4>1 DEF Register
      <4>2. CASE ~shutdown
        <5>1. completion' = [completion EXCEPT ![c] = [NoCompletion EXCEPT !.pc = "read", !.acc = call[c].acc,
                                       !.expected = call[c].token, !.token = call[c].token]]
              /\ call' = [call EXCEPT ![c].pc = "wait"] /\ call[c].pc # "idle"
          BY <3>3, <4>2 DEF Register, Admit
        <5>2. GoodCall([call[c] EXCEPT !.pc = "wait"], issued')
          BY <1>1, <1>3, <5>1 DEF GoodCall, Call
        <5>3. QED
          BY <1>1, <5>1, <5>2, CallUpdated
      <4>3. QED
        BY <4>1, <4>2
    <3>4. CASE Cancel(c)
      BY <2>5, <3>4 DEF Cancel
    <3>5. QED
      BY <2>3, <3>1, <3>2, <3>3, <3>4 DEF CallerStep
  <2>7. QED
    BY <1>1, <1>2, <2>1, <2>2, <2>6
<1>5. CASE ~UNCHANGED completion
  <2>1. Register(c) /\ ~shutdown /\ Admit(c) /\ call[c].pc = "register"
    BY <1>5 DEF CallerStep, BeginRefresh, TakeLock, TakeSlot, Register, Cancel
  <2>2. GoodCall([call[c] EXCEPT !.pc = "wait"], issued')
    BY <1>1, <1>3, <2>1 DEF GoodCall, Call
  <2>3. CallInv'
    BY <1>1, <2>1, <2>2, CallUpdated DEF Admit
  <2> DEFINE k == [NoCompletion EXCEPT !.pc = "read", !.acc = call[c].acc,
                                       !.expected = call[c].token, !.token = call[c].token]
  <2>4. GoodCompletion(k, issued')
    BY <1>1, <1>3, <2>1, NewerIsReflexive DEF GoodCall, GoodCompletion, Completion, NoCompletion
  <2>5. CompletionInv'
    BY <1>1, <2>1, <2>4, CompletionUpdated DEF Admit
  <2>6. DrainInv'
    BY <1>1, <2>1 DEF DrainInv, QuietAfterDrain
  <2>7. QED
    BY <1>1, <1>2, <2>3, <2>5, <2>6
<1>6. QED
  BY <1>4, <1>5

-----------------------------------------------------------------------------
(* The completion.                                                         *)

(* The task ends. *)
LEMMA ReturnKeeps ==
    ASSUME CallInv, CompletionInv, GrantInv, DrainInv, issued' \in Number, issued <= issued',
           NEW c \in Callers, Return(c), UNCHANGED <<shutdown, drain>>
    PROVE  CallInv' /\ CompletionInv' /\ DrainInv'
<1>1. CallInv' /\ CompletionInv'
  BY IdleIsGood, CallUpdated, CompletionUpdated DEF Return, EndCall
<1>2. \A d \in Callers : Running(d)' => Running(d)
  BY DEF Return, Running, NoCompletion, CompletionInv
<1>3. signal' \in {"none", "waiting", "notified"}
  BY DEF Return, DrainInv
<1>4. QED
  BY <1>1, <1>2, <1>3, DrainKept

(* The task goes on with what it then carries. *)
LEMMA AdvanceKeeps ==
    ASSUME CallInv, CompletionInv, GrantInv, DrainInv, issued' \in Number, issued <= issued',
           NEW c \in Callers, Running(c), NEW k, GoodCompletion(k, issued'),
           completion' = [completion EXCEPT ![c] = k],
           UNCHANGED <<call, signal, shutdown, drain>>
    PROVE  CallInv' /\ CompletionInv' /\ DrainInv'
<1>1. CallInv' /\ CompletionInv'
  BY CallKept, CompletionUpdated
<1>2. \A d \in Callers : Running(d)' => Running(d)
  BY DEF Running, CompletionInv
<1>3. QED
  BY <1>1, <1>2, DrainKept DEF DrainInv

LEMMA ReadLatestKeeps ==
    ASSUME RefreshInv, NEW c \in Callers, ReadLatest(c)
    PROVE  RefreshInv' /\ RowStep
<1> USE DEF RefreshInv
<1>1. /\ UNCHANGED <<stored, issued, grants, exchanger, shutdown, drain>>
      /\ issued' \in Number /\ issued <= issued' /\ GrantInv'
  BY NotIssued DEF ReadLatest, GrantInv
<1>2. RowInv' /\ RowStep /\ ExchangerInv'
  BY <1>1, RowKept, ExchangerKept
<1>3. CASE Return(c)
  BY <1>1, <1>2, <1>3, ReturnKeeps
<1>4. CASE ~Return(c)
  <2> DEFINE k == [completion[c] EXCEPT !.pc = "exchange",
                                        !.expected = stored[completion[c].acc],
                                        !.token = stored[completion[c].acc]]
  <2>1. /\ ~Superseded(c) /\ completion[c].pc = "read" /\ UNCHANGED <<call, signal>>
        /\ completion' = [completion EXCEPT ![c].pc = "exchange",
                                            ![c].expected = stored[completion[c].acc],
                                            ![c].token = stored[completion[c].acc]]
    BY <1>4 DEF ReadLatest
  <2>2. completion[c].acc \in Accounts /\ completion[c] \in Completion
    BY <2>1 DEF CompletionInv, GoodCompletion
  <2>3. stored[completion[c].acc] \in Token /\ Bound(stored[completion[c].acc], issued')
    BY <1>1, <2>1, <2>2 DEF Superseded, RowInv, GoodRow
  <2>4. GoodCompletion(k, issued')
    BY <2>2, <2>3, NewerIsReflexive DEF GoodCompletion, Completion
  <2>5. completion' = [completion EXCEPT ![c] = k]
    BY <2>1 DEF CompletionInv
  <2> HIDE DEF k
  <2>6. QED
    BY <1>1, <1>2, <2>1, <2>4, <2>5, AdvanceKeeps DEF Running
<1>5. QED
  BY <1>3, <1>4

LEMMA ExchangeKeeps ==
    ASSUME RefreshInv, NEW c \in Callers, Exchange(c)
    PROVE  RefreshInv' /\ RowStep
<1> USE DEF RefreshInv
<1>1. /\ UNCHANGED <<stored, call, exchanger, shutdown, drain, signal>>
      /\ issued' \in Number /\ issued <= issued' /\ Issue
  BY Issued DEF Exchange
<1>2. RowInv' /\ RowStep /\ ExchangerInv'
  BY <1>1, RowKept, ExchangerKept
<1>3. PICK rotates \in BOOLEAN, new_id \in BOOLEAN :
           /\ completion' = [completion EXCEPT
                  ![c].pc = "persist",
                  ![c].token.access = issued',
                  ![c].token.grant = IF rotates THEN issued' ELSE @,
                  ![c].new_id = new_id]
           /\ grants' = IF rotates
                        THEN [grants EXCEPT ![completion[c].token.grant] = "spent"]
                        ELSE grants
  BY DEF Exchange
<1>4. /\ completion[c] \in Completion /\ completion[c].acc \in Accounts
      /\ completion[c].expected \in Token /\ completion[c].token \in Token
      /\ Newer(completion[c].token, completion[c].expected) /\ Bound(completion[c].token, issued)
      /\ completion[c].pc = "exchange"
  BY DEF Exchange, CompletionInv, GoodCompletion
<1>5. GrantInv'
  BY <1>1, <1>3 DEF GrantInv, Fate
<1> DEFINE t == completion[c].token
           s == [t EXCEPT !.access = issued', !.grant = IF rotates THEN issued' ELSE @]
           k == [completion[c] EXCEPT !.pc = "persist", !.token = s, !.new_id = new_id]
<1>6. s \in Token /\ s.root = t.root /\ s.access = issued'
      /\ s.grant = IF rotates THEN issued' ELSE t.grant
  BY <1>1, <1>4 DEF Token
<1>7. completion' = [completion EXCEPT ![c] = k]
  BY <1>3, <1>4 DEF CompletionInv
<1> HIDE DEF s
<1>8. Newer(s, completion[c].expected) /\ Bound(s, issued')
  BY <1>1, <1>4, <1>6, Answer
<1>9. GoodCompletion(k, issued')
  BY <1>4, <1>6, <1>8 DEF GoodCompletion, Completion
<1> HIDE DEF k
<1>10. QED
  BY <1>1, <1>2, <1>4, <1>5, <1>7, <1>9, AdvanceKeeps DEF Running

(* A step that ends the completion, whatever became of its grant. *)
LEMMA ReturnWithRow ==
    ASSUME RefreshInv, NEW c \in Callers, Return(c), RowInv' /\ RowStep,
           grants' \in [Number -> Fate], UNCHANGED <<issued, exchanger, shutdown, drain>>
    PROVE  RefreshInv' /\ RowStep
<1> USE DEF RefreshInv
<1>1. issued' \in Number /\ issued <= issued' /\ GrantInv'
  BY NotIssued DEF GrantInv
<1>2. ExchangerInv'
  BY <1>1, ExchangerKept
<1>3. QED
  BY <1>1, <1>2, ReturnKeeps

LEMMA ExchangeFailsKeeps ==
    ASSUME RefreshInv, NEW c \in Callers, ExchangeFails(c)
    PROVE  RefreshInv' /\ RowStep
<1> USE DEF RefreshInv
<1>1. RowInv' /\ RowStep
  BY NotIssued, RowKept DEF ExchangeFails
<1>2. \A f \in Fate : Unanswered(f) \in Fate
  BY DEF Unanswered, Fate
<1>3. grants' \in [Number -> Fate]
  BY <1>2 DEF ExchangeFails, GrantInv
<1>4. QED
  BY <1>1, <1>3, ReturnWithRow DEF ExchangeFails

LEMMA PersistKeeps ==
    ASSUME RefreshInv, NEW c \in Callers, Persist(c)
    PROVE  RefreshInv' /\ RowStep
<1> USE DEF RefreshInv
<1>1. /\ UNCHANGED <<issued, exchanger, shutdown, drain>>
      /\ issued' \in Number /\ issued <= issued'
  BY NotIssued DEF Persist
<1>2. /\ completion[c] \in Completion /\ completion[c].acc \in Accounts
      /\ completion[c].expected \in Token /\ completion[c].token \in Token
      /\ Newer(completion[c].token, completion[c].expected) /\ Bound(completion[c].token, issued')
      /\ completion[c].pc = "persist"
  BY <1>1 DEF Persist, CompletionInv, GoodCompletion
<1>3. RowInv' /\ RowStep
  BY <1>1, <1>2, SwapKeeps DEF Persist
<1>4. grants' \in [Number -> Fate]
  BY DEF Persist, Answered, GrantInv, Fate
<1>5. CASE Return(c)
  BY <1>1, <1>3, <1>4, <1>5, ReturnWithRow
<1>6. CASE Proceed(c, "key")
  <2> DEFINE k == [completion[c] EXCEPT !.pc = "key"]
  <2>1. GoodCompletion(k, issued')
    BY <1>2 DEF GoodCompletion, Completion
  <2>2. completion' = [completion EXCEPT ![c] = k] /\ UNCHANGED <<call, signal>>
    BY <1>6 DEF Proceed
  <2> HIDE DEF k
  <2>3. GrantInv' /\ ExchangerInv'
    BY <1>1, <1>4, ExchangerKept DEF GrantInv
  <2>4. QED
    BY <1>1, <1>2, <1>3, <2>1, <2>2, <2>3, AdvanceKeeps DEF Running
<1>7. QED
  BY <1>5, <1>6 DEF Persist

LEMMA PersistFailsKeeps ==
    ASSUME RefreshInv, NEW c \in Callers, PersistFails(c)
    PROVE  RefreshInv' /\ RowStep
<1> USE DEF RefreshInv
<1>1. RowInv' /\ RowStep
  BY NotIssued, RowKept DEF PersistFails
<1>2. grants' \in [Number -> Fate]
  BY DEF PersistFails, GrantInv, Fate
<1>3. QED
  BY <1>1, <1>2, ReturnWithRow DEF PersistFails

LEMMA ObtainKeyKeeps ==
    ASSUME RefreshInv, NEW c \in Callers, ObtainKey(c)
    PROVE  RefreshInv' /\ RowStep
<1> USE DEF RefreshInv
<1>1. /\ UNCHANGED <<stored, call, grants, exchanger, shutdown, drain, signal>>
      /\ issued \in Number /\ issued' \in Number /\ issued <= issued' /\ GrantInv'
  BY Issued DEF ObtainKey, GrantInv
<1>2. RowInv' /\ RowStep /\ ExchangerInv'
  BY <1>1, RowKept, ExchangerKept
<1>3. /\ completion[c] \in Completion /\ completion[c].acc \in Accounts
      /\ completion[c].token \in Token /\ Bound(completion[c].token, issued)
      /\ completion[c].pc = "key"
  BY DEF ObtainKey, CompletionInv, GoodCompletion
<1> DEFINE t == completion[c].token
           s == [t EXCEPT !.key = issued']
           k == [completion[c] EXCEPT !.pc = "persist_key", !.expected = t, !.token = s]
<1>4. s \in Token /\ s.root = t.root /\ s.access = t.access /\ s.grant = t.grant
  BY <1>1, <1>3 DEF Token
<1>5. completion' = [completion EXCEPT ![c] = k]
  BY <1>3 DEF ObtainKey, CompletionInv
<1> HIDE DEF s
<1>6. Newer(s, t) /\ Bound(s, issued')
  BY <1>1, <1>3, <1>4, MaxIssuedAssumption DEF Newer, Bound, Token, Number
<1>7. GoodCompletion(k, issued')
  BY <1>3, <1>4, <1>6 DEF GoodCompletion, Completion
<1> HIDE DEF k
<1>8. QED
  BY <1>1, <1>2, <1>3, <1>5, <1>7, AdvanceKeeps DEF Running

LEMMA ObtainKeyFailsKeeps ==
    ASSUME RefreshInv, NEW c \in Callers, ObtainKeyFails(c)
    PROVE  RefreshInv' /\ RowStep
<1> USE DEF RefreshInv
<1>1. RowInv' /\ RowStep
  BY NotIssued, RowKept DEF ObtainKeyFails
<1>2. grants' \in [Number -> Fate]
  BY DEF ObtainKeyFails, GrantInv
<1>3. QED
  BY <1>1, <1>2, ReturnWithRow DEF ObtainKeyFails

LEMMA PersistKeyKeeps ==
    ASSUME RefreshInv, NEW c \in Callers, PersistKey(c)
    PROVE  RefreshInv' /\ RowStep
<1> USE DEF RefreshInv
<1>1. issued' \in Number /\ issued <= issued' /\ UNCHANGED issued
  BY NotIssued DEF PersistKey
<1>2. /\ completion[c].acc \in Accounts
      /\ completion[c].expected \in Token /\ completion[c].token \in Token
      /\ Newer(completion[c].token, completion[c].expected) /\ Bound(completion[c].token, issued')
  BY <1>1 DEF PersistKey, CompletionInv, GoodCompletion
<1>3. RowInv' /\ RowStep
  BY <1>1, <1>2, SwapKeeps DEF PersistKey
<1>4. grants' \in [Number -> Fate]
  BY DEF PersistKey, GrantInv
<1>5. QED
  BY <1>3, <1>4, ReturnWithRow DEF PersistKey

-----------------------------------------------------------------------------
(* The other writers of the row.                                           *)

(* A step of a writer leaves callers, completions and the drain alone. *)
LEMMA WriterFrame ==
    ASSUME RefreshInv, issued' \in Number, issued <= issued', grants' \in [Number -> Fate],
           UNCHANGED <<call, completion, shutdown, drain, signal>>,
           RowInv' /\ RowStep, ExchangerInv'
    PROVE  RefreshInv' /\ RowStep
<1> USE DEF RefreshInv
<1>1. CallInv' /\ CompletionInv' /\ GrantInv'
  BY CallKept, CompletionKept DEF GrantInv
<1>2. DrainInv'
  BY DrainKept DEF DrainInv, Running
<1>3. QED
  BY <1>1, <1>2

LEMMA ImportKeeps ==
    ASSUME RefreshInv, NEW a \in Accounts, Import(a)
    PROVE  RefreshInv' /\ RowStep
<1> USE DEF RefreshInv
<1>1. issued' \in Number /\ issued <= issued' /\ 0 \in Number /\ 0 <= issued' /\ issued' <= issued'
  BY Issued, MaxIssuedAssumption DEF Import, Number
<1>2. PICK grant \in {0, issued'} :
          stored' = [stored EXCEPT ![a] = [Imported(issued') EXCEPT !.grant = grant]]
  BY DEF Import
<1> DEFINE t == [Imported(issued') EXCEPT !.grant = grant]
<1>3. GoodRow(t, issued') /\ t.root = issued'
  BY <1>1 DEF Imported, GoodRow, Bound, Token
<1> HIDE DEF t
<1>4. RowInv' /\ RowStep
  BY <1>1, <1>2, <1>3, RowUpdated DEF t
<1>5. ExchangerInv' /\ grants' \in [Number -> Fate]
  BY <1>1, ExchangerKept DEF Import, GrantInv
<1>6. QED
  BY <1>1, <1>4, <1>5, WriterFrame DEF Import

LEMMA DeleteAccountKeeps ==
    ASSUME RefreshInv, NEW a \in Accounts, DeleteAccount(a)
    PROVE  RefreshInv' /\ RowStep
<1> USE DEF RefreshInv
<1>1. issued' \in Number /\ issued <= issued'
  BY NotIssued DEF DeleteAccount
<1>2. RowInv' /\ RowStep
  BY <1>1, RowUpdated DEF DeleteAccount, GoodRow
<1>3. ExchangerInv' /\ grants' \in [Number -> Fate]
  BY <1>1, ExchangerKept DEF DeleteAccount, GrantInv
<1>4. QED
  BY <1>1, <1>2, <1>3, WriterFrame DEF DeleteAccount

LEMMA ClearKeyKeeps ==
    ASSUME RefreshInv, NEW a \in Accounts, ClearKey(a)
    PROVE  RefreshInv' /\ RowStep
<1> USE DEF RefreshInv
<1>1. UNCHANGED issued /\ issued' \in Number /\ issued <= issued' /\ 0 \in Number
  BY NotIssued, MaxIssuedAssumption DEF ClearKey, Number
<1>2. stored[a] \in Token /\ Bound(stored[a], issued') /\ stored[a] # None
  BY <1>1 DEF ClearKey, RowInv, GoodRow
<1> DEFINE t == [stored[a] EXCEPT !.key = 0]
<1>3. /\ t \in Token /\ t.root = stored[a].root /\ t.access = stored[a].access
      /\ t.grant = stored[a].grant
  BY <1>1, <1>2 DEF Token
<1>4. stored' = [stored EXCEPT ![a] = t]
  BY DEF ClearKey
<1> HIDE DEF t
<1>5. GoodRow(t, issued') /\ Newer(t, stored[a])
  BY <1>2, <1>3, MaxIssuedAssumption DEF GoodRow, Bound, Newer, Token, Number
<1>6. RowInv' /\ RowStep
  BY <1>1, <1>2, <1>4, <1>5, RowUpdated
<1>7. ExchangerInv' /\ grants' \in [Number -> Fate]
  BY <1>1, ExchangerKept DEF ClearKey, GrantInv
<1>8. QED
  BY <1>1, <1>6, <1>7, WriterFrame DEF ClearKey

LEMMA BeginExchangeKeeps ==
    ASSUME RefreshInv, NEW a \in Accounts, BeginExchange(a)
    PROVE  RefreshInv' /\ RowStep
<1> USE DEF RefreshInv
<1>1. UNCHANGED <<issued, stored>> /\ issued' \in Number /\ issued <= issued'
  BY NotIssued DEF BeginExchange
<1>2. RowInv' /\ RowStep
  BY <1>1, RowKept
<1>3. stored[a] \in Token /\ Bound(stored[a], issued')
  BY <1>1 DEF BeginExchange, RowInv, GoodRow
<1>4. GoodExchanger([pc |-> "key", expected |-> stored[a], token |-> stored[a]], issued')
  BY <1>3, NewerIsReflexive DEF GoodExchanger, Exchanger
<1>5. ExchangerInv' /\ grants' \in [Number -> Fate]
  BY <1>1, <1>4, ExchangerUpdated DEF BeginExchange, GrantInv
<1>6. QED
  BY <1>1, <1>2, <1>5, WriterFrame DEF BeginExchange

LEMMA KeyExchangedKeeps ==
    ASSUME RefreshInv, NEW a \in Accounts, KeyExchanged(a)
    PROVE  RefreshInv' /\ RowStep
<1> USE DEF RefreshInv
<1>1. issued \in Number /\ issued' \in Number /\ issued <= issued'
  BY Issued DEF KeyExchanged
<1> DEFINE t == exchanger[a].token
           s == [t EXCEPT !.key = issued']
<1>2. t \in Token /\ Bound(t, issued)
  BY DEF KeyExchanged, ExchangerInv, GoodExchanger
<1>3. s \in Token /\ s.root = t.root /\ s.access = t.access /\ s.grant = t.grant
  BY <1>1, <1>2 DEF Token
<1>4. CompareAndSwap(a, t, s)
  BY DEF KeyExchanged
<1> HIDE DEF s, t
<1>5. Newer(s, t) /\ Bound(s, issued')
  BY <1>1, <1>2, <1>3, MaxIssuedAssumption DEF Newer, Bound, Token, Number
<1>6. RowInv' /\ RowStep
  BY <1>1, <1>2, <1>3, <1>4, <1>5, SwapKeeps
<1>7. ExchangerInv' /\ grants' \in [Number -> Fate]
  BY <1>1, IdleIsGood, ExchangerUpdated DEF KeyExchanged, GrantInv
<1>8. QED
  BY <1>1, <1>6, <1>7, WriterFrame DEF KeyExchanged

LEMMA KeyExchangeFailsKeeps ==
    ASSUME RefreshInv, NEW a \in Accounts, KeyExchangeFails(a)
    PROVE  RefreshInv' /\ RowStep
<1> USE DEF RefreshInv
<1>1. UNCHANGED <<issued, stored>> /\ issued' \in Number /\ issued <= issued'
  BY NotIssued DEF KeyExchangeFails
<1>2. RowInv' /\ RowStep
  BY <1>1, RowKept
<1> DEFINE k == IF exchanger[a].pc = "key" /\ exchanger[a].token.grant # 0
                THEN [exchanger[a] EXCEPT !.pc = "grant"] ELSE NoExchange
<1>3. exchanger' = [exchanger EXCEPT ![a] = k]
  BY DEF KeyExchangeFails
<1>4. GoodExchanger([exchanger[a] EXCEPT !.pc = "grant"], issued')
  BY <1>1 DEF KeyExchangeFails, ExchangerInv, GoodExchanger, Exchanger
<1>5. GoodExchanger(k, issued')
  BY <1>4, IdleIsGood
<1> HIDE DEF k
<1>6. ExchangerInv' /\ grants' \in [Number -> Fate]
  BY <1>1, <1>3, <1>5, ExchangerUpdated DEF KeyExchangeFails, GrantInv
<1>7. QED
  BY <1>1, <1>2, <1>6, WriterFrame DEF KeyExchangeFails

LEMMA ExchangerRefreshesKeeps ==
    ASSUME RefreshInv, NEW a \in Accounts, ExchangerRefreshes(a)
    PROVE  RefreshInv' /\ RowStep
<1> USE DEF RefreshInv
<1>1. UNCHANGED stored /\ issued' \in Number /\ issued <= issued' /\ Issue
  BY Issued DEF ExchangerRefreshes
<1>2. RowInv' /\ RowStep
  BY <1>1, RowKept
<1>3. PICK rotates \in BOOLEAN :
           /\ exchanger' = [exchanger EXCEPT
                  ![a].pc = "persist",
                  ![a].token.access = issued',
                  ![a].token.grant = IF rotates THEN issued' ELSE @]
           /\ grants' = IF rotates
                        THEN [grants EXCEPT ![exchanger[a].token.grant] = "exchanged"]
                        ELSE grants
  BY DEF ExchangerRefreshes
<1>4. /\ exchanger[a] \in Exchanger
      /\ exchanger[a].expected \in Token /\ exchanger[a].token \in Token
      /\ Newer(exchanger[a].token, exchanger[a].expected) /\ Bound(exchanger[a].token, issued)
  BY DEF ExchangerRefreshes, ExchangerInv, GoodExchanger
<1>5. grants' \in [Number -> Fate]
  BY <1>3 DEF GrantInv, Fate
<1> DEFINE t == exchanger[a].token
           s == [t EXCEPT !.access = issued', !.grant = IF rotates THEN issued' ELSE @]
           k == [exchanger[a] EXCEPT !.pc = "persist", !.token = s]
<1>6. s \in Token /\ s.root = t.root /\ s.access = issued'
      /\ s.grant = IF rotates THEN issued' ELSE t.grant
  BY <1>1, <1>4 DEF Token
<1>7. exchanger' = [exchanger EXCEPT ![a] = k]
  BY <1>3, <1>4 DEF ExchangerInv
<1> HIDE DEF s
<1>8. Newer(s, exchanger[a].expected) /\ Bound(s, issued')
  BY <1>1, <1>4, <1>6, Answer
<1>9. GoodExchanger(k, issued')
  BY <1>4, <1>6, <1>8 DEF GoodExchanger, Exchanger
<1> HIDE DEF k
<1>10. ExchangerInv'
  BY <1>1, <1>7, <1>9, ExchangerUpdated
<1>11. QED
  BY <1>1, <1>2, <1>5, <1>10, WriterFrame DEF ExchangerRefreshes

(* An exchange given up, whatever became of its grant. *)
LEMMA GivenUp ==
    ASSUME RefreshInv, NEW a \in Accounts, exchanger' = [exchanger EXCEPT ![a] = NoExchange],
           grants' \in [Number -> Fate],
           UNCHANGED <<stored, issued, call, completion, shutdown, drain, signal>>
    PROVE  RefreshInv' /\ RowStep
<1> USE DEF RefreshInv
<1>1. issued' \in Number /\ issued <= issued'
  BY NotIssued
<1>2. RowInv' /\ RowStep /\ ExchangerInv'
  BY <1>1, RowKept, IdleIsGood, ExchangerUpdated
<1>3. QED
  BY <1>1, <1>2, WriterFrame

LEMMA ExchangerRefreshFailsKeeps ==
    ASSUME RefreshInv, NEW a \in Accounts, ExchangerRefreshFails(a)
    PROVE  RefreshInv' /\ RowStep
<1>1. \A f \in Fate : Unanswered(f) \in Fate
  BY DEF Unanswered, Fate
<1>2. grants' \in [Number -> Fate]
  BY <1>1 DEF ExchangerRefreshFails, RefreshInv, GrantInv
<1>3. QED
  BY <1>2, GivenUp DEF ExchangerRefreshFails

LEMMA ExchangerPersistsKeeps ==
    ASSUME RefreshInv, NEW a \in Accounts, ExchangerPersists(a)
    PROVE  RefreshInv' /\ RowStep
<1> USE DEF RefreshInv
<1>1. UNCHANGED issued /\ issued' \in Number /\ issued <= issued'
  BY NotIssued DEF ExchangerPersists
<1>2. /\ exchanger[a].expected \in Token /\ exchanger[a].token \in Token
      /\ Newer(exchanger[a].token, exchanger[a].expected) /\ Bound(exchanger[a].token, issued')
  BY <1>1 DEF ExchangerPersists, ExchangerInv, GoodExchanger
<1>3. RowInv' /\ RowStep
  BY <1>1, <1>2, SwapKeeps DEF ExchangerPersists
<1>4. grants' \in [Number -> Fate]
  BY DEF ExchangerPersists, Answered, GrantInv, Fate
<1> DEFINE next == IF Current(a, exchanger[a].expected) THEN exchanger[a].token ELSE stored[a]
           k == [pc |-> "key_again", expected |-> next, token |-> next]
<1>5. GoodRow(next, issued')
  BY <1>1, <1>2 DEF RowInv, GoodRow
<1>6. exchanger' = [exchanger EXCEPT ![a] = IF next = None THEN NoExchange ELSE k]
  BY DEF ExchangerPersists
<1> HIDE DEF next
<1>7. CASE next = None
  <2>1. ExchangerInv'
    BY <1>1, <1>6, <1>7, IdleIsGood, ExchangerUpdated
  <2>2. QED
    BY <1>1, <1>3, <1>4, <2>1, WriterFrame DEF ExchangerPersists
<1>8. CASE next # None
  <2>1. GoodExchanger(k, issued')
    BY <1>5, <1>8, NewerIsReflexive DEF GoodRow, GoodExchanger, Exchanger
  <2>2. ExchangerInv'
    BY <1>1, <1>6, <1>8, <2>1, ExchangerUpdated
  <2>3. QED
    BY <1>1, <1>3, <1>4, <2>2, WriterFrame DEF ExchangerPersists
<1>9. QED
  BY <1>7, <1>8

LEMMA ExchangerPersistFailsKeeps ==
    ASSUME RefreshInv, NEW a \in Accounts, ExchangerPersistFails(a)
    PROVE  RefreshInv' /\ RowStep
<1>1. grants' \in [Number -> Fate]
  BY DEF ExchangerPersistFails, RefreshInv, GrantInv, Fate
<1>2. QED
  BY <1>1, GivenUp DEF ExchangerPersistFails

-----------------------------------------------------------------------------
(* The drain, and every step.                                              *)

LEMMA DrainStepKeeps ==
    ASSUME RefreshInv, RequestShutdown \/ DrainStep \/ Restart
    PROVE  RefreshInv' /\ RowStep
<1> USE DEF RefreshInv
<1>1. /\ UNCHANGED <<stored, issued, grants, call, completion, exchanger>>
      /\ issued' \in Number /\ issued <= issued' /\ GrantInv'
  BY NotIssued DEF RequestShutdown, DrainStep, DrainEnable, DrainLoad, DrainAwait, Restart,
                   GrantInv
<1>2. RowInv' /\ RowStep /\ CallInv' /\ CompletionInv' /\ ExchangerInv'
  BY <1>1, RowKept, CallKept, CompletionKept, ExchangerKept
<1>3. \A c \in Callers : Running(c)' <=> Running(c)
  BY <1>1 DEF Running
<1>4. DrainInv'
  BY <1>3 DEF DrainInv, QuietAfterDrain, RequestShutdown, DrainStep, DrainEnable, DrainLoad,
              DrainAwait, Restart
<1>5. QED
  BY <1>1, <1>2, <1>4

LEMMA StutterKeeps ==
    ASSUME RefreshInv, UNCHANGED vars
    PROVE  RefreshInv' /\ RowStep
<1> USE DEF RefreshInv, vars
<1>1. issued' \in Number /\ issued <= issued'
  BY NotIssued
<1>2. RowInv' /\ RowStep /\ ExchangerInv'
  BY <1>1, RowKept, ExchangerKept
<1>3. QED
  BY <1>1, <1>2, WriterFrame DEF GrantInv

LEMMA InitKeeps ==
    ASSUME Init
    PROVE  RefreshInv
<1>1. issued \in Number /\ grants \in [Number -> Fate]
  BY MaxIssuedAssumption DEF Init, Number, Fate
<1>2. RowInv
  BY DEF Init, RowInv, GoodRow
<1>3. CallInv
  BY IdleIsGood DEF Init, CallInv, GoodCall
<1>4. CompletionInv
  BY IdleIsGood DEF Init, CompletionInv, GoodCompletion
<1>5. ExchangerInv
  BY IdleIsGood DEF Init, ExchangerInv, GoodExchanger
<1>6. DrainInv
  BY DEF Init, DrainInv, QuietAfterDrain
<1>7. QED
  BY <1>1, <1>2, <1>3, <1>4, <1>5, <1>6 DEF RefreshInv, GrantInv

LEMMA NextKeeps ==
    ASSUME RefreshInv, Next
    PROVE  RefreshInv' /\ RowStep
<1>1. ASSUME NEW c \in Callers, CompletionStep(c) PROVE RefreshInv' /\ RowStep
  BY <1>1, ReadLatestKeeps, ExchangeKeeps, ExchangeFailsKeeps, PersistKeeps, PersistFailsKeeps,
     ObtainKeyKeeps, ObtainKeyFailsKeeps, PersistKeyKeeps DEF CompletionStep
<1>2. ASSUME NEW a \in Accounts, WriterStep(a) PROVE RefreshInv' /\ RowStep
  BY <1>2, ImportKeeps, DeleteAccountKeeps, ClearKeyKeeps, BeginExchangeKeeps,
     KeyExchangedKeeps, KeyExchangeFailsKeeps, ExchangerRefreshesKeeps,
     ExchangerRefreshFailsKeeps, ExchangerPersistsKeeps, ExchangerPersistFailsKeeps
     DEF WriterStep
<1>3. QED
  BY <1>1, <1>2, CallerKeeps, DrainStepKeeps DEF Next

(* The inductive invariant holds of every reachable state. *)
THEOREM RefreshInvariant == Spec => []RefreshInv
<1>1. Init => RefreshInv
  BY InitKeeps
<1>2. RefreshInv /\ [Next]_vars => RefreshInv'
  BY NextKeeps, StutterKeeps
<1>3. QED
  BY <1>1, <1>2, PTL DEF Spec

(* Every variable of a token refresh has its type: a completion that runs, *)
(* a call under way and an exchange carry whole tokens.                    *)
THEOREM TypeCorrect == Spec => []TypeOK
<1>1. RefreshInv => TypeOK
  BY DEF RefreshInv, RowInv, CallInv, CompletionInv, ExchangerInv, GrantInv, DrainInv, TypeOK
<1>2. QED
  BY <1>1, RefreshInvariant, PTL

(* After drain_token_refresh_tasks has returned no completion runs, for    *)
(* any number of callers and slots and however often the service restarts. *)
THEOREM NothingRunsAfterDrain == Spec => []QuietAfterDrain
<1>1. RefreshInv => QuietAfterDrain
  BY DEF RefreshInv, DrainInv
<1>2. QED
  BY <1>1, RefreshInvariant, PTL

(* No writer of the tokens table puts older credentials over newer ones of *)
(* the same login: the compare-and-swaps suffice, without the lock of the  *)
(* refresh or of the exchanger.                                            *)
THEOREM NewerRowsStay == Spec => NeverOverwritesNewer
<1>1. RefreshInv /\ [Next]_vars => [RowStep]_vars
  BY NextKeeps
<1>2. Spec => [][RowStep]_vars
  BY <1>1, RefreshInvariant, PTL DEF Spec
<1>3. QED
  BY <1>2, PTL DEF NeverOverwritesNewer, RowStep

-----------------------------------------------------------------------------
(* Who owns a grant.  One refresh of an account runs at a time (TurnInv);  *)
(* a grant is in the sight of one account only (OwnInv); and an answer     *)
(* that is carried to the row brings a grant nobody else has seen yet, or  *)
(* the one it replaces, which was then not rotated (AnswerFits and         *)
(* ExchangeFits).                                                          *)

TurnInv ==
    /\ \A c \in Callers :
           /\ call[c].pc \in {"lock", "slot", "register"} => ~Running(c)
           /\ call[c].pc # "idle" => call[c].token.grant # 0
    /\ \A a \in Accounts : \A c, d \in Callers : HasLock(c, a) /\ HasLock(d, a) => c = d

(* Completion c works for account a. *)
On(c, a) == Running(c) /\ completion[c].acc = a

(* The row of account a, a completion with an answer for it, or its        *)
(* exchange holds grant g.                                                 *)
InRow(a, g) == stored[a] # None /\ stored[a].grant = g

InCompletion(c, g) ==
    /\ completion[c].pc \in {"exchange", "persist"}
    /\ completion[c].expected.grant = g \/ completion[c].token.grant = g

InExchange(a, g) ==
    /\ exchanger[a].pc # "idle"
    /\ exchanger[a].expected.grant = g \/ exchanger[a].token.grant = g

Sees(a, g) ==
    \/ InRow(a, g)
    \/ \E c \in Callers : On(c, a) /\ InCompletion(c, g)
    \/ InExchange(a, g)

OwnInv == \A a, b \in Accounts : \A g \in Number : g # 0 /\ Sees(a, g) /\ Sees(b, g) => a = b

(* What GrantKept says of one account. *)
RowFits(a) ==
    stored[a] # None =>
        /\ grants[stored[a].grant] = "spent" =>
               \E c \in Callers : Holds(c, a, stored[a].grant)
        /\ grants[stored[a].grant] = "exchanged" =>
               exchanger[a].pc = "persist" /\ exchanger[a].expected.grant = stored[a].grant

(* The grant a completion brings is known to it alone. *)
FreshAnswer(c) ==
    /\ completion[c].token.grant # 0
    /\ grants[completion[c].token.grant] = "live"
    /\ ~InRow(completion[c].acc, completion[c].token.grant)
    /\ ~InExchange(completion[c].acc, completion[c].token.grant)

AnswerFits(c) ==
    /\ completion[c].pc \in {"read", "exchange"} => completion[c].token.grant # 0
    /\ completion[c].pc \in {"exchange", "persist_key"} =>
           completion[c].token.grant = completion[c].expected.grant
    /\ completion[c].pc = "exchange" => grants[completion[c].token.grant] # "spent"
    /\ completion[c].pc = "persist" =>
           /\ completion[c].expected.grant # 0
           /\ \/ /\ completion[c].token.grant = completion[c].expected.grant
                 /\ grants[completion[c].expected.grant] # "spent"
              \/ FreshAnswer(c)

FreshExchange(a) ==
    /\ exchanger[a].token.grant # 0
    /\ grants[exchanger[a].token.grant] = "live"
    /\ ~InRow(a, exchanger[a].token.grant)
    /\ \A c \in Callers : On(c, a) => ~InCompletion(c, exchanger[a].token.grant)

ExchangeFits(a) ==
    /\ exchanger[a].pc \in {"key", "grant", "key_again"} =>
           /\ exchanger[a].token.grant = exchanger[a].expected.grant
           /\ grants[exchanger[a].token.grant] # "exchanged"
    /\ exchanger[a].pc \in {"grant", "persist"} => exchanger[a].expected.grant # 0
    /\ exchanger[a].pc = "persist" =>
           \/ /\ exchanger[a].token.grant = exchanger[a].expected.grant
              /\ grants[exchanger[a].expected.grant] # "exchanged"
           \/ FreshExchange(a)

AccountFits(a) ==
    /\ RowFits(a)
    /\ ExchangeFits(a)
    /\ \A c \in Callers : On(c, a) => AnswerFits(c)

(* Zero is no grant, and a number not given out is nobody's. *)
LiveInv == \A n \in Number : n = 0 \/ n > issued => grants[n] = "live"

FateInv == LiveInv /\ \A a \in Accounts : AccountFits(a)

OwnerInv == RefreshInv /\ TurnInv /\ OwnInv /\ FateInv

-----------------------------------------------------------------------------
(* What is seen was issued. *)
LEMMA SeenIsIssued ==
    ASSUME RefreshInv, NEW a \in Accounts, NEW g, Sees(a, g)
    PROVE  g \in Number /\ g <= issued
<1> USE MaxIssuedAssumption DEF RefreshInv, GrantInv
<1>1. CASE InRow(a, g)
  BY <1>1 DEF InRow, RowInv, GoodRow, Bound, Token
<1>2. ASSUME NEW c \in Callers, On(c, a), InCompletion(c, g) PROVE g \in Number /\ g <= issued
  BY <1>2 DEF InCompletion, CompletionInv, GoodCompletion, Newer, Bound, Token, Number
<1>3. CASE InExchange(a, g)
  BY <1>3 DEF InExchange, ExchangerInv, GoodExchanger, Newer, Bound, Token, Number
<1>4. QED
  BY <1>1, <1>2, <1>3 DEF Sees

(* A step that works on account a leaves the other accounts alone. *)
Elsewhere(a) ==
    /\ \A b \in Accounts : b # a => stored'[b] = stored[b] /\ exchanger'[b] = exchanger[b]
    /\ \A b \in Accounts : b # a =>
           \A c \in Callers : On(c, b) \/ On(c, b)' => completion'[c] = completion[c]
    /\ \A n \in Number : grants'[n] # grants[n] => n # 0 /\ Sees(a, n)

LEMMA OthersSee ==
    ASSUME NEW a \in Accounts, Elsewhere(a), NEW b \in Accounts, b # a, NEW g
    PROVE  /\ Sees(b, g)' <=> Sees(b, g)
           /\ InRow(b, g)' <=> InRow(b, g)
           /\ InExchange(b, g)' <=> InExchange(b, g)
           /\ \A c \in Callers : On(c, b)' <=> On(c, b)
           /\ \A c \in Callers : On(c, b) => (InCompletion(c, g)' <=> InCompletion(c, g))
<1>1. \A c \in Callers : On(c, b)' <=> On(c, b)
  BY DEF Elsewhere, On, Running
<1>2. \A c \in Callers : On(c, b) => (InCompletion(c, g)' <=> InCompletion(c, g))
  BY DEF Elsewhere, InCompletion
<1>3. (InRow(b, g)' <=> InRow(b, g)) /\ (InExchange(b, g)' <=> InExchange(b, g))
  BY DEF Elsewhere, InRow, InExchange
<1>4. QED
  BY <1>1, <1>2, <1>3 DEF Sees

LEMMA OthersFit ==
    ASSUME OwnerInv, NEW a \in Accounts, Elsewhere(a), NEW b \in Accounts, b # a
    PROVE  AccountFits(b)'
<1> USE DEF OwnerInv
<1>1. \A g : Sees(b, g) => g \in Number /\ grants'[g] = grants[g]
  BY SeenIsIssued DEF Elsewhere, OwnInv
<1>2. AccountFits(b)
  BY DEF FateInv
<1>3. stored'[b] = stored[b] /\ exchanger'[b] = exchanger[b]
  BY DEF Elsewhere
<1>4. /\ \A g : InRow(b, g)' <=> InRow(b, g)
      /\ \A g : InExchange(b, g)' <=> InExchange(b, g)
      /\ \A c \in Callers : On(c, b)' <=> On(c, b)
      /\ \A c \in Callers, g \in Number : On(c, b) => (InCompletion(c, g)' <=> InCompletion(c, g))
  BY OthersSee
<1>5. \A c \in Callers : On(c, b) => completion'[c] = completion[c] /\ completion[c].acc = b
  BY DEF Elsewhere, On
<1>6. RowFits(b)'
  <2>1. SUFFICES ASSUME stored[b] # None
                 PROVE  /\ grants[stored[b].grant] = "spent" =>
                               \E c \in Callers : Holds(c, b, stored[b].grant)'
                        /\ grants[stored[b].grant] = "exchanged" =>
                               exchanger[b].pc = "persist" /\ exchanger[b].expected.grant = stored[b].grant
    BY <1>1, <1>3 DEF RowFits, Sees, InRow, Holds
  <2>2. \A c \in Callers : Holds(c, b, stored[b].grant) => Holds(c, b, stored[b].grant)'
    BY <1>3, <1>5 DEF Holds, On, Running
  <2>3. QED
    BY <1>2, <2>1, <2>2 DEF AccountFits, RowFits
<1>7. ExchangeFits(b)'
  <2>1. exchanger[b].pc # "idle" =>
            /\ exchanger[b].token.grant \in Number
            /\ grants'[exchanger[b].token.grant] = grants[exchanger[b].token.grant]
            /\ grants'[exchanger[b].expected.grant] = grants[exchanger[b].expected.grant]
    BY <1>1 DEF Sees, InExchange
  <2>2. exchanger[b].pc # "idle" /\ FreshExchange(b) => FreshExchange(b)'
    BY <1>3, <1>4, <2>1 DEF FreshExchange, InRow, InCompletion
  <2>3. QED
    BY <1>2, <1>3, <2>1, <2>2 DEF AccountFits, ExchangeFits
<1>8. ASSUME NEW c \in Callers, On(c, b)' PROVE AnswerFits(c)'
  <2>1. On(c, b) /\ completion'[c] = completion[c] /\ completion[c].acc = b
    BY <1>4, <1>5, <1>8
  <2>2. completion[c].pc \in {"exchange", "persist"} =>
            /\ grants'[completion[c].token.grant] = grants[completion[c].token.grant]
            /\ grants'[completion[c].expected.grant] = grants[completion[c].expected.grant]
    BY <1>1, <2>1 DEF Sees, InCompletion
  <2>3. completion[c].pc = "persist" /\ FreshAnswer(c) => FreshAnswer(c)'
    BY <1>4, <1>3, <2>1, <2>2 DEF FreshAnswer, InRow, InExchange
  <2>4. AnswerFits(c)
    BY <1>2, <2>1 DEF AccountFits
  <2>5. QED
    BY <2>1, <2>2, <2>3, <2>4 DEF AnswerFits
<1>9. QED
  BY <1>6, <1>7, <1>8 DEF AccountFits

(* It is enough to look at the account a step works on: what it sees then  *)
(* it saw before or has just been issued, and it still fits.               *)
LEMMA AccountStep ==
    ASSUME OwnerInv, RefreshInv', issued <= issued', NEW a \in Accounts, Elsewhere(a),
           \A g \in Number : Sees(a, g)' => Sees(a, g) \/ g > issued \/ g = 0,
           AccountFits(a)'
    PROVE  OwnInv' /\ FateInv'
<1> USE DEF OwnerInv
<1>1. OwnInv'
  <2>1. SUFFICES ASSUME NEW b \in Accounts, NEW d \in Accounts, NEW g \in Number, g # 0,
                        Sees(b, g)', Sees(d, g)'
                 PROVE  b = d
    BY DEF OwnInv
  <2>2. \A e \in Accounts : e # a => (Sees(e, g)' <=> Sees(e, g))
    BY OthersSee
  <2>3. \A e \in Accounts : Sees(e, g) => g <= issued
    BY SeenIsIssued
  <2>4. issued \in Nat /\ g \in Nat
    BY MaxIssuedAssumption DEF RefreshInv, GrantInv, Number
  <2>5. QED
    BY <2>1, <2>2, <2>3, <2>4 DEF OwnInv
<1>2. LiveInv'
  <2>1. ASSUME NEW n \in Number, n = 0 \/ n > issued' PROVE grants'[n] = "live"
    <3>1. n = 0 \/ n > issued
      BY <2>1, MaxIssuedAssumption DEF RefreshInv, GrantInv, Number
    <3>2. ~(n # 0 /\ Sees(a, n))
      BY <3>1, SeenIsIssued, MaxIssuedAssumption DEF RefreshInv, GrantInv, Number
    <3>3. QED
      BY <3>1, <3>2 DEF Elsewhere, FateInv, LiveInv
  <2>2. QED
    BY <2>1 DEF LiveInv
<1>3. QED
  BY <1>1, <1>2, OthersFit DEF FateInv

LEMMA OneAtATime ==
    ASSUME TurnInv, NEW a \in Accounts, NEW c \in Callers, NEW d \in Callers, On(c, a), On(d, a)
    PROVE  c = d
  BY DEF TurnInv, HasLock, On

(* Only calls end, and only completions end. *)
LEMMA TurnKept ==
    ASSUME TurnInv,
           \A c \in Callers : call'[c] = call[c] \/ call'[c].pc = "idle",
           \A c \in Callers : Running(c)' => Running(c) /\ completion'[c].acc = completion[c].acc
    PROVE  TurnInv'
<1>1. \A a \in Accounts : \A c \in Callers : HasLock(c, a)' => HasLock(c, a)
  BY DEF HasLock
<1>2. QED
  BY <1>1 DEF TurnInv

(* The row has the grant it had. *)
SameRow(a) ==
    /\ stored'[a] = None <=> stored[a] = None
    /\ stored[a] # None => stored'[a].grant = stored[a].grant

(* A completion of account a has nothing more to present: it ends, or goes *)
(* on to the key.  The fate of its grants is settled.                      *)
LEMMA Concludes ==
    ASSUME OwnerInv, RefreshInv', issued <= issued',
           NEW a \in Accounts, NEW c \in Callers, On(c, a),
           \A d \in Callers : d # c => completion'[d] = completion[d],
           completion'[c].pc \in {"idle", "key", "persist_key"},
           completion'[c].pc # "idle" => completion'[c].acc = a,
           completion'[c].pc = "persist_key" =>
               completion'[c].token.grant = completion'[c].expected.grant,
           exchanger' = exchanger,
           \A b \in Accounts : b # a => stored'[b] = stored[b],
           SameRow(a),
           \A n \in Number : grants'[n] # grants[n] =>
               n # 0 /\ InCompletion(c, n) /\ grants'[n] \notin {"spent", "exchanged"},
           completion[c].pc = "persist" /\ InRow(a, completion[c].expected.grant) =>
               grants'[completion[c].expected.grant] # "spent"
    PROVE  OwnInv' /\ FateInv'
<1> USE DEF OwnerInv
<1>1. Elsewhere(a)
  BY DEF Elsewhere, On, Running, Sees
<1>2. AccountFits(a) /\ \A d \in Callers : d # c => ~On(d, a)
  BY OneAtATime DEF FateInv
<1>3. \A g : /\ InRow(a, g)' <=> InRow(a, g)
             /\ InExchange(a, g)' <=> InExchange(a, g)
             /\ ~InCompletion(c, g)'
  BY DEF SameRow, InRow, InExchange, InCompletion
<1>4. \A d \in Callers : d # c => ~On(d, a)'
  BY <1>2 DEF On, Running
<1>5. \A g \in Number : Sees(a, g)' => Sees(a, g)
  BY <1>3, <1>4 DEF Sees
<1>6. \A g : Sees(a, g) => g \in Number
  BY SeenIsIssued
<1>7. RowFits(a)'
  <2>1. SUFFICES ASSUME stored'[a] # None
                 PROVE  /\ grants'[stored'[a].grant] # "spent"
                        /\ grants'[stored'[a].grant] = "exchanged" =>
                              exchanger[a].pc = "persist" /\ exchanger[a].expected.grant = stored'[a].grant
    BY DEF RowFits
  <2>2. stored[a] # None /\ stored'[a].grant = stored[a].grant /\ InRow(a, stored[a].grant)
        /\ stored[a].grant \in Number
    BY <1>6, <2>1 DEF SameRow, InRow, Sees
  <2>3. ASSUME NEW d \in Callers, Holds(d, a, stored[a].grant)
        PROVE  grants'[stored[a].grant] # "spent"
    <3>1. On(d, a)
      BY <2>3 DEF Holds, On, Running
    <3>2. d = c
      BY <1>2, <3>1
    <3>3. QED
      BY <2>2, <2>3, <3>2 DEF Holds
  <2>4. QED
    BY <1>2, <2>2, <2>3 DEF AccountFits, RowFits
<1>8. ExchangeFits(a)'
  <2>1. exchanger[a].pc # "idle" =>
            /\ exchanger[a].token.grant \in Number
            /\ exchanger[a].expected.grant \in Number
    BY <1>6 DEF Sees, InExchange
  <2>2. exchanger[a].pc = "persist" /\ FreshExchange(a) => FreshExchange(a)'
    BY <1>2, <1>3, <1>4, <2>1 DEF FreshExchange
  <2>3. QED
    BY <1>2, <2>1, <2>2 DEF AccountFits, ExchangeFits
<1>9. ASSUME NEW d \in Callers, On(d, a)' PROVE AnswerFits(d)'
  BY <1>4, <1>9 DEF AnswerFits
<1>10. QED
  BY <1>1, <1>5, <1>7, <1>8, <1>9, AccountStep DEF AccountFits

(* A completion puts a new grant into the row. *)
LEMMA Stores ==
    ASSUME OwnerInv, RefreshInv', issued <= issued',
           NEW a \in Accounts, NEW c \in Callers, On(c, a), completion[c].pc = "persist",
           FreshAnswer(c),
           \A d \in Callers : d # c => completion'[d] = completion[d],
           completion'[c].pc \in {"idle", "key"},
           completion'[c].pc # "idle" => completion'[c].acc = a,
           exchanger' = exchanger, grants' = grants,
           \A b \in Accounts : b # a => stored'[b] = stored[b],
           stored'[a] # None, stored'[a].grant = completion[c].token.grant
    PROVE  OwnInv' /\ FateInv'
<1> USE DEF OwnerInv
<1>1. Elsewhere(a)
  BY DEF Elsewhere, On, Running
<1>2. AccountFits(a) /\ \A d \in Callers : d # c => ~On(d, a)
  BY OneAtATime DEF FateInv
<1>3. \A g : /\ InRow(a, g)' <=> g = completion[c].token.grant
             /\ InExchange(a, g)' <=> InExchange(a, g)
             /\ ~InCompletion(c, g)'
  BY DEF InRow, InExchange, InCompletion
<1>4. \A d \in Callers : d # c => ~On(d, a)'
  BY <1>2 DEF On, Running
<1>5. InCompletion(c, completion[c].token.grant) /\ completion[c].acc = a
  BY DEF InCompletion, On
<1>6. \A g \in Number : Sees(a, g)' => Sees(a, g)
  BY <1>3, <1>4, <1>5 DEF Sees
<1>7. RowFits(a)'
  BY DEF RowFits, FreshAnswer
<1>8. ExchangeFits(a)'
  <2>1. exchanger[a].pc = "persist" /\ FreshExchange(a) => FreshExchange(a)'
    BY <1>2, <1>3, <1>4, <1>5 DEF FreshExchange
  <2>2. QED
    BY <1>2, <2>1 DEF AccountFits, ExchangeFits
<1>9. ASSUME NEW d \in Callers, On(d, a)' PROVE AnswerFits(d)'
  BY <1>4, <1>9 DEF AnswerFits
<1>10. QED
  BY <1>1, <1>6, <1>7, <1>8, <1>9, AccountStep DEF AccountFits

(* The exchange of account a starts, goes on with the row, or ends. *)
LEMMA ExchangeConcludes ==
    ASSUME OwnerInv, RefreshInv', issued <= issued', NEW a \in Accounts,
           completion' = completion,
           \A b \in Accounts : b # a => stored'[b] = stored[b] /\ exchanger'[b] = exchanger[b],
           SameRow(a),
           exchanger'[a].pc \in {"idle", "key", "grant", "key_again"},
           exchanger'[a].pc # "idle" =>
               /\ exchanger'[a].token.grant = exchanger'[a].expected.grant
               /\ InRow(a, exchanger'[a].token.grant) \/ InExchange(a, exchanger'[a].token.grant)
               /\ grants'[exchanger'[a].token.grant] # "exchanged",
           exchanger'[a].pc = "grant" => exchanger'[a].token.grant # 0,
           \A n \in Number : grants'[n] # grants[n] =>
               n # 0 /\ InExchange(a, n) /\ grants'[n] \notin {"spent", "exchanged"},
           stored[a] # None => grants'[stored[a].grant] # "exchanged"
    PROVE  OwnInv' /\ FateInv'
<1> USE DEF OwnerInv
<1>1. Elsewhere(a)
  BY DEF Elsewhere, Sees
<1>2. AccountFits(a)
  BY DEF FateInv
<1>3. /\ \A g : InRow(a, g)' <=> InRow(a, g)
      /\ \A g : InExchange(a, g)' => InRow(a, g) \/ InExchange(a, g)
      /\ \A d \in Callers : On(d, a)' <=> On(d, a)
      /\ \A d \in Callers : \A g : InCompletion(d, g)' <=> InCompletion(d, g)
  BY DEF SameRow, InRow, InExchange, InCompletion, On, Running
<1>4. \A g \in Number : Sees(a, g)' => Sees(a, g)
  BY <1>3 DEF Sees, On, Running, InCompletion
<1>5. \A g : Sees(a, g) => g \in Number
  BY SeenIsIssued
<1>6. RowFits(a)'
  <2>1. SUFFICES ASSUME stored'[a] # None, grants'[stored'[a].grant] = "spent"
                 PROVE  \E d \in Callers : Holds(d, a, stored[a].grant)'
    BY DEF RowFits, SameRow
  <2>2. stored[a] # None /\ stored'[a].grant = stored[a].grant /\ stored[a].grant \in Number
    BY <1>5, <2>1 DEF SameRow, Sees, InRow
  <2>3. grants[stored[a].grant] = "spent"
    BY <2>1, <2>2
  <2>4. PICK d \in Callers : Holds(d, a, stored[a].grant)
    BY <1>2, <2>2, <2>3 DEF AccountFits, RowFits
  <2>5. QED
    BY <2>2, <2>4 DEF Holds
<1>7. ExchangeFits(a)'
  BY DEF ExchangeFits
<1>8. ASSUME NEW d \in Callers, On(d, a)' PROVE AnswerFits(d)'
  <2>1. On(d, a) /\ AnswerFits(d) /\ completion[d].acc = a
    BY <1>2, <1>3, <1>8 DEF AccountFits, On
  <2>2. completion[d].pc \in {"exchange", "persist"} =>
            /\ completion[d].token.grant \in Number
            /\ completion[d].expected.grant \in Number
    BY <1>5, <2>1 DEF Sees, InCompletion
  <2>3. completion[d].pc = "persist" /\ FreshAnswer(d) => FreshAnswer(d)'
    BY <1>3, <2>1, <2>2 DEF FreshAnswer, InRow, InExchange, On
  <2>4. QED
    BY <2>1, <2>2, <2>3 DEF AnswerFits
<1>9. QED
  BY <1>1, <1>4, <1>6, <1>7, <1>8, AccountStep DEF AccountFits

(* The exchange puts a new grant into the row. *)
LEMMA ExchangeStores ==
    ASSUME OwnerInv, RefreshInv', issued <= issued', NEW a \in Accounts,
           exchanger[a].pc = "persist", FreshExchange(a),
           completion' = completion, grants' = grants,
           \A b \in Accounts : b # a => stored'[b] = stored[b] /\ exchanger'[b] = exchanger[b],
           stored'[a] # None, stored'[a].grant = exchanger[a].token.grant,
           exchanger'[a].pc = "key_again",
           exchanger'[a].token.grant = exchanger[a].token.grant,
           exchanger'[a].expected.grant = exchanger[a].token.grant
    PROVE  OwnInv' /\ FateInv'
<1> USE DEF OwnerInv
<1>1. Elsewhere(a)
  BY DEF Elsewhere
<1>2. AccountFits(a)
  BY DEF FateInv
<1>3. /\ \A g : InRow(a, g)' <=> g = exchanger[a].token.grant
      /\ \A g : InExchange(a, g)' <=> g = exchanger[a].token.grant
      /\ \A d \in Callers : On(d, a)' <=> On(d, a)
      /\ \A d \in Callers : \A g : InCompletion(d, g)' <=> InCompletion(d, g)
      /\ InExchange(a, exchanger[a].token.grant)
  BY DEF InRow, InExchange, InCompletion, On, Running
<1>4. \A g \in Number : Sees(a, g)' => Sees(a, g)
  BY <1>3 DEF Sees
<1>5. RowFits(a)' /\ ExchangeFits(a)'
  BY DEF RowFits, ExchangeFits, FreshExchange
<1>6. ASSUME NEW d \in Callers, On(d, a)' PROVE AnswerFits(d)'
  <2>1. On(d, a) /\ AnswerFits(d) /\ completion[d].acc = a
    BY <1>2, <1>3, <1>6 DEF AccountFits, On
  <2>2. completion[d].pc = "persist" => completion[d].token.grant # exchanger[a].token.grant
    BY <2>1 DEF FreshExchange, InCompletion
  <2>3. completion[d].pc = "persist" /\ FreshAnswer(d) => FreshAnswer(d)'
    BY <1>3, <2>1, <2>2 DEF FreshAnswer
  <2>4. QED
    BY <2>1, <2>3 DEF AnswerFits
<1>7. QED
  BY <1>1, <1>4, <1>5, <1>6, AccountStep DEF AccountFits

(* The row of account a is replaced by an import, removed, or keeps its    *)
(* grant.                                                                  *)
LEMMA RowReplaced ==
    ASSUME OwnerInv, RefreshInv', issued <= issued', NEW a \in Accounts,
           completion' = completion, exchanger' = exchanger, grants' = grants,
           \A b \in Accounts : b # a => stored'[b] = stored[b],
           \/ SameRow(a)
           \/ stored'[a] = None
           \/ stored'[a].grant \in Number /\ (stored'[a].grant = 0 \/ stored'[a].grant > issued)
    PROVE  OwnInv' /\ FateInv'
<1> USE DEF OwnerInv
<1>1. Elsewhere(a)
  BY DEF Elsewhere
<1>2. AccountFits(a)
  BY DEF FateInv
<1>3. /\ \A g : InExchange(a, g)' <=> InExchange(a, g)
      /\ \A d \in Callers : On(d, a)' <=> On(d, a)
      /\ \A d \in Callers : \A g : InCompletion(d, g)' <=> InCompletion(d, g)
  BY DEF InExchange, InCompletion, On, Running
<1>4. \A g : InRow(a, g)' => InRow(a, g) \/ (g \in Number /\ (g = 0 \/ g > issued))
  BY DEF InRow, SameRow
<1>5. \A g \in Number : Sees(a, g)' => Sees(a, g) \/ g > issued \/ g = 0
  BY <1>3, <1>4 DEF Sees
<1>6. \A g : Sees(a, g) => g \in Number /\ g <= issued /\ ~(g > issued)
  BY SeenIsIssued, MaxIssuedAssumption DEF Number, RefreshInv, GrantInv
<1>7. RowFits(a)'
  <2>1. CASE SameRow(a)
    BY <1>2, <2>1 DEF AccountFits, RowFits, SameRow, Holds
  <2>2. CASE ~SameRow(a) /\ stored'[a] # None
    <3>1. grants'[stored'[a].grant] = "live"
      BY <2>2 DEF FateInv, LiveInv
    <3>2. QED
      BY <3>1 DEF RowFits
  <2>3. QED
    BY <2>1, <2>2 DEF RowFits
<1>8. ExchangeFits(a)'
  <2>1. exchanger[a].pc = "persist" /\ FreshExchange(a) => FreshExchange(a)'
    BY <1>3, <1>4, <1>6 DEF FreshExchange, Sees, InExchange
  <2>2. QED
    BY <1>2, <2>1 DEF AccountFits, ExchangeFits
<1>9. ASSUME NEW d \in Callers, On(d, a)' PROVE AnswerFits(d)'
  <2>1. On(d, a) /\ AnswerFits(d) /\ completion[d].acc = a
    BY <1>2, <1>3, <1>9 DEF AccountFits, On
  <2>2. completion[d].pc = "persist" =>
            completion[d].token.grant <= issued /\ ~(completion[d].token.grant > issued)
    BY <1>6, <2>1 DEF Sees, InCompletion
  <2>3. completion[d].pc = "persist" /\ FreshAnswer(d) => FreshAnswer(d)'
    BY <1>3, <1>4, <2>1, <2>2 DEF FreshAnswer
  <2>4. QED
    BY <2>1, <2>3 DEF AnswerFits
<1>10. QED
  BY <1>1, <1>5, <1>7, <1>8, <1>9, AccountStep DEF AccountFits

-----------------------------------------------------------------------------
(* The steps of callers and completions.                                   *)

(* Calls and the drain are no grant's business. *)
LEMMA NothingSeenMoves ==
    ASSUME OwnInv, FateInv, UNCHANGED <<stored, issued, grants, completion, exchanger>>
    PROVE  OwnInv' /\ FateInv'
<1>1. /\ \A a \in Accounts : \A g : InRow(a, g)' <=> InRow(a, g)
      /\ \A a \in Accounts : \A g : InExchange(a, g)' <=> InExchange(a, g)
      /\ \A c \in Callers : \A g : InCompletion(c, g)' <=> InCompletion(c, g)
      /\ \A c \in Callers, a \in Accounts : On(c, a)' <=> On(c, a)
  BY DEF InRow, InExchange, InCompletion, On, Running
<1>2. \A a \in Accounts : \A g : Sees(a, g)' <=> Sees(a, g)
  BY <1>1 DEF Sees
<1>3. OwnInv'
  BY <1>2 DEF OwnInv
<1>4. ASSUME NEW a \in Accounts PROVE AccountFits(a)'
  <2>1. AccountFits(a)
    BY DEF FateInv
  <2>2. RowFits(a)' /\ ExchangeFits(a)'
    BY <2>1 DEF AccountFits, RowFits, Holds, ExchangeFits, FreshExchange, InRow, InCompletion,
                On, Running
  <2>3. \A c \in Callers : On(c, a)' => AnswerFits(c)'
    BY <2>1 DEF AccountFits, AnswerFits, FreshAnswer, InRow, InExchange, On, Running
  <2>4. QED
    BY <2>2, <2>3 DEF AccountFits
<1>5. QED
  BY <1>3, <1>4 DEF FateInv, LiveInv

(* register spawns the completion of the caller that holds the lock. *)
LEMMA AdmitOwns ==
    ASSUME OwnerInv, RefreshInv', NEW c \in Callers, call[c].pc = "register", Admit(c),
           UNCHANGED <<stored, issued, grants, exchanger>>
    PROVE  TurnInv' /\ OwnInv' /\ FateInv'
<1> USE DEF OwnerInv
<1>0. PICK a \in Accounts : a = call[c].acc
  BY DEF RefreshInv, CallInv, GoodCall
<1>1. a \in Accounts /\ call[c].token.grant # 0 /\ ~Running(c) /\ HasLock(c, a)
  BY <1>0 DEF TurnInv, HasLock
<1>2. /\ \A d \in Callers : d # c => completion'[d] = completion[d] /\ call'[d] = call[d]
      /\ call'[c].pc = "wait" /\ call'[c].token = call[c].token
      /\ completion'[c].pc = "read" /\ completion'[c].acc = a
      /\ completion'[c].token = call[c].token
  BY <1>0 DEF Admit, RefreshInv, CallInv, CompletionInv, NoCompletion, Call
<1>3. TurnInv'
  <2>1. \A b \in Accounts : \A d \in Callers : HasLock(d, b)' => HasLock(d, b)
    BY <1>1, <1>2 DEF HasLock, Running
  <2>2. QED
    BY <1>1, <1>2, <2>1 DEF TurnInv, Running
<1>4. Elsewhere(a)
  BY <1>1, <1>2 DEF Elsewhere, On
<1>5. AccountFits(a) /\ \A d \in Callers : ~On(d, a)
  BY <1>1 DEF FateInv, On, HasLock, TurnInv
<1>6. /\ \A g : InRow(a, g)' <=> InRow(a, g)
      /\ \A g : InExchange(a, g)' <=> InExchange(a, g)
      /\ \A g : ~InCompletion(c, g)'
      /\ \A d \in Callers : On(d, a)' => d = c
  BY <1>2, <1>5 DEF InRow, InExchange, InCompletion, On, Running
<1>7. \A g \in Number : Sees(a, g)' => Sees(a, g)
  BY <1>6 DEF Sees
<1>8. RowFits(a)'
  BY <1>1, <1>2, <1>5 DEF AccountFits, RowFits, Holds, On, Running
<1>9. ExchangeFits(a)'
  BY <1>5, <1>6 DEF AccountFits, ExchangeFits, FreshExchange, InRow
<1>10. AnswerFits(c)'
  BY <1>1, <1>2 DEF AnswerFits
<1>11. issued <= issued'
  BY NotIssued DEF RefreshInv
<1>12. QED
  BY <1>1, <1>3, <1>4, <1>6, <1>7, <1>8, <1>9, <1>10, <1>11, AccountStep DEF AccountFits

LEMMA CallerOwns ==
    ASSUME OwnerInv, RefreshInv', NEW c \in Callers, CallerStep(c)
    PROVE  TurnInv' /\ OwnInv' /\ FateInv'
<1> USE DEF OwnerInv
<1>0. call \in [Callers -> Call]
  BY DEF RefreshInv, CallInv
<1>1. ASSUME NEW a \in Accounts, BeginRefresh(c, a) PROVE TurnInv' /\ OwnInv' /\ FateInv'
  <2>1. /\ \A d \in Callers : d # c => call'[d] = call[d]
        /\ call'[c].pc = "lock" /\ call'[c].token.grant # 0
        /\ ~Running(c) /\ completion' = completion /\ stored[a] # None
    BY <1>0, <1>1 DEF BeginRefresh
  <2>2. \A b \in Accounts : \A d \in Callers : HasLock(d, b)' => HasLock(d, b)
    BY <2>1 DEF HasLock, Running
  <2>3. TurnInv'
    BY <2>1, <2>2 DEF TurnInv, Running
  <2>4. QED
    BY <1>1, <2>3, NothingSeenMoves DEF BeginRefresh
<1>2. CASE TakeLock(c)
  <2>1. /\ \A d \in Callers : d # c => call'[d] = call[d]
        /\ call'[c].pc = "slot" /\ call'[c].token = call[c].token /\ call'[c].acc = call[c].acc
        /\ call[c].pc = "lock" /\ completion' = completion
        /\ call[c].acc \in Accounts
    BY <1>0, <1>2 DEF TakeLock, Call, RefreshInv, CallInv, GoodCall
  <2>2. ~Running(c) /\ call[c].token.grant # 0
    BY <2>1 DEF TurnInv
  <2>3. \A b \in Accounts : \A d \in Callers :
            HasLock(d, b)' => HasLock(d, b) \/ (d = c /\ b = call[c].acc)
    BY <2>1 DEF HasLock, Running
  <2>4. \A d \in Callers : ~HasLock(d, call[c].acc)
    BY <1>2 DEF TakeLock
  <2>5. TurnInv'
    BY <2>1, <2>2, <2>3, <2>4 DEF TurnInv, Running
  <2>6. QED
    BY <1>2, <2>5, NothingSeenMoves DEF TakeLock
<1>3. CASE TakeSlot(c)
  <2>1. /\ \A d \in Callers : d # c => call'[d] = call[d]
        /\ call[c].pc = "slot" /\ completion' = completion
        /\ \/ call'[c].pc = "idle"
           \/ call'[c].pc = "register" /\ call'[c].token = call[c].token /\ call'[c].acc = call[c].acc
    BY <1>0, <1>3 DEF TakeSlot, Call, EndCall, NoCall
  <2>2. \A b \in Accounts : \A d \in Callers : HasLock(d, b)' => HasLock(d, b)
    BY <2>1 DEF HasLock, Running
  <2>3. TurnInv'
    BY <2>1, <2>2 DEF TurnInv, Running
  <2>4. QED
    BY <1>3, <2>3, NothingSeenMoves DEF TakeSlot
<1>4. CASE Register(c) /\ ~shutdown
  BY <1>4, AdmitOwns DEF Register
<1>5. CASE Cancel(c) \/ (Register(c) /\ shutdown)
  <2>1. /\ \A d \in Callers : call'[d] = call[d] \/ call'[d].pc = "idle"
        /\ UNCHANGED <<stored, issued, grants, completion, exchanger>>
    BY <1>0, <1>5 DEF Cancel, Register, EndCall, NoCall
  <2>2. TurnInv'
    BY <2>1, TurnKept DEF Running
  <2>3. QED
    BY <2>1, <2>2, NothingSeenMoves
<1>6. QED
  BY <1>1, <1>2, <1>3, <1>4, <1>5 DEF CallerStep

(* What a completion that ends or goes on does to the turns. *)
LEMMA TurnAfter ==
    ASSUME OwnerInv, NEW c \in Callers, Running(c),
           \A d \in Callers : d # c => completion'[d] = completion[d],
           completion'[c].pc # "idle" => completion'[c].acc = completion[c].acc,
           call' = call \/ EndCall(c)
    PROVE  TurnInv'
<1>1. \A d \in Callers : call'[d] = call[d] \/ call'[d].pc = "idle"
  BY DEF EndCall, NoCall, OwnerInv, RefreshInv, CallInv
<1>2. \A d \in Callers : Running(d)' => Running(d) /\ completion'[d].acc = completion[d].acc
  BY DEF Running
<1>3. QED
  BY <1>1, <1>2, TurnKept DEF OwnerInv

(* A completion that returns with the row's grant as it was. *)
LEMMA ReturnOwns ==
    ASSUME OwnerInv, RefreshInv', NEW c \in Callers, Running(c), Return(c),
           UNCHANGED <<issued, exchanger>>,
           \A b \in Accounts : b # completion[c].acc => stored'[b] = stored[b],
           SameRow(completion[c].acc),
           \A n \in Number : grants'[n] # grants[n] =>
               n # 0 /\ InCompletion(c, n) /\ grants'[n] \notin {"spent", "exchanged"},
           completion[c].pc = "persist" /\ InRow(completion[c].acc, completion[c].expected.grant) =>
               grants'[completion[c].expected.grant] # "spent"
    PROVE  TurnInv' /\ OwnInv' /\ FateInv'
<1>1. /\ \A d \in Callers : d # c => completion'[d] = completion[d]
      /\ completion'[c].pc = "idle" /\ EndCall(c)
  BY DEF Return, NoCompletion, OwnerInv, RefreshInv, CompletionInv
<1>2. On(c, completion[c].acc) /\ completion[c].acc \in Accounts
  BY DEF On, Running, OwnerInv, RefreshInv, CompletionInv, GoodCompletion
<1>3. issued <= issued'
  BY NotIssued DEF OwnerInv, RefreshInv
<1>4. TurnInv'
  BY <1>1, TurnAfter
<1>5. QED
  BY <1>1, <1>2, <1>3, <1>4, Concludes

LEMMA ReadLatestOwns ==
    ASSUME OwnerInv, RefreshInv', NEW c \in Callers, ReadLatest(c)
    PROVE  TurnInv' /\ OwnInv' /\ FateInv'
<1> USE DEF OwnerInv
<1>1. Running(c) /\ completion[c].pc = "read" /\ UNCHANGED <<stored, issued, grants, exchanger>>
  BY DEF ReadLatest, Running
<1>2. CASE Return(c)
  BY <1>1, <1>2, ReturnOwns DEF SameRow
<1>3. CASE ~Return(c)
  <2>1. PICK a \in Accounts : a = completion[c].acc
    BY <1>1 DEF RefreshInv, CompletionInv, GoodCompletion
  <2>2. /\ \A d \in Callers : d # c => completion'[d] = completion[d]
        /\ completion'[c].pc = "exchange" /\ completion'[c].acc = a
        /\ completion'[c].expected = stored[a] /\ completion'[c].token = stored[a]
        /\ ~Superseded(c) /\ call' = call
    BY <1>1, <1>3, <2>1 DEF ReadLatest, RefreshInv, CompletionInv, Completion
  <2>3. On(c, a) /\ AccountFits(a)
    BY <1>1, <2>1 DEF On, FateInv
  <2>4. stored[a] # None /\ stored[a].grant # 0
    BY <1>1, <2>1, <2>2, <2>3 DEF Superseded, AccountFits, AnswerFits
  <2>5. TurnInv'
    BY <1>1, <2>1, <2>2, TurnAfter
  <2>6. Elsewhere(a)
    BY <1>1, <2>2, <2>3 DEF Elsewhere, On
  <2>7. /\ \A g : InRow(a, g)' <=> InRow(a, g)
        /\ \A g : InExchange(a, g)' <=> InExchange(a, g)
        /\ \A g : InCompletion(c, g)' => InRow(a, g)
        /\ \A d \in Callers : On(d, a)' => d = c
    <3>1. \A d \in Callers : On(d, a)' => On(d, a)
      BY <2>2, <2>3 DEF On, Running
    <3>2. QED
      BY <1>1, <2>2, <2>3, <2>4, <3>1, OneAtATime DEF InRow, InExchange, InCompletion
  <2>8. \A g \in Number : Sees(a, g)' => Sees(a, g)
    BY <2>7 DEF Sees
  <2>9. grants[stored[a].grant] # "spent"
    <3>1. ASSUME NEW d \in Callers, Holds(d, a, stored[a].grant) PROVE FALSE
      <4>1. On(d, a)
        BY <3>1 DEF Holds, On, Running
      <4>2. QED
        BY <1>1, <2>3, <3>1, <4>1, OneAtATime DEF Holds
    <3>2. QED
      BY <2>3, <2>4, <3>1 DEF AccountFits, RowFits
  <2>10. RowFits(a)'
    BY <1>1, <2>3, <2>9 DEF AccountFits, RowFits
  <2>11. ExchangeFits(a)'
    BY <1>1, <2>3, <2>7 DEF AccountFits, ExchangeFits, FreshExchange, InRow
  <2>12. AnswerFits(c)'
    BY <1>1, <2>2, <2>4, <2>9 DEF AnswerFits
  <2>13. issued <= issued'
    BY <1>1, NotIssued DEF RefreshInv
  <2>14. QED
    BY <2>5, <2>6, <2>7, <2>8, <2>10, <2>11, <2>12, <2>13, AccountStep DEF AccountFits
<1>4. QED
  BY <1>2, <1>3

(* The answer arrives: the completion now holds the grant it has spent. *)
LEMMA ExchangeOwns ==
    ASSUME OwnerInv, RefreshInv', NEW c \in Callers, Exchange(c)
    PROVE  TurnInv' /\ OwnInv' /\ FateInv'
<1> USE DEF OwnerInv
<1>1. /\ Running(c) /\ completion[c].pc = "exchange" /\ UNCHANGED <<stored, call, exchanger>>
      /\ grants[completion[c].token.grant] = "live" /\ Issue
  BY DEF Exchange, Running
<1>2. PICK a \in Accounts : a = completion[c].acc
  BY <1>1 DEF RefreshInv, CompletionInv, GoodCompletion
<1>3. On(c, a) /\ AccountFits(a)
  BY <1>1, <1>2 DEF On, FateInv
<1>4. PICK g \in Number : g = completion[c].token.grant
  BY <1>1 DEF RefreshInv, CompletionInv, GoodCompletion, Token
<1>5. g # 0 /\ completion[c].expected.grant = g /\ Sees(a, g) /\ g <= issued
  BY <1>1, <1>3, <1>4, SeenIsIssued DEF AccountFits, AnswerFits, Sees, InCompletion
<1>6. PICK n \in Number : n = issued'
  BY <1>1, Issued DEF RefreshInv
<1>7. n > issued /\ n # 0 /\ n # g /\ issued <= issued' /\ \A h : Sees(a, h) => h # n
  BY <1>1, <1>5, <1>6, SeenIsIssued, MaxIssuedAssumption DEF Issue, RefreshInv, GrantInv, Number
<1>8. PICK rotates \in BOOLEAN, new_id \in BOOLEAN :
           /\ completion' = [completion EXCEPT
                  ![c].pc = "persist",
                  ![c].token.access = issued',
                  ![c].token.grant = IF rotates THEN issued' ELSE @,
                  ![c].new_id = new_id]
           /\ grants' = IF rotates
                        THEN [grants EXCEPT ![completion[c].token.grant] = "spent"]
                        ELSE grants
  BY DEF Exchange
<1>9. /\ \A d \in Callers : d # c => completion'[d] = completion[d]
      /\ completion'[c].pc = "persist" /\ completion'[c].acc = a
      /\ completion'[c].expected = completion[c].expected
      /\ completion'[c].token.grant = IF rotates THEN n ELSE g
  <2>1. completion[c] \in Completion /\ completion[c].token \in Token
    BY <1>1 DEF RefreshInv, CompletionInv, GoodCompletion
  <2>2. QED
    BY <1>2, <1>4, <1>6, <1>8, <2>1 DEF RefreshInv, CompletionInv, Completion, Token
<1>10. /\ \A h \in Number : h # g => grants'[h] = grants[h]
       /\ grants'[g] = IF rotates THEN "spent" ELSE "live"
  BY <1>1, <1>4, <1>8 DEF RefreshInv, GrantInv
<1>11. TurnInv'
  BY <1>1, <1>2, <1>9, TurnAfter
<1>12. Elsewhere(a)
  BY <1>1, <1>3, <1>5, <1>9, <1>10 DEF Elsewhere, On
<1>13. /\ \A h : InRow(a, h)' <=> InRow(a, h)
       /\ \A h : InExchange(a, h)' <=> InExchange(a, h)
       /\ \A h : InCompletion(c, h)' => h = g \/ h = n
       /\ InCompletion(c, g)
       /\ \A d \in Callers : On(d, a)' => d = c
  <2>1. \A d \in Callers : On(d, a)' => On(d, a)
    BY <1>3, <1>9 DEF On, Running
  <2>2. QED
    BY <1>1, <1>3, <1>4, <1>5, <1>9, <2>1, OneAtATime DEF InRow, InExchange, InCompletion
<1>14. \A h \in Number : Sees(a, h)' => Sees(a, h) \/ h > issued
  BY <1>5, <1>7, <1>13 DEF Sees
<1>15. RowFits(a)'
  <2>1. Holds(c, a, g)'
    BY <1>5, <1>9 DEF Holds
  <2>2. ASSUME stored[a] # None, stored[a].grant # g, grants'[stored[a].grant] = "spent"
        PROVE  FALSE
    <3>1. stored[a].grant \in Number
      BY <2>2, SeenIsIssued DEF Sees, InRow
    <3>2. PICK d \in Callers : Holds(d, a, stored[a].grant)
      BY <1>3, <1>10, <2>2, <3>1 DEF AccountFits, RowFits
    <3>3. On(d, a)
      BY <3>2 DEF Holds, On, Running
    <3>4. QED
      BY <1>1, <1>3, <3>2, <3>3, OneAtATime DEF Holds
  <2>3. stored[a] # None => stored[a].grant \in Number
    BY SeenIsIssued DEF Sees, InRow
  <2>4. stored[a] # None /\ grants'[stored[a].grant] = "spent" =>
            \E d \in Callers : Holds(d, a, stored[a].grant)'
    BY <1>1, <2>1, <2>2
  <2>5. stored[a] # None /\ grants'[stored[a].grant] = "exchanged" =>
            exchanger[a].pc = "persist" /\ exchanger[a].expected.grant = stored[a].grant
    BY <1>3, <1>10, <2>3 DEF AccountFits, RowFits
  <2>6. QED
    BY <1>1, <2>4, <2>5 DEF RowFits, Holds
<1>16. ExchangeFits(a)'
  <2>1. exchanger[a].pc # "idle" =>
            /\ exchanger[a].token.grant \in Number /\ exchanger[a].expected.grant \in Number
            /\ exchanger[a].token.grant # n
    BY <1>7, SeenIsIssued DEF Sees, InExchange
  <2>2. exchanger[a].pc = "persist" /\ FreshExchange(a) => FreshExchange(a)'
    BY <1>1, <1>3, <1>10, <1>13, <2>1 DEF FreshExchange
  <2>3. QED
    BY <1>1, <1>3, <1>10, <2>1, <2>2 DEF AccountFits, ExchangeFits
<1>17. AnswerFits(c)'
  <2>1. rotates => FreshAnswer(c)'
    <3>1. grants'[n] = "live"
      BY <1>7, <1>10 DEF FateInv, LiveInv
    <3>2. ~InRow(a, n)' /\ ~InExchange(a, n)'
      BY <1>7, <1>13 DEF Sees
    <3>3. QED
      BY <1>7, <1>9, <3>1, <3>2 DEF FreshAnswer, InRow, InExchange
  <2>2. QED
    BY <1>5, <1>9, <1>10, <2>1 DEF AnswerFits
<1>18. QED
  BY <1>7, <1>11, <1>12, <1>13, <1>14, <1>15, <1>16, <1>17, AccountStep DEF AccountFits

(* The completion gives up at the provider: its grant may be gone. *)
LEMMA ExchangeFailsOwns ==
    ASSUME OwnerInv, RefreshInv', NEW c \in Callers, ExchangeFails(c)
    PROVE  TurnInv' /\ OwnInv' /\ FateInv'
<1>1. Running(c) /\ completion[c].pc = "exchange" /\ UNCHANGED <<stored, issued, exchanger>> /\ Return(c)
  BY DEF ExchangeFails, Running
<1>2. PICK a \in Accounts : a = completion[c].acc
  BY <1>1 DEF OwnerInv, RefreshInv, CompletionInv, GoodCompletion
<1>3. AnswerFits(c) /\ InCompletion(c, completion[c].token.grant)
  BY <1>1, <1>2 DEF OwnerInv, FateInv, AccountFits, On, InCompletion
<1>4. \A n \in Number : grants'[n] # grants[n] =>
          n = completion[c].token.grant /\ grants'[n] = "dropped"
  BY DEF ExchangeFails, Unanswered, OwnerInv, RefreshInv, GrantInv
<1>5. QED
  BY <1>1, <1>3, <1>4, ReturnOwns DEF SameRow, AnswerFits

LEMMA PersistFailsOwns ==
    ASSUME OwnerInv, RefreshInv', NEW c \in Callers, PersistFails(c)
    PROVE  TurnInv' /\ OwnInv' /\ FateInv'
<1>1. Running(c) /\ completion[c].pc = "persist" /\ UNCHANGED <<stored, issued, exchanger>> /\ Return(c)
  BY DEF PersistFails, Running
<1>2. PICK a \in Accounts : a = completion[c].acc
  BY <1>1 DEF OwnerInv, RefreshInv, CompletionInv, GoodCompletion
<1>3. AnswerFits(c) /\ InCompletion(c, completion[c].expected.grant)
      /\ completion[c].expected.grant \in Number
  BY <1>1, <1>2 DEF OwnerInv, FateInv, AccountFits, On, InCompletion, RefreshInv, CompletionInv,
                    GoodCompletion, Token
<1>4. /\ \A n \in Number : grants'[n] # grants[n] =>
             n = completion[c].expected.grant /\ grants'[n] = "dropped"
      /\ grants'[completion[c].expected.grant] # "spent"
  BY <1>3 DEF PersistFails, OwnerInv, RefreshInv, GrantInv
<1>5. QED
  BY <1>1, <1>3, <1>4, ReturnOwns DEF SameRow, AnswerFits

(* The first compare-and-swap. *)
LEMMA PersistOwns ==
    ASSUME OwnerInv, RefreshInv', NEW c \in Callers, Persist(c)
    PROVE  TurnInv' /\ OwnInv' /\ FateInv'
<1> USE DEF OwnerInv
<1>1. /\ Running(c) /\ completion[c].pc = "persist" /\ UNCHANGED <<issued, exchanger>>
      /\ Return(c) \/ Proceed(c, "key")
  BY DEF Persist, Running
<1>2. PICK a \in Accounts : a = completion[c].acc
  BY <1>1 DEF RefreshInv, CompletionInv, GoodCompletion
<1>3. On(c, a) /\ AnswerFits(c) /\ InCompletion(c, completion[c].expected.grant)
      /\ completion[c].expected.grant \in Number /\ completion[c].expected.grant # 0
      /\ completion[c].token \in Token
  BY <1>1, <1>2 DEF FateInv, AccountFits, AnswerFits, On, InCompletion, RefreshInv, CompletionInv,
                    GoodCompletion, Token
<1>4. /\ \A d \in Callers : d # c => completion'[d] = completion[d]
      /\ completion'[c].pc \in {"idle", "key"}
      /\ completion'[c].pc # "idle" => completion'[c].acc = a
      /\ call' = call \/ EndCall(c)
  BY <1>1, <1>2 DEF Return, Proceed, NoCompletion, RefreshInv, CompletionInv, Completion
<1>5. TurnInv'
  BY <1>1, <1>2, <1>4, TurnAfter
<1>6. issued <= issued'
  BY <1>1, NotIssued DEF RefreshInv
<1>7. \A b \in Accounts : b # a => stored'[b] = stored[b]
  BY <1>2 DEF Persist, CompareAndSwap, RefreshInv, RowInv
<1>8. CASE ~Current(a, completion[c].expected)
  <2>1. stored' = stored
    BY <1>2, <1>8 DEF Persist, CompareAndSwap
  <2>2. /\ \A n \in Number : grants'[n] # grants[n] =>
              n = completion[c].expected.grant /\ grants'[n] = "overtaken"
        /\ InRow(a, completion[c].expected.grant) => grants'[completion[c].expected.grant] # "spent"
    BY <1>2, <1>3, <1>8 DEF Persist, Answered, InRow, RefreshInv, GrantInv
  <2>3. QED
    BY <1>1, <1>3, <1>4, <1>5, <1>6, <1>7, <2>1, <2>2, Concludes DEF SameRow
<1>9. CASE Current(a, completion[c].expected)
  <2>1. /\ stored[a] # None /\ stored[a] = completion[c].expected
        /\ stored'[a] = completion[c].token /\ grants' = grants
    BY <1>2, <1>9 DEF Persist, CompareAndSwap, Answered, Current, RefreshInv, RowInv
  <2>2. stored'[a] # None
    BY <1>3, <2>1, NoneAssumption
  <2>3. CASE FreshAnswer(c)
    BY <1>1, <1>3, <1>4, <1>5, <1>6, <1>7, <2>1, <2>2, <2>3, Stores
  <2>4. CASE ~FreshAnswer(c)
    <3>1. completion[c].token.grant = completion[c].expected.grant
          /\ grants[completion[c].expected.grant] # "spent"
      BY <1>1, <1>3, <2>4 DEF AnswerFits
    <3>2. SameRow(a)
      BY <2>1, <2>2, <3>1 DEF SameRow
    <3>3. QED
      BY <1>1, <1>3, <1>4, <1>5, <1>6, <1>7, <2>1, <3>1, <3>2, Concludes
  <2>5. QED
    BY <2>3, <2>4
<1>10. QED
  BY <1>8, <1>9

(* The API key of a completion: no grant changes hands. *)
LEMMA KeyStepsOwn ==
    ASSUME OwnerInv, RefreshInv', NEW c \in Callers,
           ObtainKey(c) \/ ObtainKeyFails(c) \/ PersistKey(c)
    PROVE  TurnInv' /\ OwnInv' /\ FateInv'
<1> USE DEF OwnerInv
<1>1. /\ Running(c) /\ completion[c].pc \in {"key", "persist_key"}
      /\ UNCHANGED <<grants, exchanger>>
  BY DEF ObtainKey, ObtainKeyFails, PersistKey, Running
<1>2. PICK a \in Accounts : a = completion[c].acc
  BY <1>1 DEF RefreshInv, CompletionInv, GoodCompletion
<1>3. On(c, a) /\ AnswerFits(c) /\ completion[c].token \in Token /\ completion[c] \in Completion
  BY <1>1, <1>2 DEF FateInv, AccountFits, On, RefreshInv, CompletionInv, GoodCompletion
<1>4. CASE ObtainKey(c)
  <2>1. /\ \A d \in Callers : d # c => completion'[d] = completion[d]
        /\ completion'[c].pc = "persist_key" /\ completion'[c].acc = a
        /\ completion'[c].token.grant = completion'[c].expected.grant
        /\ UNCHANGED <<stored, call>>
    BY <1>2, <1>3, <1>4 DEF ObtainKey, RefreshInv, CompletionInv, Completion, Token
  <2>2. issued <= issued'
    BY <1>4, Issued DEF ObtainKey, RefreshInv
  <2>3. TurnInv'
    BY <1>1, <1>2, <2>1, TurnAfter
  <2>4. QED
    BY <1>1, <1>3, <2>1, <2>2, <2>3, Concludes DEF SameRow
<1>5. CASE ObtainKeyFails(c)
  BY <1>1, <1>5, ReturnOwns DEF ObtainKeyFails, SameRow
<1>6. CASE PersistKey(c)
  <2>1. completion[c].token.grant = completion[c].expected.grant
    BY <1>3, <1>6 DEF PersistKey, AnswerFits
  <2>2. SameRow(a)
    BY <1>2, <1>3, <1>6, <2>1, NoneAssumption
       DEF PersistKey, CompareAndSwap, Current, SameRow, RefreshInv, RowInv
  <2>3. \A b \in Accounts : b # a => stored'[b] = stored[b]
    BY <1>2, <1>6 DEF PersistKey, CompareAndSwap, RefreshInv, RowInv
  <2>4. QED
    BY <1>1, <1>2, <1>6, <2>2, <2>3, ReturnOwns DEF PersistKey
<1>7. QED
  BY <1>4, <1>5, <1>6

-----------------------------------------------------------------------------
(* The steps of the other writers and of the exchange.                     *)

LEMMA TurnUntouched ==
    ASSUME TurnInv, UNCHANGED <<call, completion>>
    PROVE  TurnInv'
  BY TurnKept DEF Running

(* The row has a spent grant of the exchange only while that has an answer. *)
LEMMA NotExchanged ==
    ASSUME OwnerInv, NEW a \in Accounts, exchanger[a].pc # "persist", stored[a] # None
    PROVE  grants[stored[a].grant] # "exchanged"
  BY DEF OwnerInv, FateInv, AccountFits, RowFits

LEMMA RowWritersOwn ==
    ASSUME OwnerInv, RefreshInv', NEW a \in Accounts,
           Import(a) \/ DeleteAccount(a) \/ ClearKey(a)
    PROVE  TurnInv' /\ OwnInv' /\ FateInv'
<1> USE DEF OwnerInv
<1>1. UNCHANGED <<grants, call, completion, exchanger>>
  BY DEF Import, DeleteAccount, ClearKey
<1>2. TurnInv'
  BY <1>1, TurnUntouched
<1>3. \A b \in Accounts : b # a => stored'[b] = stored[b]
  BY DEF Import, DeleteAccount, ClearKey, RefreshInv, RowInv
<1>4. CASE Import(a)
  <2>1. issued' \in Number /\ issued <= issued' /\ issued' > issued
    BY <1>4, Issued, MaxIssuedAssumption DEF Import, Issue, RefreshInv, GrantInv, Number
  <2>2. stored'[a].grant \in {0, issued'}
    BY <1>4 DEF Import, Imported, RefreshInv, RowInv
  <2>3. 0 \in Number
    BY MaxIssuedAssumption DEF Number
  <2>4. QED
    BY <1>1, <1>2, <1>3, <2>1, <2>2, <2>3, RowReplaced
<1>5. CASE DeleteAccount(a) \/ ClearKey(a)
  <2>1. issued <= issued'
    BY <1>5, NotIssued DEF DeleteAccount, ClearKey, RefreshInv
  <2>2. stored'[a] = None \/ SameRow(a)
    <3>1. CASE DeleteAccount(a)
      BY <3>1 DEF DeleteAccount, RefreshInv, RowInv
    <3>2. CASE ClearKey(a)
      <4>1. stored[a] \in Token /\ stored[a] # None /\ stored'[a] = [stored[a] EXCEPT !.key = 0]
        BY <3>2 DEF ClearKey, RefreshInv, RowInv
      <4>2. stored'[a].grant = stored[a].grant /\ stored'[a] \in Token
        BY <4>1, MaxIssuedAssumption DEF Token, Number
      <4>3. QED
        BY <4>1, <4>2, NoneAssumption DEF SameRow
    <3>3. QED
      BY <1>5, <3>1, <3>2
  <2>3. QED
    BY <1>1, <1>2, <1>3, <2>1, <2>2, RowReplaced
<1>6. QED
  BY <1>4, <1>5

(* The exchange reads the row, and exchanges the id token for a key. *)
LEMMA KeyExchangeOwns ==
    ASSUME OwnerInv, RefreshInv', NEW a \in Accounts,
           BeginExchange(a) \/ KeyExchanged(a) \/ KeyExchangeFails(a)
    PROVE  TurnInv' /\ OwnInv' /\ FateInv'
<1> USE DEF OwnerInv
<1>1. UNCHANGED <<grants, call, completion>> /\ exchanger[a].pc # "persist"
  BY DEF BeginExchange, KeyExchanged, KeyExchangeFails
<1>2. TurnInv'
  BY <1>1, TurnUntouched
<1>3. \A b \in Accounts : b # a => exchanger'[b] = exchanger[b]
  BY DEF BeginExchange, KeyExchanged, KeyExchangeFails, RefreshInv, ExchangerInv
<1>4. stored[a] # None => grants[stored[a].grant] # "exchanged"
  BY <1>1, NotExchanged
<1>5. ExchangeFits(a)
  BY DEF FateInv, AccountFits
<1>6. CASE BeginExchange(a)
  <2>1. /\ exchanger'[a] = [pc |-> "key", expected |-> stored[a], token |-> stored[a]]
        /\ stored[a] # None /\ UNCHANGED <<stored, issued>>
    BY <1>6 DEF BeginExchange, RefreshInv, ExchangerInv
  <2>2. issued <= issued'
    BY <2>1, NotIssued DEF RefreshInv
  <2>3. QED
    BY <1>1, <1>2, <1>3, <1>4, <2>1, <2>2, ExchangeConcludes DEF SameRow, InRow
<1>7. CASE KeyExchanged(a)
  <2>1. exchanger'[a].pc = "idle" /\ issued <= issued'
    BY <1>7, Issued DEF KeyExchanged, NoExchange, RefreshInv, ExchangerInv
  <2>2. \A b \in Accounts : b # a => stored'[b] = stored[b]
    BY <1>7 DEF KeyExchanged, CompareAndSwap, RefreshInv, RowInv
  <2>3. SameRow(a)
    <3>1. CASE ~Current(a, exchanger[a].token)
      BY <1>7, <3>1 DEF KeyExchanged, CompareAndSwap, SameRow
    <3>2. CASE Current(a, exchanger[a].token)
      <4>1. /\ stored[a] \in Token /\ stored[a] # None
            /\ stored'[a] = [stored[a] EXCEPT !.key = issued'] /\ issued' \in Number
        BY <1>7, <3>2, Issued DEF KeyExchanged, CompareAndSwap, Current, RefreshInv, RowInv
      <4>2. stored'[a].grant = stored[a].grant /\ stored'[a] \in Token
        BY <4>1 DEF Token
      <4>3. QED
        BY <4>1, <4>2, NoneAssumption DEF SameRow
    <3>3. QED
      BY <3>1, <3>2
  <2>4. QED
    BY <1>1, <1>2, <1>3, <1>4, <2>1, <2>2, <2>3, ExchangeConcludes
<1>8. CASE KeyExchangeFails(a)
  <2>1. UNCHANGED <<stored, issued>> /\ exchanger[a].pc \in {"key", "key_again"}
    BY <1>8 DEF KeyExchangeFails
  <2>2. \/ exchanger'[a].pc = "idle"
        \/ /\ exchanger'[a].pc = "grant" /\ exchanger[a].token.grant # 0
           /\ exchanger'[a].token = exchanger[a].token
           /\ exchanger'[a].expected = exchanger[a].expected
    BY <1>8 DEF KeyExchangeFails, NoExchange, RefreshInv, ExchangerInv, Exchanger
  <2>3. issued <= issued'
    BY <2>1, NotIssued DEF RefreshInv
  <2>4. InExchange(a, exchanger[a].token.grant)
    BY <2>1 DEF InExchange
  <2>5. QED
    BY <1>1, <1>2, <1>3, <1>4, <1>5, <2>1, <2>2, <2>3, <2>4, ExchangeConcludes
       DEF SameRow, ExchangeFits
<1>9. QED
  BY <1>6, <1>7, <1>8

(* The exchange gives up: its grant may be gone. *)
LEMMA ExchangerFailsOwns ==
    ASSUME OwnerInv, RefreshInv', NEW a \in Accounts,
           ExchangerRefreshFails(a) \/ ExchangerPersistFails(a)
    PROVE  TurnInv' /\ OwnInv' /\ FateInv'
<1> USE DEF OwnerInv
<1>1. UNCHANGED <<stored, issued, call, completion>> /\ exchanger[a].pc \in {"grant", "persist"}
  BY DEF ExchangerRefreshFails, ExchangerPersistFails
<1>2. TurnInv'
  BY <1>1, TurnUntouched
<1>3. /\ \A b \in Accounts : b # a => exchanger'[b] = exchanger[b]
      /\ exchanger'[a].pc = "idle"
  BY DEF ExchangerRefreshFails, ExchangerPersistFails, NoExchange, RefreshInv, ExchangerInv
<1>4. AccountFits(a)
  BY DEF FateInv
<1>5. /\ exchanger[a].expected.grant # 0 /\ exchanger[a].expected.grant \in Number
      /\ InExchange(a, exchanger[a].expected.grant)
      /\ exchanger[a].pc = "grant" => exchanger[a].token.grant = exchanger[a].expected.grant
  BY <1>1, <1>4 DEF AccountFits, ExchangeFits, InExchange, RefreshInv, ExchangerInv, GoodExchanger, Token
<1>6. \A n \in Number : grants'[n] # grants[n] =>
          n = exchanger[a].expected.grant /\ grants'[n] = "dropped"
  <2>1. CASE ExchangerRefreshFails(a)
    BY <1>5, <2>1 DEF ExchangerRefreshFails, Unanswered, RefreshInv, GrantInv
  <2>2. CASE ExchangerPersistFails(a)
    BY <1>5, <2>2 DEF ExchangerPersistFails, RefreshInv, GrantInv
  <2>3. QED
    BY <2>1, <2>2
<1>7. stored[a] # None => grants'[stored[a].grant] # "exchanged"
  <2>1. SUFFICES ASSUME stored[a] # None PROVE grants'[stored[a].grant] # "exchanged"
    OBVIOUS
  <2>2. stored[a].grant \in Number
    BY <2>1, SeenIsIssued DEF Sees, InRow
  <2>3. CASE exchanger[a].pc = "grant"
    BY <1>6, <2>1, <2>2, <2>3, NotExchanged
  <2>4. CASE exchanger[a].pc = "persist"
    <3>1. grants'[exchanger[a].expected.grant] # "exchanged"
      BY <1>5, <2>4 DEF ExchangerPersistFails, ExchangerRefreshFails, RefreshInv, GrantInv
    <3>2. QED
      BY <1>4, <1>6, <2>1, <2>2, <3>1 DEF AccountFits, RowFits
  <2>5. QED
    BY <1>1, <2>3, <2>4
<1>8. issued <= issued'
  BY <1>1, NotIssued DEF RefreshInv
<1>9. QED
  BY <1>1, <1>2, <1>3, <1>5, <1>6, <1>7, <1>8, ExchangeConcludes DEF SameRow

(* The exchange stores its answer, or takes the row as it finds it. *)
LEMMA ExchangerPersistsOwns ==
    ASSUME OwnerInv, RefreshInv', NEW a \in Accounts, ExchangerPersists(a)
    PROVE  TurnInv' /\ OwnInv' /\ FateInv'
<1> USE DEF OwnerInv
<1>1. UNCHANGED <<issued, call, completion>> /\ exchanger[a].pc = "persist"
  BY DEF ExchangerPersists
<1>2. TurnInv'
  BY <1>1, TurnUntouched
<1>3. \A b \in Accounts : b # a => stored'[b] = stored[b] /\ exchanger'[b] = exchanger[b]
  BY DEF ExchangerPersists, CompareAndSwap, RefreshInv, ExchangerInv, RowInv
<1>4. AccountFits(a) /\ issued <= issued'
  BY <1>1, NotIssued DEF FateInv, RefreshInv
<1>5. /\ exchanger[a].expected.grant # 0 /\ exchanger[a].expected.grant \in Number
      /\ InExchange(a, exchanger[a].expected.grant)
      /\ exchanger[a].token \in Token
  BY <1>1, <1>4 DEF AccountFits, ExchangeFits, InExchange, RefreshInv, ExchangerInv, GoodExchanger, Token
<1>6. CASE ~Current(a, exchanger[a].expected)
  <2>1. stored' = stored
    BY <1>6 DEF ExchangerPersists, CompareAndSwap
  <2>2. \/ exchanger'[a].pc = "idle"
        \/ /\ stored[a] # None
           /\ exchanger'[a] = [pc |-> "key_again", expected |-> stored[a], token |-> stored[a]]
    BY <1>6 DEF ExchangerPersists, NoExchange, RefreshInv, ExchangerInv
  <2>3. \A n \in Number : grants'[n] # grants[n] =>
            n = exchanger[a].expected.grant /\ grants'[n] = "forfeited"
    BY <1>5 DEF ExchangerPersists, Answered, RefreshInv, GrantInv
  <2>4. stored[a] # None => grants'[stored[a].grant] # "exchanged"
    <3>1. stored[a] # None => stored[a].grant \in Number
      BY SeenIsIssued DEF Sees, InRow
    <3>2. stored[a] # None /\ stored[a].grant = exchanger[a].expected.grant =>
              grants'[stored[a].grant] # "exchanged"
      BY <1>5, <1>6 DEF ExchangerPersists, Answered, RefreshInv, GrantInv
    <3>3. QED
      BY <1>4, <2>3, <3>1, <3>2 DEF AccountFits, RowFits
  <2>5. QED
    BY <1>1, <1>2, <1>3, <1>4, <1>5, <2>1, <2>2, <2>3, <2>4, ExchangeConcludes DEF SameRow, InRow
<1>7. CASE Current(a, exchanger[a].expected)
  <2>1. /\ stored[a] # None /\ stored[a] = exchanger[a].expected
        /\ stored'[a] = exchanger[a].token /\ grants' = grants
    BY <1>7 DEF ExchangerPersists, CompareAndSwap, Answered, Current, RefreshInv, RowInv
  <2>2. stored'[a] # None /\ exchanger[a].token # None
    BY <1>5, <2>1, NoneAssumption
  <2>3. exchanger'[a] = [pc |-> "key_again", expected |-> exchanger[a].token,
                         token |-> exchanger[a].token]
    BY <1>7, <2>2 DEF ExchangerPersists, RefreshInv, ExchangerInv
  <2>4. CASE FreshExchange(a)
    BY <1>1, <1>2, <1>3, <1>4, <2>1, <2>2, <2>3, <2>4, ExchangeStores
  <2>5. CASE ~FreshExchange(a)
    <3>1. exchanger[a].token.grant = exchanger[a].expected.grant
          /\ grants[exchanger[a].expected.grant] # "exchanged"
      BY <1>1, <1>4, <2>5 DEF AccountFits, ExchangeFits
    <3>2. SameRow(a) /\ InRow(a, exchanger[a].token.grant)
      BY <2>1, <2>2, <3>1 DEF SameRow, InRow
    <3>3. QED
      BY <1>1, <1>2, <1>3, <1>4, <2>1, <2>3, <3>1, <3>2, ExchangeConcludes
  <2>6. QED
    BY <2>4, <2>5
<1>8. QED
  BY <1>6, <1>7

(* The provider answers the exchange, which now holds the grant it spent. *)
LEMMA ExchangerRefreshesOwns ==
    ASSUME OwnerInv, RefreshInv', NEW a \in Accounts, ExchangerRefreshes(a)
    PROVE  TurnInv' /\ OwnInv' /\ FateInv'
<1> USE DEF OwnerInv
<1>1. /\ exchanger[a].pc = "grant" /\ UNCHANGED <<stored, call, completion>>
      /\ grants[exchanger[a].token.grant] = "live" /\ Issue
  BY DEF ExchangerRefreshes
<1>2. TurnInv'
  BY <1>1, TurnUntouched
<1>3. AccountFits(a)
  BY DEF FateInv
<1>4. PICK g \in Number : g = exchanger[a].token.grant
  BY <1>1 DEF RefreshInv, ExchangerInv, GoodExchanger, Token
<1>5. g # 0 /\ exchanger[a].expected.grant = g /\ InExchange(a, g) /\ Sees(a, g) /\ g <= issued
  BY <1>1, <1>3, <1>4, SeenIsIssued DEF AccountFits, ExchangeFits, Sees, InExchange
<1>6. PICK n \in Number : n = issued'
  BY <1>1, Issued DEF RefreshInv
<1>7. n > issued /\ n # 0 /\ n # g /\ issued <= issued' /\ \A h : Sees(a, h) => h # n
  BY <1>1, <1>5, <1>6, SeenIsIssued, MaxIssuedAssumption DEF Issue, RefreshInv, GrantInv, Number
<1>8. PICK rotates \in BOOLEAN :
           /\ exchanger' = [exchanger EXCEPT
                  ![a].pc = "persist",
                  ![a].token.access = issued',
                  ![a].token.grant = IF rotates THEN issued' ELSE @]
           /\ grants' = IF rotates
                        THEN [grants EXCEPT ![exchanger[a].token.grant] = "exchanged"]
                        ELSE grants
  BY DEF ExchangerRefreshes
<1>9. /\ \A b \in Accounts : b # a => exchanger'[b] = exchanger[b]
      /\ exchanger'[a].pc = "persist"
      /\ exchanger'[a].expected = exchanger[a].expected
      /\ exchanger'[a].token.grant = IF rotates THEN n ELSE g
  <2>1. exchanger[a] \in Exchanger /\ exchanger[a].token \in Token
    BY <1>1 DEF RefreshInv, ExchangerInv, GoodExchanger
  <2>2. QED
    BY <1>4, <1>6, <1>8, <2>1 DEF RefreshInv, ExchangerInv, Exchanger, Token
<1>10. /\ \A h \in Number : h # g => grants'[h] = grants[h]
       /\ grants'[g] = IF rotates THEN "exchanged" ELSE "live"
  BY <1>1, <1>4, <1>8 DEF RefreshInv, GrantInv
<1>11. Elsewhere(a)
  BY <1>1, <1>5, <1>9, <1>10 DEF Elsewhere
<1>12. /\ \A h : InRow(a, h)' <=> InRow(a, h)
       /\ \A h : InExchange(a, h)' => h = g \/ h = n
       /\ \A d \in Callers : \A h : InCompletion(d, h)' <=> InCompletion(d, h)
       /\ \A d \in Callers : On(d, a)' <=> On(d, a)
  BY <1>1, <1>5, <1>9 DEF InRow, InExchange, InCompletion, On, Running
<1>13. \A h \in Number : Sees(a, h)' => Sees(a, h) \/ h > issued
  BY <1>5, <1>7, <1>12 DEF Sees
<1>14. RowFits(a)'
  <2>1. SUFFICES ASSUME stored[a] # None
                 PROVE  /\ grants'[stored[a].grant] = "spent" =>
                               \E d \in Callers : Holds(d, a, stored[a].grant)
                        /\ grants'[stored[a].grant] = "exchanged" => stored[a].grant = g
    BY <1>1, <1>5, <1>9 DEF RowFits, Holds
  <2>2. stored[a].grant \in Number
    BY <2>1, SeenIsIssued DEF Sees, InRow
  <2>3. QED
    BY <1>1, <1>3, <1>10, <2>1, <2>2 DEF AccountFits, RowFits
<1>15. ExchangeFits(a)'
  <2>1. rotates => FreshExchange(a)'
    <3>1. grants'[n] = "live"
      BY <1>7, <1>10 DEF FateInv, LiveInv
    <3>2. ~InRow(a, n)' /\ \A d \in Callers : On(d, a)' => ~InCompletion(d, n)'
      BY <1>7, <1>12 DEF Sees
    <3>3. QED
      BY <1>7, <1>9, <3>1, <3>2 DEF FreshExchange, InRow, InCompletion
  <2>2. QED
    BY <1>5, <1>9, <1>10, <2>1 DEF ExchangeFits
<1>16. ASSUME NEW d \in Callers, On(d, a)' PROVE AnswerFits(d)'
  <2>1. On(d, a) /\ AnswerFits(d) /\ completion[d].acc = a /\ completion' = completion
    BY <1>1, <1>3, <1>12, <1>16 DEF AccountFits, On
  <2>2. completion[d].pc \in {"exchange", "persist"} =>
            /\ completion[d].token.grant \in Number /\ completion[d].expected.grant \in Number
            /\ completion[d].token.grant # n
    BY <1>7, <2>1, SeenIsIssued DEF Sees, InCompletion
  <2>3. completion[d].pc = "persist" /\ FreshAnswer(d) => FreshAnswer(d)'
    <3>1. SUFFICES ASSUME completion[d].pc = "persist", FreshAnswer(d) PROVE FreshAnswer(d)'
      OBVIOUS
    <3>2. completion[d].token.grant # g
      BY <1>5, <2>1, <3>1 DEF FreshAnswer
    <3>3. ~InRow(a, completion[d].token.grant)' /\ ~InExchange(a, completion[d].token.grant)'
      BY <1>12, <2>1, <2>2, <3>1, <3>2 DEF FreshAnswer
    <3>4. QED
      BY <1>10, <2>1, <2>2, <3>1, <3>2, <3>3 DEF FreshAnswer
  <2>4. QED
    BY <1>10, <2>1, <2>2, <2>3 DEF AnswerFits
<1>17. QED
  BY <1>2, <1>7, <1>11, <1>13, <1>14, <1>15, <1>16, AccountStep DEF AccountFits

LEMMA NextOwns ==
    ASSUME OwnerInv, [Next]_vars
    PROVE  OwnerInv'
<1> USE DEF OwnerInv
<1>1. RefreshInv'
  BY NextKeeps, StutterKeeps
<1>2. ASSUME NEW c \in Callers, CompletionStep(c) PROVE TurnInv' /\ OwnInv' /\ FateInv'
  BY <1>1, <1>2, ReadLatestOwns, ExchangeOwns, ExchangeFailsOwns, PersistOwns, PersistFailsOwns,
     KeyStepsOwn DEF CompletionStep
<1>3. ASSUME NEW a \in Accounts, WriterStep(a) PROVE TurnInv' /\ OwnInv' /\ FateInv'
  BY <1>1, <1>3, RowWritersOwn, KeyExchangeOwns, ExchangerRefreshesOwns, ExchangerFailsOwns,
     ExchangerPersistsOwns DEF WriterStep
<1>4. CASE RequestShutdown \/ DrainStep \/ Restart \/ UNCHANGED vars
  <2>1. UNCHANGED <<stored, issued, grants, call, completion, exchanger>>
    BY <1>4 DEF RequestShutdown, DrainStep, DrainEnable, DrainLoad, DrainAwait, Restart, vars
  <2>2. QED
    BY <1>1, <2>1, TurnUntouched, NothingSeenMoves
<1>5. QED
  BY <1>1, <1>2, <1>3, <1>4, CallerOwns DEF Next

LEMMA InitOwns ==
    ASSUME Init
    PROVE  OwnerInv
<1>1. /\ \A a \in Accounts : stored[a] = None /\ exchanger[a].pc = "idle"
      /\ \A c \in Callers : call[c].pc = "idle" /\ completion[c].pc = "idle"
      /\ \A n \in Number : grants[n] = "live"
  BY DEF Init, NoCall, NoCompletion, NoExchange
<1>2. TurnInv
  BY <1>1 DEF TurnInv, HasLock, Running
<1>3. OwnInv
  BY <1>1 DEF OwnInv, Sees, InRow, InExchange, On, Running
<1>4. FateInv
  BY <1>1 DEF FateInv, LiveInv, AccountFits, RowFits, ExchangeFits, On, Running
<1>5. QED
  BY <1>2, <1>3, <1>4, InitKeeps DEF OwnerInv

(* Who owns a grant, in every reachable state. *)
THEOREM OwnerInvariant == Spec => []OwnerInv
<1>1. Init => OwnerInv
  BY InitOwns
<1>2. OwnerInv /\ [Next]_vars => OwnerInv'
  BY NextOwns
<1>3. QED
  BY <1>1, <1>2, PTL DEF Spec

(* A row never holds a grant that was exchanged for an answer nobody is    *)
(* left to store: while complete_token_refresh or the gateway's exchange   *)
(* has spent the grant of a row, it is still on its way to the row, with   *)
(* any number of accounts, cancelled callers, imports and restarts.        *)
THEOREM GrantsAlwaysKept == Spec => []GrantKept
<1>1. OwnerInv => GrantKept
  BY DEF OwnerInv, FateInv, AccountFits, RowFits, GrantKept
<1>2. QED
  BY <1>1, OwnerInvariant, PTL

(* complete_token_refresh, which reads the row again under the account's   *)
(* lock, presents a grant that another completion has exchanged only if    *)
(* that one's answer was lost: never one whose answer is on its way, was   *)
(* stored, or gave way to an import or a deletion.                         *)
THEOREM OnlyLostGrantsRepeat == Spec => []OnlyLostGrantsPresentedAgain
<1>1. OwnerInv => OnlyLostGrantsPresentedAgain
  <2>1. SUFFICES ASSUME OwnerInv, NEW c \in Callers, completion[c].pc = "exchange"
                 PROVE  grants[completion[c].token.grant] \in Fate \ {"spent"}
    BY DEF OnlyLostGrantsPresentedAgain, Fate
  <2>2. completion[c].acc \in Accounts /\ On(c, completion[c].acc)
    BY <2>1 DEF OwnerInv, RefreshInv, CompletionInv, GoodCompletion, On, Running
  <2>3. grants[completion[c].token.grant] # "spent"
    BY <2>1, <2>2 DEF OwnerInv, FateInv, AccountFits, AnswerFits
  <2>4. completion[c].token.grant \in Number
    BY <2>1 DEF OwnerInv, RefreshInv, CompletionInv, GoodCompletion, Token
  <2>5. QED
    BY <2>3, <2>4, <2>1 DEF OwnerInv, RefreshInv, GrantInv
<1>2. QED
  BY <1>1, OwnerInvariant, PTL
===============================================================================
