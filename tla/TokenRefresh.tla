---------------------------- MODULE TokenRefresh ----------------------------
(***************************************************************************)
(* Refreshing the stored credentials of an account                         *)
(* (usage/usage_token_refresh.rs), with the other writers of the same row: *)
(* imports and logins, account deletion, the API-key exchange of the       *)
(* gateway (gateway/auth/token_exchange.rs) and the websocket that clears  *)
(* a key (http/responses_websocket.rs).                                    *)
(*                                                                         *)
(* A refresh presents the stored grant (the refresh token) to the          *)
(* provider, which spends it and answers with a new one: an answer that is *)
(* not stored leaves the account with a dead grant.  So the exchange runs  *)
(* in a completion task of its own, which outlives the caller, holds the   *)
(* account's lock and one of a few slots, and writes the row only if it    *)
(* still is the row it read.  A shutdown admits no new completion and      *)
(* waits for the ones admitted.                                            *)
(*                                                                         *)
(* Credentials are numbers from one counter: an answer of the provider     *)
(* takes the next number for everything it issues.  `root` is the import   *)
(* or login a row descends from; the id token and last_refresh change with *)
(* the access token and are not kept apart from it.  A grant or key of 0   *)
(* is an empty refresh token or a missing API key.                         *)
(***************************************************************************)
EXTENDS Naturals, FiniteSets

CONSTANTS
    Accounts,
    Callers,        \* calls of refresh_and_persist_access_token_async at a time
    Slots,          \* REFRESH_COMPLETION_SLOTS
    MaxIssued,      \* bound: answers and imports that bring new credentials
    None

ASSUME SlotsAssumption == Slots \in Nat \ {0}

ASSUME MaxIssuedAssumption == MaxIssued \in Nat \ {0}

Number == 0..MaxIssued

Token == [root : Number, grant : Number, access : Number, key : Number]

ASSUME NoneAssumption == None \notin Token

VARIABLES
    stored,         \* account -> its row of the tokens table, or None
    issued,         \* the last number given out
    grants,         \* history: what became of each grant
    call,           \* caller -> where its call stands
    completion,     \* caller -> the completion task its call admitted
    exchanger,      \* account -> the API-key exchange of the gateway
    shutdown,       \* SHUTDOWN_REQUESTED
    drain,          \* drain_token_refresh_tasks
    signal          \* state of the drain's Notified

vars == <<stored, issued, grants, call, completion, exchanger, shutdown, drain, signal>>

(* A grant is live, or was spent by a completion or by an exchanger.  Of   *)
(* a spent one the answer may have been dropped (never received, or        *)
(* storage failed), or refused by the row because something else in it had *)
(* changed: overtaken for a completion, forfeited for an exchanger.        *)
Fate == {"live", "spent", "exchanged", "dropped", "overtaken", "forfeited"}

Call == [pc : {"idle", "lock", "slot", "register", "wait"},
         acc : Accounts \union {None}, token : Token \union {None}]

Completion == [pc : {"idle", "read", "exchange", "persist", "key", "persist_key"},
               acc : Accounts \union {None},
               expected : Token \union {None}, token : Token \union {None},
               new_id : BOOLEAN]

Exchanger == [pc : {"idle", "key", "grant", "persist", "key_again"},
              expected : Token \union {None}, token : Token \union {None}]

NoCall == [pc |-> "idle", acc |-> None, token |-> None]

NoCompletion == [pc |-> "idle", acc |-> None, expected |-> None, token |-> None,
                 new_id |-> FALSE]

NoExchange == [pc |-> "idle", expected |-> None, token |-> None]

TypeOK ==
    /\ stored \in [Accounts -> Token \union {None}]
    /\ issued \in Number
    /\ grants \in [Number -> Fate]
    /\ call \in [Callers -> Call]
    /\ completion \in [Callers -> Completion]
    /\ exchanger \in [Accounts -> Exchanger]
    /\ shutdown \in BOOLEAN
    /\ drain \in {"idle", "load", "await", "done"}
    /\ signal \in {"none", "waiting", "notified"}

Imported(n) == [root |-> n, grant |-> n, access |-> n, key |-> 0]

Init ==
    /\ stored = [a \in Accounts |-> None]
    /\ issued = 0
    /\ grants = [n \in Number |-> "live"]
    /\ call = [c \in Callers |-> NoCall]
    /\ completion = [c \in Callers |-> NoCompletion]
    /\ exchanger = [a \in Accounts |-> NoExchange]
    /\ shutdown = FALSE
    /\ drain = "idle"
    /\ signal = "none"

-----------------------------------------------------------------------------
(* The row and its writers.                                                *)

Issue == /\ issued < MaxIssued
         /\ issued' = issued + 1

Current_by_account(a, expected) == stored[a] # None

(* compare_and_swap_token: the row is replaced only if every credential in *)
(* it is the expected one; a missing row matches nothing.                  *)
Current(a, expected) == stored[a] # None /\ stored[a] = expected

CompareAndSwap(a, expected, next) ==
    stored' = IF Current(a, expected) THEN [stored EXCEPT ![a] = next] ELSE stored

(* insert_token by an import or a completed login: an upsert. *)
Import(a) ==
    /\ Issue
    /\ \E grant \in {0, issued'} :
           stored' = [stored EXCEPT ![a] = [Imported(issued') EXCEPT !.grant = grant]]
    /\ UNCHANGED <<grants, call, completion, exchanger, shutdown, drain, signal>>

DeleteAccount(a) ==
    /\ stored[a] # None
    /\ stored' = [stored EXCEPT ![a] = None]
    /\ UNCHANGED <<issued, grants, call, completion, exchanger, shutdown, drain, signal>>

(* try_refresh_websocket_bearer_async: clears a key the refresh did not    *)
(* replace, by compare-and-swap on the row it was returned; when that is   *)
(* no longer the row, nothing happens.                                     *)
ClearKey(a) ==
    /\ stored[a] # None /\ stored[a].key # 0
    /\ stored' = [stored EXCEPT ![a].key = 0]
    /\ UNCHANGED <<issued, grants, call, completion, exchanger, shutdown, drain, signal>>

(* A spent grant's answer reaches the row: it is lost if the row is not    *)
(* the expected one and still holds that grant.                            *)
Answered(a, expected, spent, fate) ==
    grants' = IF /\ grants[expected.grant] = spent
                 /\ ~Current(a, expected) /\ stored[a] # None
                 /\ stored[a].grant = expected.grant
              THEN [grants EXCEPT ![expected.grant] = fate]
              ELSE grants

(* A request has failed, perhaps after the provider had spent the grant. *)
Unanswered(fate) == IF fate = "live" THEN "dropped" ELSE fate

-----------------------------------------------------------------------------
(* resolve_openai_bearer_token: under its own per-account lock, and not    *)
(* under the refresh lock, exchanges the id token for an API key; if that  *)
(* fails it refreshes the credentials itself and tries once more.  It      *)
(* starts when the caller has read the row: the wait for the lock is part  *)
(* of "key", and by the exchange the row may be another one.  A return     *)
(* with a key that is cached by then changes nothing, as a failure does.   *)
BeginExchange(a) ==
    /\ exchanger[a].pc = "idle"
    /\ stored[a] # None
    /\ exchanger' = [exchanger EXCEPT
           ![a] = [pc |-> "key", expected |-> stored[a], token |-> stored[a]]]
    /\ UNCHANGED <<stored, issued, grants, call, completion, shutdown, drain, signal>>

(* exchange_and_persist_api_key_access_token succeeds. *)
KeyExchanged(a) ==
    /\ exchanger[a].pc \in {"key", "key_again"}
    /\ Issue
    /\ CompareAndSwap(a, exchanger[a].token, [exchanger[a].token EXCEPT !.key = issued'])
    /\ exchanger' = [exchanger EXCEPT ![a] = NoExchange]
    /\ UNCHANGED <<grants, call, completion, shutdown, drain, signal>>

KeyExchangeFails(a) ==
    /\ exchanger[a].pc \in {"key", "key_again"}
    /\ exchanger' = [exchanger EXCEPT
           ![a] = IF @.pc = "key" /\ @.token.grant # 0 THEN [@ EXCEPT !.pc = "grant"]
                                                       ELSE NoExchange]
    /\ UNCHANGED <<stored, issued, grants, call, completion, shutdown, drain, signal>>

ExchangerRefreshes(a) ==
    /\ exchanger[a].pc = "grant"
    /\ grants[exchanger[a].token.grant] = "live"
    /\ Issue
    /\ \E rotates \in BOOLEAN :
           /\ exchanger' = [exchanger EXCEPT
                  ![a].pc = "persist",
                  ![a].token.access = issued',
                  ![a].token.grant = IF rotates THEN issued' ELSE @]
           /\ grants' = IF rotates
                        THEN [grants EXCEPT ![exchanger[a].token.grant] = "exchanged"]
                        ELSE grants
    /\ UNCHANGED <<stored, call, completion, shutdown, drain, signal>>

ExchangerRefreshFails(a) ==
    /\ exchanger[a].pc = "grant"
    /\ grants' \in {grants, [grants EXCEPT ![exchanger[a].token.grant] = Unanswered(@)]}
    /\ exchanger' = [exchanger EXCEPT ![a] = NoExchange]
    /\ UNCHANGED <<stored, issued, call, completion, shutdown, drain, signal>>

(* persist_token_if_current, then the second key exchange on the row. *)
ExchangerPersists(a) ==
    LET next == IF Current(a, exchanger[a].expected) THEN exchanger[a].token ELSE stored[a]
    IN  /\ exchanger[a].pc = "persist"
        /\ CompareAndSwap(a, exchanger[a].expected, exchanger[a].token)
        /\ Answered(a, exchanger[a].expected, "exchanged", "forfeited")
        /\ exchanger' = [exchanger EXCEPT
               ![a] = IF next = None THEN NoExchange
                      ELSE [pc |-> "key_again", expected |-> next, token |-> next]]
        /\ UNCHANGED <<issued, call, completion, shutdown, drain, signal>>

ExchangerPersistFails(a) ==
    /\ exchanger[a].pc = "persist"
    /\ grants' = [grants EXCEPT ![exchanger[a].expected.grant] =
                     IF @ = "exchanged" THEN "dropped" ELSE @]
    /\ exchanger' = [exchanger EXCEPT ![a] = NoExchange]
    /\ UNCHANGED <<stored, issued, call, completion, shutdown, drain, signal>>

-----------------------------------------------------------------------------
(* refresh_and_persist_access_token_async, the caller's side.              *)

Running(c) == completion[c].pc # "idle"

HasSlot(c) == call[c].pc = "register" \/ Running(c)

(* The lock of account a is held from TakeLock until the completion ends. *)
HasLock(c, a) ==
    \/ call[c].pc \in {"slot", "register"} /\ call[c].acc = a
    \/ Running(c) /\ completion[c].acc = a

EndCall(c) == call' = [call EXCEPT ![c] = NoCall]

(* A caller is a task that had read the row; it is reused once its         *)
(* completion, which may outlive the call, is over.                        *)
BeginRefresh(c, a) ==
    /\ call[c].pc = "idle" /\ ~Running(c)
    /\ ~shutdown
    /\ stored[a] # None /\ stored[a].grant # 0
    /\ call' = [call EXCEPT ![c] = [pc |-> "lock", acc |-> a, token |-> stored[a]]]
    /\ UNCHANGED <<stored, issued, grants, completion, exchanger, shutdown, drain, signal>>

TakeLock_shared(c) ==
    /\ call[c].pc = "lock"
    /\ call' = [call EXCEPT ![c].pc = "slot"]
    /\ UNCHANGED <<stored, issued, grants, completion, exchanger, shutdown, drain, signal>>

TakeLock(c) ==
    /\ call[c].pc = "lock"
    /\ \A d \in Callers : ~HasLock(d, call[c].acc)
    /\ call' = [call EXCEPT ![c].pc = "slot"]
    /\ UNCHANGED <<stored, issued, grants, completion, exchanger, shutdown, drain, signal>>

TakeSlot(c) ==
    /\ call[c].pc = "slot"
    /\ Cardinality({d \in Callers : HasSlot(d)}) < Slots
    /\ IF shutdown THEN EndCall(c) ELSE call' = [call EXCEPT ![c].pc = "register"]
    /\ UNCHANGED <<stored, issued, grants, completion, exchanger, shutdown, drain, signal>>

(* The registration section: the shutdown flag is read again under the     *)
(* mutex, and the task spawned owns the slot and the lock.                 *)
Admit(c) ==
    /\ call' = [call EXCEPT ![c].pc = "wait"]
    /\ completion' = [completion EXCEPT
           ![c] = [NoCompletion EXCEPT !.pc = "read", !.acc = call[c].acc,
                                       !.expected = call[c].token, !.token = call[c].token]]

Register_unchecked(c) ==
    /\ call[c].pc = "register"
    /\ Admit(c)
    /\ UNCHANGED <<stored, issued, grants, exchanger, shutdown, drain, signal>>

Register(c) ==
    /\ call[c].pc = "register"
    /\ IF shutdown THEN EndCall(c) /\ UNCHANGED completion ELSE Admit(c)
    /\ UNCHANGED <<stored, issued, grants, exchanger, shutdown, drain, signal>>

Cancel_completion_too(c) ==
    /\ call[c].pc \in {"lock", "slot", "wait"}
    /\ EndCall(c)
    /\ completion' = [completion EXCEPT ![c] = NoCompletion]
    /\ UNCHANGED <<stored, issued, grants, exchanger, shutdown, drain, signal>>

(* with_response_cancellation, or the caller's future is dropped: every    *)
(* wait can be cancelled, and the completion goes on.                      *)
Cancel(c) ==
    /\ call[c].pc \in {"lock", "slot", "wait"}
    /\ EndCall(c)
    /\ UNCHANGED <<stored, issued, grants, completion, exchanger, shutdown, drain, signal>>

-----------------------------------------------------------------------------
(* complete_token_refresh, one action for each stretch between two waits.  *)

Return_silent(c) ==
    /\ completion' = [completion EXCEPT ![c] = NoCompletion]
    /\ EndCall(c)
    /\ UNCHANGED signal

(* The task returns: the caller, if it still waits, has its result, and    *)
(* the guards are dropped, which wakes the drain if it has registered.     *)
Return(c) ==
    /\ completion' = [completion EXCEPT ![c] = NoCompletion]
    /\ EndCall(c)
    /\ signal' = IF signal = "waiting" THEN "notified" ELSE signal

Proceed(c, pc) ==
    /\ completion' = [completion EXCEPT ![c].pc = pc]
    /\ UNCHANGED <<call, signal>>

(* The row is read again: if it is gone, or holds other credentials than   *)
(* the caller's, there is nothing to refresh.                              *)
Superseded(c) ==
    LET latest == stored[completion[c].acc]
    IN  \/ latest = None
        \/ latest.access # completion[c].token.access
        \/ latest.grant # completion[c].token.grant

ReadLatest(c) ==
    /\ completion[c].pc = "read"
    /\ \/ Return(c)              \* superseded, or the read failed
       \/ /\ ~Superseded(c)
          /\ completion' = [completion EXCEPT
                 ![c].pc = "exchange",
                 ![c].expected = stored[completion[c].acc],
                 ![c].token = stored[completion[c].acc]]
          /\ UNCHANGED <<call, signal>>
    /\ UNCHANGED <<stored, issued, grants, exchanger, shutdown, drain>>

(* The provider answers.  It may keep the grant, and need not send an id   *)
(* token; without one no API key is obtained.                              *)
Exchange(c) ==
    /\ completion[c].pc = "exchange"
    /\ grants[completion[c].token.grant] = "live"
    /\ Issue
    /\ \E rotates, new_id \in BOOLEAN :
           /\ completion' = [completion EXCEPT
                  ![c].pc = "persist",
                  ![c].token.access = issued',
                  ![c].token.grant = IF rotates THEN issued' ELSE @,
                  ![c].new_id = new_id]
           /\ grants' = IF rotates
                        THEN [grants EXCEPT ![completion[c].token.grant] = "spent"]
                        ELSE grants
    /\ UNCHANGED <<stored, call, exchanger, shutdown, drain, signal>>

(* The provider refuses, or both sends fail, perhaps after the grant was   *)
(* spent.  recover_refresh_race_from_latest_token only chooses what the    *)
(* caller is told.                                                         *)
ExchangeFails(c) ==
    /\ completion[c].pc = "exchange"
    /\ grants' \in {grants, [grants EXCEPT ![completion[c].token.grant] = Unanswered(@)]}
    /\ Return(c)
    /\ UNCHANGED <<stored, issued, exchanger, shutdown, drain>>

(* The first compare-and-swap; refused, the row is returned as it is. *)
Persist(c) ==
    LET a == completion[c].acc
        swapped == Current(a, completion[c].expected)
    IN  /\ completion[c].pc = "persist"
        /\ CompareAndSwap(a, completion[c].expected, completion[c].token)
        /\ Answered(a, completion[c].expected, "spent", "overtaken")
        /\ IF swapped /\ completion[c].new_id THEN Proceed(c, "key") ELSE Return(c)
        /\ UNCHANGED <<issued, exchanger, shutdown, drain>>

PersistFails(c) ==
    /\ completion[c].pc = "persist"
    /\ grants' = [grants EXCEPT ![completion[c].expected.grant] =
                     IF @ = "spent" THEN "dropped" ELSE @]
    /\ Return(c)
    /\ UNCHANGED <<stored, issued, exchanger, shutdown, drain>>

(* obtain_api_key_async on the new id token: optional. *)
ObtainKey(c) ==
    /\ completion[c].pc = "key"
    /\ Issue
    /\ completion' = [completion EXCEPT
           ![c].pc = "persist_key",
           ![c].expected = completion[c].token,
           ![c].token.key = issued']
    /\ UNCHANGED <<stored, grants, call, exchanger, shutdown, drain, signal>>

ObtainKeyFails(c) ==
    /\ completion[c].pc = "key"
    /\ Return(c)
    /\ UNCHANGED <<stored, issued, grants, exchanger, shutdown, drain>>

(* The second compare-and-swap, against the row as granted. *)
PersistKey(c) ==
    /\ completion[c].pc = "persist_key"
    /\ CompareAndSwap(completion[c].acc, completion[c].expected, completion[c].token)
    /\ Return(c)
    /\ UNCHANGED <<issued, grants, exchanger, shutdown, drain>>

-----------------------------------------------------------------------------
(* Shutdown: drain_token_refresh_tasks registers with the Notify before it *)
(* counts the completions, and waits only if there are some.               *)
RequestShutdown ==
    /\ ~shutdown
    /\ shutdown' = TRUE
    /\ UNCHANGED <<stored, issued, grants, call, completion, exchanger, drain, signal>>

DrainEnable ==
    /\ shutdown /\ drain = "idle"
    /\ drain' = "load"
    /\ signal' = "waiting"
    /\ UNCHANGED <<stored, issued, grants, call, completion, exchanger, shutdown>>

DrainLoad ==
    /\ drain = "load"
    /\ IF \E c \in Callers : Running(c)
       THEN drain' = "await" /\ UNCHANGED signal
       ELSE drain' = "done" /\ signal' = "none"
    /\ UNCHANGED <<stored, issued, grants, call, completion, exchanger, shutdown>>

(* changed.await. *)
DrainAwait ==
    /\ drain = "await" /\ signal = "notified"
    /\ drain' = "idle"
    /\ signal' = "none"
    /\ UNCHANGED <<stored, issued, grants, call, completion, exchanger, shutdown>>

(* clear_shutdown_flag: the desktop shell starts the service again in the  *)
(* same process once the old one has ended.                                *)
Restart ==
    /\ drain = "done"
    /\ shutdown' = FALSE
    /\ drain' = "idle"
    /\ UNCHANGED <<stored, issued, grants, call, completion, exchanger, signal>>

CallerStep(c) ==
    \/ \E a \in Accounts : BeginRefresh(c, a)
    \/ TakeLock(c)
    \/ TakeSlot(c)
    \/ Register(c)
    \/ Cancel(c)

CompletionStep(c) ==
    \/ ReadLatest(c)
    \/ Exchange(c)
    \/ ExchangeFails(c)
    \/ Persist(c)
    \/ PersistFails(c)
    \/ ObtainKey(c)
    \/ ObtainKeyFails(c)
    \/ PersistKey(c)

WriterStep(a) ==
    \/ Import(a)
    \/ DeleteAccount(a)
    \/ ClearKey(a)
    \/ BeginExchange(a)
    \/ KeyExchanged(a)
    \/ KeyExchangeFails(a)
    \/ ExchangerRefreshes(a)
    \/ ExchangerRefreshFails(a)
    \/ ExchangerPersists(a)
    \/ ExchangerPersistFails(a)

DrainStep == DrainEnable \/ DrainLoad \/ DrainAwait

Next ==
    \/ \E c \in Callers : CallerStep(c) \/ CompletionStep(c)
    \/ \E a \in Accounts : WriterStep(a)
    \/ RequestShutdown
    \/ DrainStep
    \/ Restart

Spec == Init /\ [][Next]_vars

(* Completions and the drain run on a tokio runtime, and every wait of a   *)
(* completion is an HTTP call with a timeout or a database call.  Nothing  *)
(* is assumed of callers and writers.                                      *)
Fairness ==
    /\ \A c \in Callers : WF_vars(CompletionStep(c))
    /\ WF_vars(DrainStep)

FairSpec == Spec /\ Fairness

-----------------------------------------------------------------------------
(* A completion holds the answer that replaces grant g of account a. *)
Holds(c, a, g) ==
    /\ completion[c].pc = "persist"
    /\ completion[c].acc = a
    /\ completion[c].expected.grant = g

(* "Once admitted, completion owns the grant and persists it even if the   *)
(* request waiting for it is cancelled": while a row holds a grant that a  *)
(* completion has spent, that completion is still there to store the       *)
(* answer, whatever its caller, a shutdown or a restart did meanwhile.     *)
(* The grants lost otherwise are the ones `grants` calls dropped (no       *)
(* answer, or storage failed) and overtaken.                               *)
GrantKept ==
    \A a \in Accounts : stored[a] # None =>
        /\ grants[stored[a].grant] = "spent" =>
               \E c \in Callers : Holds(c, a, stored[a].grant)
        /\ grants[stored[a].grant] = "exchanged" =>
               exchanger[a].pc = "persist" /\ exchanger[a].expected.grant = stored[a].grant

(* The same without the exception for overtaken grants: an answer a        *)
(* completion has received is stored unless the row has another grant.     *)
RotatedGrantStored ==
    \A a \in Accounts : stored[a] # None => grants[stored[a].grant] # "overtaken"

(* A grant that a completion has exchanged is presented by another one     *)
(* only if its answer was lost: none came or storage failed (dropped), or  *)
(* the row refused it and kept the spent grant (overtaken, which           *)
(* RotatedGrantStored is about).  It is not presented while the answer is  *)
(* on its way, after it was stored, or after an import or a deletion took  *)
(* its place: a caller that waited for the lock with the old row reads the *)
(* row again.  The gateway's exchange, under another lock, may spend a     *)
(* grant after a completion has read it.                                   *)
OnlyLostGrantsPresentedAgain ==
    \A c \in Callers : completion[c].pc = "exchange" =>
        \/ grants[completion[c].token.grant] = "live"
        \/ grants[completion[c].token.grant] \in {"dropped", "overtaken"}
        \/ grants[completion[c].token.grant] \in {"exchanged", "forfeited"}

(* No answer written late undoes what was stored meanwhile: only an import *)
(* brings a row back or changes whose credentials it holds, and between    *)
(* two imports grants and access tokens only get newer.                    *)
NeverOverwritesNewer ==
    [][\A a \in Accounts : stored'[a] # None /\ stored'[a] # stored[a] =>
           \/ stored'[a].root = issued'
           \/ /\ stored[a] # None
              /\ stored'[a].root = stored[a].root
              /\ stored'[a].access >= stored[a].access
              /\ stored'[a].grant >= stored[a].grant]_vars

(* After the drain no completion runs, and none is admitted until the      *)
(* service is started again.                                               *)
QuietAfterDrain == drain = "done" => \A c \in Callers : ~Running(c)

(* A shutdown ends: the drain misses no completion's end. *)
DrainEnds == shutdown ~> drain = "done"
=============================================================================
