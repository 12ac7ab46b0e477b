------------------------- MODULE CandidateSnapshot -------------------------
(***************************************************************************)
(* Where the candidate list of a request comes from                        *)
(* (gateway/routing/selection.rs): a process-wide snapshot cache in front  *)
(* of the account table, the quota guard, and the writers that invalidate  *)
(* the cache (account/account_status.rs, usage/usage_snapshot_store.rs).   *)
(*                                                                         *)
(* The cache is one entry behind a mutex, but a miss is not one critical   *)
(* section: the entry is read, the accounts and the usage are queried, and *)
(* the entry is written, with writers free to commit and invalidate in     *)
(* between.  The order of a list plays no part here, so a list is the set  *)
(* of its accounts, in two parts: those the quota guard found to be low    *)
(* and the others.  An account's latest usage is one of three levels: ok,  *)
(* low (at or under the reserve thresholds), and spent (nothing left, or   *)
(* figures missing).  Time appears only as the expiry of the entry.        *)
(***************************************************************************)
EXTENDS Naturals

CONSTANTS
    Accounts, Requests,
    Pool,               \* the accounts of a restricted key
    NoEntry,            \* the cache is empty
    NoTx,               \* no usage transaction is open
    MaxWrites           \* bound: writes to accounts, usage and settings

(* "disabled" also stands for inactive, unavailable and banned. *)
Status == {"active", "force_enabled", "limited", "disabled", "deleted"}

Level == {"ok", "low", "spent"}

Modes == {"NormalOnly", "AppendFallback"}

List == [normal : SUBSET Accounts, low : SUBSET Accounts]

Entry == [mode : Modes, list : List, expired : BOOLEAN]

Tx == [status : [Accounts -> Status], usage : [Accounts -> Level]]

ASSUME SnapshotAssumption ==
    /\ Pool \subseteq Accounts
    /\ NoEntry \notin Entry /\ NoTx \notin Tx
    /\ MaxWrites \in Nat

VARIABLES
    status, usage,      \* committed: account -> its state, its latest usage
    config,             \* the quota guard settings
    tx,                 \* what store_usage_snapshot has not committed yet
    pending,            \* how many invalidations are still to follow a write
    writes,             \* bound
    cache,              \* CANDIDATE_SNAPSHOT_CACHE
    pc,
    mode, restricted,   \* request -> what it asks for
    rows,               \* request -> the rows of list_gateway_candidates
    got                 \* request -> its list

db == <<status, usage, config, tx, pending, writes>>
request == <<pc, mode, restricted, rows, got>>
vars == <<db, cache, request>>

EmptyList == [normal |-> {}, low |-> {}]

NoRows == [a \in Accounts |-> "deleted"]

TypeOK ==
    /\ status \in [Accounts -> Status]
    /\ usage \in [Accounts -> Level]
    /\ config \in [enabled : BOOLEAN, fallback : BOOLEAN]
    /\ tx \in Tx \union {NoTx}
    /\ pending \in 0..writes
    /\ writes \in 0..MaxWrites
    /\ cache \in Entry \union {NoEntry}
    /\ pc \in [Requests -> {"idle", "collect", "guard", "write", "served"}]
    /\ mode \in [Requests -> Modes]
    /\ restricted \in [Requests -> BOOLEAN]
    /\ rows \in [Requests -> [Accounts -> Status]]
    /\ got \in [Requests -> List]
    /\ \A r \in Requests : got[r].normal \cap got[r].low = {}

Init ==
    /\ status = [a \in Accounts |-> "active"]
    /\ usage \in [Accounts -> {"ok", "low"}]
    /\ config = [enabled |-> TRUE, fallback |-> TRUE]
    /\ tx = NoTx
    /\ pending = 0
    /\ writes = 0
    /\ cache = NoEntry
    /\ pc = [r \in Requests |-> "idle"]
    /\ mode = [r \in Requests |-> "NormalOnly"]
    /\ restricted = [r \in Requests |-> FALSE]
    /\ rows = [r \in Requests |-> NoRows]
    /\ got = [r \in Requests |-> EmptyList]

-----------------------------------------------------------------------------
Goto(r, step) == pc' = [pc EXCEPT ![r] = step]

(* gateway_account_usage_filter_clause: which rows the query returns. *)
Usable(s, u) ==
    {a \in Accounts : s[a] = "force_enabled" \/ (s[a] = "active" /\ u[a] # "spent")}

Listed(s) == {a \in Accounts : s[a] # "deleted"}

(* read_candidate_cache: the entry answers only for its own mode, and only *)
(* until it expires; otherwise it is dropped.                              *)
Hit_any_mode(m) == cache # NoEntry /\ ~cache.expired

Hit_expired(m) == cache # NoEntry /\ cache.mode = m

Hit(m) == cache # NoEntry /\ cache.mode = m /\ ~cache.expired

(* A restricted pool bypasses the cache. *)
Bypasses(is_restricted) == is_restricted

read_candidate_cache(r) ==
    /\ pc[r] = "idle"
    /\ \E m \in Modes, p \in BOOLEAN :
         /\ mode' = [mode EXCEPT ![r] = m]
         /\ restricted' = [restricted EXCEPT ![r] = p]
         /\ \/ /\ Bypasses(p)
               /\ Goto(r, "collect")
               /\ UNCHANGED <<cache, got>>
            \/ /\ ~Bypasses(p) /\ Hit(m)
               /\ got' = [got EXCEPT ![r] = cache.list]
               /\ Goto(r, "served")
               /\ UNCHANGED cache
            \/ /\ ~Bypasses(p) /\ ~Hit(m)
               /\ cache' = NoEntry
               /\ Goto(r, "collect")
               /\ UNCHANGED got
    /\ UNCHANGED <<db, rows>>

(* collect_gateway_candidates_uncached: the query; it may fail. *)
list_gateway_candidates(r) ==
    /\ pc[r] = "collect"
    /\ \/ /\ rows' = [rows EXCEPT ![r] =
                        [a \in Accounts |->
                           IF a \in Usable(status, usage) /\ (restricted[r] => a \in Pool)
                           THEN status[a] ELSE "deleted"]]
          /\ Goto(r, "guard")
       \/ Goto(r, "idle") /\ UNCHANGED rows
    /\ UNCHANGED <<db, cache, mode, restricted, got>>

(* apply_quota_guard: low accounts that are not force-enabled are used     *)
(* only if there are no others, or appended if the request asks for it.    *)
Guarded(s, m, lowIds) ==
    LET lows   == IF config.enabled
                  THEN {a \in Listed(s) : a \in lowIds /\ s[a] # "force_enabled"} ELSE {}
        normal == Listed(s) \ lows
    IN  [normal |-> normal,
         low    |-> IF (normal = {} /\ config.fallback) \/ m = "AppendFallback"
                    THEN lows ELSE {}]

(* A failed query of the usage counts as nobody being low. *)
apply_quota_guard(r) ==
    /\ pc[r] = "guard"
    /\ \E lowIds \in {{a \in Accounts : usage[a] # "ok"}, {}} :
         LET g == Guarded(rows[r], mode[r], lowIds)
         IN  got' = [got EXCEPT ![r] =
                       [normal |-> g.normal, low |-> g.low]]
    /\ rows' = [rows EXCEPT ![r] = NoRows]
    /\ Goto(r, IF Bypasses(restricted[r]) THEN "served" ELSE "write")
    /\ UNCHANGED <<db, cache, mode, restricted>>

write_candidate_cache(r) ==
    /\ pc[r] = "write"
    /\ cache' = [mode |-> mode[r], list |-> got[r], expired |-> FALSE]
    /\ Goto(r, "served")
    /\ UNCHANGED <<db, mode, restricted, rows, got>>

(* The request is over and the next one may come. *)
NextRequest(r) ==
    /\ pc[r] = "served"
    /\ Goto(r, "idle")
    /\ mode' = [mode EXCEPT ![r] = "NormalOnly"]
    /\ restricted' = [restricted EXCEPT ![r] = FALSE]
    /\ got' = [got EXCEPT ![r] = EmptyList]
    /\ UNCHANGED <<db, cache, rows>>

(* CANDIDATE_CACHE_TTL_MS is over. *)
Expire ==
    /\ cache # NoEntry /\ ~cache.expired
    /\ cache' = [cache EXCEPT !.expired = TRUE]
    /\ UNCHANGED <<db, request>>

-----------------------------------------------------------------------------
(* The writers. *)

Write == writes < MaxWrites /\ writes' = writes + 1

(* set_account_status: committed at once, invalidated afterwards. *)
set_account_status(a, s) ==
    /\ Write
    /\ tx = NoTx /\ status[a] \notin {s, "deleted"}
    /\ status' = [status EXCEPT ![a] = s]
    /\ pending' = pending + 1
    /\ UNCHANGED <<usage, config, tx, cache, request>>

(* apply_status_from_snapshot: the states a new usage level may lead to.   *)
(* What is left is evaluated with the reserve, so an account that is spent *)
(* may still be active; missing figures leave the state alone.             *)
StatusAfter(s, level) ==
    IF s \in {"disabled", "force_enabled", "deleted"} THEN {s}
    ELSE IF level = "spent" THEN {s, "active", "limited"} ELSE {"active"}

(* store_usage_snapshot writes the usage and the status that follows from  *)
(* it in one transaction; a status change invalidates inside it as well.   *)
store_usage_snapshot(a, level) ==
    /\ Write
    /\ tx = NoTx
    /\ \E s \in StatusAfter(status[a], level) :
         /\ tx' = [status |-> [status EXCEPT ![a] = s],
                   usage  |-> [usage EXCEPT ![a] = level]]
         /\ cache' = IF status[a] # s THEN NoEntry ELSE cache
    /\ UNCHANGED <<status, usage, config, pending, request>>

CommitUsage ==
    /\ tx # NoTx
    /\ status' = tx.status
    /\ usage' = tx.usage
    /\ IF tx.status # status
       THEN pending' = pending + 1
       ELSE UNCHANGED pending
    /\ tx' = NoTx
    /\ UNCHANGED <<config, writes, cache, request>>

(* The insert, the pruning or the commit fails. *)
RollbackUsage ==
    /\ tx # NoTx
    /\ tx' = NoTx
    /\ UNCHANGED <<status, usage, config, pending, writes, cache, request>>

set_quota_guard_config(new) ==
    /\ Write
    /\ config' = new
    /\ pending' = pending + 1
    /\ UNCHANGED <<status, usage, tx, cache, request>>

invalidate_candidate_cache ==
    /\ pending > 0
    /\ cache' = NoEntry
    /\ pending' = pending - 1
    /\ UNCHANGED <<status, usage, config, tx, writes, request>>

(* The deletion of an account does not invalidate. *)
delete_account(a) ==
    /\ Write
    /\ tx = NoTx /\ status[a] # "deleted"
    /\ status' = [status EXCEPT ![a] = "deleted"]
    /\ UNCHANGED <<usage, config, tx, pending, cache, request>>

RequestStep(r) ==
    \/ read_candidate_cache(r) \/ list_gateway_candidates(r) \/ apply_quota_guard(r)
    \/ write_candidate_cache(r) \/ NextRequest(r)

Next ==
    \/ \E r \in Requests : RequestStep(r)
    \/ Expire
    \/ \E a \in Accounts :
         \/ delete_account(a)
         \/ \E s \in Status \ {"deleted"} : set_account_status(a, s)
         \/ \E level \in Level : store_usage_snapshot(a, level)
    \/ CommitUsage \/ RollbackUsage
    \/ \E new \in [enabled : BOOLEAN, fallback : BOOLEAN] : set_quota_guard_config(new)
    \/ invalidate_candidate_cache

Spec == Init /\ [][Next]_vars

(* Requests run, time passes, and whoever has written goes on to end its   *)
(* transaction and to invalidate.                                          *)
FairSpec ==
    /\ Spec
    /\ \A r \in Requests : WF_vars(RequestStep(r))
    /\ WF_vars(Expire)
    /\ WF_vars(CommitUsage \/ RollbackUsage)
    /\ WF_vars(invalidate_candidate_cache)

-----------------------------------------------------------------------------
(***************************************************************************)
(* A request that asks for normal candidates only never gets a mixed list, *)
(* even if the cache was filled by a request that appends the low ones:    *)
(* it gets normal accounts, or low ones because there are no others.       *)
(***************************************************************************)
ModesKeptApart ==
    \A r \in Requests :
        pc[r] = "served" /\ mode[r] = "NormalOnly"
          => got[r].normal = {} \/ got[r].low = {}

(***************************************************************************)
(* "Restricted pools deliberately bypass the global snapshot cache ... so  *)
(* an unrelated account cannot suppress its fallback" (selection.rs): a    *)
(* restricted key is given accounts of its pool only, and never fills the  *)
(* cache that the others read.                                             *)
(***************************************************************************)
PoolsKeptApart ==
    \A r \in Requests :
        pc[r] \in {"write", "served"} /\ restricted[r]
          => got[r].normal \union got[r].low \subseteq Pool /\ pc[r] # "write"

(***************************************************************************)
(* However collections, commits, invalidations and deletions overlap, once *)
(* the writes have stopped every request is soon given only accounts that  *)
(* are usable: what slips past an invalidation lives until the entry       *)
(* expires, and is not renewed by the requests that read it.               *)
(***************************************************************************)
EventuallyFresh ==
    <>[](\A r \in Requests :
            pc[r] = "served" => got[r].normal \union got[r].low \subseteq Usable(status, usage))
=============================================================================
