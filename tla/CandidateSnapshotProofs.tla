----------------------- MODULE CandidateSnapshotProofs -----------------------
(***************************************************************************)
(* That the lists of the two modes and of restricted pools stay apart, for *)
(* any accounts, any pool, any number of requests and any number of        *)
(* writes.                                                                 *)
(***************************************************************************)
EXTENDS CandidateSnapshot, TLAPS

(* What makes a list fit for a mode. *)
ListOK(list, m) ==
    /\ list.normal \cap list.low = {}
    /\ m = "NormalOnly" => list.normal = {} \/ list.low = {}

(* The cached list fits the mode it is kept for. *)
CacheInv == cache # NoEntry => ListOK(cache.list, cache.mode)

(* A list that has been collected fits the mode of its request, and the    *)
(* rows and the list of a restricted key stay within its pool.             *)
RequestInv(r) ==
    /\ pc[r] \in {"write", "served"} => ListOK(got[r], mode[r])
    /\ pc[r] = "guard" /\ restricted[r] => Listed(rows[r]) \subseteq Pool
    /\ pc[r] \in {"write", "served"} /\ restricted[r]
          => got[r].normal \union got[r].low \subseteq Pool
    /\ pc[r] = "write" => ~restricted[r]

(* An open transaction has not yet caused the invalidation it will owe. *)
PendingInv == tx # NoTx => pending < writes

SnapshotInv ==
    /\ TypeOK
    /\ PendingInv
    /\ CacheInv
    /\ \A r \in Requests : RequestInv(r)

-----------------------------------------------------------------------------
(* apply_quota_guard produces a list that fits the mode, out of the rows. *)
LEMMA GuardedOK ==
    ASSUME NEW s \in [Accounts -> Status], NEW m \in Modes, NEW lowIds,
           config \in [enabled : BOOLEAN, fallback : BOOLEAN]
    PROVE  /\ Guarded(s, m, lowIds) \in [normal : SUBSET Accounts, low : SUBSET Accounts]
           /\ ListOK(Guarded(s, m, lowIds), m)
           /\ Guarded(s, m, lowIds).normal \union Guarded(s, m, lowIds).low \subseteq Listed(s)
<1> DEFINE lows   == IF config.enabled
                     THEN {a \in Listed(s) : a \in lowIds /\ s[a] # "force_enabled"} ELSE {}
           normal == Listed(s) \ lows
           kept   == IF (normal = {} /\ config.fallback) \/ m = "AppendFallback"
                     THEN lows ELSE {}
<1>1. Guarded(s, m, lowIds) = [normal |-> normal, low |-> kept]
  BY DEF Guarded
<1>2. lows \subseteq Listed(s) /\ Listed(s) \subseteq Accounts
  BY DEF Listed
<1>3. kept \subseteq lows /\ (m = "NormalOnly" => normal = {} \/ kept = {})
  OBVIOUS
<1> QED
  BY <1>1, <1>2, <1>3 DEF ListOK

LEMMA InitSnapshot == Init => SnapshotInv
BY SnapshotAssumption DEF Init, SnapshotInv, PendingInv, TypeOK, CacheInv, RequestInv, List, EmptyList,
   NoRows, Status, Level, Modes

LEMMA ReadStep ==
    ASSUME SnapshotInv, NEW r \in Requests, read_candidate_cache(r)
    PROVE  SnapshotInv'
<1> USE DEF db
<1>0. PendingInv'
  BY DEF SnapshotInv, PendingInv, read_candidate_cache
<1>1. PICK m \in Modes, p \in BOOLEAN :
        /\ mode' = [mode EXCEPT ![r] = m]
        /\ restricted' = [restricted EXCEPT ![r] = p]
        /\ \/ p /\ Goto(r, "collect") /\ UNCHANGED <<cache, got>>
           \/ /\ ~p /\ Hit(m) /\ got' = [got EXCEPT ![r] = cache.list]
              /\ Goto(r, "served") /\ UNCHANGED cache
           \/ ~p /\ cache' = NoEntry /\ Goto(r, "collect") /\ UNCHANGED got
  BY DEF read_candidate_cache, Bypasses
<1>2. Hit(m) => cache.list \in List /\ ListOK(cache.list, m)
  BY SnapshotAssumption DEF SnapshotInv, PendingInv, TypeOK, CacheInv, Hit, Entry
<1>3. TypeOK'
  BY <1>1, <1>2 DEF SnapshotInv, TypeOK, read_candidate_cache, Goto, ListOK
<1>4. CacheInv'
  BY <1>1 DEF SnapshotInv, CacheInv, ListOK
<1>5. \A q \in Requests : RequestInv(q)'
  BY <1>1, <1>2 DEF SnapshotInv, TypeOK, RequestInv, read_candidate_cache, Goto, ListOK, Listed
<1> QED
  BY <1>0, <1>3, <1>4, <1>5 DEF SnapshotInv

LEMMA ListStep ==
    ASSUME SnapshotInv, NEW r \in Requests, list_gateway_candidates(r)
    PROVE  SnapshotInv'
<1> USE DEF db
<1>1. CASE Goto(r, "idle") /\ UNCHANGED rows
  BY <1>1 DEF SnapshotInv, PendingInv, TypeOK, CacheInv, RequestInv, list_gateway_candidates, Goto,
     ListOK, Listed
<1>2. CASE /\ rows' = [rows EXCEPT ![r] =
                         [a \in Accounts |->
                            IF a \in Usable(status, usage) /\ (restricted[r] => a \in Pool)
                            THEN status[a] ELSE "deleted"]]
           /\ Goto(r, "guard")
  <2>1. TypeOK'
    BY <1>2 DEF SnapshotInv, TypeOK, list_gateway_candidates, Goto, Status
  <2>2. restricted[r] => Listed(rows'[r]) \subseteq Pool
    BY <1>2 DEF SnapshotInv, TypeOK, Listed
  <2>3. CacheInv'
    BY DEF SnapshotInv, CacheInv, ListOK, list_gateway_candidates
  <2>4. ASSUME NEW q \in Requests PROVE RequestInv(q)'
    BY <1>2, <2>2 DEF SnapshotInv, TypeOK, RequestInv, list_gateway_candidates, Goto,
       ListOK, Listed
  <2>5. PendingInv'
    BY DEF SnapshotInv, PendingInv, list_gateway_candidates
  <2> QED
    BY <2>1, <2>3, <2>4, <2>5 DEF SnapshotInv
<1> QED
  BY <1>1, <1>2 DEF list_gateway_candidates

LEMMA GuardStep ==
    ASSUME SnapshotInv, NEW r \in Requests, apply_quota_guard(r)
    PROVE  SnapshotInv'
<1> USE DEF db
<1>1. PICK lowIds : got' = [got EXCEPT ![r] =
                      [normal |-> Guarded(rows[r], mode[r], lowIds).normal,
                       low    |-> Guarded(rows[r], mode[r], lowIds).low]]
  BY DEF apply_quota_guard
<1> DEFINE g == Guarded(rows[r], mode[r], lowIds)
<1>2. /\ g \in [normal : SUBSET Accounts, low : SUBSET Accounts]
      /\ ListOK(g, mode[r])
      /\ g.normal \union g.low \subseteq Listed(rows[r])
  BY GuardedOK DEF SnapshotInv, TypeOK
<1> HIDE DEF g
<1>3. got' = [got EXCEPT ![r] = [normal |-> g.normal, low |-> g.low]]
  BY <1>1 DEF g
<1>4. TypeOK'
  BY <1>2, <1>3 DEF SnapshotInv, TypeOK, apply_quota_guard, Goto, NoRows, Status, List, ListOK
<1>5. CacheInv'
  BY DEF SnapshotInv, CacheInv, ListOK, apply_quota_guard
<1>6. ASSUME NEW q \in Requests PROVE RequestInv(q)'
  BY <1>2, <1>3 DEF SnapshotInv, TypeOK, RequestInv, apply_quota_guard, Goto, Bypasses,
     ListOK, Listed, List
<1>7. PendingInv'
  BY DEF SnapshotInv, PendingInv, apply_quota_guard
<1> QED
  BY <1>4, <1>5, <1>6, <1>7 DEF SnapshotInv

LEMMA WriteStep ==
    ASSUME SnapshotInv, NEW r \in Requests, write_candidate_cache(r)
    PROVE  SnapshotInv'
<1> USE DEF db
<1>1. cache' \in Entry /\ ListOK(cache'.list, cache'.mode)
  BY DEF SnapshotInv, TypeOK, RequestInv, write_candidate_cache, Entry, ListOK
<1> QED
  BY <1>1 DEF SnapshotInv, PendingInv, TypeOK, CacheInv, RequestInv, write_candidate_cache, Goto,
     ListOK, Listed

LEMMA NextRequestStep ==
    ASSUME SnapshotInv, NEW r \in Requests, NextRequest(r)
    PROVE  SnapshotInv'
BY DEF SnapshotInv, PendingInv, TypeOK, CacheInv, RequestInv, NextRequest, Goto, ListOK, Listed, db,
   EmptyList, List, Modes

LEMMA ExpireStep ==
    ASSUME SnapshotInv, Expire
    PROVE  SnapshotInv'
<1> USE DEF db, request
<1>1. cache' \in Entry /\ cache'.list = cache.list /\ cache'.mode = cache.mode
  BY DEF SnapshotInv, TypeOK, Expire, Entry
<1> QED
  BY <1>1 DEF SnapshotInv, PendingInv, TypeOK, CacheInv, RequestInv, Expire, ListOK, Listed

(* The writers change no request, and at most empty the cache. *)
LEMMA WriterStep ==
    ASSUME SnapshotInv, UNCHANGED request, cache' \in {cache, NoEntry},
           \/ \E a \in Accounts :
                \/ delete_account(a)
                \/ \E s \in Status \ {"deleted"} : set_account_status(a, s)
                \/ \E level \in Level : store_usage_snapshot(a, level)
           \/ CommitUsage \/ RollbackUsage
           \/ \E new \in [enabled : BOOLEAN, fallback : BOOLEAN] : set_quota_guard_config(new)
           \/ invalidate_candidate_cache
    PROVE  SnapshotInv'
<1>1. CacheInv' /\ \A r \in Requests : RequestInv(r)'
  BY DEF SnapshotInv, CacheInv, RequestInv, request, ListOK, Listed
<1>2. /\ status' \in [Accounts -> Status] /\ usage' \in [Accounts -> Level]
      /\ tx' \in Tx \union {NoTx} /\ config' \in [enabled : BOOLEAN, fallback : BOOLEAN]
  <2>1. ASSUME NEW a \in Accounts, NEW level \in Level, store_usage_snapshot(a, level)
        PROVE  tx' \in Tx /\ UNCHANGED <<status, usage, config>>
    BY <2>1 DEF SnapshotInv, TypeOK, store_usage_snapshot, StatusAfter, Status, Tx
  <2>2. ASSUME CommitUsage
        PROVE  status' \in [Accounts -> Status] /\ usage' \in [Accounts -> Level]
    BY <2>2 DEF SnapshotInv, TypeOK, CommitUsage, Tx
  <2> QED
    BY <2>1, <2>2 DEF SnapshotInv, TypeOK, Status, delete_account, set_account_status,
       CommitUsage, RollbackUsage, set_quota_guard_config, invalidate_candidate_cache
<1>3. /\ pending' \in 0..writes' /\ writes' \in 0..MaxWrites
      /\ PendingInv'
  BY SnapshotAssumption DEF SnapshotInv, TypeOK, PendingInv, Write, delete_account, set_account_status,
     store_usage_snapshot, CommitUsage, RollbackUsage, set_quota_guard_config,
     invalidate_candidate_cache
<1> QED
  BY <1>1, <1>2, <1>3 DEF SnapshotInv, TypeOK, request

LEMMA SnapshotStep == SnapshotInv /\ [Next]_vars => SnapshotInv'
<1> SUFFICES ASSUME SnapshotInv, [Next]_vars PROVE SnapshotInv'
  OBVIOUS
<1>1. CASE UNCHANGED vars
  BY <1>1 DEF vars, db, request, SnapshotInv, PendingInv, TypeOK, CacheInv, RequestInv, ListOK, Listed
<1>2. ASSUME NEW r \in Requests, RequestStep(r) PROVE SnapshotInv'
  BY <1>2, ReadStep, ListStep, GuardStep, WriteStep, NextRequestStep DEF RequestStep
<1>3. CASE Expire
  BY <1>3, ExpireStep
<1>4. ASSUME NEW a \in Accounts,
             \/ delete_account(a)
             \/ \E s \in Status \ {"deleted"} : set_account_status(a, s)
             \/ \E level \in Level : store_usage_snapshot(a, level)
      PROVE  SnapshotInv'
  BY <1>4, WriterStep DEF delete_account, set_account_status, store_usage_snapshot
<1>5. CASE CommitUsage \/ RollbackUsage \/ invalidate_candidate_cache
  BY <1>5, WriterStep DEF CommitUsage, RollbackUsage, invalidate_candidate_cache
<1>6. ASSUME NEW new \in [enabled : BOOLEAN, fallback : BOOLEAN], set_quota_guard_config(new)
      PROVE  SnapshotInv'
  BY <1>6, WriterStep DEF set_quota_guard_config
<1> QED
  BY <1>1, <1>2, <1>3, <1>4, <1>5, <1>6 DEF Next

LEMMA SnapshotInvariance == Spec => []SnapshotInv
BY InitSnapshot, SnapshotStep, PTL DEF Spec

-----------------------------------------------------------------------------
(***************************************************************************)
(* The state stays well-formed, and no list names an account both as       *)
(* normal and as low (apply_quota_guard, write_candidate_cache).           *)
(***************************************************************************)
THEOREM TypeCorrect == Spec => []TypeOK
BY SnapshotInvariance, PTL DEF SnapshotInv

(***************************************************************************)
(* read_candidate_cache never serves a request that wants normal accounts  *)
(* only with a list collected for a request that appends the low ones.     *)
(***************************************************************************)
THEOREM ModesAlwaysKeptApart == Spec => []ModesKeptApart
<1>1. SnapshotInv => ModesKeptApart
  BY DEF SnapshotInv, RequestInv, ModesKeptApart, ListOK
<1> QED
  BY <1>1, SnapshotInvariance, PTL

(***************************************************************************)
(* collect_gateway_candidates_for_account_ids_with_low_quota_mode gives a  *)
(* restricted key accounts of its pool only, whatever the cache holds, and *)
(* does not fill the cache.                                                *)
(***************************************************************************)
THEOREM PoolsAlwaysKeptApart == Spec => []PoolsKeptApart
<1>1. SnapshotInv => PoolsKeptApart
  BY DEF SnapshotInv, RequestInv, PoolsKeptApart
<1> QED
  BY <1>1, SnapshotInvariance, PTL
=============================================================================
