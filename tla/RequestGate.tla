----------------------------- MODULE RequestGate -----------------------------
(***************************************************************************)
(* The request gate: requests with the same key, path and model are let    *)
(* through to the upstream one at a time                                   *)
(* (gateway/routing/request_gate.rs and                                    *)
(* gateway/upstream/proxy_pipeline/request_gate.rs).                       *)
(*                                                                         *)
(* A table maps each gate key to a reference-counted lock.  A lock is a    *)
(* held flag and a tokio Notify.  A request looks its lock up, tries it,   *)
(* and if it is taken registers with the Notify *before* trying again, so  *)
(* that a release between the two is not lost.  The wait may end by        *)
(* timeout, deadline or cancellation, and then the request goes on without *)
(* the gate (proxy.rs goes upstream with whatever it got, also with no     *)
(* guard).  A member of Requests stands for one request after another, so  *)
(* arrivals do not end.  Stale table entries are dropped by a cleanup that *)
(* runs inside the lookup, and a configuration reload empties the whole    *)
(* table.                                                                  *)
(*                                                                         *)
(* Time appears only as what it decides: `stale` holds the keys not looked *)
(* up for REQUEST_GATE_LOCK_TTL_SECS and `cleanup_due` says whether the    *)
(* cleanup interval is over.                                               *)
(***************************************************************************)
EXTENDS Naturals

CONSTANTS Requests, Keys, Locks, NoLock

ASSUME NoLockAssumption == NoLock \notin Locks

VARIABLES
    table,          \* gate key -> its lock, or NoLock
    stale,          \* keys whose entry outlived its time to live
    cleanup_due,    \* the cleanup interval is over
    held,           \* lock -> RequestGateState.held
    permit,         \* lock -> the Notify stores a permit
    pc,             \* request -> where it stands
    key,            \* request -> its gate key, while it refers to a lock
    lock,           \* request -> the lock it looked up
    signal,         \* request -> state of its Notified future
    orphaned        \* history: locks in use that a reload took out of the table

gateVars == <<table, stale, cleanup_due, held, permit, pc, key, lock, signal, orphaned>>

Waiting == {"try_first", "enable", "try_registered", "await"}

(* The last two conjuncts: a request refers to a lock exactly while it is  *)
(* at the gate or has its guard, and has a Notified only inside acquire_async.*)
GateTypeOK ==
    /\ table \in [Keys -> Locks \union {NoLock}]
    /\ stale \subseteq Keys
    /\ cleanup_due \in BOOLEAN
    /\ held \in [Locks -> BOOLEAN]
    /\ permit \in [Locks -> BOOLEAN]
    /\ pc \in [Requests -> Waiting \union {"idle", "holding"}]
    /\ key \in [Requests -> Keys]
    /\ lock \in [Requests -> Locks \union {NoLock}]
    /\ signal \in [Requests -> {"none", "waiting", "notified", "consumed"}]
    /\ orphaned \subseteq Locks
    /\ \A r \in Requests : lock[r] # NoLock <=> pc[r] \in Waiting \union {"holding"}
    /\ \A r \in Requests : signal[r] # "none" => pc[r] \in {"try_registered", "await"}

GateInit ==
    /\ table = [k \in Keys |-> NoLock]
    /\ stale = {}
    /\ cleanup_due = TRUE
    /\ held = [l \in Locks |-> FALSE]
    /\ permit = [l \in Locks |-> FALSE]
    /\ pc = [r \in Requests |-> "idle"]
    /\ key \in [Requests -> Keys]
    /\ lock = [r \in Requests |-> NoLock]
    /\ signal = [r \in Requests |-> "none"]
    /\ orphaned = {}

-----------------------------------------------------------------------------
(* Arc::strong_count(lock) > 1: someone besides the table refers to it. *)
InUse(l) == \E r \in Requests : lock[r] = l

(* maybe_cleanup_request_gate_locks: the table the cleanup leaves. *)
Kept_unless_stale(k) == ~cleanup_due \/ k \notin stale

Kept(k) == ~cleanup_due \/ k \notin stale \/ InUse(table[k])

CleanedTable == [k \in Keys |-> IF Kept(k) THEN table[k] ELSE NoLock]

(* Locks nobody refers to: the allocator may hand them out again. *)
Unreferenced == {l \in Locks : ~InUse(l) /\ \A k \in Keys : CleanedTable[k] # l}

-----------------------------------------------------------------------------
(* tokio::sync::Notify.  notify_one wakes one registered waiter of the     *)
(* lock, or stores one permit when there is none.                          *)
NotifyOne(l, sig) ==
    LET waiters == {r \in Requests : lock[r] = l /\ sig[r] = "waiting"}
    IN  IF waiters = {}
        THEN /\ permit' = [permit EXCEPT ![l] = TRUE]
             /\ signal' = sig
        ELSE /\ \E r \in waiters : signal' = [sig EXCEPT ![r] = "notified"]
             /\ UNCHANGED permit

(* Notified::enable takes a stored permit or registers the waiter. *)
EnableNotified(r) ==
    IF permit[lock[r]]
    THEN /\ permit' = [permit EXCEPT ![lock[r]] = FALSE]
         /\ signal' = [signal EXCEPT ![r] = "consumed"]
    ELSE /\ signal' = [signal EXCEPT ![r] = "waiting"]
         /\ UNCHANGED permit

(* Dropping a Notified that was woken but not polled passes the wake-up on. *)
DropNotified(r) ==
    IF signal[r] = "notified"
    THEN NotifyOne(lock[r], [signal EXCEPT ![r] = "none"])
    ELSE /\ signal' = [signal EXCEPT ![r] = "none"]
         /\ UNCHANGED permit

-----------------------------------------------------------------------------
(* request_gate_lock: a request with key k arrives; cleanup, then look the *)
(* key up or insert a new lock.                                            *)
request_gate_lock(r, k) ==
    /\ pc[r] = "idle"
    /\ IF CleanedTable[k] # NoLock
       THEN /\ table' = CleanedTable
            /\ lock' = [lock EXCEPT ![r] = CleanedTable[k]]
            /\ UNCHANGED <<held, permit, orphaned>>
       ELSE \E l \in Unreferenced :
            /\ table' = [CleanedTable EXCEPT ![k] = l]
            /\ lock' = [lock EXCEPT ![r] = l]
            /\ held' = [held EXCEPT ![l] = FALSE]
            /\ permit' = [permit EXCEPT ![l] = FALSE]
            /\ orphaned' = orphaned \ {l}
    /\ stale' = {j \in stale : Kept(j)} \ {k}
    /\ cleanup_due' = FALSE
    /\ key' = [key EXCEPT ![r] = k]
    /\ pc' = [pc EXCEPT ![r] = "try_first"]
    /\ UNCHANGED signal

(* The first try_acquire of acquire_request_gate_async. *)
TryFirst(r) ==
    /\ pc[r] = "try_first"
    /\ IF held[lock[r]]
       THEN /\ pc' = [pc EXCEPT ![r] = "enable"]
            /\ UNCHANGED held
       ELSE /\ held' = [held EXCEPT ![lock[r]] = TRUE]
            /\ pc' = [pc EXCEPT ![r] = "holding"]
    /\ UNCHANGED <<table, stale, cleanup_due, permit, key, lock, signal, orphaned>>

(* acquire_async: notified() and enable(). *)
Enable_none(r) ==
    /\ pc[r] = "enable"
    /\ pc' = [pc EXCEPT ![r] = "try_registered"]
    /\ UNCHANGED <<permit, signal>>
    /\ UNCHANGED <<table, stale, cleanup_due, held, key, lock, orphaned>>

Enable(r) ==
    /\ pc[r] = "enable"
    /\ EnableNotified(r)
    /\ pc' = [pc EXCEPT ![r] = "try_registered"]
    /\ UNCHANGED <<table, stale, cleanup_due, held, key, lock, orphaned>>

(* acquire_async: the try that follows the registration. *)
TryRegistered(r) ==
    /\ pc[r] = "try_registered"
    /\ IF held[lock[r]]
       THEN /\ pc' = [pc EXCEPT ![r] = "await"]
            /\ UNCHANGED <<held, permit, signal>>
       ELSE /\ held' = [held EXCEPT ![lock[r]] = TRUE]
            /\ pc' = [pc EXCEPT ![r] = "holding"]
            /\ DropNotified(r)
    /\ UNCHANGED <<table, stale, cleanup_due, key, lock, orphaned>>

(* notified.await completes and the loop starts over. *)
Wake(r) ==
    /\ pc[r] = "await"
    /\ signal[r] \in {"notified", "consumed"}
    /\ pc' = [pc EXCEPT ![r] = "enable"]
    /\ signal' = [signal EXCEPT ![r] = "none"]
    /\ UNCHANGED <<table, stale, cleanup_due, held, permit, key, lock, orphaned>>

(* The wait ends without the gate: gate timeout, total deadline or client  *)
(* cancellation while awaiting; cancellation before the first try (the     *)
(* select is biased), or a deadline already over when the first try fails. *)
(* There is no suspension point between a wake-up and the next try.        *)
GiveUp_keeps_arc(r) ==
    /\ pc[r] \in {"try_first", "await"}
    /\ pc' = [pc EXCEPT ![r] = "idle"]
    /\ DropNotified(r)
    /\ UNCHANGED <<table, stale, cleanup_due, held, key, lock, orphaned>>

GiveUp(r) ==
    /\ pc[r] \in {"try_first", "await"}
    /\ pc' = [pc EXCEPT ![r] = "idle"]
    /\ lock' = [lock EXCEPT ![r] = NoLock]
    /\ DropNotified(r)
    /\ UNCHANGED <<table, stale, cleanup_due, held, key, orphaned>>

(* Drop of the RequestGateGuard, when the response has been delivered. *)
Release_silent(r) ==
    /\ pc[r] = "holding"
    /\ held' = [held EXCEPT ![lock[r]] = FALSE]
    /\ lock' = [lock EXCEPT ![r] = NoLock]
    /\ pc' = [pc EXCEPT ![r] = "idle"]
    /\ UNCHANGED <<table, stale, cleanup_due, permit, key, signal, orphaned>>

Release(r) ==
    /\ pc[r] = "holding"
    /\ held' = [held EXCEPT ![lock[r]] = FALSE]
    /\ NotifyOne(lock[r], signal)
    /\ lock' = [lock EXCEPT ![r] = NoLock]
    /\ pc' = [pc EXCEPT ![r] = "idle"]
    /\ UNCHANGED <<table, stale, cleanup_due, key, orphaned>>

(* A configuration reload empties the table under everyone's feet. *)
clear_gate_runtime_state ==
    /\ table' = [k \in Keys |-> NoLock]
    /\ stale' = {}
    /\ cleanup_due' = TRUE
    /\ orphaned' = orphaned \union {l \in Locks : InUse(l)}
    /\ UNCHANGED <<held, permit, pc, key, lock, signal>>

(* Time: the cleanup interval passes, and some entries grow stale. *)
Elapse ==
    /\ cleanup_due' = TRUE
    /\ \E S \in SUBSET {k \in Keys : table[k] # NoLock} : stale' = stale \union S
    /\ UNCHANGED <<table, held, permit, pc, key, lock, signal, orphaned>>

Progress(r) ==
    TryFirst(r) \/ Enable(r) \/ TryRegistered(r) \/ Wake(r) \/ Release(r)

GateNext ==
    \/ \E r \in Requests : Progress(r) \/ GiveUp(r)
    \/ \E r \in Requests, k \in Keys : request_gate_lock(r, k)
    \/ clear_gate_runtime_state
    \/ Elapse

GateSpec == GateInit /\ [][GateNext]_gateVars

(* A request that can run is run by the async runtime, and a request that  *)
(* holds the gate ends: its upstream exchange is bounded by the stream     *)
(* timeouts and the guard is dropped with the response.  Arrivals, giving  *)
(* up, reloads and the clock are not assumed to happen.                    *)
GateFairSpec == GateSpec /\ \A r \in Requests : WF_gateVars(Progress(r))

-----------------------------------------------------------------------------
Holding(r) == pc[r] = "holding"

(***************************************************************************)
(* Two requests with the same gate key hold a RequestGateGuard at the same *)
(* time only if a configuration reload emptied the table while one of them *)
(* was using its lock; in particular the cleanup never drops a lock that a *)
(* request holds or waits for, even when the entry is long stale.  This is *)
(* about guards: a request that gave up waiting goes upstream without one, *)
(* beside the request that holds it.                                       *)
(***************************************************************************)
MutualExclusion ==
    \A r, s \in Requests :
        r # s /\ Holding(r) /\ Holding(s) /\ key[r] = key[s]
          => lock[r] # lock[s] /\ (lock[r] \in orphaned \/ lock[s] \in orphaned)

(***************************************************************************)
(* The comment at acquire_async: "Register before checking the state so    *)
(* release cannot be lost".  Whenever a lock is free and a request sleeps  *)
(* on it, another request on that lock is awake and about to try it, or    *)
(* has a wake-up in hand that it will use or pass on.  (One that was used  *)
(* up by a registration does not count: it is not passed on.)              *)
(***************************************************************************)
NoLostWakeup ==
    \A r \in Requests :
        pc[r] = "await" /\ signal[r] = "waiting" /\ ~held[lock[r]]
          => \E s \in Requests :
                /\ lock[s] = lock[r]
                /\ \/ pc[s] \in {"enable", "try_registered"}
                   \/ signal[s] = "notified"

(***************************************************************************)
(* With timeouts disabled (the default of REQUEST_GATE_WAIT_TIMEOUT_MS is  *)
(* 0) a request waits at the gate for ever only if new requests come to    *)
(* the same lock for ever.  try_acquire is not queued, so a newcomer may   *)
(* pass a waiter that was just woken, time and again: the code promises no *)
(* more than this, and no waiter is left behind once arrivals pause.       *)
(***************************************************************************)
StarvedOnlyByNewcomers ==
    \A r \in Requests :
        \/ []<>(pc[r] \notin Waiting)
        \/ []<>(\E s \in Requests \ {r} : pc[s] = "try_first" /\ lock[s] = lock[r])
=============================================================================
