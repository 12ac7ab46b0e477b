-------------------------- MODULE UsageRefreshQueue --------------------------
(***************************************************************************)
(* The queue of usage refreshes (usage/refresh/queue.rs) and the count of  *)
(* background tasks that a shutdown waits for (usage/refresh/background.rs)*)
(*                                                                         *)
(* An account is queued at most once: enqueue marks it in a set of pending *)
(* accounts, under one mutex, and sends its task, under another; a worker  *)
(* runs the task and releases the mark.  At a shutdown every worker drops  *)
(* what it runs, releases the marks of what is still queued and ends; the  *)
(* channel closes with the last of them.  After the shutdown the service   *)
(* may start again in the same process, with the same set of marks; the    *)
(* first enqueue then makes a new channel and new workers.                 *)
(*                                                                         *)
(* The refresh itself is one step from its start to its end or its         *)
(* cancellation; what it does to the stored credentials is TokenRefresh.   *)
(* The workers of an executor are made in one step.                        *)
(***************************************************************************)
EXTENDS Naturals, Sequences

CONSTANTS
    Accounts,
    Enqueuers,      \* the scheduler and the requests that queue a refresh
    Workers,
    Capacity,       \* USAGE_REFRESH_QUEUE_CAPACITY
    None

ASSUME CapacityAssumption == Capacity \in Nat \ {0}

ASSUME NoneAssumption == None \notin Accounts

ASSUME WorkersAssumption == Workers # {} /\ Enqueuers \intersect Workers = {}

VARIABLES
    pending,        \* PENDING_USAGE_REFRESH_TASKS
    queue,          \* the channel: accounts of the tasks sent
    enqueuer,       \* enqueuer -> where it stands
    worker,         \* worker -> where it stands
    task,           \* enqueuer or worker -> the account it has in hand
    shutdown,       \* SHUTDOWN_REQUESTED
    drain,          \* drain_usage_background_tasks
    signal,         \* state of the drain's Notified
    stranded        \* history: accounts sent when no worker would look again

vars == <<pending, queue, enqueuer, worker, task, shutdown, drain, signal, stranded>>

TypeOK ==
    /\ pending \subseteq Accounts
    /\ queue \in Seq(Accounts) /\ Len(queue) <= Capacity
    /\ enqueuer \in [Enqueuers -> {"idle", "send", "unmark"}]
    /\ worker \in [Workers -> {"gone", "idle", "run", "drain", "leave"}]
    /\ task \in [Enqueuers \union Workers -> Accounts \union {None}]
    /\ shutdown \in BOOLEAN
    /\ drain \in {"idle", "load", "await", "done"}
    /\ signal \in {"none", "waiting", "notified"}
    /\ stranded \subseteq Accounts

Init ==
    /\ pending = {}
    /\ queue = <<>>
    /\ enqueuer = [e \in Enqueuers |-> "idle"]
    /\ worker = [w \in Workers |-> "gone"]
    /\ task = [x \in Enqueuers \union Workers |-> None]
    /\ shutdown = FALSE
    /\ drain = "idle"
    /\ signal = "none"
    /\ stranded = {}

InHand(x, a) == task' = [task EXCEPT ![x] = a]

(* sender.is_closed(), or there is no executor yet: the receiver lives as  *)
(* long as a worker does.                                                  *)
Closed == \A w \in Workers : worker[w] = "gone"

(* The channel is still open, but every worker has found it empty for good. *)
NoneReceives == ~Closed /\ \A w \in Workers : worker[w] \in {"leave", "gone"}

-----------------------------------------------------------------------------
(* enqueue_usage_refresh_async. *)

(* mark_usage_refresh_task_pending; nothing is done for an account that is *)
(* pending already.                                                        *)
Mark(e, a) ==
    /\ enqueuer[e] = "idle"
    /\ ~shutdown
    /\ a \notin pending
    /\ pending' = pending \union {a}
    /\ enqueuer' = [enqueuer EXCEPT ![e] = "send"]
    /\ InHand(e, a)
    /\ UNCHANGED <<queue, worker, shutdown, drain, signal, stranded>>

(* Under the executor's mutex: a closed channel is replaced, for which     *)
(* background::spawn refuses every worker during a shutdown; try_send      *)
(* refuses a task when the channel is full.                                *)
Sent(e) ==
    \/ Closed /\ ~shutdown
    \/ ~Closed /\ Len(queue) < Capacity

Send(e) ==
    /\ enqueuer[e] = "send"
    /\ IF Sent(e)
       THEN /\ queue' = Append(queue, task[e])
            /\ worker' = IF Closed THEN [w \in Workers |-> "idle"] ELSE worker
            /\ enqueuer' = [enqueuer EXCEPT ![e] = "idle"]
            /\ stranded' = IF NoneReceives THEN stranded \union {task[e]} ELSE stranded
            /\ InHand(e, None)
       ELSE /\ enqueuer' = [enqueuer EXCEPT ![e] = "unmark"]
            /\ UNCHANGED <<queue, worker, task, stranded>>
    /\ UNCHANGED <<pending, shutdown, drain, signal>>

(* clear_usage_refresh_task_pending after a task was refused. *)
Unmark(e) ==
    /\ enqueuer[e] = "unmark"
    /\ pending' = pending \ {task[e]}
    /\ enqueuer' = [enqueuer EXCEPT ![e] = "idle"]
    /\ InHand(e, None)
    /\ UNCHANGED <<queue, worker, shutdown, drain, signal, stranded>>

-----------------------------------------------------------------------------
(* The worker's loop.  The shutdown flag is polled every 100 ms, so a task *)
(* may still be received after it is set.                                  *)
Receive(w) ==
    /\ worker[w] = "idle"
    /\ queue # <<>>
    /\ queue' = Tail(queue)
    /\ worker' = [worker EXCEPT ![w] = "run"]
    /\ InHand(w, Head(queue))
    /\ UNCHANGED <<pending, enqueuer, shutdown, drain, signal, stranded>>

(* The future ends or panics; PendingGuard is dropped. *)
Finish(w) ==
    /\ worker[w] = "run"
    /\ pending' = pending \ {task[w]}
    /\ worker' = [worker EXCEPT ![w] = "idle"]
    /\ InHand(w, None)
    /\ UNCHANGED <<queue, enqueuer, shutdown, drain, signal, stranded>>

(* Both selects break at a shutdown; the one around the refresh drops the  *)
(* future, which cancels it, and PendingGuard.                             *)
Stop(w) ==
    /\ worker[w] \in {"idle", "run"}
    /\ shutdown
    /\ pending' = pending \ {task[w]}
    /\ worker' = [worker EXCEPT ![w] = "drain"]
    /\ InHand(w, None)
    /\ UNCHANGED <<queue, enqueuer, shutdown, drain, signal, stranded>>

Discard_keeps_mark(w) ==
    /\ worker[w] = "drain"
    /\ queue # <<>>
    /\ queue' = Tail(queue)
    /\ UNCHANGED <<pending, enqueuer, worker, task, shutdown, drain, signal, stranded>>

(* "Shutdown releases queued deduplication entries too." *)
Discard(w) ==
    /\ worker[w] = "drain"
    /\ queue # <<>>
    /\ pending' = pending \ {Head(queue)}
    /\ queue' = Tail(queue)
    /\ UNCHANGED <<enqueuer, worker, task, shutdown, drain, signal, stranded>>

EndDiscard_early(w) ==
    /\ worker[w] = "drain"
    /\ worker' = [worker EXCEPT ![w] = "leave"]
    /\ UNCHANGED <<pending, queue, enqueuer, task, shutdown, drain, signal, stranded>>

(* try_recv has found the channel empty. *)
EndDiscard(w) ==
    /\ worker[w] = "drain"
    /\ queue = <<>>
    /\ worker' = [worker EXCEPT ![w] = "leave"]
    /\ UNCHANGED <<pending, queue, enqueuer, task, shutdown, drain, signal, stranded>>

(* The task ends: its reference to the receiver is dropped, and with the   *)
(* last one the channel and what was sent after the last try_recv; then    *)
(* TaskGuard is dropped.                                                   *)
Leave(w) ==
    /\ worker[w] = "leave"
    /\ worker' = [worker EXCEPT ![w] = "gone"]
    /\ queue' = IF \A v \in Workers \ {w} : worker[v] = "gone" THEN <<>> ELSE queue
    /\ signal' = IF signal = "waiting" THEN "notified" ELSE signal
    /\ UNCHANGED <<pending, enqueuer, task, shutdown, drain, stranded>>

-----------------------------------------------------------------------------
(* Shutdown and restart, as in TokenRefresh. *)
RequestShutdown ==
    /\ ~shutdown
    /\ shutdown' = TRUE
    /\ UNCHANGED <<pending, queue, enqueuer, worker, task, drain, signal, stranded>>

DrainEnable ==
    /\ shutdown /\ drain = "idle"
    /\ drain' = "load"
    /\ signal' = "waiting"
    /\ UNCHANGED <<pending, queue, enqueuer, worker, task, shutdown, stranded>>

DrainLoad_off_by_one ==
    /\ drain = "load"
    /\ IF \E v \in Workers : \A w \in Workers \ {v} : worker[w] = "gone"
       THEN drain' = "done" /\ signal' = "none"
       ELSE drain' = "await" /\ UNCHANGED signal
    /\ UNCHANGED <<pending, queue, enqueuer, worker, task, shutdown, stranded>>

DrainLoad ==
    /\ drain = "load"
    /\ IF Closed
       THEN drain' = "done" /\ signal' = "none"
       ELSE drain' = "await" /\ UNCHANGED signal
    /\ UNCHANGED <<pending, queue, enqueuer, worker, task, shutdown, stranded>>

DrainAwait ==
    /\ drain = "await" /\ signal = "notified"
    /\ drain' = "idle"
    /\ signal' = "none"
    /\ UNCHANGED <<pending, queue, enqueuer, worker, task, shutdown, stranded>>

Restart ==
    /\ drain = "done"
    /\ shutdown' = FALSE
    /\ drain' = "idle"
    /\ UNCHANGED <<pending, queue, enqueuer, worker, task, signal, stranded>>

EnqueuerStep(e) == Send(e) \/ Unmark(e)

WorkerStep(w) ==
    \/ Receive(w)
    \/ Finish(w)
    \/ Stop(w)
    \/ Discard(w)
    \/ EndDiscard(w)
    \/ Leave(w)

DrainStep == DrainEnable \/ DrainLoad \/ DrainAwait

Next ==
    \/ \E e \in Enqueuers : EnqueuerStep(e) \/ \E a \in Accounts : Mark(e, a)
    \/ \E w \in Workers : WorkerStep(w)
    \/ RequestShutdown
    \/ DrainStep
    \/ Restart

Spec == Init /\ [][Next]_vars

(* An enqueuer that has marked an account goes on without waiting; workers *)
(* and the drain run on a tokio runtime, a refresh is HTTP with timeouts.  *)
Fairness ==
    /\ \A e \in Enqueuers : WF_vars(EnqueuerStep(e))
    /\ \A w \in Workers : WF_vars(WorkerStep(w))
    /\ WF_vars(DrainStep)

FairSpec == Spec /\ Fairness

-----------------------------------------------------------------------------
Queued == {queue[i] : i \in DOMAIN queue}

InTransit == {task[x] : x \in Enqueuers \union Workers} \ {None}

(* The marks are exact and exclusive through refusals, panics, shutdown    *)
(* and restart: an account is marked while exactly one task for it exists, *)
(* so no two workers refresh one account at a time and none is kept from   *)
(* being refreshed by a mark left behind.  The one exception is a task     *)
(* sent after the last worker found the channel empty for good: it dies    *)
(* with the channel, and its mark stays.                                   *)
MarksExact ==
    /\ pending = Queued \union InTransit \union stranded
    /\ (Queued \union stranded) \intersect InTransit = {}
    /\ \A i, j \in DOMAIN queue : queue[i] = queue[j] => i = j
    /\ \A x, y \in Enqueuers \union Workers : task[x] = task[y] => x = y \/ task[x] = None

(* An account that is marked is released again, unless it is stranded. *)
MarksReleased ==
    \A a \in Accounts : a \in pending ~> (a \notin pending \/ a \in stranded)

(* A shutdown ends, and leaves no worker behind. *)
WorkersEnd == shutdown ~> (drain = "done" /\ Closed)
=============================================================================
