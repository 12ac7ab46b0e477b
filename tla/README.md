# A TLA+ model of the Codex-Manager gateway

Codex-Manager pools many upstream accounts behind one local gateway. A request
comes in over HTTP, is checked and rewritten, is routed to one of the accounts,
is retried on others when an account fails, and is answered, logged and
accounted for. The difficult part is that all of this state is shared: many
requests, the background refreshers, the administration calls and the clients
that disconnect all act on the same tables, locks, counters and rows.

This directory models the routing core of the service (`crates/service`), the
background work that keeps accounts usable and logs stored, and the parts of the
storage crate (`crates/core`) they rest on. TLC checks the
models on small instances; TLAPS proves the safety properties for every value
of the constants.

    tlc -workers 2 -config RequestGate.cfg MCRequestGate
    tlapm RoutingProofs.tla

## 1. Inventory

Paths are relative to `crates/service/src` unless they start with `crates`.

| Component | State | Operations | Hard because |
|---|---|---|---|
| Account cooldown (`gateway/routing/cooldown.rs`) | deadlines, 429 counts and times, behind one mutex | mark, check, clear, reset | two offense maps updated from four places; marks of concurrent requests in any order |
| Request gate (`gateway/routing/request_gate.rs`) | table of locks per key, each with a flag and a `Notify` | look up with cleanup, try, register, wait, give up, release, reload | lost wake-ups, cleanup by age under holders, cancellation at every await |
| Conversation binding (`gateway/routing/conversation_binding.rs`) | one row per conversation, a routing context per request | load, filter, prepare, rotate, claim, record | read before an upstream call and written after it; cold starts race; accounts are deleted |
| Candidate snapshot cache and quota guard (`gateway/routing/selection.rs`) | one cached list with mode and expiry, guard settings | read, query, guard, write, invalidate | the cache is not locked between query and write |
| Candidate executor (`gateway/upstream/proxy_pipeline`) | position in the list, in-flight guards, retry round, outcome | skip, enter, attempt, retry, fail over, finalize, deliver | guards move between tasks; client, deadline and upstream race |
| Attempt flow (`gateway/upstream/attempt_flow`) | one attempt | alternative URL, refresh and retry after 401, stateless retry | several failures in one attempt |
| Route rotation and quality (`gateway/routing/route_hint.rs`, `route_quality.rs`) | cursors, scores | rotate, record, switch mode | cursors name accounts that come and go |
| HTTP admission and deferred responses (`http/gateway_endpoint.rs`, `gateway/observability/http_bridge`) | 32 permits, reservations | admit, reserve, deliver, drain | shutdown while tasks hand over |
| Responses websocket (`http/responses_websocket.rs`) | turns of a connection | open, turn, rebase, close | second front end of the same routing |
| Token refresh (`usage/usage_token_refresh.rs`, `gateway/auth/token_exchange.rs`) | lock per account, 16 slots, stored token | lock, refresh, compare-and-swap, key exchange, drain | a grant is rotated at the provider before it is stored; two writers with two locks |
| Reset credits (`usage/usage_reset_credits.rs`) | durable operations | claim, redeem, complete, fail, resume | a crash between the provider's answer and the commit |
| Usage refresh queue (`usage/refresh/queue.rs`) | pending set, bounded channel | enqueue, run, drain | pending marks and queue change separately |
| Request-log payload pipeline (`gateway/observability/request_log_payload_*.rs`, `crates/core/src/request_log_spill`) | two budgets, spill files, mirror of the generation | submit, spill, read, write, clear, replay | clearing while jobs are in memory, in hand, on disk and in a transaction; panics, torn files, restarts |
| Storage (`crates/core/src/storage`, `crates/storage-seaorm`, `crates/rusqlite`) | the database | SQL | transactions across components |
| Billing and quota (`quota`) | ledgers | charge, settle | sums over concurrent requests |
| Model catalog, settings, plugins, proxy registry, login, RPC dispatch | tables | administration | mostly sequential |
| Lifecycle and supervisor (`lifecycle`, `crates/start`) | processes | start, drain, stop | order of the drains |
| Web shell, desktop shell, frontend (`crates/web`, `apps`) | sessions, views | user interface | - |

How a request goes through them: the HTTP front end takes a permit and starts a
routing task; the task collects candidates (snapshot cache, quota guard), loads
and claims the conversation binding, rotates the list, waits at the request
gate, and hands the list to the candidate executor. The executor consults the
cooldown table and the in-flight counters, runs attempts, and leaves the
delivery of the answer to a second task, which writes the log record, the
account's verdict and the binding when the stream ends. Background tasks store
usage and change account states, and an administrator deletes accounts, changes
preferences and reloads the configuration at any time.

What makes each part correct:

* cooldown: no running cooldown is cut short except by a success or a reset;
  escalation on the 429 ladder is earned by recent 429s;
* gate: one guard per key, nobody sleeps at a free gate, and whoever waits for
  ever is overtaken again and again (a request that times out at the gate goes
  upstream without it, so the gate does not bound what is upstream);
* binding: concurrent cold starts meet on one account, a conversation moves only
  after a success elsewhere, and a request that gave up its binding for the model
  it asks for leaves the row alone unless it may create bindings;
* snapshot: lists do not leak between modes or pools, and staleness ends;
* executor: counters match the requests in flight, one answer and one log record
  per request, bounded retries, and nothing is sent for a client that has left;
* reset credits: an operation is charged at most once and completed only if it
  was charged, and one operation of an account is redeemed at a time;
* token refresh: a rotated grant is stored or known to be lost, a spent one is
  presented again only if it was lost, no late answer overwrites newer credentials, and a shutdown neither misses a completion nor waits for ever;
* usage queue: a mark stands for exactly one task and is released in the end;
* payload pipeline: nothing captured before a clear is stored after it, jobs are
  stored in order, clears throw away nothing else, and no failure leaks budget.

`PROJECT.json` lists the hazards behind these properties, each at its line.

## 2. Modules

| Module | Models | Run module | Proofs |
|---|---|---|---|
| `CooldownDeadlines` | abstract: until when each account is cooling | | |
| `CooldownService` | abstract: a set of cooling accounts, as the executor sees it | | |
| `AccountCooldown` | `cooldown.rs` | `MCAccountCooldown` | `RoutingProofs` |
| `RequestGate` | `request_gate.rs` (routing and pipeline) | `MCRequestGate` | `RoutingProofs` |
| `ConversationBinding` | `conversation_binding.rs`, the binding part of `request_setup.rs`, the binding rows, the model filter | `MCConversationBinding` | `ConversationBindingProofs` |
| `CandidateSnapshot` | `selection.rs` and the writers that invalidate | `MCCandidateSnapshot` | `CandidateSnapshotProofs` |
| `CandidateFailover` | `candidate_executor.rs`, `candidate_attempt.rs`, `response_finalize.rs`, in-flight counters, delivery task | `MCCandidateFailover` | `CandidateFailoverProofs` |
| `CreditLedger` | abstract: what an operation on a reset credit promises | | |
| `ResetCredit` | `usage_reset_credits.rs`, `reset_credit_operations.rs`, the consume call of `usage_http.rs` | `MCResetCredit` | `ResetCreditProofs` |
| `TokenRefresh` | `usage_token_refresh.rs`, `token_exchange.rs`, the token row and its other writers | `MCTokenRefresh` | `TokenRefreshProofs` |
| `UsageRefreshQueue` | `usage/refresh/queue.rs`, `background.rs`, the shutdown poll of `runner.rs` | `MCUsageRefreshQueue` | `UsageRefreshQueueProofs` |
| `PayloadQueue` | `request_log_payload_{pipeline,clear,spill,writer}.rs`, `request_log_spill/`, the clear RPC | `MCPayloadQueue` | `PayloadQueueProofs` |

Two abstract specifications stand for the cooldown table. `CooldownDeadlines` is
what it promises in time: an account that failed is cooling, it is released by
the clock exactly when its deadline is reached, a further failure never moves that
deadline to an earlier time, and otherwise only a success of the account or a
reset ends it. TLC checks that `AccountCooldown` implements it, and it is proved.
`CooldownService` forgets the time: any subset of the cooling accounts may leave
at any moment. It promises little, which is the point: `CandidateFailover` uses
it, so what holds for the executor holds over every table that implements it, and
`AccountCooldown` is proved to.
`RoutingProofs` extends two components, so the specification of `RequestGate`
has names of its own (`GateInit`, `GateNext`, `GateSpec`).

### AccountCooldown
One mutex protects the table, so each exported function is one action:
`mark_account_cooldown` with the cleanup and the ladder, the check that removes
an expired entry, `clear_account_cooldown` with the decay of the offense count,
and the reset. Hash maps are functions with 0 for "no entry". Two history
variables record the real 429s so that escalation can be compared with them, and
a third, `failed`, the accounts that failed at this instant, so that a failure
that cools nothing would not pass for a step that does nothing. The clock does not go back.

### RequestGate
A gate key maps to a lock; a lock is a flag and a tokio `Notify`. The wait loop
of `acquire_until_async` is its real sequence of steps: try, create and enable
the notification, try again, await. `GiveUp` is the end of the future at any of
its awaits (gate timeout, request deadline, client gone); after a timeout the
request goes upstream without a guard, where the gate no longer knows of it.
A member of `Requests` stands for one request after another: it arrives with any
key, leaves, and arrives again, so newcomers never stop coming and may pass a
waiter that was just woken, since `try_acquire` does not queue. `NotifyOne`,
`EnableNotified` and `DropNotified` are tokio's documented behaviour (external):
one stored permit, and a notified waiter that is dropped passes its notification
on. The table is cleaned by age, `Elapse` makes entries old, and
`clear_runtime_state` is the configuration reload.

### ConversationBinding
One conversation and its row. A request loads the row, filters candidates by
model, prepares (gives up a binding whose account does not serve the model,
applies a manual preference), rotates, claims in two SQL statements, attempts,
and records the outcome. Between any two of these steps others may do the same,
delete accounts, learn or forget unsupported models, and change the preference.
The filter and the check that gives a binding up read the same table of model
rejections at different times, so they can disagree; `unfit` is a history variable
of what the second one saw.
Only the head of the candidate order matters to the binding, so a list is a set
and a head.

### CandidateSnapshot
A miss is four steps: read the entry, query the accounts, apply the guard, write
the entry. Writers commit and invalidate in between; a usage transaction
invalidates before and after its commit, a deletion does not invalidate. A list
is two sets, low and normal; percentages are the levels ok, low and spent. A
settings change is one step, although the code stores four atomics one by one:
a guard that reads half of a change is left out.

### CandidateFailover
Each request has a list of candidates and walks it: check the deadline and the
client, skip cooling or busy accounts (never the last one, unless the request is
an Anthropic one), count itself in, attempt, and then one of: retry the same
account, fail over, retry without session state, answer, hand over to the
delivery task. An attempt is one step that ends with any of the decisions the
executor distinguishes; what happens inside it is the attempt flow, which is not
modelled yet. The client may leave and the deadline may pass at any time. Three
ways out of the hand-over leave an answer without a log record and are kept in
the history variable `unrecorded`: the delivery task cannot be started, it finds
no storage, or its finalization panics.

### ResetCredit
Calls in several processes share the database; each process has its own lock and
`interrupted` flag per account. Claim, replay and the terminal updates are one
transaction each (`BEGIN IMMEDIATE`), every await is a step of its own at which
the call can be cancelled, every write can fail, and a process can stop at any
step. The provider is external: a redeem request id is an idempotency key, so a
decision about an id is final, and a request whose answer nobody reads is lost or
arrives later. The balance is any answer, and saved results and messages are left
out. Pending rows that are older than the guard table (migration 136) may be
there at the start. `resumed` and `legacy` are history variables.

### TokenRefresh
The row of an account and everyone who writes it. A caller of
`refresh_and_persist_access_token_async` waits for the account's lock, then for a
slot (`TakeLock`, `TakeSlot`), is registered under a mutex (`Register`) and from
then on waits for a task of its own, the completion; it can leave at each wait
(`Cancel`), the completion cannot. The completion is one action per stretch
between two awaits: read the row again, exchange at the provider, first
compare-and-swap, optional API key, second compare-and-swap, each with its
failure. The gateway's key exchange (`BeginExchange` to `ExchangerPersistFails`)
works on the same row under another lock and may refresh by itself. Imports,
deletions and the websocket that clears a key are one step each. Credentials are
numbers from one counter, so "newer" is a comparison; `grants` is a history of
what the provider did with each grant: a failed request may have spent it, and
the provider may keep a grant instead of rotating it. A grant that a completion
spent is "dropped" when no answer came or storage failed, and "overtaken" when the
row refused the answer and kept the spent grant; these, and only these, can be
presented by a later completion. When a refresh is due is
left open, so a call may start at any time. The exchange starts when its caller
reads the row, and waits for its lock with that row; a second exchange of the
account that reads before the first one ends is not modelled: it finds the
first one's key, or its compare-and-swap on the older row is refused.

### UsageRefreshQueue
`Mark`, `Send` and `Unmark` are the three critical sections of
`enqueue_usage_refresh_async` (the set of marks and the executor have a mutex
each). A worker receives, runs, stops at a shutdown, discards what is queued and
leaves; the channel closes with its last worker, and a later enqueue makes a new
one. The set of marks outlives a stop and start in one process. The drain
registers with its `Notify` before it counts, as in `TokenRefresh`. `stranded`
is a history variable for the one exception of `MarksExact`, see below.

### PayloadQueue
Three actors and the clears. `Submit` is the request path: capture the mirror of
the generation and the clear epoch, route to memory or to the spill thread, or
drop the job at a full budget. The spill thread takes a step (roll, purge, job,
flush) under the queue's mutex and performs it outside, so each is two actions.
The writer refreshes the mirror, gathers from memory or from the files, writes
one transaction and marks it consumed; a batch that makes it panic is retried and
then skipped. A clear begins (thresholds, rolls), commits or fails in the database,
reads the new generation and purges. The handler of a clear can be dropped at its
await. Files are one stream of records with a `Gap` where a segment was closed
before its time; `Crash` keeps the database and the flushed stream and starts
everything else anew. `classify_generation` and `job_is_current` are `Accepted`.
Jobs have one size, so a budget is a number of jobs. `unstored`, `wronged` and
`passed` are history variables for the exceptions of `CaptureOrder` and
`KeptByClear`, see below.

## 3. Runs

| Run | Instance | Shows |
|---|---|---|
| `AccountCooldown` | 2 accounts, 3 rungs, 6 instants | offense maps agree, escalation is earned, no early release, refinement of `CooldownDeadlines` |
| `RequestGate` | 3 requests at a time that keep arriving, 2 keys, 2 locks, fair | one guard per key and table generation, no lost wake-up, a waiter starves only while newcomers keep passing it |
| `ConversationBinding` | 2 requests, 2 accounts, 1 model | convergence of cold starts, rebinding after success, a binding given up for the model stays as it is, no blind creation |
| `CandidateSnapshot` | 2 requests, 2 accounts, 1 write, fair | lists stay with their mode, staleness ends |
| `CandidateFailover` | 2 requests, 2 accounts, limit 1 | counters, outcomes, last candidate, retries, cancellation |
| `ResetCredit` | 2 processes with a call each, 2 accounts, 2 operations that may be old, 3 ids | one redemption per account, one id per operation, free first failures, refinement of `CreditLedger` |
| `SecondCharge` | 1 process, 1 account, 2 operations | finding, see below |
| `TokenRefresh` | 1 account, 2 callers, 2 slots, 3 issues, fair | rotated grants are kept, only lost ones are presented again, newer credentials stay, the drain is exact and ends |
| `RotatedGrantLost` | the same | finding, see below |
| `UsageRefreshQueue` | 3 accounts, 2 enqueuers, 2 workers, channel of 2, fair | marks are exact and released, shutdowns end |
| `PayloadQueue` | 2 jobs and one left by an earlier run, 2 clears, 1 fault, budgets and batches of 1 | nothing stale is stored, capture order, exact budgets, never stuck, clears spare current jobs |
| `DroppedClear` | 2 jobs and one left by an earlier run, 1 clear, 1 fault, fair | finding, see below |

Two requests on two accounts are enough for what the properties are about: every
race in this code is between one request and one other actor, and a list of two
has a candidate with a successor and a last one (`ConversationBinding` has 2.4
million states). The gate needs three requests, because a notification can be
passed on by a waiter that leaves; two locks are enough for one per key, or for
one that a reload orphaned beside its successor, and a request that would need a
third has to wait, which bounds the instance to 0.4 million states.
`MaxNow`, `MaxWrites`, `MaxCount` and `MaxCandidates` bound time, writes,
counters and lists; the proofs hold for every value of them. `ResetCredit` needs
one redeem id more than operations, so that a fresh one can always be drawn.
`TokenRefresh` (0.8 million states) needs one account, because accounts share
only the slots, and three issues: an import, a rotation, and a key or a second
import between them. Two callers contend for the lock; a caller's numbers are
never reused. Three accounts in `UsageRefreshQueue` (14,000 states) fill a channel
of two with one task in a worker's hands. In `PayloadQueue` (4 million states) a
budget of one job makes the second job spill. The number 1 is kept for the record
an earlier run may have left, so `MaxJobs` = 3 means that two jobs are captured: a
job in memory and one spilled, or both behind the leftover; that a third one
does not overtake them is left to the proof, which holds for every `MaxJobs`. Two
clears overlap, and the one fault is any of an I/O error in either thread, a
panic, a crash, a clear that fails and a clear that is dropped; a panic that
repeats on the same batch costs no further fault. It starts clean, or with a
record of an earlier run that was captured before a clear.
Deadlock is not checked where the system may stop: all requests have ended, or
time or the writes have run out.

Fairness:

* `RequestGate` - every request keeps running: the runtime polls a task that has
  been woken, and a holder ends (its upstream call is bounded by timeouts or its
  client leaves). Nothing is assumed of arrivals, and no timeout of a waiter.
* `CandidateSnapshot` - requests run, entries expire, a transaction ends and the
  writer that owes an invalidation runs it.
* `TokenRefresh` - completions and the drain go on: they run on the tokio
  runtime, and every wait of theirs is an HTTP call with a timeout or a database
  call. Nothing is assumed of callers and of the other writers.
* `UsageRefreshQueue` - an enqueuer that has marked an account goes on without
  waiting; workers and the drain are tasks of the runtime.
* `PayloadQueue` - the spill thread and the writer are threads with timed waits,
  a clear under way is driven by its RPC. Strong fairness of the write says that a
  batch is not for ever interrupted by refreshes of the mirror: the writer does
  both in turn in one loop (`write_prepared_batch` retries a busy database and
  refreshes between two tries).

### Findings

* `SecondCharge`: an operation whose request may have been charged is replayed,
  and the replay fails for a reason of its own (the token cannot be loaded, or a
  401 is followed by a failed refresh). The operation is then marked as failed
  and the account is free, so the next operation is charged as well.
  `FirstTryFailureIsFree` shows that this takes a replay.
* `RotatedGrantLost`: a completion has rotated the grant at the provider; before
  it stores the answer, the key exchange of the gateway, which has a lock of its
  own, writes an API key to the row. The compare-and-swap compares the whole row,
  refuses, and the new grant is dropped while the row keeps the spent one.
  `GrantKept` shows that nothing else loses an answer that was received, apart
  from a storage error.
* `DroppedClear`: the handler of `requestlog/clear` is dropped at its await when
  the client leaves or the request times out. The token it holds has no `Drop`, so
  the clear's threshold stays for the rest of the process; jobs held back for it
  count as handed off for ever and the queue never returns to memory. With
  `ClearDropped` taken out of `Next`, `QueueReturns` holds on the same instance.

Disagreements met while modelling that have no run of their own; the models
contain each of them:

* `request_setup.rs` line 69 says that a binding given up for its model stays
  valid for other models. `GivenUpBindingStays` shows it of requests that may not
  create bindings; one that may claims, reads the row back and adopts it, and a
  success elsewhere then moves it.
* `gateway/README.md` line 180 says that an account with limit 1 carries one
  request at a time; the check and the count are two lock acquisitions, so two
  requests exceed the limit although each has another candidate.
* `usage_snapshot_store.rs` line 458 says that no reader can retain pre-commit
  candidates after the second invalidation; a reader that queried before the
  commit writes its list after it. `EventuallyFresh` shows that the entry's
  expiry ends this.
* `queue.rs` line 105 says "Shutdown releases queued deduplication entries too."
  A task sent after the last worker found the channel empty, and before that
  worker is gone, dies with the channel, and its mark stays until the process
  ends: that account is not queued again after a stop and start. `MarksExact` and
  `MarksReleased` except exactly these accounts.
* `purge_after_clear` is said to keep jobs captured after the clear committed.
  Clear A commits, clear B begins and a job captured now is held back for B; B
  fails; A's purge then discards everything held. `KeptByClear` excepts exactly
  these jobs.
* `request_log_payload_writer.rs` line 4 says that "the global capture order is
  preserved". Clear A commits, clear B begins and a job captured now is held back
  for B; B fails while A is still under way, so the job stays held back although
  nothing withholds newer jobs of its generation any more: one of them is spilled
  and stored. If A then ends with an error after its commit, the job is requeued
  and stored after the newer one. This takes two failed clears and was met while
  the order was prepared for a proof; `CaptureOrder` excepts exactly the jobs that
  a newer one was spilled past while they were held back (`passed`).

## 4. Proofs

| Theorem | For every |
|---|---|
| `RoutingProofs`, of `AccountCooldown`: `TypeCorrect`, `OffenseMapsAlwaysAgree`, `EscalationAlwaysEarned`, `NeverReleasedEarly`, `RefinesCooldownDeadlines`, `RefinesCooldownService` | set of accounts, ladder, reason table, bound |
| `RoutingProofs`, of `RequestGate`: `GateTypeCorrect`, `GateExcludes`, `WakeupsNeverLost` | set of requests, keys, locks |
| `ConversationBindingProofs`: `TypeCorrect`, `ColdStartsAlwaysConverge`, `RebindsFollowSuccess`, `GivenUpBindingsStay`, `NeverBlindlyCreated` | set of accounts, requests, models |
| `CandidateSnapshotProofs`: `TypeCorrect`, `ModesAlwaysKeptApart`, `PoolsAlwaysKeptApart` | set of accounts, requests, pool, number of writes |
| `CandidateFailoverProofs`: `TypeCorrect`, `InflightAlwaysExact`, `AlwaysOneOutcome`, `LastCandidateAlwaysAnswers`, `NeverHammers`, `NothingEverSentForGoneClient` | finite set of requests, set of accounts, list length, limit |
| `ResetCreditProofs`: `TypeCorrect`, `AlwaysOneRedemption`, `AlwaysOneId`, `AlwaysOnePending`, `FirstFailureAlwaysFree`, `RefinesCreditLedger` | set of accounts, operations, ids, processes, callers, old operations |
| `TokenRefreshProofs`: `TypeCorrect`, `NothingRunsAfterDrain`, `NewerRowsStay`, `GrantsAlwaysKept`, `OnlyLostGrantsRepeat` | set of accounts, callers, number of slots and of issues |
| `UsageRefreshQueueProofs`: `TypeCorrect`, `MarksAlwaysExact` | set of accounts, enqueuers, workers, capacity |
| `PayloadQueueProofs`: `QueueNeverStuck`, `BudgetsAlwaysExact`, `StaleJobsNeverStored`, `ClearsAlwaysSpare`, `JobsStoredInOrder` | finite set of clears, budgets, batch size, number of jobs and faults |

Every proof has one shape: an inductive invariant, a lemma per action that the
invariant is kept, and the property from the invariant. Why the properties are
not inductive themselves:

* `CooldownInv` adds to the types and the agreement of the two offense maps that
  the time an account's offenses carry is the time of its last 429
  (`LastAtIsLast429`); without it a stored count could not be compared with the
  history that must have earned it.
* `GateInv` says that the lock of a request is the one the table still gives for
  its key unless a reload orphaned it, that a guard is held only on a lock whose
  flag is set, and that a lock has at most one guard; exclusion per lock then
  becomes exclusion per key and table generation.
* `WakeInv` says of every free lock with a sleeper that somebody on it is certain
  to try it, or holds a wake-up that is passed on when its owner gives up. A
  wake-up that the registration itself consumed does not count, as it is not
  passed on; `NoLostWakeup` states this stronger form.
* `BindingInv` follows each request through its steps: that one which gave its
  binding up and may not create another has none from then on (`GivenUpForGood`),
  that the head it starts with is the claimed account, and that a row
  beyond the first epoch has been served.
* `SnapshotInv` says that the cached list fits the mode it is kept for, that the
  rows of a restricted key are within its pool before the guard sees them, and
  that an open transaction still owes its invalidation.
* `FailoverInv` relates the position, the retry round, the guard, the calls made
  and the outcome of each request to its step, and the counters to the guards by
  cardinality.
* `LedgerInv` says that ids are distinct and stored before the provider sees
  them, that a call which works on a pending operation holds the account's guard
  under the stored id, that completed operations were charged, and that an
  operation which was never replayed is known to one call at most, which has cost
  nothing until it is accepted (`FirstTry`). The last part is what makes a failed
  first try safe against requests that arrive later.
* `RefreshInv` says of every token somebody carries between two steps that it is
  not newer than the last number issued, and of what a completion or an exchanger
  is about to store that it is not older than the row it expects to replace. With
  the compare-and-swap this orders the rows; no lock is used, so the order
  survives the exchanger and the completion working at once. A drain belongs to a
  shutdown, under which nothing is admitted.
* `OwnerInv` adds whose a grant is. The lock of an account is inherited by the
  completion, so one refresh of it runs at a time (`TurnInv`); no grant is seen by
  two accounts, in a row, a completion or an exchange (`OwnInv`); and what a
  completion or an exchanger carries to the row is a live grant that nobody else
  has seen, or the one the row has, which was then not rotated (`FateInv`). A
  grant in a row that is spent then has its answer on the way, and a completion
  presents a spent one only if the answer was lost.
* `MarkInv` says that a task is in hand exactly in the steps that work on one
  (`HandInv`), that a closed channel is empty, that while a worker may still take
  a task no queued one is stranded, and that when none may every queued one is
  (`ChannelInv`): a task a worker takes is then marked once and by nobody else.

* `BaseInv`, for the payload queue, is its types and the order of the positions in
  the spill files: nothing points past what is committed, that is within the
  files, and outside a disk batch the cursor is not past what is consumed.
* `HeldInv` says that jobs are held back only while some clear has a threshold,
  and that a threshold belongs to a clear that has not reported its end; with
  `BaseInv` this gives `NeverStuck`.
* `BudgetInv` adds to the exact budgets that a writer without a memory batch owes
  nothing. The releases of the code saturate at zero, and the proof shows that
  none ever does. It rests on how many records `Unflushed` counts when a record
  is appended, a segment is torn or rolled, and a flush commits.
* `StampInv` says that nothing in memory is ahead of the database's generation
  (`GenInv`), that the epochs count the clears under way (`CountInv`), and that the
  stamp of every job, wherever it is, tells whether a clear has committed since
  its capture (`JobOK`). `Carried(S)` says that every job of the queue is in S;
  that no step but `Submit` brings in others is proved once (`CarryStep`).
* `KeptInv` says when a clear may throw a job away. From the commit of a clear
  until the spill thread has recorded where its segment ends, everything in the
  files and in the thread's hand is dead, that is, of no use to any later
  transaction of this process; the same holds of the records before a recorded
  boundary (`PurgeInv`). A generation the writer read under an epoch that is still
  current is the database's (`ReadInv`), so the mirror never falls back.
* `OrderInv` is what `CaptureOrder` needs. The places a job passes through form a
  line: the writer's batch, memory, the files, the job in the spill thread's hand,
  the jobs held back, the hand-off. A job that may still be stored was captured
  before every job further back in the line that is not given up or passed
  (`Chain(Fits)`). The line alone is not inductive, because a job captured in
  memory mode goes to memory, in front of the files: so what is consumed, and in
  memory mode everything in the files, is done with (`DoneInv`), which in turn
  rests on `BudgetInv` (an empty hand-off means that nothing is held back, in hand
  or unflushed) and on `KeptInv` (a purge skips only dead records). What is left
  to store was captured after what is stored (`LaterInv`). `HeldInv` is needed
  where a job is taken past the ones held back: at most one of the two is still
  accepted, or the other is in `passed`.

The assumptions are the named `ASSUME`s of the modules: the shapes of the tables,
that the sets of requests (executor) and of clears are finite, and that model
values are not members of the sets they stand beside.

Only model-checked: liveness (`StarvedOnlyByNewcomers`, `EventuallyFresh`,
`DrainEnds`, `MarksReleased`, `WorkersEnd`), since liveness under fairness and
`ENABLED` are outside the prover's reach. Every invariant and every action property
of the passing runs is proved. That a request ends is
not stated as a property: each step of `CandidateFailover` moves forward in a list
or uses up one of the retries that `NeverHammers` bounds.

No module uses a `RECURSIVE` operator. `Pick`, which selects entries of a
sequence, is a recursive function; what it returns is proved for every sequence
from the well-foundedness of the natural numbers, applied to a set of numbers
(`AllNumbers`), as the library's induction theorems take an operator that the
provers cannot instantiate.

## 5. Plan

In this order:

1. `Admission`: permits, reservations and the order of the drains.
2. `RouteRotation`: cursors over changing candidate lists, mode switches,
   quality scores and their bounds.
3. The attempt flow inside `CandidateFailover`'s attempt, as a refinement.

## 6. Not modelled

Of the modelled components: thread anchors and key derivation (binding), what
happens inside an attempt (executor), percentages and the reserve-model pool
(snapshot), the scheduler that decides which refresh is due (token refresh, usage
queue), and of the payload pipeline retention, a database file that is replaced,
a disabled spill directory, a store installed late, threads that cannot be
started, and byte sizes. A reader that meets a gap in the files stops before it
and skips it in its next read, where the code skips it in the same one, and a
failing `maybe_sync` that abandons the segment is the failure of a flush. A panic inside the read itself (`request_log_payload_writer.rs` lines 235 to
242) is left out: `SpillReader::read` reports damaged records as results and has
no panic of its own. If it did panic, `reader_busy` would stay set and a purge would
wait for a read that waits for the purge. In the usage queue, the shutdown check
of an enqueue and its mark are one step; a shutdown between them is the shutdown
just after the mark.

Other components: wire formats, request rewriting, header profiles, catalog
data, the administration tables, login, plugins, the web and desktop shells are
conversions, I/O and user interface without shared state worth exploring. The
websocket front end, aggregate APIs, billing and storage migrations have state of
their own and are left out for now; where they touch the modelled parts (a
websocket clears a key, an aggregate answers an exhausted request, an account is
deleted) the step is an action there.
