---------------------------- MODULE PayloadQueue ----------------------------
(***************************************************************************)
(* The queue that stores request payloads behind the request path          *)
(* (gateway/observability/request_log_payload_*.rs and                     *)
(* core/src/request_log_spill/) and its protocol with log clears.          *)
(*                                                                         *)
(* A job goes to memory while the budget allows it; the first that does    *)
(* not fit switches the queue to spilling, and from then on every job is   *)
(* handed to the spill thread, which appends it to files that the writer   *)
(* reads back, until nothing is left there.  The writer takes memory jobs  *)
(* first, then the files, one transaction after the other.                 *)
(*                                                                         *)
(* A log clear raises the generation in the database.  A job carries the   *)
(* generation that a mirror in memory held when it was captured, and is    *)
(* stored only while the database is still at it.  Around the database     *)
(* part a clear tells the queue that it begins (the spill thread starts a  *)
(* new segment and holds back what may have to go) and that it ended (what *)
(* was captured before it is thrown away).  A clear is an RPC: when its    *)
(* client leaves, the handler is dropped at its await, the database part   *)
(* still runs to its end, and nothing tells the queue.                     *)
(*                                                                         *)
(* The spill files are one stream of records; Gap is where a segment was   *)
(* closed before its time, and a position is the number of records and     *)
(* gaps before it.  Jobs have one size, so budgets are numbers of jobs.    *)
(* The spill directory is available; retention is not modelled.            *)
(***************************************************************************)
EXTENDS Integers, Sequences, FiniteSets, FiniteSetsExt

CONSTANTS
    Clears,         \* log clears, each tried once
    MemoryBudget, HandoffBudget,
    BatchMax,       \* BATCH_MAX_JOBS
    MaxJobs,        \* bound: jobs captured, those of the earlier run included
    MaxFaults,      \* bound: I/O errors, panics, crashes, clears that fail or
                    \* are dropped
    None, Gap

ASSUME BudgetAssumption ==
    MemoryBudget \in Nat /\ HandoffBudget \in Nat /\ BatchMax \in Nat \ {0}

ASSUME BoundAssumption ==
    MaxJobs \in Nat /\ MaxFaults \in Nat

ASSUME ClearsAssumption == IsFiniteSet(Clears)

(* What the queue carries: a captured payload with the generation it was   *)
(* captured at, which only the database knows, and the stamp it got.       *)
Job == [id : Nat, at : Nat, gen : Int, epoch : Int, boot : Nat]

ASSUME NullsAssumption == None \notin Int /\ Gap \notin Job

Unresolved == -1    \* GENERATION_UNRESOLVED

InFlight == -1      \* CLEAR_EPOCH_IN_FLIGHT

VARIABLES
    generation,     \* request_log_payload_state.generation
    written,        \* history: the jobs stored, in order, with the generations
                    \* they were captured and stored at
    clear_state,    \* ClearState: mirror, started, finished
    order,          \* SpillOrderState
    memory, handoff, held,
    marks,          \* the rest of QueueInner: what clears asked for
    stream,         \* the spill files
    in_flight,      \* disk_batch_in_flight
    writer, spill,  \* the two threads
    clear,          \* clear -> where it stands
    captured, boot, faults,
    unstored,       \* history: jobs the writer gave up
    wronged,        \* history: jobs a clear threw away though still current
    passed          \* history: jobs still held back for a clear that has failed
                    \* when a later job was spilled

vars == <<generation, written, clear_state, order, memory, handoff, held, marks,
          stream, in_flight, writer, spill, clear, captured, boot, faults,
          unstored, wronged, passed>>

dbVars == <<generation, written>>
queueVars == <<memory, handoff, held>>
histVars == <<unstored, wronged, passed>>

Fault == faults < MaxFaults /\ faults' = faults + 1

-----------------------------------------------------------------------------
(* ClearState. *)

CaptureEpoch ==
    IF clear_state.started = clear_state.finished THEN clear_state.started ELSE InFlight

ReadEpoch ==
    IF clear_state.started = clear_state.finished THEN clear_state.started ELSE None

(* The mirror after observe_generation(g, e): it moves up, and down only   *)
(* if no clear has run since epoch e was read.                             *)
Observed(g, e) ==
    IF g >= clear_state.mirror \/ (e # None /\ e = ReadEpoch) THEN g ELSE clear_state.mirror

Accepted_any_boot(job) ==
    IF job.gen >= 0
    THEN job.gen = generation
    ELSE job.epoch # InFlight /\ job.epoch = clear_state.started

(* classify_generation, and job_is_current for what it lets through: what  *)
(* the write transaction accepts.                                          *)
Accepted(job) ==
    IF job.gen >= 0
    THEN job.gen = generation
    ELSE /\ job.epoch # InFlight
         /\ job.boot = boot
         /\ job.epoch = clear_state.started

-----------------------------------------------------------------------------
(* SpillOrderState.  The releases saturate at zero. *)

ReleaseMemory(o, n) ==
    [o EXCEPT !.memory_jobs = IF @ >= n THEN @ - n ELSE 0]

FinishHandoff(o, n) ==
    [o EXCEPT !.handoff_jobs = IF @ >= n THEN @ - n ELSE 0]

SetCommitted(o, p) == [o EXCEPT !.committed = IF p > @ THEN p ELSE @]

SetConsumed(o, p) == [o EXCEPT !.consumed = IF p > @ THEN p ELSE @]

TryResume_with_backlog(o) ==
    IF o.handoff_jobs = 0 THEN [o EXCEPT !.spilling = FALSE] ELSE o

TryResume(o) ==
    IF o.handoff_jobs = 0 /\ o.consumed >= o.committed
    THEN [o EXCEPT !.spilling = FALSE]
    ELSE o

SkipStreamTo_committed(o, p) == TryResume(SetCommitted(o, p))

SkipStreamTo(o, p) == TryResume(SetConsumed(SetCommitted(o, p), p))

(* The entries of s at the positions in P, in their order. *)
Pick(s, P) ==
    LET picked[i \in 0..Len(s)] ==
            IF i = 0 THEN <<>>
            ELSE IF i \in P THEN Append(picked[i - 1], s[i]) ELSE picked[i - 1]
    IN  picked[Len(s)]

(* Jobs of the stream between two positions. *)
Records(from, upto) ==
    LET s == SubSeq(stream, from + 1, upto)
    IN  Pick(s, {i \in DOMAIN s : s[i] # Gap})

(* Appended, but not flushed yet. *)
Unflushed == Len(Records(order.committed, Len(stream)))

(* The next segment starts at the end of what is there. *)
Rolled(s) ==
    IF s = <<>> \/ s[Len(s)] = Gap THEN s ELSE Append(s, Gap)

(* finish_unflushed with n more jobs to release, the files holding s. *)
Settled(s, n) == SetCommitted(FinishHandoff(order, Unflushed + n), Len(s))

(* What may be left of the stream when a write or a flush fails. *)
Torn == {Rolled(SubSeq(stream, 1, k)) : k \in order.committed..Len(stream)}

-----------------------------------------------------------------------------
(* submit.  The snapshot is taken under the queue's lock. *)
Submit ==
    /\ captured < MaxJobs
    /\ captured' = captured + 1
    /\ LET job == [id |-> captured + 1, at |-> generation, gen |-> clear_state.mirror,
                   epoch |-> CaptureEpoch, boot |-> boot]
       IN \/ /\ ~order.spilling /\ order.memory_jobs < MemoryBudget
             /\ memory' = Append(memory, job)
             /\ order' = [order EXCEPT !.memory_jobs = @ + 1]
             /\ UNCHANGED handoff
          \/ /\ order.spilling \/ order.memory_jobs >= MemoryBudget
             /\ ~order.blocked
             /\ order.handoff_jobs = 0 \/ order.handoff_jobs < HandoffBudget
             /\ handoff' = Append(handoff, job)
             /\ order' = [order EXCEPT !.spilling = TRUE, !.handoff_jobs = @ + 1]
             /\ UNCHANGED memory
          \/ /\ order.spilling \/ order.memory_jobs >= MemoryBudget  \* dropped
             /\ order.blocked \/ (order.handoff_jobs > 0 /\ order.handoff_jobs >= HandoffBudget)
             /\ order' = [order EXCEPT !.spilling = @ \/ ~order.blocked]
             /\ UNCHANGED <<memory, handoff>>
    /\ UNCHANGED <<dbVars, clear_state, held, marks, stream, in_flight, writer, spill,
                   clear, boot, faults, histVars>>

-----------------------------------------------------------------------------
(* A clear, from begin_request_log_payload_clear to                        *)
(* finish_request_log_payload_clear.                                       *)

To(c, pc) == clear' = [clear EXCEPT ![c].pc = pc]

ClearStart(c) ==
    /\ clear[c].pc = "idle"
    /\ clear_state' = [clear_state EXCEPT !.started = @ + 1]
    /\ To(c, "begin")
    /\ UNCHANGED <<dbVars, order, queueVars, marks, stream, in_flight, writer, spill,
                   captured, boot, faults, histVars>>

(* PipelineShared::begin_clear. *)
ClearBegin(c) ==
    /\ clear[c].pc = "begin"
    /\ marks' = [marks EXCEPT !.thresholds[c] = clear_state.mirror,
                              !.rolls = @ \union {c}]
    /\ To(c, "run")
    /\ UNCHANGED <<dbVars, clear_state, order, queueVars, stream, in_flight, writer, spill,
                   captured, boot, faults, histVars>>

(* The transaction that removes the log rows and raises the generation. *)
ClearCommit(c) ==
    /\ clear[c].pc \in {"run", "detached"}
    /\ generation' = generation + 1
    /\ To(c, IF clear[c].pc = "run" THEN "committed" ELSE "lost")
    /\ UNCHANGED <<written, clear_state, order, queueVars, marks, stream, in_flight, writer,
                   spill, captured, boot, faults, histVars>>

(* An error, from the transaction or from the pragma after it. *)
ClearFails(c) ==
    /\ clear[c].pc \in {"run", "committed"}
    /\ Fault
    /\ To(c, "failed")
    /\ UNCHANGED <<dbVars, clear_state, order, queueVars, marks, stream, in_flight, writer,
                   spill, captured, boot, histVars>>

(* The client has left, or the request has timed out: the handler is       *)
(* dropped where it awaits the clear, which never runs if it had no slot   *)
(* yet, and goes on in a blocking task if it had.                          *)
ClearDropped(c) ==
    /\ Fault
    /\ \/ clear[c].pc = "run" /\ \E pc \in {"lost", "detached"} : To(c, pc)
       \/ clear[c].pc = "committed" /\ To(c, "lost")
    /\ UNCHANGED <<dbVars, clear_state, order, queueVars, marks, stream, in_flight, writer,
                   spill, captured, boot, histVars>>

(* The generation is read for the purge; the read may fail. *)
ClearRead(c) ==
    /\ clear[c].pc = "committed"
    /\ \/ clear' = [clear EXCEPT ![c] = [pc |-> "purge", gen |-> generation]] /\ UNCHANGED faults
       \/ clear' = [clear EXCEPT ![c] = [pc |-> "purge", gen |-> None]] /\ Fault
    /\ UNCHANGED <<dbVars, clear_state, order, queueVars, marks, stream, in_flight, writer,
                   spill, captured, boot, histVars>>

NoneRuns(thresholds) == \A c \in Clears : thresholds[c] = None

Thrown(jobs, isHeld) ==
    {[id |-> jobs[i].id, held |-> isHeld] : i \in {i \in DOMAIN jobs : Accepted(jobs[i])}}

(* purge_after_clear. *)
PurgeAfterClear(c) ==
    /\ clear[c].pc = "purge"
    /\ LET g         == clear[c].gen
           mirror    == IF g = None THEN clear_state.mirror ELSE Observed(g, None)
           threshold == IF g = None THEN mirror ELSE g
           Fresh(jobs) == {i \in DOMAIN jobs : jobs[i].gen >= 0 /\ jobs[i].gen >= threshold}
           Stale(jobs) == Pick(jobs, DOMAIN jobs \ Fresh(jobs))
           thresholds   == [marks.thresholds EXCEPT ![c] = None]
           gone         == IF NoneRuns(thresholds) THEN held ELSE <<>>
       IN /\ clear_state' = [clear_state EXCEPT !.mirror = mirror]
          /\ memory' = Pick(memory, Fresh(memory))
          /\ handoff' = Pick(handoff, Fresh(handoff))
          /\ held' = IF NoneRuns(thresholds) THEN <<>> ELSE held
          /\ order' = TryResume(FinishHandoff(
                          ReleaseMemory(order, Len(Stale(memory))),
                          Len(Stale(handoff)) + Len(gone)))
          /\ marks' = [marks EXCEPT !.thresholds = thresholds,
                                    !.rolls = @ \ {c},
                                    !.purges = @ \union {c},
                                    !.purge_seq = @ + 1]
          /\ wronged' = wronged \union Thrown(Stale(memory), FALSE)
                                \union Thrown(Stale(handoff), FALSE)
                                \union Thrown(gone, TRUE)
    /\ clear' = [clear EXCEPT ![c] = [pc |-> "finish", gen |-> None]]
    /\ UNCHANGED <<dbVars, stream, in_flight, writer, spill, captured, boot, faults, unstored,
                   passed>>

(* abandon_clear. *)
AbandonClear(c) ==
    /\ clear[c].pc = "failed"
    /\ LET thresholds == [marks.thresholds EXCEPT ![c] = None]
       IN /\ marks' = [marks EXCEPT !.thresholds = thresholds,
                                    !.rolls = @ \ {c},
                                    !.boundaries[c] = None]
          /\ handoff' = IF NoneRuns(thresholds) THEN held \o handoff ELSE handoff
          /\ held' = IF NoneRuns(thresholds) THEN <<>> ELSE held
    /\ clear' = [clear EXCEPT ![c] = [pc |-> "finish", gen |-> None]]
    /\ UNCHANGED <<dbVars, clear_state, order, memory, stream, in_flight, writer, spill,
                   captured, boot, faults, histVars>>

ClearFinish(c) ==
    /\ clear[c].pc = "finish"
    /\ clear_state' = [clear_state EXCEPT !.finished = @ + 1]
    /\ To(c, "done")
    /\ UNCHANGED <<dbVars, order, queueVars, marks, stream, in_flight, writer, spill,
                   captured, boot, faults, histVars>>

-----------------------------------------------------------------------------
(* The spill thread: next_step picks a roll, a purge, a job or a flush, in *)
(* that order of preference.                                               *)

SpillIdle == [pc |-> "step", seqs |-> {}, boundary |-> 0, job |-> None]

SpillRollTake ==
    /\ spill.pc = "step"
    /\ marks.rolls # {}
    /\ spill' = [SpillIdle EXCEPT !.pc = "roll", !.seqs = marks.rolls]
    /\ marks' = [marks EXCEPT !.rolls = {}]
    /\ UNCHANGED <<dbVars, clear_state, order, queueVars, stream, in_flight, writer, clear,
                   captured, boot, faults, histVars>>

(* roll, with a final flush that may fail, and finish_unflushed. *)
SpillRoll ==
    /\ spill.pc = "roll"
    /\ \/ stream' = Rolled(stream) /\ UNCHANGED faults
       \/ stream' \in Torn \ {Rolled(stream)} /\ Fault
    /\ order' = Settled(stream', 0)
    /\ marks' = [marks EXCEPT !.boundaries =
                     [c \in Clears |-> IF c \in spill.seqs THEN Len(stream') ELSE @[c]]]
    /\ spill' = SpillIdle
    /\ UNCHANGED <<dbVars, clear_state, queueVars, in_flight, writer, clear, captured, boot,
                   histVars>>

SpillPurgeTake_to_end ==
    /\ spill.pc = "step"
    /\ marks.rolls = {} /\ marks.purges # {}
    /\ writer.pc # "reading"
    /\ spill' = [SpillIdle EXCEPT !.pc = "purge", !.boundary = order.committed]
    /\ marks' = [marks EXCEPT !.purges = {},
                              !.boundaries = [c \in Clears |-> IF c \in marks.purges
                                                               THEN None ELSE @[c]]]
    /\ UNCHANGED <<dbVars, clear_state, order, queueVars, stream, in_flight, writer, clear,
                   captured, boot, faults, histVars>>

(* The purges are taken while no read is under way; without a boundary     *)
(* nothing is deleted.                                                     *)
SpillPurgeTake ==
    /\ spill.pc = "step"
    /\ marks.rolls = {} /\ marks.purges # {}
    /\ writer.pc # "reading"
    /\ LET recorded == {marks.boundaries[c] : c \in marks.purges} \ {None}
       IN spill' = IF recorded = {} THEN SpillIdle
                   ELSE [SpillIdle EXCEPT !.pc = "purge", !.boundary = Max(recorded)]
    /\ marks' = [marks EXCEPT !.purges = {},
                              !.boundaries = [c \in Clears |-> IF c \in marks.purges
                                                               THEN None ELSE @[c]]]
    /\ UNCHANGED <<dbVars, clear_state, order, queueVars, stream, in_flight, writer, clear,
                   captured, boot, faults, histVars>>

(* purge_before and skip_stream_to. *)
SpillPurge ==
    /\ spill.pc = "purge"
    /\ order' = SkipStreamTo(order, spill.boundary)
    /\ marks' = [marks EXCEPT !.read_start = Max({@, spill.boundary})]
    /\ wronged' = wronged \union Thrown(Records(order.consumed, spill.boundary), FALSE)
    /\ spill' = SpillIdle
    /\ UNCHANGED <<dbVars, clear_state, queueVars, stream, in_flight, writer, clear,
                   captured, boot, faults, unstored,
                   passed>>

(* A running clear may still throw this job away. *)
Withheld(job) ==
    \E c \in Clears : marks.thresholds[c] # None /\ job.gen <= marks.thresholds[c]

(* Withheld jobs at the front of the hand-off go aside; the first other    *)
(* one is taken.                                                           *)
SpillTake ==
    /\ spill.pc = "step"
    /\ marks.rolls = {} /\ marks.purges = {}
    /\ handoff # <<>>
    /\ LET free == {i \in DOMAIN handoff : ~Withheld(handoff[i])}
           n    == IF free = {} THEN Len(handoff) + 1 ELSE Min(free)
       IN /\ held' = held \o SubSeq(handoff, 1, n - 1)
          /\ handoff' = SubSeq(handoff, n + 1, Len(handoff))
          /\ spill' = IF free = {} THEN SpillIdle
                      ELSE [SpillIdle EXCEPT !.pc = "job", !.job = handoff[n]]
          /\ passed' = IF free = {} THEN passed
                       ELSE passed \union {held[i].id : i \in {i \in DOMAIN held : ~Withheld(held[i])}}
    /\ UNCHANGED <<dbVars, clear_state, order, memory, marks, stream, in_flight, writer, clear,
                   captured, boot, faults, unstored, wronged>>

SpillAppend ==
    /\ spill.pc = "job"
    /\ stream' = Append(stream, spill.job)
    /\ spill' = SpillIdle
    /\ UNCHANGED <<dbVars, clear_state, order, queueVars, marks, in_flight, writer, clear,
                   captured, boot, faults, histVars>>

(* The disk is full; or the write fails and the segment is abandoned; or   *)
(* the thread panics and closes the segment.  HandoffGuard is dropped.     *)
SpillAppendFails ==
    /\ spill.pc = "job"
    /\ Fault
    /\ \/ /\ order' = [FinishHandoff(order, 1) EXCEPT !.blocked = TRUE]
          /\ UNCHANGED stream
       \/ /\ stream' \in Torn \union {stream}
          /\ order' = Settled(stream', 1)
    /\ spill' = SpillIdle
    /\ UNCHANGED <<dbVars, clear_state, queueVars, marks, in_flight, writer, clear,
                   captured, boot, histVars>>

(* With nothing else to do, or once enough is unflushed. *)
SpillFlush ==
    /\ spill.pc = "step"
    /\ Unflushed > 0
    /\ \/ UNCHANGED <<stream, faults>>
       \/ stream' \in Torn /\ Fault
    /\ order' = Settled(stream', 0)
    /\ UNCHANGED <<dbVars, clear_state, queueVars, marks, in_flight, writer, spill, clear,
                   captured, boot, histVars>>

(* maintenance finds space again. *)
SpillUnblock ==
    /\ spill.pc = "step"
    /\ order.blocked
    /\ order' = [order EXCEPT !.blocked = FALSE]
    /\ UNCHANGED <<dbVars, clear_state, queueVars, marks, stream, in_flight, writer, spill,
                   clear, captured, boot, faults, histVars>>

-----------------------------------------------------------------------------
(* The writer thread.  Before it looks for work, and while it waits for    *)
(* the database's write lock, it may refresh the mirror.                   *)

WriterAt(pc) == [writer EXCEPT !.pc = pc, !.upto = 0, !.read_seq = 0, !.disk = FALSE, !.size = 0]

(* refresh_generation_mirror: the epoch, then the generation. *)
RefreshRead ==
    /\ writer.pc = "top" /\ writer.read = None
    /\ writer' = [writer EXCEPT !.read = [epoch |-> ReadEpoch, gen |-> generation]]
    /\ UNCHANGED <<dbVars, clear_state, order, queueVars, marks, stream, in_flight, spill,
                   clear, captured, boot, faults, histVars>>

RefreshObserve ==
    /\ writer.read # None
    /\ clear_state' = [clear_state EXCEPT !.mirror = Observed(writer.read.gen, writer.read.epoch)]
    /\ writer' = [writer EXCEPT !.read = None, !.pc = "gather"]
    /\ UNCHANGED <<dbVars, order, queueVars, marks, stream, in_flight, spill, clear,
                   captured, boot, faults, histVars>>

(* The same while SQLite is busy, between two attempts at a batch. *)
RefreshBusy ==
    /\ writer.pc = "write" /\ writer.batch # <<>>
    /\ clear_state.mirror # generation
    /\ clear_state' = [clear_state EXCEPT !.mirror = Observed(generation, ReadEpoch)]
    /\ UNCHANGED <<dbVars, order, queueVars, marks, stream, in_flight, writer, spill, clear,
                   captured, boot, faults, histVars>>

(* gather: after a purge the cursor is set anew; then memory, then the     *)
(* files, unless a purge is due.                                           *)
Gather ==
    /\ writer.pc \in {"top", "gather"} /\ writer.read = None
    /\ LET reset  == marks.purge_seq # writer.seq /\ marks.purges = {}
           cursor == IF reset THEN Max({marks.read_start, order.consumed}) ELSE writer.cursor
           seq    == IF reset THEN marks.purge_seq ELSE writer.seq
           n      == Min({BatchMax, Len(memory)})
           at     == [writer EXCEPT !.cursor = cursor, !.seq = seq]
       IN \/ /\ memory # <<>>
             /\ memory' = SubSeq(memory, n + 1, Len(memory))
             /\ writer' = [at EXCEPT !.pc = "write", !.disk = FALSE, !.size = n,
                                     !.batch = SubSeq(memory, 1, n)]
             /\ UNCHANGED order
          \/ /\ memory = <<>>
             /\ marks.purges = {} /\ cursor < order.committed
             /\ writer' = [at EXCEPT !.pc = "reading", !.upto = order.committed,
                                     !.read_seq = marks.purge_seq]
             /\ UNCHANGED <<memory, order>>
          \/ /\ memory = <<>>
             /\ marks.purges # {} \/ cursor >= order.committed
             /\ order' = TryResume(order)
             /\ writer' = [at EXCEPT !.pc = "top"]
             /\ UNCHANGED memory
    /\ UNCHANGED <<dbVars, clear_state, handoff, held, marks, stream, in_flight, spill, clear,
                   captured, boot, faults, histVars>>

DiskDone(o, p) == TryResume(SetConsumed(o, p))

(* SpillReader::read up to the committed position of before, or up to the  *)
(* BatchMax-th record.                                                     *)
ReadNext ==
    LET enough == {p \in writer.cursor..writer.upto : Len(Records(writer.cursor, p)) >= BatchMax}
    IN IF enough = {} THEN writer.upto ELSE Min(enough)

(* What is read is dropped if a clear purged the queue meanwhile. *)
ReadEnd ==
    /\ writer.pc = "reading"
    /\ LET next  == ReadNext
           batch == Records(writer.cursor, next)
           same  == in_flight # None /\ in_flight.start = writer.cursor
       IN \/ /\ marks.purge_seq # writer.read_seq
             /\ writer' = WriterAt("gather")
             /\ UNCHANGED <<order, in_flight>>
          \/ /\ marks.purge_seq = writer.read_seq
             /\ batch = <<>>
             /\ order' = DiskDone(order, next)
             /\ writer' = [WriterAt("gather") EXCEPT !.cursor = next]
             /\ UNCHANGED in_flight
          \/ /\ marks.purge_seq = writer.read_seq
             /\ batch # <<>>
             /\ in_flight' = [start |-> writer.cursor, next |-> next,
                              panics |-> IF same THEN in_flight.panics ELSE 0]
             /\ writer' = [WriterAt("write") EXCEPT !.cursor = next, !.disk = TRUE, !.size = 0,
                                                    !.batch = batch]
             /\ UNCHANGED order
    /\ UNCHANGED <<dbVars, clear_state, queueVars, marks, stream, spill, clear, captured, boot,
                   faults, histVars>>

Ids(jobs) == {jobs[i].id : i \in DOMAIN jobs}

(* Reading has failed READ_ERROR_SKIP_AFTER times: everything up to the    *)
(* committed position is skipped.                                          *)
ReadGivesUp ==
    /\ writer.pc = "reading"
    /\ marks.purge_seq = writer.read_seq
    /\ Fault
    /\ order' = DiskDone(order, writer.upto)
    /\ unstored' = unstored \union Ids(Records(writer.cursor, writer.upto))
    /\ writer' = [WriterAt("gather") EXCEPT !.cursor = writer.upto]
    /\ UNCHANGED <<dbVars, clear_state, queueVars, marks, stream, in_flight, spill, clear,
                   captured, boot, wronged, passed>>

Stored(job) == \E i \in DOMAIN written : written[i].id = job.id

(* The job at the head of the batch, in a transaction: a larger one is a   *)
(* sequence of these with nothing between them.  A job that is stored      *)
(* already is left alone.                                                  *)
Write ==
    /\ writer.pc = "write" /\ writer.read = None
    /\ writer.batch # <<>>
    /\ clear_state' = [clear_state EXCEPT !.mirror = Observed(generation, ReadEpoch)]
    /\ LET job == Head(writer.batch)
       IN \/ /\ written' = IF Accepted(job) /\ ~Stored(job)
                           THEN Append(written, [id |-> job.id, at |-> job.at, gen |-> generation])
                           ELSE written
             /\ UNCHANGED <<faults, unstored>>
          \/ Fault /\ unstored' = unstored \union {job.id} /\ UNCHANGED written
    /\ writer' = [writer EXCEPT !.batch = Tail(@)]
    /\ UNCHANGED <<generation, order, queueVars, marks, stream, in_flight, spill, clear,
                   captured, boot, wronged, passed>>

(* InFlightGuard is dropped, or mark_consumed. *)
WriteEnd ==
    /\ writer.pc = "write" /\ writer.read = None
    /\ writer.batch = <<>>
    /\ IF writer.disk
       THEN /\ order' = DiskDone(order, in_flight.next)
            /\ in_flight' = None
       ELSE /\ order' = ReleaseMemory(order, writer.size)
            /\ UNCHANGED in_flight
    /\ writer' = WriterAt("top")
    /\ UNCHANGED <<dbVars, clear_state, queueVars, marks, stream, spill, clear, captured, boot,
                   faults, histVars>>

WriterNew(cursor, seq) ==
    [pc |-> "top", cursor |-> cursor, seq |-> seq, upto |-> 0, read_seq |-> 0, disk |-> FALSE,
     size |-> 0, batch |-> <<>>, read |-> None]

WriterPanics_leaks ==
    /\ writer.pc = "write"
    /\ Fault
    /\ ~writer.disk
    /\ unstored' = unstored \union Ids(writer.batch)
    /\ writer' = WriterNew(Max({marks.read_start, order.consumed}), marks.purge_seq)
    /\ UNCHANGED <<dbVars, clear_state, order, in_flight, queueVars, marks, stream, spill,
                   clear, captured, boot, wronged, passed>>

(* The thread panics in a batch and starts again: memory jobs are dropped  *)
(* with InFlightGuard; a disk batch is read again, and skipped the second  *)
(* time (skip_poisoned_disk_batch), which is the same fault.               *)
WriterPanics ==
    /\ writer.pc = "write"
    /\ IF writer.disk /\ in_flight.panics > 0 THEN UNCHANGED faults ELSE Fault
    /\ \/ /\ ~writer.disk
          /\ order' = ReleaseMemory(order, writer.size)
          /\ unstored' = unstored \union Ids(writer.batch)
          /\ UNCHANGED in_flight
       \/ /\ writer.disk /\ in_flight.panics = 0
          /\ in_flight' = [in_flight EXCEPT !.panics = 1]
          /\ UNCHANGED <<order, unstored>>
       \/ /\ writer.disk /\ in_flight.panics > 0
          /\ order' = DiskDone(order, in_flight.next)
          /\ unstored' = unstored \union Ids(writer.batch)
          /\ in_flight' = None
    /\ writer' = WriterNew(Max({marks.read_start, order'.consumed}), marks.purge_seq)
    /\ UNCHANGED <<dbVars, clear_state, queueVars, marks, stream, spill, clear, captured, boot,
                   wronged, passed>>

-----------------------------------------------------------------------------
NoMarks ==
    [thresholds |-> [c \in Clears |-> None], boundaries |-> [c \in Clears |-> None],
     rolls |-> {}, purges |-> {}, purge_seq |-> 0, read_start |-> 0]

(* The order state over the records left by earlier runs. *)
NewOrder(s) ==
    [spilling |-> s # <<>>, memory_jobs |-> 0, handoff_jobs |-> 0, blocked |-> FALSE,
     committed |-> Len(s), consumed |-> 0]

NewClearState(m) == [mirror |-> m, started |-> 0, finished |-> 0]

(* What an earlier run may have left in the files: a job that was captured *)
(* without a mirror, before the last clear.                                *)
Leftover == [id |-> 1, at |-> 0, gen |-> Unresolved, epoch |-> 0, boot |-> 0]

(* The start of a process, over an empty directory or, as one of the       *)
(* MaxFaults, over the leftover.  Crash leads to the other starts: over    *)
(* this run's records, and without a mirror.                               *)
Init ==
    /\ generation = 1
    /\ written = <<>>
    /\ \/ stream = <<>> /\ faults = 0
       \/ stream = <<Leftover>> /\ faults = 1
    /\ clear_state = NewClearState(generation)
    /\ captured = 1
    /\ order = NewOrder(stream)
    /\ memory = <<>> /\ handoff = <<>> /\ held = <<>>
    /\ marks = NoMarks
    /\ in_flight = None
    /\ writer = WriterNew(0, 0)
    /\ spill = SpillIdle
    /\ clear = [c \in Clears |-> [pc |-> "idle", gen |-> None]]
    /\ boot = 1
    /\ unstored = {} /\ wronged = {} /\ passed = {}

(* The process dies and starts again.  Consumed records may still be in    *)
(* the files, as deletion lags and removes whole segments; what was not    *)
(* flushed may be lost.                                                    *)
Crash ==
    /\ Fault
    /\ boot' = boot + 1
    /\ \E from \in 0..order.consumed, upto \in order.committed..Len(stream) :
           /\ stream' = SubSeq(stream, from + 1, upto)
           /\ order' = NewOrder(stream')
    /\ \E m \in {generation, Unresolved} : clear_state' = NewClearState(m)
    /\ memory' = <<>> /\ handoff' = <<>> /\ held' = <<>>
    /\ marks' = NoMarks
    /\ in_flight' = None
    /\ writer' = WriterNew(0, 0)
    /\ spill' = SpillIdle
    /\ clear' = [c \in Clears |-> [pc |-> IF clear[c].pc = "idle" THEN "idle" ELSE "done",
                                   gen |-> None]]
    /\ UNCHANGED <<dbVars, captured, histVars>>

ClearStep(c) ==
    \/ ClearBegin(c)
    \/ ClearCommit(c)
    \/ ClearFails(c)
    \/ ClearRead(c)
    \/ PurgeAfterClear(c)
    \/ AbandonClear(c)
    \/ ClearFinish(c)

SpillStep ==
    \/ SpillRollTake
    \/ SpillRoll
    \/ SpillPurgeTake
    \/ SpillPurge
    \/ SpillTake
    \/ SpillAppend
    \/ SpillAppendFails
    \/ SpillFlush

WriterStep ==
    \/ RefreshRead
    \/ RefreshObserve
    \/ RefreshBusy
    \/ Gather
    \/ ReadEnd
    \/ ReadGivesUp
    \/ Write
    \/ WriteEnd
    \/ WriterPanics

Next ==
    \/ Submit
    \/ \E c \in Clears : ClearStart(c) \/ ClearDropped(c) \/ ClearStep(c)
    \/ SpillStep
    \/ SpillUnblock
    \/ WriterStep
    \/ Crash

Spec == Init /\ [][Next]_vars

(* Both threads run, a clear that has begun goes on, and the write lock is *)
(* obtained in the end.                                                    *)
Fairness ==
    /\ \A c \in Clears : WF_vars(ClearStep(c))
    /\ WF_vars(SpillStep)
    /\ WF_vars(WriterStep)
    /\ SF_vars(Write \/ WriteEnd)

FairSpec == Spec /\ Fairness

-----------------------------------------------------------------------------
(* "A job captured before a log clear is never written after that clear    *)
(* (including after a restart or a spill replay)", whatever carried it     *)
(* there: memory, the hand-off, jobs held back and requeued, a batch that  *)
(* was read before, records replayed by a later run.                       *)
StaleNeverStored ==
    \A i \in DOMAIN written : written[i].at = written[i].gen

(* Jobs are stored in the order of their capture, though they travel       *)
(* through memory and files and the queue changes its mode between them.   *)
(* The exceptions are a job the writer has given up on while its record is *)
(* still in the files, which a later run replays after jobs that overtook  *)
(* it, and a job that was held back for a clear: when that clear fails     *)
(* while an earlier one still runs, the job stays behind, though newer     *)
(* ones of its generation are spilled past it.                             *)
CaptureOrder ==
    \A i, j \in DOMAIN written :
        i < j => written[i].id < written[j].id \/ written[j].id \in unstored \union passed

(* What the budgets are charged with is what is in the queue, through      *)
(* failed appends, torn segments, panics and clears that discard, hold     *)
(* back and requeue jobs.                                                  *)
BudgetExact ==
    /\ order.memory_jobs = Len(memory) + writer.size
    /\ order.handoff_jobs = Len(handoff) + Len(held) + Unflushed
                            + (IF spill.pc = "job" THEN 1 ELSE 0)

(* A clear throws away, with the queues or the segments, nothing that the  *)
(* database would still take, and the mirror never falls back, so no job   *)
(* is stamped with a generation that an earlier job no longer had.  (Jobs  *)
(* captured after the commit and before the mirror has caught up carry the *)
(* old generation and are lost, as writer.rs says at lines 37 to 40.)  The *)
(* exception is a job held back for another clear, which failed while this *)
(* one was still running.                                                  *)
KeptByClear ==
    [][/\ \A w \in wronged' : w.held
       /\ boot' = boot => clear_state'.mirror >= clear_state.mirror]_vars

Quiet ==
    /\ memory = <<>> /\ handoff = <<>> /\ Unflushed = 0
    /\ writer.pc = "top" /\ writer.cursor >= order.committed
    /\ spill.pc = "step" /\ marks.rolls = {} /\ marks.purges = {}
    /\ \A c \in Clears : clear[c].pc \in {"idle", "done"}

(* When neither thread has anything left to do and no clear is under way,  *)
(* the queue is free to return to memory: no job is still held back and    *)
(* everything readable counts as consumed.                                 *)
NeverStuck == Quiet => held = <<>> /\ order.consumed = order.committed

(* "The queue can always return to memory mode."  A clear whose handler is *)
(* dropped leaves its threshold behind, and jobs held back for it count as *)
(* handed off for ever.                                                    *)
QueueReturns == order.spilling ~> ~order.spilling
=============================================================================
