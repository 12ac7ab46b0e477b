----------------------- MODULE UsageRefreshQueueProofs -----------------------
(***************************************************************************)
(* TLAPS proofs for UsageRefreshQueue: the marks stand for exactly one     *)
(* task each, through refusals, shutdowns and restarts, for any accounts,  *)
(* enqueuers and workers and any capacity of the channel.                  *)
(*                                                                         *)
(* MarksExact is not inductive: a worker that releases the mark of a task  *)
(* it received must know that the account is not one of the stranded ones, *)
(* and the worker that closes the channel that it drops stranded tasks     *)
(* only.  ChannelInv says which tasks the channel can hold in which state  *)
(* of the workers.                                                         *)
(***************************************************************************)
EXTENDS UsageRefreshQueue, SequenceTheorems, TLAPS

Actors == Enqueuers \union Workers

(* A task is in hand exactly in the steps that work on one. *)
HandInv ==
    /\ \A e \in Enqueuers : enqueuer[e] = "idle" <=> task[e] = None
    /\ \A w \in Workers : worker[w] = "run" <=> task[w] # None

(* A worker that may still take from the channel. *)
Takes(w) == worker[w] \in {"idle", "run", "drain"}

(* A closed channel is empty; a worker that may still take from the        *)
(* channel finds no stranded task; when none may, every task is stranded.  *)
ChannelInv ==
    /\ Closed => queue = <<>>
    /\ (\E w \in Workers : Takes(w)) => Queued \intersect stranded = {}
    /\ (\A w \in Workers : ~Takes(w)) => Queued \subseteq stranded

MarkInv == TypeOK /\ HandInv /\ ChannelInv /\ MarksExact

-----------------------------------------------------------------------------
Elements(q) == {q[i] : i \in DOMAIN q}

Distinct(q) == \A i, j \in DOMAIN q : q[i] = q[j] => i = j

(* Named, so that the provers do not unfold Append when the lemma is used. *)
Extends(p, q, a) == p = Append(q, a)

(* Appending a task to a channel without duplicates. *)
LEMMA AppendElements ==
    ASSUME NEW S, NEW q \in Seq(S), NEW a \in S, a \notin Elements(q), Distinct(q),
           NEW p, Extends(p, q, a)
    PROVE  /\ p \in Seq(S) /\ Len(p) = Len(q) + 1
           /\ Elements(p) = Elements(q) \union {a}
           /\ Distinct(p)
<1>1. /\ p \in Seq(S) /\ Len(p) = Len(q) + 1 /\ Len(q) \in Nat
      /\ DOMAIN q = 1 .. Len(q) /\ DOMAIN p = 1 .. Len(q) + 1
      /\ \A i \in 1 .. Len(q) : p[i] = q[i]
      /\ p[Len(q) + 1] = a
  BY DEF Extends
<1>2. Elements(p) = Elements(q) \union {a}
  BY <1>1 DEF Elements
<1>3. Distinct(p)
  BY <1>1 DEF Elements, Distinct
<1>4. QED
  BY <1>1, <1>2, <1>3

(* Taking the head of a channel without duplicates. *)
LEMMA TailElements ==
    ASSUME NEW S, NEW q \in Seq(S), q # <<>>, Distinct(q),
           NEW p, p = Tail(q)
    PROVE  /\ p \in Seq(S) /\ Len(p) <= Len(q)
           /\ Head(q) \in S /\ Head(q) \in Elements(q)
           /\ Elements(p) = Elements(q) \ {Head(q)}
           /\ Distinct(p)
<1>1. /\ p \in Seq(S) /\ Len(p) = Len(q) - 1 /\ Len(q) \in Nat \ {0}
      /\ DOMAIN q = 1 .. Len(q) /\ DOMAIN p = 1 .. Len(q) - 1
      /\ \A i \in 1 .. Len(q) - 1 : p[i] = q[i + 1]
      /\ Head(q) = q[1] /\ Head(q) \in S
  OBVIOUS
<1>2. ASSUME NEW x \in Elements(q) \ {Head(q)}
      PROVE  x \in Elements(p)
  <2>1. PICK i \in 1 .. Len(q) : x = q[i] /\ i # 1
    BY <1>1 DEF Elements
  <2>2. i - 1 \in DOMAIN p /\ p[i - 1] = q[i]
    BY <1>1, <2>1
  <2>3. QED
    BY <2>1, <2>2 DEF Elements
<1>3. ASSUME NEW x \in Elements(p)
      PROVE  x \in Elements(q) \ {Head(q)}
  <2>1. PICK i \in DOMAIN p : x = p[i]
    BY DEF Elements
  <2>2. i + 1 \in DOMAIN q /\ p[i] = q[i + 1] /\ 1 \in DOMAIN q /\ i + 1 # 1
    BY <1>1
  <2>3. q[i + 1] # q[1]
    BY <2>2 DEF Distinct
  <2>4. QED
    BY <1>1, <2>1, <2>2, <2>3 DEF Elements
<1>4. Elements(p) = Elements(q) \ {Head(q)}
  BY <1>2, <1>3
<1>5. ASSUME NEW i \in DOMAIN p, NEW j \in DOMAIN p, p[i] = p[j]
      PROVE  i = j
  <2>1. /\ i \in Nat /\ j \in Nat /\ i + 1 \in DOMAIN q /\ j + 1 \in DOMAIN q
        /\ p[i] = q[i + 1] /\ p[j] = q[j + 1]
    BY <1>1
  <2>2. i + 1 = j + 1
    BY <1>5, <2>1 DEF Distinct
  <2>3. QED
    BY <2>1, <2>2
<1>6. Len(p) <= Len(q) /\ Head(q) \in Elements(q)
  BY <1>1 DEF Elements
<1>7. QED
  BY <1>1, <1>4, <1>5, <1>6 DEF Distinct

-----------------------------------------------------------------------------
(* The invariant.                                                          *)

LEMMA MarkInvInit == Init => MarkInv
<1> SUFFICES ASSUME Init PROVE MarkInv
  OBVIOUS
<1>1. TypeOK
  <2>1. queue \in Seq(Accounts) /\ Len(queue) <= Capacity
    BY CapacityAssumption DEF Init
  <2>2. QED
    BY <2>1 DEF Init, TypeOK
<1>2. HandInv /\ ChannelInv
  BY NoneAssumption, WorkersAssumption DEF Init, HandInv, ChannelInv, Queued, Takes, Closed
<1>3. MarksExact
  BY DEF Init, MarksExact, Queued, InTransit
<1>4. QED
  BY <1>1, <1>2, <1>3 DEF MarkInv

(* What one actor has in hand when every hand is exclusive. *)
LEMMA HandChanges ==
    ASSUME TypeOK, NEW x \in Actors, NEW a \in Accounts \union {None},
           \A y, z \in Actors : task[y] = task[z] => y = z \/ task[y] = None,
           a = None \/ a \notin InTransit,
           InHand(x, a)
    PROVE  /\ task' \in [Actors -> Accounts \union {None}]
           /\ InTransit' = (InTransit \ {task[x]}) \union ({a} \ {None})
           /\ \A y, z \in Actors : task'[y] = task'[z] => y = z \/ task'[y] = None
<1>1. /\ task \in [Actors -> Accounts \union {None}]
      /\ task' = [task EXCEPT ![x] = a]
  BY DEF TypeOK, InHand, Actors
<1>2. InTransit = {task[y] : y \in Actors} \ {None} /\ InTransit' = {task'[y] : y \in Actors} \ {None}
  BY DEF InTransit, Actors
<1>3. task'[x] = a /\ \A y \in Actors \ {x} : task'[y] = task[y]
  BY <1>1
<1>4. InTransit' = (InTransit \ {task[x]}) \union ({a} \ {None})
  <2>1. ASSUME NEW b \in InTransit' PROVE b \in (InTransit \ {task[x]}) \union ({a} \ {None})
    BY <1>2, <1>3
  <2>2. ASSUME NEW b \in InTransit \ {task[x]} PROVE b \in InTransit'
    BY <1>2, <1>3
  <2>3. a # None => a \in InTransit'
    BY <1>2, <1>3
  <2>4. QED
    BY <2>1, <2>2, <2>3
<1>5. \A y, z \in Actors : task'[y] = task'[z] => y = z \/ task'[y] = None
  BY <1>2, <1>3
<1>6. QED
  BY <1>1, <1>4, <1>5

LEMMA MarkKeeps ==
    ASSUME MarkInv, NEW e \in Enqueuers, NEW a \in Accounts, Mark(e, a)
    PROVE  MarkInv'
<1> USE DEF MarkInv
<1>1. task[e] = None /\ e \in Actors
  BY DEF HandInv, Mark, Actors
<1>2. a \notin InTransit
  BY DEF Mark, MarksExact
<1>3. /\ task' \in [Actors -> Accounts \union {None}]
      /\ InTransit' = InTransit \union {a}
      /\ \A y, z \in Actors : task'[y] = task'[z] => y = z \/ task'[y] = None
  <2>1. a # None /\ None \notin InTransit
    BY NoneAssumption DEF InTransit
  <2>2. /\ task' \in [Actors -> Accounts \union {None}]
        /\ InTransit' = (InTransit \ {task[e]}) \union ({a} \ {None})
        /\ \A y, z \in Actors : task'[y] = task'[z] => y = z \/ task'[y] = None
    BY <1>1, <1>2, HandChanges DEF Mark, MarksExact, Actors
  <2>3. QED
    BY <1>1, <2>1, <2>2
<1>4. TypeOK'
  BY <1>3 DEF TypeOK, Mark, Actors
<1>5. HandInv'
  BY NoneAssumption, WorkersAssumption DEF HandInv, TypeOK, Mark, InHand
<1>6. Queued' = Queued /\ ChannelInv'
  BY DEF ChannelInv, Mark, Queued, Takes, Closed
<1>7. MarksExact'
  BY <1>3, <1>6 DEF MarksExact, Mark, Actors
<1>8. QED
  BY <1>4, <1>5, <1>6, <1>7

LEMMA SendKeeps ==
    ASSUME MarkInv, NEW e \in Enqueuers, Send(e)
    PROVE  MarkInv'
<1> USE DEF MarkInv
<1>1. /\ e \in Actors /\ task[e] \in Accounts /\ task[e] \in InTransit
      /\ task[e] \notin Queued \union stranded
  BY DEF HandInv, Send, Actors, TypeOK, MarksExact, InTransit
<1>2. CASE Sent(e)
  <2>1. /\ queue' = Append(queue, task[e])
        /\ worker' = IF Closed THEN [w \in Workers |-> "idle"] ELSE worker
        /\ enqueuer' = [enqueuer EXCEPT ![e] = "idle"]
        /\ stranded' = IF NoneReceives THEN stranded \union {task[e]} ELSE stranded
        /\ InHand(e, None)
        /\ UNCHANGED <<pending, shutdown, drain, signal>>
    BY <1>2 DEF Send
  <2>2. /\ task' \in [Actors -> Accounts \union {None}]
        /\ InTransit' = InTransit \ {task[e]}
        /\ \A y, z \in Actors : task'[y] = task'[z] => y = z \/ task'[y] = None
    BY <1>1, <2>1, HandChanges DEF MarksExact, Actors
  <2>3. Len(queue) < Capacity /\ Len(queue) \in Nat
    BY <1>2, CapacityAssumption DEF Sent, ChannelInv, TypeOK
  <2>4. /\ queue' \in Seq(Accounts) /\ Len(queue') <= Capacity
        /\ Queued' = Queued \union {task[e]}
        /\ \A i, j \in DOMAIN queue' : queue'[i] = queue'[j] => i = j
    <3> DEFINE a == task[e]
    <3>1. /\ queue \in Seq(Accounts) /\ a \in Accounts /\ a \notin Elements(queue)
          /\ Distinct(queue) /\ Extends(queue', queue, a)
      BY <1>1, <2>1 DEF Extends, TypeOK, MarksExact, Queued, Elements, Distinct
    <3> HIDE DEF a
    <3>2. /\ queue' \in Seq(Accounts) /\ Len(queue') = Len(queue) + 1
          /\ Elements(queue') = Elements(queue) \union {a}
          /\ Distinct(queue')
      BY <3>1, AppendElements
    <3>3. Len(queue') <= Capacity
      BY <2>3, <3>2, CapacityAssumption
    <3>4. QED
      BY <3>2, <3>3 DEF Queued, Elements, Distinct, a
  <2>5. TypeOK'
    BY <1>1, <2>1, <2>2, <2>4 DEF TypeOK, Actors
  <2>6. HandInv'
    BY <2>1, WorkersAssumption DEF HandInv, TypeOK, InHand, Closed
  <2>7. ChannelInv'
    <3>1. CASE Closed
      BY <1>1, <2>1, <2>4, <3>1, WorkersAssumption DEF ChannelInv, Queued, Takes, Closed, NoneReceives
    <3>2. CASE ~Closed /\ \E w \in Workers : Takes(w)
      BY <1>1, <2>1, <2>4, <3>2 DEF ChannelInv, Takes, Closed, NoneReceives
    <3>3. CASE ~Closed /\ ~\E w \in Workers : Takes(w)
      <4>1. NoneReceives
        BY <3>3 DEF Takes, NoneReceives, TypeOK
      <4>2. QED
        BY <1>1, <2>1, <2>4, <3>3, <4>1 DEF ChannelInv, Takes, Closed
    <3>4. QED
      BY <3>1, <3>2, <3>3
  <2>8. MarksExact'
    BY <1>1, <2>1, <2>2, <2>4 DEF MarksExact, Actors, NoneReceives
  <2>9. QED
    BY <2>5, <2>6, <2>7, <2>8
<1>3. CASE ~Sent(e)
  <2>1. /\ enqueuer' = [enqueuer EXCEPT ![e] = "unmark"]
        /\ UNCHANGED <<pending, queue, worker, task, shutdown, drain, signal, stranded>>
    BY <1>3 DEF Send
  <2>2. TypeOK' /\ HandInv'
    BY <2>1 DEF TypeOK, HandInv, Send
  <2>3. ChannelInv' /\ MarksExact'
    BY <2>1 DEF ChannelInv, MarksExact, Queued, InTransit, Takes, Closed
  <2>4. QED
    BY <2>2, <2>3
<1>4. QED
  BY <1>2, <1>3

LEMMA UnmarkKeeps ==
    ASSUME MarkInv, NEW e \in Enqueuers, Unmark(e)
    PROVE  MarkInv'
<1> USE DEF MarkInv
<1>1. /\ e \in Actors /\ task[e] \in InTransit
      /\ task[e] \notin Queued \union stranded
  BY DEF HandInv, Unmark, Actors, TypeOK, MarksExact, InTransit
<1>2. /\ task' \in [Actors -> Accounts \union {None}]
      /\ InTransit' = InTransit \ {task[e]}
      /\ \A y, z \in Actors : task'[y] = task'[z] => y = z \/ task'[y] = None
  BY <1>1, HandChanges DEF MarksExact, Actors, Unmark
<1>3. TypeOK'
  BY <1>2 DEF TypeOK, Unmark, Actors
<1>4. HandInv'
  BY WorkersAssumption DEF HandInv, TypeOK, Unmark, InHand
<1>5. Queued' = Queued /\ ChannelInv'
  BY DEF ChannelInv, Unmark, Queued, Takes, Closed
<1>6. MarksExact'
  BY <1>1, <1>2, <1>5 DEF MarksExact, Unmark, Actors
<1>7. QED
  BY <1>3, <1>4, <1>5, <1>6

LEMMA ReceiveKeeps ==
    ASSUME MarkInv, NEW w \in Workers, Receive(w)
    PROVE  MarkInv'
<1> USE DEF MarkInv
<1>1. w \in Actors /\ task[w] = None /\ Takes(w)
  BY DEF HandInv, Receive, Actors, TypeOK, Takes
<1>2. /\ queue' \in Seq(Accounts) /\ Len(queue') <= Capacity
      /\ Head(queue) \in Accounts /\ Head(queue) \in Queued
      /\ Queued' = Queued \ {Head(queue)}
      /\ \A i, j \in DOMAIN queue' : queue'[i] = queue'[j] => i = j
  <2>1. /\ queue \in Seq(Accounts) /\ Len(queue) <= Capacity
        /\ queue # <<>> /\ queue' = Tail(queue)
        /\ Distinct(queue)
    BY DEF Receive, TypeOK, MarksExact, Distinct
  <2>2. /\ queue' \in Seq(Accounts) /\ Len(queue') <= Len(queue)
        /\ Head(queue) \in Accounts /\ Head(queue) \in Elements(queue)
        /\ Elements(queue') = Elements(queue) \ {Head(queue)}
        /\ Distinct(queue')
    BY <2>1, TailElements
  <2>3. Len(queue') <= Capacity
    BY <2>1, <2>2, LenProperties, CapacityAssumption
  <2>4. QED
    BY <2>2, <2>3 DEF Queued, Elements, Distinct
<1>3. Head(queue) \notin InTransit /\ Head(queue) \notin stranded
  BY <1>1, <1>2 DEF MarksExact, ChannelInv
<1>4. /\ task' \in [Actors -> Accounts \union {None}]
      /\ InTransit' = InTransit \union {Head(queue)}
      /\ \A y, z \in Actors : task'[y] = task'[z] => y = z \/ task'[y] = None
  <2>1. Head(queue) # None /\ None \notin InTransit
    BY <1>2, NoneAssumption DEF InTransit
  <2>2. QED
    BY <1>1, <1>2, <1>3, <2>1, HandChanges DEF MarksExact, Actors, Receive
<1>5. TypeOK'
  BY <1>2, <1>4 DEF TypeOK, Receive, Actors
<1>6. HandInv'
  BY <1>2, NoneAssumption, WorkersAssumption DEF HandInv, TypeOK, Receive, InHand
<1>7. ChannelInv'
  <2>1. worker'[w] = "run"
    BY DEF Receive, TypeOK
  <2>2. QED
    BY <1>1, <1>2, <2>1 DEF ChannelInv, Receive, Takes, Closed
<1>8. MarksExact'
  BY <1>2, <1>3, <1>4 DEF MarksExact, Receive, Actors
<1>9. QED
  BY <1>5, <1>6, <1>7, <1>8

(* A worker that drops its task and releases the mark; it stays one that   *)
(* may take from the channel.                                              *)
LEMMA ReleaseKeeps ==
    ASSUME MarkInv, NEW w \in Workers, NEW next \in {"idle", "drain"}, Takes(w),
           worker[w] # "drain",
           pending' = pending \ {task[w]}, worker' = [worker EXCEPT ![w] = next],
           InHand(w, None), UNCHANGED <<queue, enqueuer, shutdown, drain, signal, stranded>>
    PROVE  MarkInv'
<1> USE DEF MarkInv
<1>1. w \in Actors /\ (task[w] # None => task[w] \in InTransit) /\ (task[w] = None => task[w] \notin pending)
  BY NoneAssumption DEF Actors, TypeOK, InTransit
<1>2. /\ task' \in [Actors -> Accounts \union {None}]
      /\ InTransit' = InTransit \ {task[w]}
      /\ \A y, z \in Actors : task'[y] = task'[z] => y = z \/ task'[y] = None
  BY <1>1, HandChanges DEF MarksExact, Actors
<1>3. TypeOK'
  BY <1>2 DEF TypeOK, Actors
<1>4. HandInv'
  BY WorkersAssumption DEF HandInv, TypeOK, InHand
<1>5. Queued' = Queued /\ ChannelInv'
  <2>1. worker'[w] = next
    BY DEF TypeOK
  <2>2. QED
    BY <2>1 DEF ChannelInv, Queued, Takes, Closed
<1>6. MarksExact'
  BY <1>1, <1>2, <1>5 DEF MarksExact, Actors
<1>7. QED
  BY <1>3, <1>4, <1>5, <1>6

LEMMA DiscardKeeps ==
    ASSUME MarkInv, NEW w \in Workers, Discard(w)
    PROVE  MarkInv'
<1> USE DEF MarkInv
<1>1. Takes(w)
  BY DEF Discard, Takes
<1>2. /\ queue' \in Seq(Accounts) /\ Len(queue') <= Capacity
      /\ Head(queue) \in Accounts /\ Head(queue) \in Queued
      /\ Queued' = Queued \ {Head(queue)}
      /\ \A i, j \in DOMAIN queue' : queue'[i] = queue'[j] => i = j
  <2>1. /\ queue \in Seq(Accounts) /\ Len(queue) <= Capacity
        /\ queue # <<>> /\ queue' = Tail(queue)
        /\ Distinct(queue)
    BY DEF Discard, TypeOK, MarksExact, Distinct
  <2>2. /\ queue' \in Seq(Accounts) /\ Len(queue') <= Len(queue)
        /\ Head(queue) \in Accounts /\ Head(queue) \in Elements(queue)
        /\ Elements(queue') = Elements(queue) \ {Head(queue)}
        /\ Distinct(queue')
    BY <2>1, TailElements
  <2>3. Len(queue') <= Capacity
    BY <2>1, <2>2, LenProperties, CapacityAssumption
  <2>4. QED
    BY <2>2, <2>3 DEF Queued, Elements, Distinct
<1>3. Head(queue) \notin InTransit /\ Head(queue) \notin stranded
  BY <1>1, <1>2 DEF MarksExact, ChannelInv
<1>4. TypeOK' /\ HandInv'
  BY <1>2 DEF TypeOK, HandInv, Discard
<1>5. ChannelInv'
  BY <1>1, <1>2 DEF ChannelInv, Discard, Takes, Closed
<1>6. MarksExact'
  BY <1>2, <1>3 DEF MarksExact, Discard, InTransit
<1>7. QED
  BY <1>4, <1>5, <1>6

LEMMA EndDiscardKeeps ==
    ASSUME MarkInv, NEW w \in Workers, EndDiscard(w)
    PROVE  MarkInv'
<1> USE DEF MarkInv
<1>1. TypeOK' /\ HandInv'
  BY DEF TypeOK, HandInv, EndDiscard
<1>2. Queued' = {} /\ Queued = {} /\ queue' = <<>>
  BY DEF EndDiscard, Queued
<1>3. ChannelInv' /\ MarksExact'
  BY <1>2 DEF ChannelInv, MarksExact, EndDiscard, InTransit, Takes, Closed
<1>4. QED
  BY <1>1, <1>3

LEMMA LeaveKeeps ==
    ASSUME MarkInv, NEW w \in Workers, Leave(w)
    PROVE  MarkInv'
<1> USE DEF MarkInv
<1>1. TypeOK'
  BY CapacityAssumption DEF TypeOK, Leave
<1>2. HandInv'
  BY DEF TypeOK, HandInv, Leave
<1>3. CASE \A v \in Workers \ {w} : worker[v] = "gone"
  <2>1. Queued \subseteq stranded
    BY <1>3 DEF ChannelInv, Takes, Leave
  <2>2. queue' = <<>> /\ Queued' = {}
    BY <1>3 DEF Leave, Queued
  <2>3. ChannelInv'
    BY <2>2 DEF ChannelInv
  <2>4. MarksExact'
    BY <2>1, <2>2 DEF MarksExact, Leave, InTransit
  <2>5. QED
    BY <1>1, <1>2, <2>3, <2>4
<1>4. CASE \E v \in Workers \ {w} : worker[v] # "gone"
  <2>1. queue' = queue /\ Queued' = Queued
    BY <1>4 DEF Leave, Queued
  <2>2. \A v \in Workers : Takes(v)' <=> Takes(v)
    BY DEF Leave, Takes, TypeOK
  <2>3. ~Closed'
    BY <1>4 DEF Leave, Closed, TypeOK
  <2>4. ChannelInv'
    BY <2>1, <2>2, <2>3 DEF ChannelInv, Leave
  <2>5. MarksExact'
    BY <2>1 DEF MarksExact, Leave, InTransit
  <2>6. QED
    BY <1>1, <1>2, <2>4, <2>5
<1>5. QED
  BY <1>3, <1>4

(* The shutdown flag and the drain touch neither marks nor channel. *)
LEMMA ControlKeeps ==
    ASSUME MarkInv, RequestShutdown \/ DrainStep \/ Restart \/ UNCHANGED vars
    PROVE  MarkInv'
<1>1. /\ UNCHANGED <<pending, queue, enqueuer, worker, task, stranded>>
      /\ shutdown' \in BOOLEAN /\ drain' \in {"idle", "load", "await", "done"}
      /\ signal' \in {"none", "waiting", "notified"}
  BY DEF MarkInv, TypeOK, RequestShutdown, DrainStep, DrainEnable, DrainLoad, DrainAwait,
         Restart, vars
<1>2. QED
  BY <1>1 DEF MarkInv, TypeOK, HandInv, ChannelInv, MarksExact, Queued, InTransit, Takes, Closed

LEMMA MarkInvNext == MarkInv /\ [Next]_vars => MarkInv'
<1> SUFFICES ASSUME MarkInv, [Next]_vars PROVE MarkInv'
  OBVIOUS
<1>1. ASSUME NEW e \in Enqueuers, EnqueuerStep(e) PROVE MarkInv'
  BY <1>1, SendKeeps, UnmarkKeeps DEF EnqueuerStep
<1>2. ASSUME NEW e \in Enqueuers, NEW a \in Accounts, Mark(e, a) PROVE MarkInv'
  BY <1>2, MarkKeeps
<1>3. ASSUME NEW w \in Workers, WorkerStep(w) PROVE MarkInv'
  <2>1. CASE Finish(w)
    BY <2>1, ReleaseKeeps DEF Finish, Takes
  <2>2. CASE Stop(w)
    BY <2>2, ReleaseKeeps DEF Stop, Takes
  <2>3. QED
    BY <1>3, <2>1, <2>2, ReceiveKeeps, DiscardKeeps, EndDiscardKeeps, LeaveKeeps DEF WorkerStep
<1>4. QED
  BY <1>1, <1>2, <1>3, ControlKeeps DEF Next

LEMMA MarkInvAlways == Spec => []MarkInv
  BY MarkInvInit, MarkInvNext, PTL DEF Spec

-----------------------------------------------------------------------------
(* PENDING_USAGE_REFRESH_TASKS, the channel and the tasks of workers and   *)
(* enqueuers keep their shape; the channel never exceeds its capacity.     *)
THEOREM TypeCorrect == Spec => []TypeOK
  BY MarkInvAlways, PTL DEF MarkInv

(* A mark stands for exactly one task, queued or in the hands of one       *)
(* enqueuer or worker, or for a task that was sent after the workers had   *)
(* emptied the channel for good, whatever is refused, panics, stops and    *)
(* starts again.                                                           *)
THEOREM MarksAlwaysExact == Spec => []MarksExact
  BY MarkInvAlways, PTL DEF MarkInv
=============================================================================
