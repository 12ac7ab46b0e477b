------------------------- MODULE PayloadQueueProofs -------------------------
(***************************************************************************)
(* Proofs about PayloadQueue for any budgets and batch size, any number of *)
(* jobs, faults and crashes, and any finite set of clears.                 *)
(*                                                                         *)
(* BaseInv, that the state is well-formed and that the positions in the    *)
(* spill files are in order (read_start and consumed up to the writer's    *)
(* cursor, the cursor up to committed, committed up to the end), is proved *)
(* first, action by action.  HeldInv, BudgetInv and StampInv are then      *)
(* inductive relative to it, KeptInv relative to both it and StampInv, and *)
(* OrderInv relative to all of these, one for each of the theorems about   *)
(* the queue.  What holds of every job wherever it is carried is stated as *)
(* Carried(S), for a set S of jobs, and no action brings in a job from     *)
(* outside S (CarryStep) except Submit.                                    *)
(***************************************************************************)
EXTENDS PayloadQueue, SequenceTheorems, FiniteSetTheorems, TLAPS

-----------------------------------------------------------------------------
(* Numbers.                                                                *)

LEMMA SmallestExists ==
    ASSUME NEW T, T \subseteq Nat, T # {}
    PROVE  \E n \in T : \A m \in T : n <= m
<1>1. PICK n \in T : \A m \in T : ~(<<m, n>> \in OpToRel(<, Nat))
  BY NatLessThanWellFounded, WFMin
<1>2. \A m \in T : <<m, n>> \in Nat \X Nat
  OBVIOUS
<1>3. \A m \in T : ~(m < n)
  BY <1>1, <1>2 DEF OpToRel
<1>4. QED
  BY <1>3

(* Induction, for a set of numbers. *)
LEMMA AllNumbers ==
    ASSUME NEW T, T \subseteq Nat, 0 \in T, \A n \in T : n + 1 \in T
    PROVE  T = Nat
<1>1. SUFFICES ASSUME Nat \ T # {} PROVE FALSE
  OBVIOUS
<1>2. PICK n \in Nat \ T : \A m \in Nat \ T : n <= m
  BY <1>1, SmallestExists
<1>3. n # 0 /\ n - 1 \in Nat /\ n - 1 \in T
  BY <1>2
<1>4. QED
  BY <1>2, <1>3

LEMMA LargestExists ==
    ASSUME NEW T, T \subseteq Nat, T # {}, NEW b \in Nat, \A n \in T : n <= b
    PROVE  \E n \in T : \A m \in T : n >= m
<1> DEFINE U == {k \in Nat : \A m \in T : k >= m}
<1>1. PICK k \in U : \A j \in U : k <= j
  <2>1. U \subseteq Nat /\ b \in U
    OBVIOUS
  <2>2. QED
    BY <2>1, SmallestExists
<1>2. k \in Nat /\ \A m \in T : k >= m
  BY <1>1
<1>3. CASE k \in T
  BY <1>2, <1>3
<1>4. CASE k \notin T
  <2>1. k # 0
    <3>1. PICK m \in T : m \in Nat
      OBVIOUS
    <3>2. QED
      BY <1>2, <1>4, <3>1
  <2>2. k - 1 \in Nat /\ \A m \in T : k - 1 >= m
    BY <1>2, <1>4, <2>1
  <2>3. QED
    BY <1>1, <1>2, <2>2
<1>5. QED
  BY <1>3, <1>4

LEMMA MinProperty ==
    ASSUME NEW T, T \subseteq Nat, T # {}
    PROVE  Min(T) \in T /\ \A m \in T : Min(T) <= m
  BY SmallestExists DEF Min

LEMMA MaxProperty ==
    ASSUME NEW T, T \subseteq Nat, T # {}, NEW b \in Nat, \A n \in T : n <= b
    PROVE  Max(T) \in T /\ \A m \in T : Max(T) >= m
  BY LargestExists DEF Max

LEMMA MaxOfTwo ==
    ASSUME NEW m \in Nat, NEW n \in Nat
    PROVE  /\ Max({m, n}) \in {m, n}
           /\ Max({m, n}) >= m /\ Max({m, n}) >= n
<1>1. PICK b \in Nat : m <= b /\ n <= b
  BY m <= m + n /\ n <= m + n
<1>2. QED
  BY <1>1, MaxProperty, {m, n} \subseteq Nat

LEMMA MinOfTwo ==
    ASSUME NEW m \in Nat, NEW n \in Nat
    PROVE  /\ Min({m, n}) \in {m, n}
           /\ Min({m, n}) <= m /\ Min({m, n}) <= n
  BY MinProperty, {m, n} \subseteq Nat

-----------------------------------------------------------------------------
(* Pick.                                                                   *)

(* f is the recursion of Pick on the first n entries of s. *)
Picks(f, s, P, n) ==
    f = [i \in 0..n |->
            IF i = 0 THEN <<>>
            ELSE IF i \in P THEN Append(f[i - 1], s[i]) ELSE f[i - 1]]

LEMMA PicksExists ==
    ASSUME NEW s, NEW P, NEW n \in Nat
    PROVE  \E f : Picks(f, s, P, n)
<1> DEFINE G == {m \in Nat : \E f : Picks(f, s, P, m)}
<1>1. 0 \in G
  <2>1. Picks([i \in 0..0 |-> <<>>], s, P, 0)
    BY DEF Picks
  <2>2. QED
    BY <2>1
<1>2. ASSUME NEW m \in G PROVE m + 1 \in G
  <2>1. PICK f : Picks(f, s, P, m)
    BY <1>2
  <2> DEFINE Step(h, i) == IF i = 0 THEN <<>>
                           ELSE IF i \in P THEN Append(h[i - 1], s[i]) ELSE h[i - 1]
             g == [i \in 0..(m + 1) |-> IF i <= m THEN f[i] ELSE Step(f, i)]
  <2>2. ASSUME NEW i \in 0..(m + 1) PROVE g[i] = Step(g, i)
    <3>1. CASE i = 0
      BY <2>1, <3>1 DEF Picks
    <3>2. CASE i # 0 /\ i <= m
      <4>1. i \in 0..m /\ i - 1 \in 0..m /\ g[i - 1] = f[i - 1] /\ g[i] = f[i]
        BY <3>2
      <4>2. QED
        BY <2>1, <3>2, <4>1 DEF Picks
    <3>3. CASE i = m + 1
      BY <3>3
    <3>4. QED
      BY <3>1, <3>2, <3>3
  <2>3. Picks(g, s, P, m + 1)
    BY <2>2 DEF Picks
  <2>4. QED
    BY <2>3
<1>3. G = Nat
  <2> HIDE DEF G
  <2>1. G \subseteq Nat
    BY DEF G
  <2>2. QED
    BY <1>1, <1>2, <2>1, AllNumbers
<1>4. QED
  BY <1>3

(* The recursion of a longer prefix goes through that of a shorter one. *)
LEMMA PicksAgree ==
    ASSUME NEW s, NEW t, NEW P, NEW Q, NEW n \in Nat, NEW m \in Nat, n <= m,
           \A i \in 1..n : s[i] = t[i] /\ (i \in P <=> i \in Q),
           NEW f, Picks(f, s, P, n), NEW g, Picks(g, t, Q, m)
    PROVE  f[n] = g[n]
<1> DEFINE G == {i \in Nat : i <= n => f[i] = g[i]}
<1>1. 0 \in G
  BY DEF Picks
<1>2. ASSUME NEW i \in G PROVE i + 1 \in G
  <2>1. SUFFICES ASSUME i + 1 <= n PROVE f[i + 1] = g[i + 1]
    BY <1>2
  <2>2. f[i] = g[i] /\ i + 1 \in 0..n /\ i + 1 \in 0..m /\ i + 1 # 0 /\ i + 1 \in 1..n
        /\ (i + 1) - 1 = i
    BY <1>2, <2>1
  <2>3. f[i + 1] = (IF i + 1 \in P THEN Append(f[i], s[i + 1]) ELSE f[i])
    BY <2>2 DEF Picks
  <2>4. g[i + 1] = (IF i + 1 \in Q THEN Append(g[i], t[i + 1]) ELSE g[i])
    BY <2>2 DEF Picks
  <2>5. QED
    BY <2>2, <2>3, <2>4
<1>3. G = Nat
  <2> HIDE DEF G
  <2>1. G \subseteq Nat
    BY DEF G
  <2>2. QED
    BY <1>1, <1>2, <2>1, AllNumbers
<1>4. QED
  BY <1>3

LEMMA PickIs ==
    ASSUME NEW s, NEW P, Len(s) \in Nat
    PROVE  \E f : Picks(f, s, P, Len(s)) /\ Pick(s, P) = f[Len(s)]
<1> DEFINE f == CHOOSE h : Picks(h, s, P, Len(s))
<1>1. Picks(f, s, P, Len(s))
  BY PicksExists
<1>2. Pick(s, P) = f[Len(s)]
  BY DEF Pick, Picks
<1> HIDE DEF f
<1>3. QED
  BY <1>1, <1>2

(* Every entry picked is an entry of s at a position of P. *)
LEMMA PickProperties ==
    ASSUME NEW S, NEW s \in Seq(S), NEW P, NEW T, \A i \in DOMAIN s : i \in P => s[i] \in T
    PROVE  Pick(s, P) \in Seq(T)
<1>1. PICK f : Picks(f, s, P, Len(s)) /\ Pick(s, P) = f[Len(s)]
  BY PickIs
<1> DEFINE Good(i) == f[i] \in Seq(T)
           G == {i \in Nat : i <= Len(s) => Good(i)}
<1>a. Len(s) \in Nat /\ DOMAIN s = 1..Len(s)
  OBVIOUS
<1>b. Good(0)
  <2>1. f[0] = <<>>
    BY <1>a, <1>1 DEF Picks
  <2>2. QED
    BY <2>1, EmptySeq
<1>c. ASSUME NEW i \in Nat, i + 1 <= Len(s), Good(i) PROVE Good(i + 1)
  <2>1. i + 1 \in 0..Len(s) /\ i + 1 # 0 /\ (i + 1) - 1 = i /\ i + 1 \in DOMAIN s
    BY <1>a, <1>c
  <2>2. f[i + 1] = (IF i + 1 \in P THEN Append(f[i], s[i + 1]) ELSE f[i])
    BY <1>1, <2>1 DEF Picks
  <2>3. QED
    BY <1>c, <2>1, <2>2, AppendProperties
<1> HIDE DEF Good
<1>2. 0 \in G
  BY <1>b
<1>3. ASSUME NEW i \in G PROVE i + 1 \in G
  BY <1>a, <1>c, <1>3
<1>4. G = Nat
  <2> HIDE DEF G
  <2>1. G \subseteq Nat
    BY DEF G
  <2>2. QED
    BY <1>2, <1>3, <2>1, AllNumbers
<1>5. QED
  BY <1>a, <1>1, <1>4 DEF Good

LEMMA PickNone ==
    ASSUME NEW S, NEW s \in Seq(S), NEW P, Len(s) = 0
    PROVE  Pick(s, P) = <<>>
<1>1. PICK f : Picks(f, s, P, Len(s)) /\ Pick(s, P) = f[Len(s)]
  BY PickIs
<1>2. QED
  BY <1>1 DEF Picks

LEMMA PickAppend ==
    ASSUME NEW S, NEW s \in Seq(S), NEW x \in S, NEW P, NEW Q,
           \A i \in DOMAIN s : i \in P <=> i \in Q
    PROVE  Pick(Append(s, x), Q) =
               IF Len(s) + 1 \in Q THEN Append(Pick(s, P), x) ELSE Pick(s, P)
<1> DEFINE t == Append(s, x)
           n == Len(s)
<1>1. n \in Nat /\ t \in Seq(S) /\ Len(t) = n + 1 /\ t[n + 1] = x
      /\ \A i \in 1..n : t[i] = s[i] /\ (i \in P <=> i \in Q)
  BY AppendProperties
<1> HIDE DEF t, n
<1>2. PICK f : Picks(f, s, P, n) /\ Pick(s, P) = f[n]
  BY <1>1, PickIs DEF n
<1>3. PICK g : Picks(g, t, Q, n + 1) /\ Pick(t, Q) = g[n + 1]
  BY <1>1, PickIs
<1>4. f[n] = g[n]
  BY <1>1, <1>2, <1>3, PicksAgree
<1>5. n + 1 \in 0..(n + 1) /\ n + 1 # 0 /\ (n + 1) - 1 = n
  BY <1>1
<1>6. g[n + 1] = IF n + 1 \in Q THEN Append(g[n], t[n + 1]) ELSE g[n]
  BY <1>3, <1>5 DEF Picks
<1>7. QED
  BY <1>1, <1>2, <1>3, <1>4, <1>6 DEF t, n

(* What is picked and what is left have the length of s together. *)
LEMMA PickPartition ==
    ASSUME NEW S, NEW s \in Seq(S), NEW P
    PROVE  Len(Pick(s, P)) + Len(Pick(s, DOMAIN s \ P)) = Len(s)
<1> DEFINE Q == DOMAIN s \ P
<1>0. Len(s) \in Nat /\ \A i \in 1..Len(s) : i \in Q <=> i \notin P
  OBVIOUS
<1> HIDE DEF Q
<1>1. PICK f : Picks(f, s, P, Len(s)) /\ Pick(s, P) = f[Len(s)]
  BY PickIs
<1>2. PICK g : Picks(g, s, Q, Len(s)) /\ Pick(s, Q) = g[Len(s)]
  BY PickIs
<1> DEFINE Good(i) == f[i] \in Seq(S) /\ g[i] \in Seq(S) /\ Len(f[i]) + Len(g[i]) = i
           G == {i \in Nat : i <= Len(s) => Good(i)}
<1>a. Good(0)
  <2>1. f[0] = <<>> /\ g[0] = <<>>
    BY <1>0, <1>1, <1>2 DEF Picks
  <2>2. QED
    BY <2>1, EmptySeq
<1>b. ASSUME NEW i \in Nat, i + 1 <= Len(s), Good(i) PROVE Good(i + 1)
  <2>1. i + 1 \in 0..Len(s) /\ i + 1 # 0 /\ (i + 1) - 1 = i /\ i + 1 \in 1..Len(s) /\ s[i + 1] \in S
    BY <1>0, <1>b
  <2>2. f[i + 1] = (IF i + 1 \in P THEN Append(f[i], s[i + 1]) ELSE f[i])
    BY <1>1, <2>1 DEF Picks
  <2>3. g[i + 1] = (IF i + 1 \in Q THEN Append(g[i], s[i + 1]) ELSE g[i])
    BY <1>2, <2>1 DEF Picks
  <2>4. PICK u \in Seq(S), v \in Seq(S) : u = f[i] /\ v = g[i]
    BY <1>b
  <2>5. PICK x \in S : x = s[i + 1]
    BY <2>1
  <2>6. /\ Append(u, x) \in Seq(S) /\ Len(Append(u, x)) = Len(u) + 1 /\ Len(u) \in Nat
        /\ Append(v, x) \in Seq(S) /\ Len(Append(v, x)) = Len(v) + 1 /\ Len(v) \in Nat
        /\ Len(u) + Len(v) = i
    BY <1>b, <2>4, AppendProperties, LenProperties
  <2>7. \/ f[i + 1] = Append(u, x) /\ g[i + 1] = v
        \/ f[i + 1] = u /\ g[i + 1] = Append(v, x)
    BY <1>0, <2>1, <2>2, <2>3, <2>4, <2>5
  <2>8. f[i + 1] \in Seq(S) /\ g[i + 1] \in Seq(S)
    BY <2>6, <2>7
  <2>9. Len(f[i + 1]) + Len(g[i + 1]) = i + 1
    <3>1. CASE f[i + 1] = Append(u, x) /\ g[i + 1] = v
      <4>1. Len(f[i + 1]) = Len(u) + 1 /\ Len(g[i + 1]) = Len(v)
        BY <2>6, <3>1
      <4>2. QED
        BY <2>6, <4>1
    <3>2. CASE f[i + 1] = u /\ g[i + 1] = Append(v, x)
      <4>1. Len(f[i + 1]) = Len(u) /\ Len(g[i + 1]) = Len(v) + 1
        BY <2>6, <3>2
      <4>2. QED
        BY <2>6, <4>1
    <3>3. QED
      BY <2>7, <3>1, <3>2
  <2>10. QED
    BY <2>8, <2>9, Zenon
<1> HIDE DEF Good
<1>3. 0 \in G
  BY <1>a
<1>4. ASSUME NEW i \in G PROVE i + 1 \in G
  BY <1>0, <1>b, <1>4
<1>5. G = Nat
  <2> HIDE DEF G
  <2>1. G \subseteq Nat
    BY DEF G
  <2>2. QED
    BY <1>3, <1>4, <2>1, AllNumbers
<1>6. Good(Len(s))
  BY <1>0, <1>5
<1>7. QED
  BY <1>1, <1>2, <1>6 DEF Q, Good

-----------------------------------------------------------------------------
(* Types and positions.                                                    *)

OrderStates ==
    [spilling : BOOLEAN, memory_jobs : Nat, handoff_jobs : Nat, blocked : BOOLEAN,
     committed : Nat, consumed : Nat]

MarkStates ==
    [thresholds : [Clears -> Int \union {None}], boundaries : [Clears -> Nat \union {None}],
     rolls : SUBSET Clears, purges : SUBSET Clears, purge_seq : Nat, read_start : Nat]

WriterStates ==
    [pc : {"top", "gather", "reading", "write"}, cursor : Nat, seq : Nat, upto : Nat,
     read_seq : Nat, disk : BOOLEAN, size : Nat, batch : Seq(Job),
     read : [epoch : Nat \union {None}, gen : Nat] \union {None}]

SpillStates ==
    [pc : {"step", "roll", "purge", "job"}, seqs : SUBSET Clears, boundary : Nat,
     job : Job \union {None}]

ClearPcs ==
    {"idle", "begin", "run", "detached", "committed", "lost", "failed", "purge", "finish", "done"}

ClearStates == [pc : ClearPcs, gen : Nat \union {None}]

FlightStates == [start : Nat, next : Nat, panics : Nat]

Record == Job \union {Gap}

TypeInv ==
    /\ generation \in Nat
    /\ written \in Seq([id : Nat, at : Nat, gen : Nat])
    /\ clear_state \in [mirror : Int, started : Nat, finished : Nat]
    /\ order \in OrderStates
    /\ memory \in Seq(Job) /\ handoff \in Seq(Job) /\ held \in Seq(Job)
    /\ marks \in MarkStates
    /\ stream \in Seq(Record)
    /\ in_flight \in FlightStates \union {None}
    /\ writer \in WriterStates
    /\ spill \in SpillStates
    /\ spill.pc = "job" => spill.job \in Job
    /\ clear \in [Clears -> ClearStates]
    /\ captured \in Nat /\ boot \in Nat /\ faults \in Nat

(* Nothing points behind what is committed, and that is in the files. *)
PositionInv ==
    /\ order.consumed <= order.committed
    /\ order.committed <= Len(stream)
    /\ marks.read_start <= order.consumed
    /\ \A c \in Clears : marks.boundaries[c] # None => marks.boundaries[c] <= order.committed
    /\ spill.boundary <= order.committed
    /\ writer.cursor <= order.committed
    /\ writer.pc = "reading" => writer.cursor <= writer.upto /\ writer.upto <= order.committed
    /\ in_flight # None => in_flight.next <= order.committed
    /\ writer.pc = "write" /\ writer.disk
          => in_flight \in FlightStates /\ in_flight.next = writer.cursor
    /\ ~(writer.pc = "write" /\ writer.disk) => writer.cursor <= order.consumed
    /\ writer.read # None => writer.pc = "top"

BaseInv == TypeInv /\ PositionInv

-----------------------------------------------------------------------------
(* The operators of SpillOrderState.                                       *)

LEMMA ReleaseMemoryIs ==
    ASSUME NEW o \in OrderStates, NEW n \in Nat
    PROVE  /\ ReleaseMemory(o, n) \in OrderStates
           /\ ReleaseMemory(o, n).memory_jobs = IF o.memory_jobs >= n THEN o.memory_jobs - n ELSE 0
           /\ ReleaseMemory(o, n).handoff_jobs = o.handoff_jobs
           /\ ReleaseMemory(o, n).committed = o.committed
           /\ ReleaseMemory(o, n).consumed = o.consumed
           /\ ReleaseMemory(o, n).spilling = o.spilling
  BY DEF OrderStates, ReleaseMemory

LEMMA FinishHandoffIs ==
    ASSUME NEW o \in OrderStates, NEW n \in Nat
    PROVE  /\ FinishHandoff(o, n) \in OrderStates
           /\ FinishHandoff(o, n).memory_jobs = o.memory_jobs
           /\ FinishHandoff(o, n).handoff_jobs =
                  IF o.handoff_jobs >= n THEN o.handoff_jobs - n ELSE 0
           /\ FinishHandoff(o, n).committed = o.committed
           /\ FinishHandoff(o, n).consumed = o.consumed
           /\ FinishHandoff(o, n).spilling = o.spilling
  BY DEF OrderStates, FinishHandoff

LEMMA SetCommittedIs ==
    ASSUME NEW o \in OrderStates, NEW p \in Nat
    PROVE  /\ SetCommitted(o, p) \in OrderStates
           /\ SetCommitted(o, p).memory_jobs = o.memory_jobs
           /\ SetCommitted(o, p).handoff_jobs = o.handoff_jobs
           /\ SetCommitted(o, p).committed = IF p > o.committed THEN p ELSE o.committed
           /\ SetCommitted(o, p).consumed = o.consumed
           /\ SetCommitted(o, p).spilling = o.spilling
  BY DEF OrderStates, SetCommitted

LEMMA SetConsumedIs ==
    ASSUME NEW o \in OrderStates, NEW p \in Nat
    PROVE  /\ SetConsumed(o, p) \in OrderStates
           /\ SetConsumed(o, p).memory_jobs = o.memory_jobs
           /\ SetConsumed(o, p).handoff_jobs = o.handoff_jobs
           /\ SetConsumed(o, p).committed = o.committed
           /\ SetConsumed(o, p).consumed = IF p > o.consumed THEN p ELSE o.consumed
           /\ SetConsumed(o, p).spilling = o.spilling
  BY DEF OrderStates, SetConsumed

(* Back to memory only if nothing is handed off or left in the files. *)
LEMMA TryResumeIs ==
    ASSUME NEW o \in OrderStates
    PROVE  /\ TryResume(o) \in OrderStates
           /\ TryResume(o).memory_jobs = o.memory_jobs
           /\ TryResume(o).handoff_jobs = o.handoff_jobs
           /\ TryResume(o).committed = o.committed
           /\ TryResume(o).consumed = o.consumed
           /\ TryResume(o).spilling =
                  IF o.handoff_jobs = 0 /\ o.consumed >= o.committed THEN FALSE ELSE o.spilling
  BY DEF OrderStates, TryResume

LEMMA DiskDoneIs ==
    ASSUME NEW o \in OrderStates, NEW p \in Nat
    PROVE  /\ DiskDone(o, p) \in OrderStates
           /\ DiskDone(o, p).memory_jobs = o.memory_jobs
           /\ DiskDone(o, p).handoff_jobs = o.handoff_jobs
           /\ DiskDone(o, p).committed = o.committed
           /\ DiskDone(o, p).consumed = IF p > o.consumed THEN p ELSE o.consumed
           /\ DiskDone(o, p).spilling =
                  IF o.handoff_jobs = 0 /\ DiskDone(o, p).consumed >= o.committed
                  THEN FALSE ELSE o.spilling
<1> DEFINE u == SetConsumed(o, p)
<1>1. u \in OrderStates /\ u.memory_jobs = o.memory_jobs /\ u.handoff_jobs = o.handoff_jobs
      /\ u.consumed = (IF p > o.consumed THEN p ELSE o.consumed) /\ u.committed = o.committed
      /\ u.spilling = o.spilling
  BY SetConsumedIs
<1>2. DiskDone(o, p) = TryResume(u)
  BY DEF DiskDone
<1> HIDE DEF u
<1>3. /\ TryResume(u) \in OrderStates
      /\ TryResume(u).memory_jobs = u.memory_jobs /\ TryResume(u).handoff_jobs = u.handoff_jobs
      /\ TryResume(u).committed = u.committed /\ TryResume(u).consumed = u.consumed
      /\ TryResume(u).spilling =
             IF u.handoff_jobs = 0 /\ u.consumed >= u.committed THEN FALSE ELSE u.spilling
  BY <1>1, TryResumeIs
<1>4. QED
  BY <1>1, <1>2, <1>3, Zenon

LEMMA SkipStreamToIs ==
    ASSUME NEW o \in OrderStates, NEW p \in Nat
    PROVE  /\ SkipStreamTo(o, p) \in OrderStates
           /\ SkipStreamTo(o, p).memory_jobs = o.memory_jobs
           /\ SkipStreamTo(o, p).handoff_jobs = o.handoff_jobs
           /\ SkipStreamTo(o, p).committed = IF p > o.committed THEN p ELSE o.committed
           /\ SkipStreamTo(o, p).consumed = IF p > o.consumed THEN p ELSE o.consumed
           /\ SkipStreamTo(o, p).spilling =
                  IF o.handoff_jobs = 0
                     /\ SkipStreamTo(o, p).consumed >= SkipStreamTo(o, p).committed
                  THEN FALSE ELSE o.spilling
<1> DEFINE u == SetCommitted(o, p)
           v == SetConsumed(u, p)
<1>1. u \in OrderStates /\ u.memory_jobs = o.memory_jobs /\ u.handoff_jobs = o.handoff_jobs
      /\ u.committed = (IF p > o.committed THEN p ELSE o.committed) /\ u.consumed = o.consumed
      /\ u.spilling = o.spilling
  BY SetCommittedIs
<1> HIDE DEF u
<1>2. v \in OrderStates /\ v.memory_jobs = u.memory_jobs /\ v.handoff_jobs = u.handoff_jobs
      /\ v.consumed = (IF p > u.consumed THEN p ELSE u.consumed) /\ v.committed = u.committed
      /\ v.spilling = u.spilling
  BY <1>1, SetConsumedIs
<1> HIDE DEF v
<1>3. SkipStreamTo(o, p) = TryResume(v)
  BY DEF SkipStreamTo, u, v
<1>4. /\ TryResume(v) \in OrderStates
      /\ TryResume(v).memory_jobs = v.memory_jobs /\ TryResume(v).handoff_jobs = v.handoff_jobs
      /\ TryResume(v).committed = v.committed /\ TryResume(v).consumed = v.consumed
      /\ TryResume(v).spilling =
             IF v.handoff_jobs = 0 /\ v.consumed >= v.committed THEN FALSE ELSE v.spilling
  BY <1>2, TryResumeIs
<1>5. QED
  BY <1>1, <1>2, <1>3, <1>4, Zenon

-----------------------------------------------------------------------------
(* The stream.                                                             *)

LEMMA RecordsType ==
    ASSUME stream \in Seq(Record), NEW p \in Nat, NEW q \in Nat, q <= Len(stream)
    PROVE  /\ SubSeq(stream, p + 1, q) \in Seq(Record)
           /\ Records(p, q) \in Seq(Job)
           /\ Len(Records(p, q)) \in Nat
<1> DEFINE s == SubSeq(stream, p + 1, q)
<1>1. s \in Seq(Record)
  BY SubSeqProperties
<1> HIDE DEF s
<1>2. \A i \in DOMAIN s : i \in {k \in DOMAIN s : s[k] # Gap} => s[i] \in Job
  BY <1>1 DEF Record
<1>3. Records(p, q) \in Seq(Job)
  BY <1>1, <1>2, PickProperties DEF Records, s
<1>4. QED
  BY <1>1, <1>3 DEF s

LEMMA UnflushedType ==
    ASSUME BaseInv
    PROVE  Unflushed \in Nat
<1>1. order.committed \in Nat /\ Len(stream) \in Nat /\ stream \in Seq(Record)
  BY DEF BaseInv, TypeInv, OrderStates
<1>2. QED
  BY <1>1, RecordsType DEF Unflushed

LEMMA RolledIs ==
    ASSUME NEW s \in Seq(Record)
    PROVE  /\ Rolled(s) \in Seq(Record)
           /\ Len(Rolled(s)) \in {Len(s), Len(s) + 1}
           /\ \A i \in 1..Len(s) : Rolled(s)[i] = s[i]
           /\ \A i \in DOMAIN Rolled(s) : i > Len(s) => Rolled(s)[i] = Gap
<1>1. CASE s = <<>> \/ s[Len(s)] = Gap
  <2>1. Rolled(s) = s
    BY <1>1 DEF Rolled
  <2>2. QED
    BY <2>1
<1>2. CASE ~(s = <<>> \/ s[Len(s)] = Gap)
  <2>1. Rolled(s) = Append(s, Gap)
    BY <1>2 DEF Rolled
  <2>2. Gap \in Record
    BY DEF Record
  <2>3. QED
    BY <2>1, <2>2, AppendProperties
<1>3. QED
  BY <1>1, <1>2

(* What a failure leaves starts with everything that is committed. *)
LEMMA TornIs ==
    ASSUME BaseInv, NEW t \in Torn
    PROVE  /\ t \in Seq(Record)
           /\ Len(t) >= order.committed
           /\ \A i \in 1..order.committed : t[i] = stream[i]
           /\ \A i \in DOMAIN t : t[i] # Gap => i \in DOMAIN stream /\ t[i] = stream[i]
<1>0. stream \in Seq(Record) /\ order.committed \in Nat /\ order.committed <= Len(stream)
  BY DEF BaseInv, TypeInv, PositionInv, OrderStates
<1>1. PICK k \in order.committed..Len(stream) : t = Rolled(SubSeq(stream, 1, k))
  BY DEF Torn
<1> DEFINE s == SubSeq(stream, 1, k)
<1>2. k \in Nat /\ k <= Len(stream) /\ k >= order.committed /\ Len(stream) \in Nat
  BY <1>0, <1>1
<1>3. s \in Seq(Record) /\ Len(s) = k /\ \A i \in 1..k : s[i] = stream[i]
  BY <1>0, <1>2, SubSeqProperties
<1> HIDE DEF s
<1>4. /\ t \in Seq(Record) /\ Len(t) \in {Len(s), Len(s) + 1}
      /\ \A i \in 1..Len(s) : t[i] = s[i]
      /\ \A i \in DOMAIN t : i > Len(s) => t[i] = Gap
  BY <1>1, <1>3, RolledIs DEF s
<1>5. Len(t) \in Nat /\ Len(t) >= k /\ DOMAIN t = 1..Len(t) /\ DOMAIN stream = 1..Len(stream)
  BY <1>0, <1>2, <1>3, <1>4
<1>6. \A i \in 1..k : t[i] = stream[i]
  BY <1>3, <1>4
<1>7. ASSUME NEW i \in DOMAIN t, t[i] # Gap PROVE i \in 1..k
  <2>1. i \in Nat /\ i >= 1
    BY <1>5
  <2>2. ~(i > k)
    BY <1>3, <1>4, <1>7
  <2>3. QED
    BY <1>2, <2>1, <2>2
<1>8. \A i \in 1..k : i \in DOMAIN stream
  BY <1>2, <1>5
<1>9. QED
  <2>1. Len(t) >= order.committed /\ \A i \in 1..order.committed : i \in 1..k
    BY <1>0, <1>2, <1>5
  <2>2. QED
    BY <1>4, <1>6, <1>7, <1>8, <2>1

(* finish_unflushed: the hand-off is released and all is committed. *)
LEMMA SettledIs ==
    ASSUME BaseInv, NEW s \in Seq(Record), Len(s) >= order.committed, NEW n \in Nat
    PROVE  /\ Settled(s, n) \in OrderStates
           /\ Settled(s, n).memory_jobs = order.memory_jobs
           /\ Settled(s, n).handoff_jobs =
                  IF order.handoff_jobs >= Unflushed + n
                  THEN order.handoff_jobs - (Unflushed + n) ELSE 0
           /\ Settled(s, n).committed = Len(s)
           /\ Settled(s, n).consumed = order.consumed
           /\ Settled(s, n).spilling = order.spilling
<1> DEFINE k == Unflushed + n
           u == FinishHandoff(order, k)
<1>1. k \in Nat /\ order \in OrderStates /\ Len(s) \in Nat /\ order.committed \in Nat
  BY UnflushedType DEF BaseInv, TypeInv, OrderStates
<1>2. Settled(s, n) = SetCommitted(u, Len(s))
  BY DEF Settled
<1> HIDE DEF k
<1>3. /\ u \in OrderStates /\ u.memory_jobs = order.memory_jobs
      /\ u.handoff_jobs = IF order.handoff_jobs >= k THEN order.handoff_jobs - k ELSE 0
      /\ u.committed = order.committed /\ u.consumed = order.consumed
      /\ u.spilling = order.spilling
  BY <1>1, FinishHandoffIs
<1> HIDE DEF u
<1>4. /\ SetCommitted(u, Len(s)) \in OrderStates
      /\ SetCommitted(u, Len(s)).memory_jobs = u.memory_jobs
      /\ SetCommitted(u, Len(s)).handoff_jobs = u.handoff_jobs
      /\ SetCommitted(u, Len(s)).committed = IF Len(s) > u.committed THEN Len(s) ELSE u.committed
      /\ SetCommitted(u, Len(s)).consumed = u.consumed
      /\ SetCommitted(u, Len(s)).spilling = u.spilling
  BY <1>1, <1>3, SetCommittedIs
<1>5. SetCommitted(u, Len(s)).committed = Len(s)
  BY <1>1, <1>3, <1>4
<1>6. QED
  BY <1>2, <1>3, <1>4, <1>5, Zenon DEF k

-----------------------------------------------------------------------------
(* Where jobs are.  Whatever set they are all in, a step leaves them there *)
(* if the job it captures is in that set.                                  *)

Carried(S) ==
    /\ memory \in Seq(S) /\ handoff \in Seq(S) /\ held \in Seq(S)
    /\ stream \in Seq(S \union {Gap})
    /\ writer.batch \in Seq(S)
    /\ spill.pc = "job" => spill.job \in S

NewJob ==
    [id |-> captured + 1, at |-> generation, gen |-> clear_state.mirror,
     epoch |-> CaptureEpoch, boot |-> boot]

LEMMA NewJobType ==
    ASSUME TypeInv
    PROVE  NewJob \in Job
<1>1. CaptureEpoch \in Int
  BY DEF TypeInv, CaptureEpoch, InFlight
<1>2. QED
  BY <1>1 DEF TypeInv, NewJob, Job

LEMMA RestrictSeq ==
    ASSUME NEW X, NEW Y, NEW s \in Seq(X), \A i \in DOMAIN s : s[i] \in Y
    PROVE  s \in Seq(Y)
<1>1. s \in [1..Len(s) -> Y] /\ Len(s) \in Nat
  OBVIOUS
<1>2. QED
  BY <1>1, SeqDef

LEMMA RecordsIn ==
    ASSUME NEW S, stream \in Seq(S \union {Gap}), NEW p \in Nat, NEW q \in Nat, q <= Len(stream)
    PROVE  Records(p, q) \in Seq(S)
<1> DEFINE s == SubSeq(stream, p + 1, q)
<1>1. s \in Seq(S \union {Gap})
  BY SubSeqProperties
<1> HIDE DEF s
<1>2. \A i \in DOMAIN s : i \in {k \in DOMAIN s : s[k] # Gap} => s[i] \in S
  BY <1>1
<1>3. QED
  BY <1>1, <1>2, PickProperties DEF Records, s

LEMMA TornIn ==
    ASSUME BaseInv, NEW S, stream \in Seq(S \union {Gap}), NEW t \in Torn
    PROVE  t \in Seq(S \union {Gap})
<1>1. t \in Seq(Record) /\ \A i \in DOMAIN t : t[i] # Gap => i \in DOMAIN stream /\ t[i] = stream[i]
  BY TornIs
<1>2. \A i \in DOMAIN t : t[i] \in S \union {Gap}
  BY <1>1
<1>3. QED
  BY <1>1, <1>2, RestrictSeq

LEMMA RolledIn ==
    ASSUME NEW S, NEW s \in Seq(S \union {Gap})
    PROVE  Rolled(s) \in Seq(S \union {Gap})
  BY AppendProperties DEF Rolled

(* ReadNext stays within what is committed. *)
LEMMA ReadNextIs ==
    ASSUME BaseInv, writer.pc = "reading"
    PROVE  /\ ReadNext \in Nat
           /\ writer.cursor <= ReadNext /\ ReadNext <= writer.upto
           /\ writer.upto <= order.committed /\ order.committed <= Len(stream)
           /\ writer.cursor \in Nat /\ writer.upto \in Nat
<1>1. /\ writer.cursor \in Nat /\ writer.upto \in Nat /\ writer.cursor <= writer.upto
      /\ writer.upto <= order.committed /\ order.committed <= Len(stream)
  BY DEF BaseInv, TypeInv, PositionInv, WriterStates
<1> DEFINE enough == {p \in writer.cursor..writer.upto :
                         Len(Records(writer.cursor, p)) >= BatchMax}
<1>2. CASE enough = {}
  BY <1>1, <1>2 DEF ReadNext
<1>3. CASE enough # {}
  <2>1. enough \subseteq Nat
    BY <1>1
  <2>2. Min(enough) \in enough
    BY <1>3, <2>1, MinProperty
  <2>3. ReadNext = Min(enough)
    BY <1>3 DEF ReadNext
  <2> HIDE DEF enough
  <2>4. ReadNext \in writer.cursor..writer.upto
    BY <2>2, <2>3 DEF enough
  <2>5. QED
    BY <1>1, <2>4
<1>4. QED
  BY <1>2, <1>3

LEMMA CarrySame ==
    ASSUME NEW S, Carried(S), UNCHANGED <<queueVars, stream, spill>>, writer'.batch = writer.batch
    PROVE  Carried(S)'
  BY DEF Carried, queueVars

LEMMA CarryClear ==
    ASSUME BaseInv, NEW S, Carried(S), NEW c \in Clears,
           ClearStart(c) \/ ClearDropped(c) \/ ClearStep(c)
    PROVE  Carried(S)'
<1>1. CASE ClearStart(c) \/ ClearDropped(c) \/ ClearBegin(c) \/ ClearCommit(c) \/ ClearFails(c)
           \/ ClearRead(c) \/ ClearFinish(c)
  BY <1>1, CarrySame DEF ClearStart, ClearDropped, ClearBegin, ClearCommit, ClearFails, ClearRead,
     ClearFinish
<1>2. CASE PurgeAfterClear(c)
  <2>1. PICK P, Q : memory' = Pick(memory, P) /\ handoff' = Pick(handoff, Q)
    BY <1>2 DEF PurgeAfterClear
  <2>2. memory' \in Seq(S) /\ handoff' \in Seq(S)
    BY <2>1, PickProperties DEF Carried
  <2>3. held' \in {<<>>, held} /\ UNCHANGED <<stream, spill, writer>>
    BY <1>2 DEF PurgeAfterClear
  <2>4. QED
    BY <2>2, <2>3, EmptySeq DEF Carried
<1>3. CASE AbandonClear(c)
  <2>1. handoff' \in {handoff, held \o handoff} /\ held' \in {<<>>, held}
        /\ UNCHANGED <<memory, stream, spill, writer>>
    BY <1>3 DEF AbandonClear
  <2>2. held \o handoff \in Seq(S)
    BY ConcatProperties DEF Carried
  <2>3. QED
    BY <2>1, <2>2, EmptySeq DEF Carried
<1>4. QED
  BY <1>1, <1>2, <1>3 DEF ClearStep

LEMMA CarrySpill ==
    ASSUME BaseInv, NEW S, Carried(S), SpillStep \/ SpillUnblock
    PROVE  Carried(S)'
<1>1. CASE SpillUnblock
  BY <1>1, CarrySame DEF SpillUnblock
<1>2. CASE SpillRollTake \/ SpillPurgeTake \/ SpillPurge
  <2>1. UNCHANGED <<queueVars, stream, writer>> /\ spill'.pc # "job"
    <3>1. CASE SpillRollTake
      BY <3>1 DEF SpillRollTake, SpillIdle
    <3>2. CASE SpillPurgeTake
      BY <3>2 DEF SpillPurgeTake, SpillIdle
    <3>3. CASE SpillPurge
      BY <3>3 DEF SpillPurge, SpillIdle
    <3>4. QED
      BY <1>2, <3>1, <3>2, <3>3
  <2>2. QED
    BY <2>1 DEF Carried, queueVars
<1>3. CASE SpillRoll
  <2>1. stream' \in Seq(S \union {Gap})
    BY <1>3, TornIn, RolledIn DEF SpillRoll, Carried
  <2>2. UNCHANGED <<queueVars, writer>> /\ spill'.pc # "job"
    BY <1>3 DEF SpillRoll, SpillIdle
  <2>3. QED
    BY <2>1, <2>2 DEF Carried, queueVars
<1>4. CASE SpillTake
  <2> DEFINE free == {i \in DOMAIN handoff : ~Withheld(handoff[i])}
             n    == IF free = {} THEN Len(handoff) + 1 ELSE Min(free)
  <2>1. handoff \in Seq(S) /\ held \in Seq(S) /\ Len(handoff) \in Nat
        /\ DOMAIN handoff = 1..Len(handoff)
    BY DEF Carried
  <2>2. n \in 1..(Len(handoff) + 1) /\ (free # {} => n \in DOMAIN handoff)
    <3>1. CASE free = {}
      BY <2>1, <3>1
    <3>2. CASE free # {}
      <4>1. free \subseteq Nat
        BY <2>1
      <4>2. n \in free
        BY <3>2, <4>1, MinProperty
      <4>3. QED
        BY <2>1, <4>2
    <3>3. QED
      BY <3>1, <3>2
  <2>3. /\ held' = held \o SubSeq(handoff, 1, n - 1)
        /\ handoff' = SubSeq(handoff, n + 1, Len(handoff))
        /\ spill' = IF free = {} THEN SpillIdle
                    ELSE [SpillIdle EXCEPT !.pc = "job", !.job = handoff[n]]
        /\ UNCHANGED <<memory, stream, writer>>
    BY <1>4 DEF SpillTake
  <2> HIDE DEF free, n
  <2>4. SubSeq(handoff, 1, n - 1) \in Seq(S) /\ SubSeq(handoff, n + 1, Len(handoff)) \in Seq(S)
    BY <2>1, <2>2, SubSeqProperties
  <2>5. held' \in Seq(S)
    BY <2>1, <2>3, <2>4, ConcatProperties
  <2>6. spill'.pc = "job" => spill'.job \in S
    BY <2>1, <2>2, <2>3 DEF SpillIdle
  <2>7. QED
    BY <2>3, <2>4, <2>5, <2>6 DEF Carried
<1>5. CASE SpillAppend
  <2>1. spill.job \in S /\ stream' = Append(stream, spill.job) /\ spill'.pc # "job"
        /\ UNCHANGED <<queueVars, writer>>
    BY <1>5 DEF SpillAppend, Carried, SpillIdle
  <2>2. stream' \in Seq(S \union {Gap})
    BY <2>1, AppendProperties DEF Carried
  <2>3. QED
    BY <2>1, <2>2 DEF Carried, queueVars
<1>6. CASE SpillAppendFails
  <2>1. stream' \in Seq(S \union {Gap})
    BY <1>6, TornIn DEF SpillAppendFails, Carried
  <2>2. UNCHANGED <<queueVars, writer>> /\ spill'.pc # "job"
    BY <1>6 DEF SpillAppendFails, SpillIdle
  <2>3. QED
    BY <2>1, <2>2 DEF Carried, queueVars
<1>7. CASE SpillFlush
  <2>1. stream' \in Seq(S \union {Gap})
    BY <1>7, TornIn DEF SpillFlush, Carried
  <2>2. UNCHANGED <<queueVars, writer, spill>>
    BY <1>7 DEF SpillFlush
  <2>3. QED
    BY <2>1, <2>2 DEF Carried, queueVars
<1>8. QED
  BY <1>1, <1>2, <1>3, <1>4, <1>5, <1>6, <1>7 DEF SpillStep

LEMMA GatherSize ==
    ASSUME TypeInv
    PROVE  /\ Min({BatchMax, Len(memory)}) \in Nat
           /\ Min({BatchMax, Len(memory)}) <= Len(memory)
           /\ memory # <<>> => Min({BatchMax, Len(memory)}) > 0
<1>1. BatchMax \in Nat /\ BatchMax # 0 /\ Len(memory) \in Nat /\ (memory # <<>> => Len(memory) # 0)
  BY BudgetAssumption, EmptySeq DEF TypeInv
<1>2. Min({BatchMax, Len(memory)}) \in {BatchMax, Len(memory)}
      /\ Min({BatchMax, Len(memory)}) <= Len(memory)
  BY <1>1, MinOfTwo
<1>3. QED
  BY <1>1, <1>2

LEMMA CarryWriter ==
    ASSUME BaseInv, NEW S, Carried(S), WriterStep
    PROVE  Carried(S)'
<1> USE DEF BaseInv
<1>0. writer \in WriterStates
  BY DEF TypeInv
<1>1. CASE RefreshRead \/ RefreshObserve \/ RefreshBusy
  <2>1. writer'.batch = writer.batch
    <3>1. CASE RefreshRead
      BY <1>0, <3>1 DEF RefreshRead, WriterStates
    <3>2. CASE RefreshObserve
      BY <1>0, <3>2 DEF RefreshObserve, WriterStates
    <3>3. CASE RefreshBusy
      BY <3>3 DEF RefreshBusy
    <3>4. QED
      BY <1>1, <3>1, <3>2, <3>3
  <2>2. QED
    BY <1>1, <2>1, CarrySame DEF RefreshRead, RefreshObserve, RefreshBusy
<1>2. CASE ReadGivesUp \/ WriteEnd
  <2>1. writer'.batch = writer.batch
    <3>1. CASE ReadGivesUp
      <4>1. writer' = [WriterAt("gather") EXCEPT !.cursor = writer.upto]
        BY <3>1 DEF ReadGivesUp
      <4>2. QED
        BY <1>0, <4>1 DEF WriterStates, WriterAt
    <3>2. CASE WriteEnd
      <4>1. writer' = WriterAt("top")
        BY <3>2 DEF WriteEnd
      <4>2. QED
        BY <1>0, <4>1 DEF WriterStates, WriterAt
    <3>3. QED
      BY <1>2, <3>1, <3>2
  <2>2. QED
    BY <1>2, <2>1, CarrySame DEF ReadGivesUp, WriteEnd
<1>3. CASE Gather
  <2> DEFINE n == Min({BatchMax, Len(memory)})
  <2>1. \/ writer'.batch = writer.batch /\ memory' = memory
        \/ writer'.batch = SubSeq(memory, 1, n) /\ memory' = SubSeq(memory, n + 1, Len(memory))
    BY <1>0, <1>3 DEF Gather, WriterStates
  <2>2. n \in Nat /\ n <= Len(memory)
    BY GatherSize
  <2> HIDE DEF n
  <2>3. memory' \in Seq(S) /\ writer'.batch \in Seq(S)
    <3>1. memory \in Seq(S) /\ writer.batch \in Seq(S) /\ Len(memory) \in Nat
      BY DEF Carried
    <3>2. SubSeq(memory, 1, n) \in Seq(S) /\ SubSeq(memory, n + 1, Len(memory)) \in Seq(S)
      BY <2>2, <3>1, SubSeqProperties
    <3>3. QED
      BY <2>1, <3>1, <3>2
  <2>4. QED
    BY <1>3, <2>3 DEF Gather, Carried
<1>4. CASE ReadEnd
  <2>1. writer'.batch \in {writer.batch, Records(writer.cursor, ReadNext)}
    BY <1>0, <1>4 DEF ReadEnd, WriterStates, WriterAt
  <2>2. Records(writer.cursor, ReadNext) \in Seq(S)
    <3>1. writer.cursor \in Nat /\ ReadNext \in Nat /\ ReadNext <= Len(stream)
      <4>1. writer.pc = "reading" /\ order.committed \in Nat /\ Len(stream) \in Nat
        BY <1>4 DEF ReadEnd, TypeInv, OrderStates
      <4>2. QED
        BY <4>1, ReadNextIs
    <3>2. QED
      BY <3>1, RecordsIn DEF Carried
  <2>3. QED
    BY <1>4, <2>1, <2>2 DEF ReadEnd, Carried, queueVars
<1>5. CASE Write
  <2>1. writer'.batch = Tail(writer.batch) /\ writer.batch # <<>>
    BY <1>0, <1>5 DEF Write, WriterStates
  <2>2. writer'.batch \in Seq(S)
    BY <2>1, HeadTailProperties DEF Carried
  <2>3. QED
    BY <1>5, <2>2 DEF Write, Carried, queueVars
<1>6. CASE WriterPanics
  <2>1. writer'.batch = <<>>
    BY <1>6 DEF WriterPanics, WriterNew
  <2>2. QED
    BY <1>6, <2>1, EmptySeq DEF WriterPanics, Carried, queueVars
<1>7. QED
  BY <1>1, <1>2, <1>3, <1>4, <1>5, <1>6 DEF WriterStep

LEMMA CarrySubmit ==
    ASSUME NEW S, Carried(S), Submit, NewJob \in S
    PROVE  Carried(S)'
<1>1. memory' \in {memory, Append(memory, NewJob)} /\ handoff' \in {handoff, Append(handoff, NewJob)}
      /\ UNCHANGED <<held, stream, spill, writer>>
  BY DEF Submit, NewJob
<1>2. QED
  <2>1. memory \in Seq(S) /\ handoff \in Seq(S)
    BY DEF Carried
  <2>2. Append(memory, NewJob) \in Seq(S) /\ Append(handoff, NewJob) \in Seq(S)
    BY <2>1, AppendProperties
  <2>3. memory' \in Seq(S) /\ handoff' \in Seq(S)
    BY <1>1, <2>1, <2>2
  <2>4. QED
    BY <1>1, <2>3 DEF Carried

LEMMA CarryCrash ==
    ASSUME BaseInv, NEW S, Carried(S), Crash
    PROVE  Carried(S)'
<1>1. PICK from \in 0..order.consumed, upto \in order.committed..Len(stream) :
          stream' = SubSeq(stream, from + 1, upto)
  BY DEF Crash
<1>2. from + 1 >= 1 /\ from + 1 \in Int /\ upto \in Int /\ upto <= Len(stream)
  BY DEF BaseInv, TypeInv, OrderStates
<1>3. stream' \in Seq(S \union {Gap})
  BY <1>1, <1>2, SubSeqProperties DEF Carried
<1>4. /\ memory' = <<>> /\ handoff' = <<>> /\ held' = <<>>
      /\ writer'.batch = <<>> /\ spill'.pc = "step"
  BY DEF Crash, WriterNew, SpillIdle
<1>5. QED
  BY <1>3, <1>4, EmptySeq DEF Carried

LEMMA CarryStep ==
    ASSUME BaseInv, [Next]_vars, NEW S, Carried(S), NewJob \in S
    PROVE  Carried(S)'
<1>1. CASE UNCHANGED vars
  BY <1>1, CarrySame DEF vars, queueVars
<1>2. CASE Next
  BY <1>2, CarrySubmit, CarryClear, CarrySpill, CarryWriter, CarryCrash DEF Next
<1>3. QED
  BY <1>1, <1>2

-----------------------------------------------------------------------------
(* Types and positions are kept.                                           *)

LEMMA CarriedJobs ==
    ASSUME BaseInv, [Next]_vars
    PROVE  Carried(Job)'
<1>1. Carried(Job)
  BY DEF BaseInv, TypeInv, Carried, Record, WriterStates
<1>2. QED
  BY <1>1, NewJobType, CarryStep DEF BaseInv

LEMMA ObservedType ==
    ASSUME TypeInv, NEW g \in Int, NEW e
    PROVE  /\ [clear_state EXCEPT !.mirror = Observed(g, e)] \in
                  [mirror : Int, started : Nat, finished : Nat]
           /\ Observed(g, e) \in {g, clear_state.mirror}
  BY DEF TypeInv, Observed

LEMMA FaultType ==
    ASSUME TypeInv, Fault
    PROVE  faults' \in Nat
  BY DEF TypeInv, Fault

LEMMA BaseInit == Init => BaseInv
<1> SUFFICES ASSUME Init PROVE BaseInv
  OBVIOUS
<1>1. Leftover \in Job
  BY DEF Leftover, Job, Unresolved
<1>2. stream \in Seq(Record) /\ faults \in Nat /\ Len(stream) \in Nat
  <2>1. <<Leftover>> \in Seq(Record) /\ <<>> \in Seq(Record)
    BY <1>1, EmptySeq DEF Record
  <2>2. stream \in {<<>>, <<Leftover>>} /\ faults \in {0, 1}
    BY DEF Init
  <2>3. stream \in Seq(Record)
    BY <2>1, <2>2, Zenon
  <2>4. QED
    BY <2>2, <2>3
<1>3. order \in OrderStates /\ order.committed = Len(stream) /\ order.consumed = 0
  BY <1>2 DEF Init, NewOrder, OrderStates
<1>4. marks \in MarkStates /\ marks.read_start = 0 /\ \A c \in Clears : marks.boundaries[c] = None
  BY DEF Init, NoMarks, MarkStates
<1>5. writer \in WriterStates /\ writer.cursor = 0 /\ writer.pc = "top" /\ writer.read = None
  BY EmptySeq DEF Init, WriterNew, WriterStates
<1>6. spill \in SpillStates /\ spill.pc = "step" /\ spill.boundary = 0
  BY DEF Init, SpillIdle, SpillStates
<1>7. clear \in [Clears -> ClearStates]
  BY DEF Init, ClearStates, ClearPcs
<1>8. TypeInv
  <2>1. /\ generation \in Nat /\ captured \in Nat /\ boot \in Nat
        /\ clear_state \in [mirror : Int, started : Nat, finished : Nat]
    BY DEF Init, NewClearState
  <2>2. /\ written \in Seq([id : Nat, at : Nat, gen : Nat])
        /\ memory \in Seq(Job) /\ handoff \in Seq(Job) /\ held \in Seq(Job)
        /\ in_flight = None
    BY EmptySeq DEF Init
  <2>3. QED
    BY <1>2, <1>3, <1>4, <1>5, <1>6, <1>7, <2>1, <2>2 DEF TypeInv
<1>9. PositionInv
  BY <1>2, <1>3, <1>4, <1>5, <1>6 DEF PositionInv, Init
<1>10. QED
  BY <1>8, <1>9 DEF BaseInv

(* What is left to show of the types, once the jobs are known to be jobs. *)
LEMMA TypeRest ==
    ASSUME Carried(Job)',
           generation' \in Nat,
           written' \in Seq([id : Nat, at : Nat, gen : Nat]),
           clear_state' \in [mirror : Int, started : Nat, finished : Nat],
           order' \in OrderStates, marks' \in MarkStates,
           in_flight' \in FlightStates \union {None},
           writer' \in WriterStates, spill' \in SpillStates,
           clear' \in [Clears -> ClearStates],
           captured' \in Nat, boot' \in Nat, faults' \in Nat
    PROVE  TypeInv'
  BY DEF TypeInv, Carried, Record

LEMMA BaseSubmit ==
    ASSUME BaseInv, Submit
    PROVE  BaseInv'
<1>1. Carried(Job)'
  BY CarriedJobs DEF Next
<1>2. order' \in OrderStates /\ order'.committed = order.committed /\ order'.consumed = order.consumed
  <2>1. order \in OrderStates
    BY DEF BaseInv, TypeInv
  <2>2. \/ order' = [order EXCEPT !.memory_jobs = @ + 1]
        \/ \E b \in BOOLEAN : order' = [order EXCEPT !.spilling = b, !.handoff_jobs = @ + 1]
        \/ \E b \in BOOLEAN : order' = [order EXCEPT !.spilling = b]
    BY DEF Submit
  <2>3. order' \in OrderStates
    <3>1. CASE order' = [order EXCEPT !.memory_jobs = @ + 1]
      BY <2>1, <3>1 DEF OrderStates
    <3>2. ASSUME NEW b \in BOOLEAN, order' = [order EXCEPT !.spilling = b, !.handoff_jobs = @ + 1]
          PROVE  order' \in OrderStates
      <4>1. order' = [spilling |-> b, memory_jobs |-> order.memory_jobs,
                      handoff_jobs |-> order.handoff_jobs + 1, blocked |-> order.blocked,
                      committed |-> order.committed, consumed |-> order.consumed]
        BY <2>1, <3>2 DEF OrderStates
      <4>2. order.handoff_jobs + 1 \in Nat
        BY <2>1 DEF OrderStates
      <4>3. QED
        BY <2>1, <4>1, <4>2 DEF OrderStates
    <3>3. ASSUME NEW b \in BOOLEAN, order' = [order EXCEPT !.spilling = b]
          PROVE  order' \in OrderStates
      BY <2>1, <3>3 DEF OrderStates
    <3>4. QED
      BY <2>2, <3>1, <3>2, <3>3
  <2>4. order'.committed = order.committed /\ order'.consumed = order.consumed
    BY <2>1, <2>2 DEF OrderStates
  <2>5. QED
    BY <2>3, <2>4
<1>3. /\ UNCHANGED <<dbVars, clear_state, marks, stream, in_flight, writer, spill,
                     clear, boot, faults>>
      /\ captured' \in Nat
  BY DEF Submit, BaseInv, TypeInv
<1>4. TypeInv'
  BY <1>1, <1>2, <1>3, TypeRest DEF BaseInv, TypeInv, dbVars
<1>5. PositionInv'
  BY <1>2, <1>3 DEF BaseInv, PositionInv
<1>6. QED
  BY <1>4, <1>5 DEF BaseInv

(* purge_after_clear: what stays of the queues, and what is released. *)
PurgeThreshold(c) ==
    IF clear[c].gen = None THEN clear_state.mirror ELSE clear[c].gen

Kept(c, jobs) == {i \in DOMAIN jobs : jobs[i].gen >= 0 /\ jobs[i].gen >= PurgeThreshold(c)}

Dropped(c, jobs) == Pick(jobs, DOMAIN jobs \ Kept(c, jobs))

Cleared(c) == [marks.thresholds EXCEPT ![c] = None]

Gone(c) == IF NoneRuns(Cleared(c)) THEN held ELSE <<>>

LEMMA PurgeIs ==
    ASSUME NEW c \in Clears, PurgeAfterClear(c)
    PROVE  /\ clear_state' = [clear_state EXCEPT !.mirror =
                                 IF clear[c].gen = None THEN clear_state.mirror
                                 ELSE Observed(clear[c].gen, None)]
           /\ memory' = Pick(memory, Kept(c, memory))
           /\ handoff' = Pick(handoff, Kept(c, handoff))
           /\ held' = IF NoneRuns(Cleared(c)) THEN <<>> ELSE held
           /\ order' = TryResume(FinishHandoff(ReleaseMemory(order, Len(Dropped(c, memory))),
                                               Len(Dropped(c, handoff)) + Len(Gone(c))))
           /\ marks' = [marks EXCEPT !.thresholds = Cleared(c), !.rolls = @ \ {c},
                                     !.purges = @ \union {c}, !.purge_seq = @ + 1]
           /\ wronged' = wronged \union Thrown(Dropped(c, memory), FALSE)
                                 \union Thrown(Dropped(c, handoff), FALSE)
                                 \union Thrown(Gone(c), TRUE)
           /\ clear' = [clear EXCEPT ![c] = [pc |-> "finish", gen |-> None]]
  BY DEF PurgeAfterClear, Kept, Dropped, Cleared, Gone, PurgeThreshold

LEMMA PurgeOrder ==
    ASSUME BaseInv, NEW c \in Clears, PurgeAfterClear(c)
    PROVE  LET m == Len(Dropped(c, memory))
               h == Len(Dropped(c, handoff)) + Len(Gone(c))
           IN  /\ m \in Nat /\ h \in Nat
               /\ order' \in OrderStates
               /\ order'.committed = order.committed /\ order'.consumed = order.consumed
               /\ order'.memory_jobs = IF order.memory_jobs >= m THEN order.memory_jobs - m ELSE 0
               /\ order'.handoff_jobs = IF order.handoff_jobs >= h THEN order.handoff_jobs - h ELSE 0
               /\ order'.spilling = IF order'.handoff_jobs = 0 /\ order.consumed >= order.committed
                                    THEN FALSE ELSE order.spilling
<1> DEFINE m == Len(Dropped(c, memory))
           h == Len(Dropped(c, handoff)) + Len(Gone(c))
           u == ReleaseMemory(order, m)
           v == FinishHandoff(u, h)
<1>1. memory \in Seq(Job) /\ handoff \in Seq(Job) /\ held \in Seq(Job) /\ order \in OrderStates
  BY DEF BaseInv, TypeInv
<1>2. Dropped(c, memory) \in Seq(Job) /\ Dropped(c, handoff) \in Seq(Job)
  BY <1>1, PickProperties DEF Dropped
<1>3. Gone(c) \in Seq(Job)
  BY <1>1, EmptySeq DEF Gone
<1>4. m \in Nat /\ h \in Nat
  BY <1>2, <1>3
<1>5. order' = TryResume(v)
  BY PurgeIs
<1> HIDE DEF m, h
<1>6. /\ u \in OrderStates /\ u.handoff_jobs = order.handoff_jobs
      /\ u.memory_jobs = IF order.memory_jobs >= m THEN order.memory_jobs - m ELSE 0
      /\ u.committed = order.committed /\ u.consumed = order.consumed /\ u.spilling = order.spilling
  BY <1>1, <1>4, ReleaseMemoryIs
<1> HIDE DEF u
<1>7. /\ v \in OrderStates /\ v.memory_jobs = u.memory_jobs
      /\ v.handoff_jobs = IF u.handoff_jobs >= h THEN u.handoff_jobs - h ELSE 0
      /\ v.committed = u.committed /\ v.consumed = u.consumed /\ v.spilling = u.spilling
  BY <1>4, <1>6, FinishHandoffIs
<1> HIDE DEF v
<1>8. /\ TryResume(v) \in OrderStates
      /\ TryResume(v).memory_jobs = v.memory_jobs /\ TryResume(v).handoff_jobs = v.handoff_jobs
      /\ TryResume(v).committed = v.committed /\ TryResume(v).consumed = v.consumed
      /\ TryResume(v).spilling =
             IF v.handoff_jobs = 0 /\ v.consumed >= v.committed THEN FALSE ELSE v.spilling
  BY <1>7, TryResumeIs
<1>9. QED
  BY <1>4, <1>5, <1>6, <1>7, <1>8, Zenon DEF m, h

LEMMA BaseClear ==
    ASSUME BaseInv, NEW c \in Clears, ClearStart(c) \/ ClearDropped(c) \/ ClearStep(c)
    PROVE  BaseInv'
<1>0. Carried(Job)' /\ TypeInv /\ clear \in [Clears -> ClearStates] /\ faults \in Nat
      /\ clear_state \in [mirror : Int, started : Nat, finished : Nat]
      /\ order \in OrderStates /\ marks \in MarkStates
  BY CarriedJobs DEF Next, BaseInv, TypeInv
<1>1. UNCHANGED <<written, stream, in_flight, writer, spill, captured, boot>>
  BY DEF ClearStart, ClearDropped, ClearStep, ClearBegin, ClearCommit, ClearFails, ClearRead,
     PurgeAfterClear, AbandonClear, ClearFinish, dbVars
<1>2. faults' \in Nat
  BY <1>0, FaultType DEF ClearStart, ClearDropped, ClearStep, ClearBegin, ClearCommit, ClearFails,
     ClearRead, PurgeAfterClear, AbandonClear, ClearFinish
<1>3. generation' \in Nat
  <2>1. generation' \in {generation, generation + 1}
    BY DEF ClearStart, ClearDropped, ClearStep, ClearBegin, ClearCommit, ClearFails,
       ClearRead, PurgeAfterClear, AbandonClear, ClearFinish, dbVars
  <2>2. QED
    BY <1>0, <2>1 DEF TypeInv
<1>4. clear' \in [Clears -> ClearStates]
  <2>1. CASE ClearStart(c) \/ ClearDropped(c) \/ ClearBegin(c) \/ ClearCommit(c) \/ ClearFails(c)
             \/ ClearFinish(c)
    <3>1. PICK pc \in ClearPcs : clear' = [clear EXCEPT ![c].pc = pc]
      BY <2>1 DEF ClearStart, ClearDropped, ClearBegin, ClearCommit, ClearFails, ClearFinish, To,
         ClearPcs
    <3>2. QED
      BY <1>0, <3>1 DEF ClearStates
  <2>2. CASE ClearRead(c) \/ PurgeAfterClear(c) \/ AbandonClear(c)
    <3>1. PICK pc \in ClearPcs, g \in Nat \union {None} :
              clear' = [clear EXCEPT ![c] = [pc |-> pc, gen |-> g]]
      BY <2>2 DEF ClearRead, PurgeAfterClear, AbandonClear, ClearPcs, BaseInv, TypeInv
    <3>2. QED
      BY <1>0, <3>1 DEF ClearStates
  <2>3. QED
    BY <2>1, <2>2 DEF ClearStep
<1>5. clear_state' \in [mirror : Int, started : Nat, finished : Nat]
  <2>1. CASE ClearStart(c) \/ ClearFinish(c)
    BY <1>0, <2>1 DEF ClearStart, ClearFinish
  <2>2. CASE PurgeAfterClear(c)
    <3>1. clear[c].gen \in Nat \union {None}
      BY <1>0 DEF ClearStates
    <3>2. PICK m : clear_state' = [clear_state EXCEPT !.mirror = m]
                   /\ m \in {clear_state.mirror} \union
                              (IF clear[c].gen = None THEN {} ELSE {Observed(clear[c].gen, None)})
      BY <2>2 DEF PurgeAfterClear
    <3>3. m \in Int
      BY <1>0, <3>1, <3>2, ObservedType
    <3>4. QED
      BY <1>0, <3>2, <3>3
  <2>3. CASE UNCHANGED clear_state
    BY <1>0, <2>3
  <2>4. QED
    BY <2>1, <2>2, <2>3 DEF ClearDropped, ClearStep, ClearBegin, ClearCommit, ClearFails,
       ClearRead, AbandonClear
<1>6. order' \in OrderStates /\ order'.committed = order.committed /\ order'.consumed = order.consumed
  <2>1. CASE PurgeAfterClear(c)
    BY <2>1, PurgeOrder
  <2>2. CASE UNCHANGED order
    BY <1>0, <2>2
  <2>3. QED
    BY <2>1, <2>2 DEF ClearStart, ClearDropped, ClearStep, ClearBegin, ClearCommit, ClearFails,
       ClearRead, AbandonClear, ClearFinish
<1>7. /\ marks' \in MarkStates /\ marks'.read_start = marks.read_start
      /\ \A d \in Clears : marks'.boundaries[d] \in {marks.boundaries[d], None}
  <2>1. CASE ClearBegin(c)
    <3>1. marks' = [marks EXCEPT !.thresholds[c] = clear_state.mirror, !.rolls = @ \union {c}]
      BY <2>1 DEF ClearBegin
    <3>2. clear_state.mirror \in Int
      BY <1>0
    <3>3. QED
      BY <1>0, <3>1, <3>2 DEF MarkStates
  <2>2. CASE PurgeAfterClear(c)
    <3>1. marks' = [marks EXCEPT !.thresholds = Cleared(c), !.rolls = @ \ {c},
                                 !.purges = @ \union {c}, !.purge_seq = @ + 1]
      BY <2>2, PurgeIs
    <3>2. Cleared(c) \in [Clears -> Int \union {None}]
      BY <1>0 DEF MarkStates, Cleared
    <3>3. marks' = [thresholds |-> Cleared(c), boundaries |-> marks.boundaries,
                    rolls |-> marks.rolls \ {c}, purges |-> marks.purges \union {c},
                    purge_seq |-> marks.purge_seq + 1, read_start |-> marks.read_start]
      BY <1>0, <3>1 DEF MarkStates
    <3>4. QED
      BY <1>0, <3>2, <3>3 DEF MarkStates
  <2>3. CASE AbandonClear(c)
    <3>1. marks' = [marks EXCEPT !.thresholds = [marks.thresholds EXCEPT ![c] = None],
                                 !.rolls = @ \ {c}, !.boundaries[c] = None]
      BY <2>3 DEF AbandonClear
    <3>2. QED
      BY <1>0, <3>1 DEF MarkStates
  <2>4. CASE UNCHANGED marks
    BY <1>0, <2>4
  <2>5. QED
    BY <2>1, <2>2, <2>3, <2>4 DEF ClearStart, ClearDropped, ClearStep, ClearCommit, ClearFails,
       ClearRead, ClearFinish
<1>8. TypeInv'
  BY <1>0, <1>1, <1>2, <1>3, <1>4, <1>5, <1>6, <1>7, TypeRest DEF TypeInv
<1>9. PositionInv'
  BY <1>1, <1>6, <1>7 DEF BaseInv, PositionInv
<1>10. QED
  BY <1>8, <1>9 DEF BaseInv

(* What the spill thread's steps leave alone. *)
LEMMA SpillFrame ==
    ASSUME SpillStep \/ SpillUnblock
    PROVE  UNCHANGED <<generation, written, clear_state, memory, in_flight, writer, clear,
                       captured, boot, unstored>>
  BY DEF SpillStep, SpillUnblock, SpillRollTake, SpillRoll, SpillPurgeTake, SpillPurge, SpillTake,
     SpillAppend, SpillAppendFails, SpillFlush, dbVars, queueVars, histVars

LEMMA SpillFaults ==
    ASSUME TypeInv, SpillStep \/ SpillUnblock
    PROVE  faults' \in Nat
<1>1. UNCHANGED faults \/ Fault
  BY DEF SpillStep, SpillUnblock, SpillRollTake, SpillRoll, SpillPurgeTake, SpillPurge, SpillTake,
     SpillAppend, SpillAppendFails, SpillFlush
<1>2. QED
  BY <1>1, FaultType DEF TypeInv

(* The spill thread moves the committed position up, over a stream whose   *)
(* committed part stays, and the other positions stay below it.            *)
LEMMA BaseSpillFrom ==
    ASSUME BaseInv, SpillStep \/ SpillUnblock,
           order' \in OrderStates, marks' \in MarkStates, spill' \in SpillStates,
           order'.committed >= order.committed, order'.committed <= Len(stream'),
           order'.consumed >= order.consumed, order'.consumed <= order'.committed,
           marks'.read_start <= order'.consumed,
           \A c \in Clears : marks'.boundaries[c] # None => marks'.boundaries[c] <= order'.committed,
           spill'.boundary <= order'.committed
    PROVE  BaseInv'
<1>1. Carried(Job)'
  BY CarriedJobs DEF Next
<1>2. TypeInv'
  BY <1>1, SpillFrame, SpillFaults, TypeRest DEF BaseInv, TypeInv
<1>3. /\ writer' = writer /\ in_flight' = in_flight
      /\ writer.cursor \in Nat /\ writer.upto \in Nat /\ order.committed \in Nat
      /\ order.consumed \in Nat /\ order'.committed \in Nat /\ order'.consumed \in Nat
      /\ (in_flight # None => in_flight.next \in Nat)
  BY SpillFrame DEF BaseInv, TypeInv, OrderStates, WriterStates, FlightStates
<1>4. PositionInv'
  BY <1>3 DEF BaseInv, PositionInv
<1>5. QED
  BY <1>2, <1>4 DEF BaseInv

LEMMA SpillIdleType == SpillIdle \in SpillStates /\ SpillIdle.boundary = 0 /\ SpillIdle.pc = "step"
  BY DEF SpillIdle, SpillStates

LEMMA BaseSpill ==
    ASSUME BaseInv, SpillStep \/ SpillUnblock
    PROVE  BaseInv'
<1>0. /\ order \in OrderStates /\ marks \in MarkStates /\ spill \in SpillStates
      /\ stream \in Seq(Record) /\ Len(stream) \in Nat
      /\ order.committed \in Nat /\ order.consumed \in Nat /\ marks.read_start \in Nat
      /\ spill.boundary \in Nat
      /\ order.consumed <= order.committed /\ order.committed <= Len(stream)
      /\ marks.read_start <= order.consumed /\ spill.boundary <= order.committed
      /\ \A c \in Clears : /\ marks.boundaries[c] \in Nat \union {None}
                           /\ marks.boundaries[c] # None => marks.boundaries[c] <= order.committed
  <2>1. /\ order \in OrderStates /\ marks \in MarkStates /\ spill \in SpillStates
        /\ stream \in Seq(Record) /\ Len(stream) \in Nat
    BY DEF BaseInv, TypeInv
  <2>2. /\ order.consumed <= order.committed /\ order.committed <= Len(stream)
        /\ marks.read_start <= order.consumed /\ spill.boundary <= order.committed
        /\ \A c \in Clears : marks.boundaries[c] # None => marks.boundaries[c] <= order.committed
    BY DEF BaseInv, PositionInv
  <2>3. QED
    BY <2>1, <2>2 DEF OrderStates, MarkStates, SpillStates
<1>1. CASE SpillUnblock
  <2>1. order' \in OrderStates /\ order'.committed = order.committed /\ order'.consumed = order.consumed
    BY <1>0, <1>1 DEF SpillUnblock, OrderStates
  <2>2. UNCHANGED <<marks, spill, stream>>
    BY <1>1 DEF SpillUnblock
  <2>3. QED
    BY <1>0, <2>1, <2>2, BaseSpillFrom
<1>2. CASE SpillRollTake
  <2>1. spill' \in SpillStates /\ spill'.boundary = 0
    BY <1>0, <1>2 DEF SpillRollTake, SpillIdle, SpillStates, MarkStates
  <2>2. marks' \in MarkStates /\ marks'.read_start = marks.read_start
        /\ marks'.boundaries = marks.boundaries /\ UNCHANGED <<order, stream>>
    BY <1>0, <1>2 DEF SpillRollTake, MarkStates
  <2>3. QED
    BY <1>0, <2>1, <2>2, BaseSpillFrom
<1>3. CASE SpillRoll
  <2>1. stream' \in Seq(Record) /\ Len(stream') >= order.committed /\ Len(stream') \in Nat
    <3>1. Rolled(stream) \in Torn
      <4>1. stream = SubSeq(stream, 1, Len(stream)) /\ Len(stream) \in order.committed..Len(stream)
        BY <1>0, SubSeqFull
      <4>2. QED
        BY <4>1 DEF Torn
    <3>2. stream' \in Torn
      BY <1>3, <3>1 DEF SpillRoll
    <3>3. QED
      BY <3>2, TornIs
  <2>2. order' = Settled(stream', 0)
    BY <1>3 DEF SpillRoll
  <2>3. order' \in OrderStates /\ order'.committed = Len(stream') /\ order'.consumed = order.consumed
    BY <2>1, <2>2, SettledIs
  <2>4. marks' = [marks EXCEPT !.boundaries =
                     [c \in Clears |-> IF c \in spill.seqs THEN Len(stream') ELSE @[c]]]
    BY <1>3 DEF SpillRoll
  <2>5. marks' \in MarkStates /\ marks'.read_start = marks.read_start
        /\ \A c \in Clears : marks'.boundaries[c] \in {Len(stream'), marks.boundaries[c]}
    BY <1>0, <2>1, <2>4 DEF MarkStates
  <2>6. spill' \in SpillStates /\ spill'.boundary = 0
    BY <1>3, SpillIdleType DEF SpillRoll
  <2>7. \A c \in Clears : marks'.boundaries[c] # None => marks'.boundaries[c] <= order'.committed
    BY <1>0, <2>1, <2>3, <2>5
  <2>8. QED
    BY <1>0, <2>1, <2>3, <2>5, <2>6, <2>7, BaseSpillFrom
<1>4. CASE SpillPurgeTake
  <2> DEFINE recorded == {marks.boundaries[c] : c \in marks.purges} \ {None}
  <2>1. marks' = [marks EXCEPT !.purges = {},
                               !.boundaries = [c \in Clears |-> IF c \in marks.purges
                                                                THEN None ELSE @[c]]]
        /\ UNCHANGED <<order, stream>>
    BY <1>4 DEF SpillPurgeTake
  <2>2. marks' \in MarkStates /\ marks'.read_start = marks.read_start
        /\ \A c \in Clears : marks'.boundaries[c] \in {None, marks.boundaries[c]}
    BY <1>0, <2>1 DEF MarkStates
  <2>3. spill' = IF recorded = {} THEN SpillIdle
                 ELSE [SpillIdle EXCEPT !.pc = "purge", !.boundary = Max(recorded)]
    BY <1>4 DEF SpillPurgeTake
  <2>4. recorded # {} => Max(recorded) \in Nat /\ Max(recorded) <= order.committed
    <3>1. recorded \subseteq Nat /\ \A n \in recorded : n <= order.committed
      BY <1>0 DEF MarkStates
    <3>2. recorded # {} => Max(recorded) \in recorded
      BY <1>0, <3>1, MaxProperty
    <3> HIDE DEF recorded
    <3>3. QED
      BY <3>1, <3>2
  <2> HIDE DEF recorded
  <2>5. spill' \in SpillStates /\ spill'.boundary <= order.committed
    <3>1. CASE recorded = {}
      BY <1>0, <2>3, <3>1, SpillIdleType
    <3>2. CASE recorded # {}
      <4>1. spill' = [pc |-> "purge", seqs |-> {}, boundary |-> Max(recorded), job |-> None]
        BY <2>3, <3>2 DEF SpillIdle
      <4>2. QED
        BY <2>4, <3>2, <4>1 DEF SpillStates
    <3>3. QED
      BY <3>1, <3>2
  <2>6. QED
    BY <1>0, <2>1, <2>2, <2>5, BaseSpillFrom
<1>5. CASE SpillPurge
  <2>1. order' = SkipStreamTo(order, spill.boundary)
    BY <1>5 DEF SpillPurge
  <2>2. order' \in OrderStates /\ order'.committed = order.committed
        /\ order'.consumed = IF spill.boundary > order.consumed THEN spill.boundary ELSE order.consumed
    <3>1. /\ SkipStreamTo(order, spill.boundary) \in OrderStates
          /\ SkipStreamTo(order, spill.boundary).committed =
                 IF spill.boundary > order.committed THEN spill.boundary ELSE order.committed
          /\ SkipStreamTo(order, spill.boundary).consumed =
                 IF spill.boundary > order.consumed THEN spill.boundary ELSE order.consumed
      BY <1>0, SkipStreamToIs
    <3>2. ~(spill.boundary > order.committed)
      BY <1>0
    <3>3. QED
      BY <2>1, <3>1, <3>2, Zenon
  <2>3. marks' = [marks EXCEPT !.read_start = Max({marks.read_start, spill.boundary})]
        /\ UNCHANGED stream
    BY <1>5 DEF SpillPurge
  <2>4. Max({marks.read_start, spill.boundary}) \in {marks.read_start, spill.boundary}
    BY <1>0, MaxOfTwo
  <2>5. marks' \in MarkStates /\ marks'.boundaries = marks.boundaries
        /\ marks'.read_start \in {marks.read_start, spill.boundary}
    BY <1>0, <2>3, <2>4 DEF MarkStates
  <2>6. spill' \in SpillStates /\ spill'.boundary = 0
    BY <1>5, SpillIdleType DEF SpillPurge
  <2>7. QED
    BY <1>0, <2>2, <2>3, <2>5, <2>6, BaseSpillFrom
<1>6. CASE SpillTake
  <2>1. spill'.boundary = 0 /\ spill'.seqs = {} /\ spill'.pc \in {"step", "job"}
        /\ spill' = [pc |-> spill'.pc, seqs |-> spill'.seqs, boundary |-> spill'.boundary,
                     job |-> spill'.job] /\ (spill'.pc = "step" => spill'.job = None)
    BY <1>6 DEF SpillTake, SpillIdle
  <2>2. spill'.job \in Job \union {None}
    BY <2>1, CarriedJobs DEF Next, Carried
  <2>3. spill' \in SpillStates
    BY <2>1, <2>2 DEF SpillStates
  <2>4. UNCHANGED <<order, marks, stream>>
    BY <1>6 DEF SpillTake
  <2>5. QED
    BY <1>0, <2>1, <2>3, <2>4, BaseSpillFrom
<1>7. CASE SpillAppend
  <2>1. spill' \in SpillStates /\ spill'.boundary = 0 /\ UNCHANGED <<order, marks>>
        /\ stream' = Append(stream, spill.job)
    BY <1>7, SpillIdleType DEF SpillAppend
  <2>2. Len(stream') = Len(stream) + 1
    BY <1>0, <2>1
  <2>3. QED
    BY <1>0, <2>1, <2>2, BaseSpillFrom
<1>8. CASE SpillAppendFails
  <2>1. spill' \in SpillStates /\ spill'.boundary = 0 /\ UNCHANGED <<marks>>
    BY <1>8, SpillIdleType DEF SpillAppendFails
  <2>2. /\ order' \in OrderStates /\ order'.consumed = order.consumed
        /\ order'.committed >= order.committed /\ order'.committed <= Len(stream')
    <3>1. CASE order' = [FinishHandoff(order, 1) EXCEPT !.blocked = TRUE] /\ UNCHANGED stream
      <4>1. /\ FinishHandoff(order, 1) \in OrderStates
            /\ FinishHandoff(order, 1).committed = order.committed
            /\ FinishHandoff(order, 1).consumed = order.consumed
        BY <1>0, FinishHandoffIs
      <4>2. PICK o \in OrderStates : o = FinishHandoff(order, 1)
        BY <4>1
      <4>3. order' = [o EXCEPT !.blocked = TRUE]
        BY <3>1, <4>2
      <4>4. order' \in OrderStates /\ order'.committed = o.committed /\ order'.consumed = o.consumed
        BY <4>3 DEF OrderStates
      <4>5. QED
        BY <1>0, <3>1, <4>1, <4>2, <4>4
    <3>2. CASE stream' \in Torn \union {stream} /\ order' = Settled(stream', 1)
      <4>1. stream' \in Seq(Record) /\ Len(stream') >= order.committed /\ Len(stream') \in Nat
        BY <1>0, <3>2, TornIs
      <4>2. order' \in OrderStates /\ order'.committed = Len(stream')
            /\ order'.consumed = order.consumed
        BY <3>2, <4>1, SettledIs
      <4>3. QED
        BY <1>0, <4>1, <4>2
    <3>3. QED
      BY <1>8, <3>1, <3>2 DEF SpillAppendFails
  <2>3. order'.committed \in Nat
    BY <2>2 DEF OrderStates
  <2>4. QED
    BY <1>0, <2>1, <2>2, <2>3, BaseSpillFrom
<1>9. CASE SpillFlush
  <2>1. UNCHANGED <<marks, spill>> /\ stream' \in Torn \union {stream} /\ order' = Settled(stream', 0)
    BY <1>9 DEF SpillFlush
  <2>2. stream' \in Seq(Record) /\ Len(stream') >= order.committed /\ Len(stream') \in Nat
    BY <1>0, <2>1, TornIs
  <2>3. order' \in OrderStates /\ order'.committed = Len(stream') /\ order'.consumed = order.consumed
    BY <2>1, <2>2, SettledIs
  <2>4. QED
    BY <1>0, <2>1, <2>2, <2>3, BaseSpillFrom
<1>10. QED
  BY <1>1, <1>2, <1>3, <1>4, <1>5, <1>6, <1>7, <1>8, <1>9 DEF SpillStep

LEMMA WriterFrame ==
    ASSUME WriterStep
    PROVE  UNCHANGED <<generation, handoff, held, marks, stream, spill, clear, captured, boot,
                       wronged, passed>>
  BY DEF WriterStep, RefreshRead, RefreshObserve, RefreshBusy, Gather, ReadEnd, ReadGivesUp, Write,
     WriteEnd, WriterPanics, dbVars, queueVars, histVars

LEMMA WriterAtIs ==
    ASSUME writer \in WriterStates, NEW pc
    PROVE  WriterAt(pc) = [pc |-> pc, cursor |-> writer.cursor, seq |-> writer.seq, upto |-> 0,
                           read_seq |-> 0, disk |-> FALSE, size |-> 0, batch |-> writer.batch,
                           read |-> writer.read]
<1>1. PICK v : v = WriterAt(pc)
  OBVIOUS
<1>2. v = [writer EXCEPT !.pc = pc, !.upto = 0, !.read_seq = 0, !.disk = FALSE, !.size = 0]
  BY <1>1 DEF WriterAt
<1>3. v = [pc |-> pc, cursor |-> writer.cursor, seq |-> writer.seq, upto |-> 0,
           read_seq |-> 0, disk |-> FALSE, size |-> 0, batch |-> writer.batch,
           read |-> writer.read]
  BY <1>2 DEF WriterStates
<1>4. QED
  BY <1>1, <1>3

LEMMA WriterAtType ==
    ASSUME writer \in WriterStates, NEW pc \in {"top", "gather", "write"}
    PROVE  /\ WriterAt(pc) \in WriterStates
           /\ WriterAt(pc).pc = pc /\ WriterAt(pc).cursor = writer.cursor
           /\ WriterAt(pc).read = writer.read /\ WriterAt(pc).batch = writer.batch
           /\ WriterAt(pc).size = 0 /\ WriterAt(pc).disk = FALSE
<1>1. PICK v : v = WriterAt(pc)
  OBVIOUS
<1>2. v = [pc |-> pc, cursor |-> writer.cursor, seq |-> writer.seq, upto |-> 0,
           read_seq |-> 0, disk |-> FALSE, size |-> 0, batch |-> writer.batch,
           read |-> writer.read]
  BY <1>1, WriterAtIs
<1>3. v \in WriterStates
  BY <1>2 DEF WriterStates
<1>4. v.pc = pc /\ v.cursor = writer.cursor /\ v.read = writer.read /\ v.batch = writer.batch
      /\ v.size = 0 /\ v.disk = FALSE
  BY <1>2
<1>5. QED
  BY <1>1, <1>3, <1>4

LEMMA WriterFaults ==
    ASSUME TypeInv, WriterStep
    PROVE  faults' \in Nat
<1>1. UNCHANGED faults \/ Fault
  <2>1. CASE WriterPanics
    <3>1. IF writer.disk /\ in_flight.panics > 0 THEN UNCHANGED faults ELSE Fault
      BY <2>1 DEF WriterPanics
    <3>2. QED
      BY <3>1
  <2>2. CASE Write
    BY <2>2 DEF Write
  <2>3. QED
    BY <2>1, <2>2 DEF WriterStep, RefreshRead, RefreshObserve, RefreshBusy, Gather, ReadEnd,
       ReadGivesUp, WriteEnd
<1>2. QED
  BY <1>1, FaultType DEF TypeInv

LEMMA WriterClearState ==
    ASSUME TypeInv, WriterStep
    PROVE  clear_state' \in [mirror : Int, started : Nat, finished : Nat]
<1>0. /\ clear_state \in [mirror : Int, started : Nat, finished : Nat] /\ generation \in Int
      /\ writer \in WriterStates
  BY DEF TypeInv
<1>1. CASE RefreshObserve
  <2>1. writer.read.gen \in Int
    BY <1>0, <1>1 DEF RefreshObserve, WriterStates
  <2>2. QED
    BY <1>1, <2>1, ObservedType DEF RefreshObserve
<1>2. CASE RefreshBusy \/ Write
  BY <1>0, <1>2, ObservedType DEF RefreshBusy, Write
<1>3. CASE UNCHANGED clear_state
  BY <1>0, <1>3
<1>4. QED
  BY <1>1, <1>2, <1>3 DEF WriterStep, RefreshRead, Gather, ReadEnd, ReadGivesUp, WriteEnd,
     WriterPanics

LEMMA WriterWritten ==
    ASSUME TypeInv, WriterStep
    PROVE  written' \in Seq([id : Nat, at : Nat, gen : Nat])
<1>1. CASE Write
  <2>0. writer.batch \in Seq(Job) /\ writer.batch # <<>>
    BY <1>1 DEF Write, TypeInv, WriterStates
  <2>1. Head(writer.batch) \in Job
    BY <2>0, HeadTailProperties
  <2> DEFINE job == Head(writer.batch)
             e   == [id |-> job.id, at |-> job.at, gen |-> generation]
  <2>2. e \in [id : Nat, at : Nat, gen : Nat]
    BY <2>1 DEF Job, TypeInv
  <2>3. written' \in {written, Append(written, e)}
    BY <1>1 DEF Write
  <2> HIDE DEF e
  <2>4. written \in Seq([id : Nat, at : Nat, gen : Nat])
    BY DEF TypeInv
  <2>5. Append(written, e) \in Seq([id : Nat, at : Nat, gen : Nat])
    BY <2>2, <2>4, AppendProperties
  <2>6. QED
    BY <2>3, <2>4, <2>5
<1>2. CASE UNCHANGED written
  BY <1>2 DEF TypeInv
<1>3. QED
  BY <1>1, <1>2 DEF WriterStep, RefreshRead, RefreshObserve, RefreshBusy, Gather, ReadEnd,
     ReadGivesUp, WriteEnd, WriterPanics, dbVars

(* The writer moves the consumed position up, within what is committed. *)
LEMMA BaseWriterFrom ==
    ASSUME BaseInv, WriterStep,
           order' \in OrderStates, writer' \in WriterStates,
           in_flight' \in FlightStates \union {None},
           order'.committed = order.committed,
           order'.consumed >= order.consumed, order'.consumed <= order.committed,
           writer'.cursor <= order.committed,
           writer'.pc = "reading" => writer'.cursor <= writer'.upto
                                     /\ writer'.upto <= order.committed,
           in_flight' # None => in_flight'.next <= order.committed,
           writer'.pc = "write" /\ writer'.disk
              => in_flight' \in FlightStates /\ in_flight'.next = writer'.cursor,
           ~(writer'.pc = "write" /\ writer'.disk) => writer'.cursor <= order'.consumed,
           writer'.read # None => writer'.pc = "top"
    PROVE  BaseInv'
<1>1. Carried(Job)'
  BY CarriedJobs DEF Next
<1>2. TypeInv'
  BY <1>1, WriterFrame, WriterFaults, WriterClearState, WriterWritten, TypeRest
     DEF BaseInv, TypeInv
<1>3. /\ UNCHANGED <<marks, stream, spill>>
      /\ order.consumed \in Nat /\ order'.consumed \in Nat /\ marks.read_start \in Nat
  BY WriterFrame DEF BaseInv, TypeInv, OrderStates, MarkStates
<1>4. PositionInv'
  BY <1>3 DEF BaseInv, PositionInv
<1>5. QED
  BY <1>2, <1>4 DEF BaseInv

LEMMA BaseWriter ==
    ASSUME BaseInv, WriterStep
    PROVE  BaseInv'
<1>0. /\ order \in OrderStates /\ marks \in MarkStates /\ writer \in WriterStates
      /\ in_flight \in FlightStates \union {None} /\ generation \in Nat
      /\ clear_state \in [mirror : Int, started : Nat, finished : Nat]
      /\ order.committed \in Nat /\ order.consumed \in Nat /\ marks.read_start \in Nat
      /\ writer.cursor \in Nat /\ writer.upto \in Nat
      /\ order.consumed <= order.committed /\ marks.read_start <= order.consumed
      /\ writer.cursor <= order.committed
      /\ (writer.pc = "reading" => writer.cursor <= writer.upto /\ writer.upto <= order.committed)
      /\ (in_flight # None => in_flight.next <= order.committed)
      /\ (writer.pc = "write" /\ writer.disk
            => in_flight \in FlightStates /\ in_flight.next = writer.cursor)
      /\ (~(writer.pc = "write" /\ writer.disk) => writer.cursor <= order.consumed)
      /\ (writer.read # None => writer.pc = "top")
  BY DEF BaseInv, TypeInv, PositionInv, OrderStates, MarkStates, WriterStates
<1>00. Carried(Job)' /\ writer'.batch \in Seq(Job)
  BY CarriedJobs DEF Next, Carried
<1>1. CASE RefreshRead
  <2>1. writer' = [writer EXCEPT !.read = [epoch |-> ReadEpoch, gen |-> generation]]
        /\ UNCHANGED <<order, in_flight>> /\ writer.pc = "top"
    BY <1>1 DEF RefreshRead
  <2>2. [epoch |-> ReadEpoch, gen |-> generation] \in [epoch : Nat \union {None}, gen : Nat]
    BY <1>0 DEF ReadEpoch
  <2>3. writer' \in WriterStates /\ writer'.pc = "top" /\ writer'.cursor = writer.cursor
    BY <1>0, <2>1, <2>2 DEF WriterStates
  <2>4. QED
    BY <1>0, <2>1, <2>3, BaseWriterFrom
<1>2. CASE RefreshObserve
  <2>1. writer' = [writer EXCEPT !.read = None, !.pc = "gather"] /\ UNCHANGED <<order, in_flight>>
    BY <1>2 DEF RefreshObserve
  <2>2. writer' \in WriterStates /\ writer'.pc = "gather" /\ writer'.cursor = writer.cursor
        /\ writer'.read = None
    BY <1>0, <2>1 DEF WriterStates
  <2>3. writer.cursor <= order.consumed
    BY <1>0, <1>2 DEF RefreshObserve
  <2>4. QED
    BY <1>0, <2>1, <2>2, <2>3, BaseWriterFrom
<1>3. CASE RefreshBusy
  <2>1. UNCHANGED <<writer, order, in_flight>>
    BY <1>3 DEF RefreshBusy
  <2>2. QED
    BY <1>0, <2>1, BaseWriterFrom
<1>4. CASE Gather
  <2> DEFINE reset  == marks.purge_seq # writer.seq /\ marks.purges = {}
             cursor == IF reset THEN Max({marks.read_start, order.consumed}) ELSE writer.cursor
             seq    == IF reset THEN marks.purge_seq ELSE writer.seq
             n      == Min({BatchMax, Len(memory)})
             at     == [writer EXCEPT !.cursor = cursor, !.seq = seq]
  <2>1. UNCHANGED in_flight /\ writer.pc \in {"top", "gather"} /\ writer.read = None
    BY <1>4 DEF Gather
  <2>2. cursor \in Nat /\ cursor <= order.consumed /\ seq \in Nat
    <3>1. writer.cursor <= order.consumed /\ marks.purge_seq \in Nat /\ writer.seq \in Nat
      BY <1>0, <2>1 DEF MarkStates, WriterStates
    <3>2. Max({marks.read_start, order.consumed}) \in {marks.read_start, order.consumed}
      BY <1>0, MaxOfTwo
    <3>3. QED
      BY <1>0, <3>1, <3>2
  <2>3. n \in Nat
    BY GatherSize DEF BaseInv
  <2>4. \/ /\ writer' = [at EXCEPT !.pc = "write", !.disk = FALSE, !.size = n,
                                   !.batch = SubSeq(memory, 1, n)]
           /\ UNCHANGED order
        \/ /\ cursor < order.committed
           /\ writer' = [at EXCEPT !.pc = "reading", !.upto = order.committed,
                                   !.read_seq = marks.purge_seq]
           /\ UNCHANGED order
        \/ /\ order' = TryResume(order)
           /\ writer' = [at EXCEPT !.pc = "top"]
    BY <1>4 DEF Gather
  <2> HIDE DEF cursor, seq, n
  <2>5. CASE writer' = [at EXCEPT !.pc = "write", !.disk = FALSE, !.size = n,
                                  !.batch = SubSeq(memory, 1, n)] /\ UNCHANGED order
    <3>1. writer' = [pc |-> "write", cursor |-> cursor, seq |-> seq, upto |-> writer.upto,
                     read_seq |-> writer.read_seq, disk |-> FALSE, size |-> n,
                     batch |-> SubSeq(memory, 1, n), read |-> writer.read]
      BY <1>0, <2>5 DEF WriterStates
    <3>2. SubSeq(memory, 1, n) \in Seq(Job)
      BY <1>00, <3>1
    <3>3. writer' \in WriterStates
      BY <1>0, <2>2, <2>3, <3>1, <3>2 DEF WriterStates
    <3>4. QED
      BY <1>0, <2>1, <2>2, <2>5, <3>1, <3>3, BaseWriterFrom
  <2>6. CASE /\ cursor < order.committed
             /\ writer' = [at EXCEPT !.pc = "reading", !.upto = order.committed,
                                     !.read_seq = marks.purge_seq]
             /\ UNCHANGED order
    <3>1. writer' = [pc |-> "reading", cursor |-> cursor, seq |-> seq, upto |-> order.committed,
                     read_seq |-> marks.purge_seq, disk |-> writer.disk, size |-> writer.size,
                     batch |-> writer.batch, read |-> writer.read]
      BY <1>0, <2>6 DEF WriterStates
    <3>2. writer' \in WriterStates
      BY <1>0, <2>2, <3>1 DEF WriterStates, MarkStates
    <3>3. QED
      BY <1>0, <2>1, <2>2, <2>6, <3>1, <3>2, BaseWriterFrom
  <2>7. CASE order' = TryResume(order) /\ writer' = [at EXCEPT !.pc = "top"]
    <3>1. writer' = [pc |-> "top", cursor |-> cursor, seq |-> seq, upto |-> writer.upto,
                     read_seq |-> writer.read_seq, disk |-> writer.disk, size |-> writer.size,
                     batch |-> writer.batch, read |-> writer.read]
      BY <1>0, <2>7 DEF WriterStates
    <3>2. writer' \in WriterStates
      BY <1>0, <2>2, <3>1 DEF WriterStates
    <3>3. order' \in OrderStates /\ order'.committed = order.committed
          /\ order'.consumed = order.consumed
      BY <1>0, <2>7, TryResumeIs
    <3>4. QED
      BY <1>0, <2>1, <2>2, <3>1, <3>2, <3>3, BaseWriterFrom
  <2>8. QED
    BY <2>4, <2>5, <2>6, <2>7
<1>5. CASE ReadEnd
  <2>1. /\ ReadNext \in Nat /\ writer.cursor <= ReadNext /\ ReadNext <= order.committed
        /\ writer.pc = "reading"
    <3>1. writer.pc = "reading"
      BY <1>5 DEF ReadEnd
    <3>2. QED
      BY <1>0, <3>1, ReadNextIs
  <2>2. writer.cursor <= order.consumed
    BY <1>0, <2>1
  <2>3. CASE writer' = WriterAt("gather") /\ UNCHANGED <<order, in_flight>>
    <3>1. writer' \in WriterStates /\ writer'.pc = "gather" /\ writer'.cursor = writer.cursor
        /\ writer'.read = writer.read
      BY <1>0, <2>3, WriterAtType DEF WriterStates
    <3>2. QED
      BY <1>0, <2>1, <2>2, <2>3, <3>1, BaseWriterFrom
  <2>4. CASE /\ order' = DiskDone(order, ReadNext)
             /\ writer' = [WriterAt("gather") EXCEPT !.cursor = ReadNext]
             /\ UNCHANGED in_flight
    <3>1. writer' \in WriterStates /\ writer'.pc = "gather" /\ writer'.cursor = ReadNext
        /\ writer'.read = writer.read
      BY <1>0, <2>1, <2>4, WriterAtType DEF WriterStates
    <3>2. /\ order' \in OrderStates /\ order'.committed = order.committed
          /\ order'.consumed = IF ReadNext > order.consumed THEN ReadNext ELSE order.consumed
      BY <1>0, <2>1, <2>4, DiskDoneIs
    <3>3. QED
      BY <1>0, <2>1, <2>4, <3>1, <3>2, BaseWriterFrom
  <2>5. CASE /\ \E k \in Nat : in_flight' = [start |-> writer.cursor, next |-> ReadNext, panics |-> k]
             /\ writer' = [WriterAt("write") EXCEPT
                             !.cursor = ReadNext, !.disk = TRUE, !.size = 0,
                             !.batch = Records(writer.cursor, ReadNext)]
             /\ UNCHANGED order
    <3>1. writer' = [pc |-> "write", cursor |-> ReadNext, seq |-> writer.seq, upto |-> 0,
                     read_seq |-> 0, disk |-> TRUE, size |-> 0,
                     batch |-> Records(writer.cursor, ReadNext), read |-> writer.read]
      <4>1. PICK v \in WriterStates : v = WriterAt("write") /\ v.seq = writer.seq /\ v.upto = 0
                                     /\ v.read_seq = 0 /\ v.read = writer.read
        BY <1>0, WriterAtIs, WriterAtType
      <4>2. writer' = [v EXCEPT !.cursor = ReadNext, !.disk = TRUE, !.size = 0,
                                !.batch = Records(writer.cursor, ReadNext)]
        BY <2>5, <4>1
      <4>3. v.pc = "write"
        BY <1>0, <4>1, WriterAtType
      <4>4. PICK d : d = TRUE
        OBVIOUS
      <4>5. writer' = [v EXCEPT !.cursor = ReadNext, !.disk = d, !.size = 0,
                                !.batch = Records(writer.cursor, ReadNext)]
        BY <4>2, <4>4
      <4>6. writer' = [pc |-> v.pc, cursor |-> ReadNext, seq |-> v.seq, upto |-> v.upto,
                       read_seq |-> v.read_seq, disk |-> d, size |-> 0,
                       batch |-> Records(writer.cursor, ReadNext), read |-> v.read]
        BY <4>1, <4>5 DEF WriterStates
      <4>7. QED
        BY <4>1, <4>3, <4>4, <4>6, Zenon
    <3>2. Records(writer.cursor, ReadNext) \in Seq(Job)
      BY <1>00, <3>1
    <3>3. writer' \in WriterStates /\ writer'.pc = "write" /\ writer'.cursor = ReadNext
      BY <1>0, <2>1, <3>1, <3>2 DEF WriterStates
    <3>4. in_flight' \in FlightStates /\ in_flight'.next = ReadNext
      BY <1>0, <2>1, <2>5 DEF FlightStates
    <3>5. writer'.read = None
      BY <1>0, <2>1, <3>1
    <3>6. QED
      BY <1>0, <2>1, <2>5, <3>3, <3>4, <3>5, BaseWriterFrom
  <2>6. QED
    <3>1. (in_flight # None /\ in_flight.start = writer.cursor) => in_flight.panics \in Nat
      BY <1>0 DEF FlightStates
    <3>2. QED
      BY <1>5, <2>3, <2>4, <2>5, <3>1 DEF ReadEnd
<1>6. CASE ReadGivesUp
  <2>1. /\ order' = DiskDone(order, writer.upto)
        /\ writer' = [WriterAt("gather") EXCEPT !.cursor = writer.upto]
        /\ UNCHANGED in_flight /\ writer.pc = "reading"
    BY <1>6 DEF ReadGivesUp
  <2>2. writer' \in WriterStates /\ writer'.pc = "gather" /\ writer'.cursor = writer.upto
        /\ writer'.read = writer.read
    BY <1>0, <2>1, WriterAtType DEF WriterStates
  <2>3. /\ order' \in OrderStates /\ order'.committed = order.committed
        /\ order'.consumed = IF writer.upto > order.consumed THEN writer.upto ELSE order.consumed
    BY <1>0, <2>1, DiskDoneIs
  <2>4. QED
    BY <1>0, <2>1, <2>2, <2>3, BaseWriterFrom
<1>7. CASE Write
  <2>1. writer' = [writer EXCEPT !.batch = Tail(@)] /\ UNCHANGED <<order, in_flight>>
    BY <1>7 DEF Write
  <2>2. writer' \in WriterStates /\ writer'.pc = writer.pc /\ writer'.cursor = writer.cursor
        /\ writer'.disk = writer.disk /\ writer'.upto = writer.upto /\ writer'.read = writer.read
    BY <1>0, <1>00, <2>1 DEF WriterStates
  <2>3. QED
    BY <1>0, <2>1, <2>2, BaseWriterFrom
<1>8. CASE WriteEnd
  <2>1. /\ writer' = WriterAt("top")
        /\ \/ /\ writer.disk /\ writer.pc = "write"
              /\ order' = DiskDone(order, in_flight.next) /\ in_flight' = None
           \/ /\ ~writer.disk
              /\ order' = ReleaseMemory(order, writer.size) /\ UNCHANGED in_flight
    BY <1>8 DEF WriteEnd
  <2>2. writer' \in WriterStates /\ writer'.pc = "top" /\ writer'.cursor = writer.cursor
        /\ writer'.read = writer.read
    BY <1>0, <2>1, WriterAtType DEF WriterStates
  <2>3. CASE /\ writer.disk /\ writer.pc = "write"
             /\ order' = DiskDone(order, in_flight.next) /\ in_flight' = None
    <3>1. in_flight.next = writer.cursor
      BY <1>0, <2>3
    <3>2. /\ order' \in OrderStates /\ order'.committed = order.committed
          /\ order'.consumed = IF writer.cursor > order.consumed
                               THEN writer.cursor ELSE order.consumed
      <4>1. order' = DiskDone(order, writer.cursor)
        BY <2>3, <3>1
      <4>2. QED
        BY <1>0, <4>1, DiskDoneIs
    <3>3. QED
      BY <1>0, <2>2, <2>3, <3>2, BaseWriterFrom
  <2>4. CASE ~writer.disk /\ order' = ReleaseMemory(order, writer.size) /\ UNCHANGED in_flight
    <3>0. writer.size \in Nat
      BY <1>0 DEF WriterStates
    <3>1. /\ order' \in OrderStates /\ order'.committed = order.committed
          /\ order'.consumed = order.consumed
      BY <1>0, <2>4, <3>0, ReleaseMemoryIs
    <3>2. QED
      BY <1>0, <2>2, <2>4, <3>1, BaseWriterFrom
  <2>5. QED
    BY <2>1, <2>3, <2>4
<1>9. CASE WriterPanics
  <2>1. writer' = WriterNew(Max({marks.read_start, order'.consumed}), marks.purge_seq)
        /\ writer.pc = "write"
    BY <1>9 DEF WriterPanics
  <2>2. /\ order' \in OrderStates /\ order'.committed = order.committed
        /\ order'.consumed >= order.consumed /\ order'.consumed <= order.committed
        /\ in_flight' \in FlightStates \union {None}
        /\ in_flight' # None => in_flight'.next <= order.committed
    <3>1. CASE ~writer.disk /\ order' = ReleaseMemory(order, writer.size) /\ UNCHANGED in_flight
      <4>0. writer.size \in Nat
        BY <1>0 DEF WriterStates
      <4>1. /\ order' \in OrderStates /\ order'.committed = order.committed
            /\ order'.consumed = order.consumed
        BY <1>0, <3>1, <4>0, ReleaseMemoryIs
      <4>2. QED
        BY <1>0, <3>1, <4>1
    <3>2. CASE writer.disk /\ in_flight' = [in_flight EXCEPT !.panics = 1] /\ UNCHANGED order
      <4>1. in_flight \in FlightStates /\ in_flight.next = writer.cursor
        BY <1>0, <2>1, <3>2
      <4>2. in_flight' \in FlightStates /\ in_flight'.next = writer.cursor
        BY <3>2, <4>1 DEF FlightStates
      <4>3. QED
        BY <1>0, <3>2, <4>2
    <3>3. CASE writer.disk /\ order' = DiskDone(order, in_flight.next) /\ in_flight' = None
      <4>1. in_flight.next = writer.cursor
        BY <1>0, <2>1, <3>3
      <4>2. /\ order' \in OrderStates /\ order'.committed = order.committed
            /\ order'.consumed = IF writer.cursor > order.consumed
                                 THEN writer.cursor ELSE order.consumed
        <5>1. order' = DiskDone(order, writer.cursor)
          BY <3>3, <4>1
        <5>2. QED
          BY <1>0, <5>1, DiskDoneIs
      <4>3. QED
        BY <1>0, <3>3, <4>2
    <3>4. QED
      BY <1>9, <3>1, <3>2, <3>3 DEF WriterPanics
  <2>3. order'.consumed \in Nat
    BY <2>2 DEF OrderStates
  <2> DEFINE cursor == Max({marks.read_start, order'.consumed})
  <2>4. cursor \in Nat /\ cursor <= order'.consumed
    BY <1>0, <2>2, <2>3, MaxOfTwo
  <2> HIDE DEF cursor
  <2>5. writer' \in WriterStates /\ writer'.pc = "top" /\ writer'.cursor = cursor
        /\ writer'.read = None
    BY <1>0, <2>1, <2>4, EmptySeq DEF WriterNew, WriterStates, MarkStates, cursor
  <2>6. QED
    BY <1>0, <2>2, <2>3, <2>4, <2>5, BaseWriterFrom
<1>10. QED
  BY <1>1, <1>2, <1>3, <1>4, <1>5, <1>6, <1>7, <1>8, <1>9 DEF WriterStep

LEMMA CrashIs ==
    ASSUME BaseInv, Crash
    PROVE  /\ stream' \in Seq(Record) /\ order' = NewOrder(stream')
           /\ order' \in OrderStates /\ order'.committed = Len(stream') /\ order'.consumed = 0
           /\ order'.memory_jobs = 0 /\ order'.handoff_jobs = 0
           /\ marks' \in MarkStates /\ marks'.read_start = 0
           /\ \A c \in Clears : marks'.boundaries[c] = None /\ marks'.thresholds[c] = None
           /\ marks'.rolls = {} /\ marks'.purges = {}
           /\ writer' \in WriterStates /\ writer'.cursor = 0 /\ writer'.pc = "top"
           /\ writer'.read = None /\ writer'.size = 0 /\ writer'.batch = <<>>
           /\ spill' = SpillIdle /\ in_flight' = None
           /\ clear' \in [Clears -> ClearStates]
           /\ \A c \in Clears : clear'[c].pc \in {"idle", "done"} /\ clear'[c].gen = None
           /\ memory' = <<>> /\ handoff' = <<>> /\ held' = <<>>
<1>1. stream' \in Seq(Record)
  BY CarriedJobs DEF Next, Carried, Record
<1>2. order' = NewOrder(stream') /\ Len(stream') \in Nat
  BY <1>1 DEF Crash
<1>3. order' \in OrderStates /\ order'.committed = Len(stream') /\ order'.consumed = 0
      /\ order'.memory_jobs = 0 /\ order'.handoff_jobs = 0
  BY <1>2 DEF NewOrder, OrderStates
<1>4. marks' = NoMarks
  BY DEF Crash
<1>5. marks' \in MarkStates /\ marks'.read_start = 0 /\ marks'.rolls = {} /\ marks'.purges = {}
      /\ \A c \in Clears : marks'.boundaries[c] = None /\ marks'.thresholds[c] = None
  BY <1>4 DEF NoMarks, MarkStates
<1>6. writer' = WriterNew(0, 0) /\ spill' = SpillIdle /\ in_flight' = None
      /\ memory' = <<>> /\ handoff' = <<>> /\ held' = <<>>
  BY DEF Crash
<1>7. /\ writer' \in WriterStates /\ writer'.cursor = 0 /\ writer'.pc = "top"
      /\ writer'.read = None /\ writer'.size = 0 /\ writer'.batch = <<>>
  BY <1>6, EmptySeq DEF WriterNew, WriterStates
<1>8. clear' = [c \in Clears |-> [pc |-> IF clear[c].pc = "idle" THEN "idle" ELSE "done",
                                  gen |-> None]]
  BY DEF Crash
<1>9. clear' \in [Clears -> ClearStates]
      /\ \A c \in Clears : clear'[c].pc \in {"idle", "done"} /\ clear'[c].gen = None
  BY <1>8 DEF ClearStates, ClearPcs
<1>10. QED
  BY <1>1, <1>2, <1>3, <1>5, <1>6, <1>7, <1>9

LEMMA BaseCrash ==
    ASSUME BaseInv, Crash
    PROVE  BaseInv'
<1>1. Carried(Job)'
  BY CarriedJobs DEF Next
<1>2. /\ UNCHANGED <<generation, written, captured>> /\ boot' \in Nat /\ faults' \in Nat
  BY FaultType DEF Crash, BaseInv, TypeInv, dbVars
<1>3. clear_state' \in [mirror : Int, started : Nat, finished : Nat]
  <2>1. PICK m \in {generation, Unresolved} : clear_state' = NewClearState(m)
    BY DEF Crash
  <2>2. m \in Int
    BY DEF BaseInv, TypeInv, Unresolved
  <2>3. QED
    BY <2>1, <2>2 DEF NewClearState
<1>4. TypeInv'
  BY <1>1, <1>2, <1>3, CrashIs, SpillIdleType, TypeRest DEF BaseInv, TypeInv
<1>5. Len(stream') \in Nat
  BY CrashIs
<1>6. PositionInv'
  BY <1>5, CrashIs, SpillIdleType DEF PositionInv
<1>7. QED
  BY <1>4, <1>6 DEF BaseInv

LEMMA BaseStep ==
    ASSUME BaseInv, [Next]_vars
    PROVE  BaseInv'
<1>1. CASE UNCHANGED vars
  BY <1>1 DEF vars, dbVars, queueVars, histVars, BaseInv, TypeInv, PositionInv
<1>2. CASE Next
  BY <1>2, BaseSubmit, BaseClear, BaseSpill, BaseWriter, BaseCrash DEF Next
<1>3. QED
  BY <1>1, <1>2

LEMMA BaseInvariance == Spec => []BaseInv
<1>1. BaseInv /\ [Next]_vars => BaseInv'
  BY BaseStep
<1>2. QED
  BY <1>1, BaseInit, PTL DEF Spec

-----------------------------------------------------------------------------
(* Jobs are held back for a clear that is still at work.                   *)

HeldInv ==
    /\ held # <<>> => \E c \in Clears : marks.thresholds[c] # None
    /\ \A c \in Clears : marks.thresholds[c] # None
          => clear[c].pc \in {"run", "detached", "committed", "lost", "failed", "purge"}

LEMMA HeldInit == Init => HeldInv
  BY DEF Init, HeldInv, NoMarks

LEMMA HeldStep ==
    ASSUME BaseInv, HeldInv, [Next]_vars
    PROVE  HeldInv'
<1>0. marks \in MarkStates /\ clear \in [Clears -> ClearStates]
  BY DEF BaseInv, TypeInv
<1>00. ASSUME NEW c \in Clears, NEW d \in Clears, NEW pc, clear' = [clear EXCEPT ![c].pc = pc]
       PROVE  clear'[d].pc = IF d = c THEN pc ELSE clear[d].pc
  BY <1>0, <1>00 DEF ClearStates
<1>1. ASSUME NEW c \in Clears, ClearStart(c) PROVE HeldInv'
  <2>1. UNCHANGED <<held, marks>> /\ clear[c].pc = "idle" /\ clear' = [clear EXCEPT ![c].pc = "begin"]
    BY <1>1 DEF ClearStart, To, queueVars
  <2>2. QED
    BY <1>00, <2>1 DEF HeldInv
<1>2. ASSUME NEW c \in Clears, ClearBegin(c) PROVE HeldInv'
  <2>1. /\ marks' = [marks EXCEPT !.thresholds[c] = clear_state.mirror, !.rolls = @ \union {c}]
        /\ clear' = [clear EXCEPT ![c].pc = "run"] /\ UNCHANGED held
    BY <1>2 DEF ClearBegin, To, queueVars
  <2>2. clear_state.mirror # None
    BY NullsAssumption DEF BaseInv, TypeInv
  <2>3. \A d \in Clears : marks'.thresholds[d] = IF d = c THEN clear_state.mirror
                                                 ELSE marks.thresholds[d]
    BY <1>0, <2>1 DEF MarkStates
  <2>4. \A d \in Clears : clear'[d].pc = IF d = c THEN "run" ELSE clear[d].pc
    BY <1>0, <2>1 DEF ClearStates
  <2>5. held' # <<>> => \E d \in Clears : marks'.thresholds[d] # None
    BY <2>2, <2>3
  <2>6. QED
    BY <2>3, <2>4, <2>5 DEF HeldInv
<1>3. ASSUME NEW c \in Clears, ClearCommit(c) \/ ClearFails(c) \/ ClearDropped(c) PROVE HeldInv'
  <2>1. /\ UNCHANGED <<held, marks>>
        /\ \E pc \in {"committed", "lost", "failed", "detached"} : clear' = [clear EXCEPT ![c].pc = pc]
    BY <1>3 DEF ClearCommit, ClearFails, ClearDropped, To, queueVars
  <2>2. QED
    BY <1>00, <2>1 DEF HeldInv
<1>4. ASSUME NEW c \in Clears, ClearRead(c) PROVE HeldInv'
  <2>1. UNCHANGED <<held, marks>> /\ \A d \in Clears : clear'[d].pc \in {clear[d].pc, "purge"}
    BY <1>0, <1>4 DEF ClearRead, queueVars
  <2>2. QED
    BY <2>1 DEF HeldInv
<1>5. ASSUME NEW c \in Clears, PurgeAfterClear(c) \/ AbandonClear(c) PROVE HeldInv'
  <2>1. /\ held' = IF NoneRuns(Cleared(c)) THEN <<>> ELSE held
        /\ clear' = [clear EXCEPT ![c] = [pc |-> "finish", gen |-> None]]
        /\ marks'.thresholds = Cleared(c)
    <3>1. CASE PurgeAfterClear(c)
      BY <1>0, <3>1, PurgeIs DEF MarkStates
    <3>2. CASE AbandonClear(c)
      BY <1>0, <3>2 DEF AbandonClear, Cleared, MarkStates
    <3>3. QED
      BY <1>5, <3>1, <3>2
  <2>2. \A d \in Clears : /\ marks'.thresholds[d] = IF d = c THEN None ELSE marks.thresholds[d]
                          /\ d # c => clear'[d] = clear[d]
    BY <1>0, <2>1 DEF Cleared, MarkStates
  <2>3. held' # <<>> => \E d \in Clears : marks'.thresholds[d] # None
    BY <2>1 DEF NoneRuns
  <2>4. QED
    BY <2>2, <2>3 DEF HeldInv
<1>6. ASSUME NEW c \in Clears, ClearFinish(c) PROVE HeldInv'
  <2>1. UNCHANGED <<held, marks>> /\ clear[c].pc = "finish" /\ clear' = [clear EXCEPT ![c].pc = "done"]
    BY <1>6 DEF ClearFinish, To, queueVars
  <2>2. QED
    BY <1>00, <2>1 DEF HeldInv
<1>7. CASE SpillTake
  <2> DEFINE free == {i \in DOMAIN handoff : ~Withheld(handoff[i])}
             n    == IF free = {} THEN Len(handoff) + 1 ELSE Min(free)
  <2>1. /\ held' = held \o SubSeq(handoff, 1, n - 1) /\ handoff # <<>>
        /\ UNCHANGED <<marks, clear>>
    BY <1>7 DEF SpillTake
  <2>2. handoff \in Seq(Job) /\ held \in Seq(Job)
    BY DEF BaseInv, TypeInv
  <2>3. CASE \E i \in DOMAIN handoff : Withheld(handoff[i])
    BY <2>1, <2>3 DEF HeldInv, Withheld
  <2>4. CASE ~\E i \in DOMAIN handoff : Withheld(handoff[i])
    <3>1. 1 \in DOMAIN handoff /\ free = DOMAIN handoff /\ DOMAIN handoff \subseteq Nat
          /\ \A i \in DOMAIN handoff : i >= 1
      <4>1. Len(handoff) \in Nat /\ Len(handoff) # 0 /\ DOMAIN handoff = 1..Len(handoff)
        BY <2>1, <2>2, EmptySeq
      <4>2. QED
        BY <2>4, <4>1
    <3>2. Min(free) \in free /\ Min(free) <= 1
      BY <3>1, MinProperty
    <3>3. n = 1
      BY <3>1, <3>2
    <3> HIDE DEF n
    <3>4. SubSeq(handoff, 1, n - 1) = <<>>
      BY <2>2, <3>3, SubSeqEmpty
    <3>5. held' = held
      BY <2>1, <2>2, <3>4, ConcatEmptySeq
    <3>6. QED
      BY <2>1, <3>5 DEF HeldInv
  <2>5. QED
    BY <2>3, <2>4
<1>8. CASE SpillRollTake \/ SpillRoll \/ SpillPurgeTake \/ SpillPurge \/ SpillAppend
           \/ SpillAppendFails \/ SpillFlush \/ SpillUnblock
  <2>1. UNCHANGED <<held, clear>>
    BY <1>8 DEF SpillRollTake, SpillRoll, SpillPurgeTake, SpillPurge, SpillAppend,
       SpillAppendFails, SpillFlush, SpillUnblock, queueVars
  <2>2. marks'.thresholds = marks.thresholds
    <3>1. CASE SpillRollTake
      BY <1>0, <3>1 DEF SpillRollTake, MarkStates
    <3>2. CASE SpillRoll
      BY <1>0, <3>2 DEF SpillRoll, MarkStates
    <3>3. CASE SpillPurgeTake
      BY <1>0, <3>3 DEF SpillPurgeTake, MarkStates
    <3>4. CASE SpillPurge
      BY <1>0, <3>4 DEF SpillPurge, MarkStates
    <3>5. QED
      BY <1>8, <3>1, <3>2, <3>3, <3>4 DEF SpillAppend, SpillAppendFails, SpillFlush, SpillUnblock
  <2>3. QED
    BY <2>1, <2>2 DEF HeldInv
<1>9. CASE Submit
  BY <1>9 DEF Submit, HeldInv
<1>10. CASE WriterStep
  BY <1>10, WriterFrame DEF HeldInv
<1>11. CASE Crash
  BY <1>11, CrashIs DEF HeldInv
<1>12. CASE UNCHANGED vars
  BY <1>12 DEF vars, queueVars, HeldInv
<1>13. QED
  BY <1>1, <1>2, <1>3, <1>4, <1>5, <1>6, <1>7, <1>8, <1>9, <1>10, <1>11, <1>12
     DEF Next, ClearStep, SpillStep

LEMMA HeldInvariance == Spec => [](BaseInv /\ HeldInv)
<1>1. BaseInv /\ HeldInv /\ [Next]_vars => HeldInv'
  BY HeldStep
<1>2. QED
  BY <1>1, HeldInit, BaseInvariance, PTL DEF Spec

(***************************************************************************)
(* NeverStuck: once the queues are empty, the writer has read all that is  *)
(* committed (mark_disk_consumed, skip_stream_to) and every clear has told *)
(* the queue that it ended, nothing keeps try_resume from returning to     *)
(* memory.  That needs the bounds on every position (PositionInv) and that *)
(* begin_clear's threshold is what jobs are held back for (HeldInv).       *)
(***************************************************************************)
THEOREM QueueNeverStuck == Spec => []NeverStuck
<1>1. BaseInv /\ HeldInv => NeverStuck
  <2> SUFFICES ASSUME BaseInv, HeldInv, Quiet
               PROVE  held = <<>> /\ order.consumed = order.committed
    BY DEF NeverStuck
  <2>1. held = <<>>
    BY DEF Quiet, HeldInv
  <2>2. writer.cursor <= order.consumed /\ order.consumed <= order.committed
        /\ writer.cursor >= order.committed
    BY DEF Quiet, BaseInv, PositionInv
  <2>3. writer.cursor \in Nat /\ order.consumed \in Nat /\ order.committed \in Nat
    BY DEF BaseInv, TypeInv, WriterStates, OrderStates
  <2>4. QED
    BY <2>1, <2>2, <2>3
<1>2. QED
  BY <1>1, HeldInvariance, PTL

-----------------------------------------------------------------------------
(* What is charged is what is queued.                                      *)

(* Unflushed, for the stream s committed up to p. *)
UnflushedIn(s, p) ==
    LET t == SubSeq(s, p + 1, Len(s))
    IN  Len(Pick(t, {i \in DOMAIN t : t[i] # Gap}))

LEMMA UnflushedNone ==
    ASSUME NEW s \in Seq(Record)
    PROVE  UnflushedIn(s, Len(s)) = 0
<1> DEFINE t == SubSeq(s, Len(s) + 1, Len(s))
<1>1. t = <<>>
  BY SubSeqEmpty
<1> HIDE DEF t
<1>2. Pick(t, {i \in DOMAIN t : t[i] # Gap}) = <<>>
  BY <1>1, PickNone, EmptySeq
<1>3. QED
  BY <1>2, EmptySeq DEF UnflushedIn, t

LEMMA UnflushedAppend ==
    ASSUME NEW s \in Seq(Record), NEW x \in Job, NEW p \in Nat, p <= Len(s)
    PROVE  /\ UnflushedIn(s, p) \in Nat
           /\ UnflushedIn(Append(s, x), p) = UnflushedIn(s, p) + 1
<1> DEFINE t == SubSeq(s, p + 1, Len(s))
           a == Append(s, x)
           u == SubSeq(a, p + 1, Len(a))
           P == {i \in DOMAIN t : t[i] # Gap}
           Q == {i \in DOMAIN u : u[i] # Gap}
<1>0. x \in Record /\ x # Gap /\ Len(s) \in Nat
  BY NullsAssumption DEF Record
<1>1. a \in Seq(Record) /\ Len(a) = Len(s) + 1 /\ a[Len(s) + 1] = x
      /\ \A i \in 1..Len(s) : a[i] = s[i]
  BY <1>0, AppendProperties
<1> HIDE DEF a
<1>2. t \in Seq(Record) /\ Len(t) = Len(s) - p /\ \A i \in 1..(Len(s) - p) : t[i] = s[p + i]
  <2>1. Len(t) = IF p + 1 <= Len(s) THEN Len(s) - (p + 1) + 1 ELSE 0
    BY <1>0, SubSeqProperties
  <2>2. t \in Seq(Record) /\ \A i \in 1..(Len(s) - (p + 1) + 1) : t[i] = s[(p + 1) + i - 1]
    BY <1>0, SubSeqProperties
  <2> HIDE DEF t
  <2>3. Len(t) = Len(s) - p
    BY <1>0, <2>1
  <2>4. ASSUME NEW i \in 1..(Len(s) - p) PROVE t[i] = s[p + i]
    <3>1. i \in 1..(Len(s) - (p + 1) + 1) /\ (p + 1) + i - 1 = p + i
      BY <1>0
    <3>2. QED
      BY <2>2, <3>1
  <2>5. QED
    BY <2>2, <2>3, <2>4
<1>3. u \in Seq(Record) /\ Len(u) = Len(s) - p + 1 /\ \A i \in 1..(Len(s) - p + 1) : u[i] = a[p + i]
  <2>1. Len(u) = IF p + 1 <= Len(a) THEN Len(a) - (p + 1) + 1 ELSE 0
    BY <1>0, <1>1, SubSeqProperties
  <2>2. u \in Seq(Record) /\ \A i \in 1..(Len(a) - (p + 1) + 1) : u[i] = a[(p + 1) + i - 1]
    BY <1>0, <1>1, SubSeqProperties
  <2> HIDE DEF u
  <2>3. Len(u) = Len(s) - p + 1
    BY <1>0, <1>1, <2>1
  <2>4. ASSUME NEW i \in 1..(Len(s) - p + 1) PROVE u[i] = a[p + i]
    <3>1. i \in 1..(Len(a) - (p + 1) + 1) /\ (p + 1) + i - 1 = p + i
      BY <1>0, <1>1
    <3>2. QED
      BY <2>2, <3>1
  <2>5. QED
    BY <2>2, <2>3, <2>4
<1>4. UnflushedIn(s, p) = Len(Pick(t, P)) /\ UnflushedIn(a, p) = Len(Pick(u, Q))
  BY DEF UnflushedIn
<1> HIDE DEF t, u
<1>5. u = Append(t, x)
  <2>1. Append(t, x) \in Seq(Record) /\ Len(Append(t, x)) = Len(t) + 1
        /\ \A i \in 1..Len(t) : Append(t, x)[i] = t[i]
        /\ Append(t, x)[Len(t) + 1] = x
    BY <1>0, <1>2, AppendProperties
  <2>2. ASSUME NEW i \in 1..Len(u) PROVE u[i] = Append(t, x)[i]
    <3>1. CASE i \in 1..Len(t)
      <4>1. i \in 1..(Len(s) - p) /\ i \in 1..(Len(s) - p + 1) /\ p + i \in 1..Len(s)
        BY <1>0, <1>2, <3>1
      <4>2. QED
        BY <1>1, <1>2, <1>3, <2>1, <3>1, <4>1
    <3>2. CASE i = Len(t) + 1
      <4>1. p + i = Len(s) + 1 /\ i \in 1..(Len(s) - p + 1)
        BY <1>0, <1>2, <3>2
      <4>2. u[i] = a[p + i]
        BY <1>3, <4>1
      <4>3. u[i] = x
        BY <1>1, <4>1, <4>2, Zenon
      <4>4. Append(t, x)[i] = x
        <5>1. Append(t, x)[Len(t) + 1] = x
          BY <2>1
        <5>2. QED
          BY <3>2, <5>1
      <4>5. QED
        BY <4>3, <4>4, Zenon
    <3>3. QED
      BY <1>0, <1>2, <1>3, <3>1, <3>2
  <2>3. Len(u) = Len(Append(t, x))
    BY <1>0, <1>2, <1>3, <2>1
  <2>4. QED
    BY <1>3, <2>1, <2>2, <2>3, SeqEqual
<1>6. \A i \in DOMAIN t : i \in P <=> i \in Q
  BY <1>0, <1>2, <1>5, AppendProperties
<1>7. Len(t) + 1 \in Q
  BY <1>0, <1>2, <1>5, AppendProperties
<1> HIDE DEF P, Q
<1>8. Pick(u, Q) = Append(Pick(t, P), x)
  BY <1>0, <1>2, <1>5, <1>6, <1>7, PickAppend
<1>9. Pick(t, P) \in Seq(Record)
  BY <1>2, PickProperties
<1>10. QED
  BY <1>0, <1>4, <1>8, <1>9, AppendProperties DEF a

(* Nothing is charged for the writer outside a memory batch. *)
SizeInv == writer.pc # "write" \/ writer.disk => writer.size = 0

BudgetInv == BudgetExact /\ SizeInv

(* The numbers BudgetExact relates. *)
LEMMA BudgetTypes ==
    ASSUME BaseInv
    PROVE  /\ order.memory_jobs \in Nat /\ order.handoff_jobs \in Nat
           /\ Len(memory) \in Nat /\ Len(handoff) \in Nat /\ Len(held) \in Nat
           /\ writer.size \in Nat
           /\ Unflushed = UnflushedIn(stream, order.committed) /\ Unflushed \in Nat
<1>1. Unflushed = UnflushedIn(stream, order.committed)
  BY DEF Unflushed, UnflushedIn, Records
<1>2. order.memory_jobs \in Nat /\ order.handoff_jobs \in Nat /\ writer.size \in Nat
  BY DEF BaseInv, TypeInv, OrderStates, WriterStates
<1>3. Len(memory) \in Nat /\ Len(handoff) \in Nat /\ Len(held) \in Nat
  BY DEF BaseInv, TypeInv
<1>4. QED
  BY <1>1, <1>2, <1>3, UnflushedType

LEMMA UnflushedPrimed == Unflushed' = UnflushedIn(stream', order'.committed)
  BY DEF Unflushed, UnflushedIn, Records

LEMMA BudgetInit == Init => BudgetInv
<1> SUFFICES ASSUME Init PROVE BudgetInv
  OBVIOUS
<1>1. BaseInv
  BY BaseInit
<1>2. order.committed = Len(stream) /\ order.memory_jobs = 0 /\ order.handoff_jobs = 0
  BY DEF Init, NewOrder
<1>3. Unflushed = 0
  <2>1. stream \in Seq(Record)
    BY <1>1 DEF BaseInv, TypeInv
  <2>2. QED
    BY <1>1, <1>2, <2>1, BudgetTypes, UnflushedNone
<1>4. Len(memory) = 0 /\ Len(handoff) = 0 /\ Len(held) = 0 /\ writer.size = 0 /\ spill.pc = "step"
  BY DEF Init, WriterNew, SpillIdle
<1>5. QED
  BY <1>2, <1>3, <1>4 DEF BudgetInv, BudgetExact, SizeInv

(* A step that touches neither what is charged nor what is queued. *)
LEMMA BudgetSame ==
    ASSUME BudgetInv, UNCHANGED <<queueVars, stream>>,
           order'.memory_jobs = order.memory_jobs, order'.handoff_jobs = order.handoff_jobs,
           order'.committed = order.committed,
           spill'.pc = spill.pc \/ (spill.pc # "job" /\ spill'.pc # "job"),
           writer'.size = writer.size, SizeInv'
    PROVE  BudgetInv'
<1>1. Unflushed' = Unflushed
  BY UnflushedPrimed DEF Unflushed, UnflushedIn, Records
<1>2. QED
  BY <1>1 DEF BudgetInv, BudgetExact, queueVars

LEMMA BudgetSubmit ==
    ASSUME BaseInv, BudgetInv, Submit
    PROVE  BudgetInv'
<1>0. /\ order \in OrderStates /\ memory \in Seq(Job) /\ handoff \in Seq(Job) /\ NewJob \in Job
      /\ UNCHANGED <<held, stream, writer, spill>>
  BY NewJobType DEF BaseInv, TypeInv, Submit
<1>1. /\ Len(Append(memory, NewJob)) = Len(memory) + 1
      /\ Len(Append(handoff, NewJob)) = Len(handoff) + 1
  BY <1>0, AppendProperties
<1>2. CASE /\ memory' = Append(memory, NewJob) /\ UNCHANGED handoff
           /\ order' = [order EXCEPT !.memory_jobs = @ + 1]
  <2>1. order'.memory_jobs = order.memory_jobs + 1 /\ order'.handoff_jobs = order.handoff_jobs
        /\ order'.committed = order.committed
    BY <1>0, <1>2 DEF OrderStates
  <2>2. Unflushed' = Unflushed
    BY <1>0, <2>1, UnflushedPrimed, BudgetTypes
  <2>3. QED
    BY <1>0, <1>1, <1>2, <2>1, <2>2, BudgetTypes DEF BudgetInv, BudgetExact, SizeInv
<1>3. CASE /\ handoff' = Append(handoff, NewJob) /\ UNCHANGED memory
           /\ order' = [order EXCEPT !.spilling = TRUE, !.handoff_jobs = @ + 1]
  <2>1. order'.memory_jobs = order.memory_jobs /\ order'.handoff_jobs = order.handoff_jobs + 1
        /\ order'.committed = order.committed
    BY <1>0, <1>3 DEF OrderStates
  <2>2. Unflushed' = Unflushed
    BY <1>0, <2>1, UnflushedPrimed, BudgetTypes
  <2>3. QED
    BY <1>0, <1>1, <1>3, <2>1, <2>2, BudgetTypes DEF BudgetInv, BudgetExact, SizeInv
<1>4. CASE UNCHANGED <<memory, handoff>> /\ order' = [order EXCEPT !.spilling = @ \/ ~order.blocked]
  <2>1. order'.memory_jobs = order.memory_jobs /\ order'.handoff_jobs = order.handoff_jobs
        /\ order'.committed = order.committed
    BY <1>0, <1>4 DEF OrderStates
  <2>2. QED
    BY <1>0, <1>4, <2>1, BudgetSame DEF queueVars, BudgetInv, SizeInv
<1>5. QED
  BY <1>2, <1>3, <1>4 DEF Submit, NewJob

LEMMA BudgetClear ==
    ASSUME BaseInv, BudgetInv, NEW c \in Clears, ClearStart(c) \/ ClearDropped(c) \/ ClearStep(c)
    PROVE  BudgetInv'
<1>0. memory \in Seq(Job) /\ handoff \in Seq(Job) /\ held \in Seq(Job)
  BY DEF BaseInv, TypeInv
<1>1. CASE PurgeAfterClear(c)
  <2>1. UNCHANGED <<stream, writer, spill>>
    BY <1>1 DEF PurgeAfterClear
  <2>2. PICK m \in Nat, d \in Nat, g \in Nat :
            /\ m = Len(Dropped(c, memory)) /\ d = Len(Dropped(c, handoff)) /\ g = Len(Gone(c))
    <3>1. Dropped(c, memory) \in Seq(Job) /\ Dropped(c, handoff) \in Seq(Job) /\ Gone(c) \in Seq(Job)
      BY <1>0, PickProperties, EmptySeq DEF Dropped, Gone
    <3>2. QED
      BY <3>1
  <2>3. /\ order'.committed = order.committed
        /\ order'.memory_jobs = IF order.memory_jobs >= m THEN order.memory_jobs - m ELSE 0
        /\ order'.handoff_jobs = IF order.handoff_jobs >= d + g THEN order.handoff_jobs - (d + g) ELSE 0
    BY <1>1, <2>2, PurgeOrder
  <2>4. Len(memory') + m = Len(memory) /\ Len(handoff') + d = Len(handoff)
        /\ Len(memory') \in Nat /\ Len(handoff') \in Nat
    <3>1. memory' = Pick(memory, Kept(c, memory)) /\ handoff' = Pick(handoff, Kept(c, handoff))
      BY <1>1, PurgeIs
    <3>2. Len(memory') + Len(Dropped(c, memory)) = Len(memory)
          /\ Len(handoff') + Len(Dropped(c, handoff)) = Len(handoff)
      BY <1>0, <3>1, PickPartition DEF Dropped
    <3>3. memory' \in Seq(Job) /\ handoff' \in Seq(Job)
      BY <1>0, <3>1, PickProperties
    <3>4. QED
      BY <2>2, <3>2, <3>3
  <2>5. Len(held') + g = Len(held) /\ Len(held') \in Nat
    <3>1. \/ held' = <<>> /\ Gone(c) = held
          \/ held' = held /\ Gone(c) = <<>>
      BY <1>1, PurgeIs DEF Gone
    <3>2. Len(held) \in Nat /\ Len(<<>>) = 0
      BY <1>0
    <3>3. QED
      BY <2>2, <3>1, <3>2
  <2>6. Unflushed' = Unflushed
    BY <2>1, <2>3, UnflushedPrimed, BudgetTypes
  <2>7. order'.memory_jobs = Len(memory') + writer.size
    <3>1. order.memory_jobs = Len(memory) + writer.size /\ writer.size \in Nat
      BY BudgetTypes DEF BudgetInv, BudgetExact
    <3>2. order.memory_jobs = (Len(memory') + m) + writer.size
      BY <2>4, <3>1
    <3>3. order.memory_jobs >= m /\ order.memory_jobs - m = Len(memory') + writer.size
      BY <2>4, <3>1, <3>2
    <3>4. QED
      BY <2>3, <3>3
  <2>8. order'.handoff_jobs = Len(handoff') + Len(held') + Unflushed
                              + (IF spill.pc = "job" THEN 1 ELSE 0)
    <3> DEFINE k == Unflushed + (IF spill.pc = "job" THEN 1 ELSE 0)
    <3>1. k \in Nat /\ Len(handoff) \in Nat /\ Len(held) \in Nat
      BY BudgetTypes
    <3>2. order.handoff_jobs = Len(handoff) + Len(held) + k
      BY BudgetTypes DEF BudgetInv, BudgetExact
    <3>3. order'.handoff_jobs = Len(handoff') + Len(held') + k
      <4> HIDE DEF k
      <4>1. order.handoff_jobs = (Len(handoff') + d) + (Len(held') + g) + k
        BY <2>4, <2>5, <3>2
      <4>2. order.handoff_jobs >= d + g
            /\ order.handoff_jobs - (d + g) = Len(handoff') + Len(held') + k
        BY <2>4, <2>5, <3>1, <4>1
      <4>3. QED
        BY <2>3, <4>2
    <3>4. QED
      BY <2>4, <2>5, <3>3, BudgetTypes
  <2>9. QED
    BY <2>1, <2>6, <2>7, <2>8 DEF BudgetInv, BudgetExact, SizeInv
<1>2. CASE AbandonClear(c)
  <2>1. \/ handoff' = held \o handoff /\ held' = <<>>
        \/ handoff' = handoff /\ held' = held
    BY <1>2 DEF AbandonClear
  <2>2. Len(handoff') + Len(held') = Len(handoff) + Len(held)
    BY <1>0, <2>1, ConcatProperties
  <2>3. UNCHANGED <<order, memory, stream, writer, spill>>
    BY <1>2 DEF AbandonClear
  <2>4. Unflushed' = Unflushed
    BY <2>3, UnflushedPrimed, BudgetTypes
  <2>5. QED
    BY <2>2, <2>3, <2>4, BudgetTypes DEF BudgetInv, BudgetExact, SizeInv
<1>3. CASE UNCHANGED <<queueVars, stream, order, spill, writer>>
  BY <1>3, BudgetSame DEF BudgetInv, SizeInv
<1>4. QED
  BY <1>1, <1>2, <1>3 DEF ClearStart, ClearDropped, ClearStep, ClearBegin, ClearCommit, ClearFails,
     ClearRead, ClearFinish

(* finish_unflushed releases what it was charged for. *)
LEMMA BudgetSettled ==
    ASSUME BaseInv, BudgetInv, NEW n \in {0, 1}, n = (IF spill.pc = "job" THEN 1 ELSE 0),
           stream' \in Seq(Record), Len(stream') >= order.committed, order' = Settled(stream', n),
           UNCHANGED <<queueVars, writer>>, spill'.pc # "job"
    PROVE  BudgetInv'
<1>1. /\ order'.memory_jobs = order.memory_jobs
      /\ order'.handoff_jobs = IF order.handoff_jobs >= Unflushed + n
                               THEN order.handoff_jobs - (Unflushed + n) ELSE 0
      /\ order'.committed = Len(stream')
  BY SettledIs
<1>2. Unflushed' = 0
  BY <1>1, UnflushedPrimed, UnflushedNone
<1>3. order.handoff_jobs = Len(handoff) + Len(held) + Unflushed + n
  BY DEF BudgetInv, BudgetExact
<1>4. order'.handoff_jobs = Len(handoff) + Len(held)
  <2>1. Len(handoff) \in Nat /\ Len(held) \in Nat /\ Unflushed \in Nat
    BY BudgetTypes
  <2>2. order.handoff_jobs >= Unflushed + n
        /\ order.handoff_jobs - (Unflushed + n) = Len(handoff) + Len(held)
    BY <1>3, <2>1
  <2>3. QED
    BY <1>1, <2>2
<1>5. Len(handoff) \in Nat /\ Len(held) \in Nat
  BY BudgetTypes
<1>6. order'.handoff_jobs = Len(handoff') + Len(held') + Unflushed'
                            + (IF spill'.pc = "job" THEN 1 ELSE 0)
  BY <1>2, <1>4, <1>5 DEF queueVars
<1>7. QED
  BY <1>1, <1>6 DEF BudgetInv, BudgetExact, SizeInv, queueVars

LEMMA BudgetSpill ==
    ASSUME BaseInv, BudgetInv, SpillStep \/ SpillUnblock
    PROVE  BudgetInv'
<1>0. /\ order \in OrderStates /\ stream \in Seq(Record) /\ Len(stream) \in Nat
      /\ order.committed \in Nat /\ order.committed <= Len(stream)
      /\ handoff \in Seq(Job) /\ held \in Seq(Job)
      /\ spill.boundary \in Nat /\ spill.boundary <= order.committed
      /\ UNCHANGED <<memory, writer>>
  BY SpillFrame DEF BaseInv, TypeInv, PositionInv, OrderStates, SpillStates
<1>00. SizeInv'
  BY <1>0 DEF BudgetInv, SizeInv
<1>1. CASE SpillUnblock
  <2>1. order'.memory_jobs = order.memory_jobs /\ order'.handoff_jobs = order.handoff_jobs
        /\ order'.committed = order.committed
    BY <1>0, <1>1 DEF SpillUnblock, OrderStates
  <2>2. QED
    BY <1>0, <1>00, <1>1, <2>1, BudgetSame DEF SpillUnblock
<1>2. CASE SpillRollTake \/ SpillPurgeTake
  <2>1. UNCHANGED <<order, queueVars, stream>> /\ spill.pc # "job" /\ spill'.pc # "job"
    <3>1. CASE SpillRollTake
      BY <3>1 DEF SpillRollTake, SpillIdle
    <3>2. CASE SpillPurgeTake
      BY <3>2 DEF SpillPurgeTake, SpillIdle
    <3>3. QED
      BY <1>2, <3>1, <3>2
  <2>2. QED
    BY <1>0, <1>00, <2>1, BudgetSame
<1>3. CASE SpillPurge
  <2>1. UNCHANGED <<queueVars, stream>> /\ spill.pc # "job" /\ spill'.pc # "job"
        /\ order' = SkipStreamTo(order, spill.boundary)
    BY <1>3 DEF SpillPurge, SpillIdle
  <2>2. /\ order'.memory_jobs = order.memory_jobs /\ order'.handoff_jobs = order.handoff_jobs
        /\ order'.committed = IF spill.boundary > order.committed THEN spill.boundary
                              ELSE order.committed
    BY <1>0, <2>1, SkipStreamToIs
  <2>3. order'.committed = order.committed
    BY <1>0, <2>2
  <2>4. QED
    BY <1>0, <1>00, <2>1, <2>2, <2>3, BudgetSame
<1>4. CASE SpillRoll
  <2>1. Rolled(stream) \in Torn
    <3>1. stream = SubSeq(stream, 1, Len(stream)) /\ Len(stream) \in order.committed..Len(stream)
      BY <1>0, SubSeqFull
    <3>2. QED
      BY <3>1 DEF Torn
  <2>2. stream' \in Torn /\ order' = Settled(stream', 0) /\ spill.pc = "roll" /\ spill'.pc # "job"
        /\ UNCHANGED <<queueVars, writer>>
    BY <1>4, <2>1 DEF SpillRoll, SpillIdle
  <2>3. stream' \in Seq(Record) /\ Len(stream') >= order.committed
    BY <2>2, TornIs
  <2>4. QED
    BY <2>2, <2>3, BudgetSettled
<1>5. CASE SpillTake
  <2> DEFINE free == {i \in DOMAIN handoff : ~Withheld(handoff[i])}
             n    == IF free = {} THEN Len(handoff) + 1 ELSE Min(free)
  <2>1. /\ held' = held \o SubSeq(handoff, 1, n - 1)
        /\ handoff' = SubSeq(handoff, n + 1, Len(handoff))
        /\ spill'.pc = IF free = {} THEN "step" ELSE "job"
        /\ spill.pc = "step" /\ UNCHANGED <<order, stream>>
    BY <1>5 DEF SpillTake, SpillIdle
  <2>2. Len(handoff) \in Nat /\ DOMAIN handoff = 1..Len(handoff) /\ Len(held) \in Nat
    BY <1>0
  <2>3. n \in 1..(Len(handoff) + 1) /\ (free # {} => n \in 1..Len(handoff))
        /\ (free = {} => n = Len(handoff) + 1)
    <3>1. CASE free = {}
      BY <2>2, <3>1
    <3>2. CASE free # {}
      <4>1. free \subseteq Nat
        BY <2>2
      <4>2. n \in free
        BY <3>2, <4>1, MinProperty
      <4>3. QED
        BY <2>2, <3>2, <4>2
    <3>3. QED
      BY <3>1, <3>2
  <2> HIDE DEF n, free
  <2>4. Len(held') = Len(held) + (n - 1)
    <3>1. SubSeq(handoff, 1, n - 1) \in Seq(Job)
      BY <1>0, <2>2, <2>3, SubSeqProperties
    <3>2. Len(SubSeq(handoff, 1, n - 1)) = IF 1 <= n - 1 THEN (n - 1) - 1 + 1 ELSE 0
      BY <1>0, <2>2, <2>3, SubSeqProperties
    <3>3. Len(SubSeq(handoff, 1, n - 1)) = n - 1
      BY <2>2, <2>3, <3>2
    <3>4. QED
      BY <1>0, <2>1, <3>1, <3>3, ConcatProperties
  <2>5. Len(handoff') = IF free = {} THEN 0 ELSE Len(handoff) - n
    <3>1. Len(SubSeq(handoff, n + 1, Len(handoff))) =
              IF n + 1 <= Len(handoff) THEN Len(handoff) - (n + 1) + 1 ELSE 0
      BY <1>0, <2>2, <2>3, SubSeqProperties
    <3>2. QED
      BY <2>1, <2>2, <2>3, <3>1
  <2>6. Unflushed' = Unflushed
    BY <2>1, UnflushedPrimed, BudgetTypes
  <2>7. spill'.pc = (IF free = {} THEN "step" ELSE "job") /\ spill.pc = "step"
        /\ order'.handoff_jobs = order.handoff_jobs
    BY <2>1
  <2>8. order.handoff_jobs = Len(handoff) + Len(held) + Unflushed /\ Unflushed \in Nat
    BY <2>7, BudgetTypes DEF BudgetInv, BudgetExact
  <2>9. PICK u \in Nat, a \in Nat, b \in Nat :
            u = Unflushed /\ a = Len(handoff) /\ b = Len(held)
    BY <2>2, <2>8
  <2>10. order'.handoff_jobs = Len(handoff') + Len(held') + Unflushed'
                               + (IF spill'.pc = "job" THEN 1 ELSE 0)
    <3>1. CASE free = {}
      <4>1. n = a + 1 /\ Len(handoff') = 0 /\ Len(held') = b + (n - 1) /\ spill'.pc = "step"
            /\ Unflushed' = u /\ order'.handoff_jobs = a + b + u
        BY <2>3, <2>4, <2>5, <2>6, <2>7, <2>8, <2>9, <3>1
      <4>2. QED
        BY <4>1
    <3>2. CASE free # {}
      <4>1. n \in 1..a /\ Len(handoff') = a - n /\ Len(held') = b + (n - 1) /\ spill'.pc = "job"
            /\ Unflushed' = u /\ order'.handoff_jobs = a + b + u
        BY <2>3, <2>4, <2>5, <2>6, <2>7, <2>8, <2>9, <3>2
      <4>2. QED
        BY <4>1
    <3>3. QED
      BY <3>1, <3>2
  <2>11. QED
    BY <1>0, <1>00, <2>1, <2>10 DEF BudgetInv, BudgetExact
<1>6. CASE SpillAppend
  <2>1. stream' = Append(stream, spill.job) /\ spill.pc = "job" /\ spill'.pc # "job"
        /\ spill.job \in Job /\ UNCHANGED <<order, queueVars>>
    BY <1>6 DEF SpillAppend, SpillIdle, BaseInv, TypeInv
  <2>2. Unflushed' = Unflushed + 1
    <3>1. UnflushedIn(Append(stream, spill.job), order.committed) =
              UnflushedIn(stream, order.committed) + 1
      BY <1>0, <2>1, UnflushedAppend
    <3>2. QED
      BY <2>1, <3>1, UnflushedPrimed, BudgetTypes
  <2>3. order'.handoff_jobs = Len(handoff') + Len(held') + Unflushed'
                              + (IF spill'.pc = "job" THEN 1 ELSE 0)
    BY <2>1, <2>2, BudgetTypes DEF BudgetInv, BudgetExact, queueVars
  <2>4. QED
    BY <1>0, <1>00, <2>1, <2>3 DEF BudgetInv, BudgetExact
<1>7. CASE SpillAppendFails
  <2>1. spill.pc = "job" /\ spill'.pc # "job" /\ UNCHANGED <<queueVars, writer>>
    BY <1>7 DEF SpillAppendFails, SpillIdle
  <2>2. CASE order' = [FinishHandoff(order, 1) EXCEPT !.blocked = TRUE] /\ UNCHANGED stream
    <3>1. PICK o \in OrderStates :
              /\ o = FinishHandoff(order, 1) /\ o.memory_jobs = order.memory_jobs
              /\ o.handoff_jobs = IF order.handoff_jobs >= 1 THEN order.handoff_jobs - 1 ELSE 0
              /\ o.committed = order.committed
      BY <1>0, FinishHandoffIs
    <3>2. order' = [o EXCEPT !.blocked = TRUE]
      BY <2>2, <3>1
    <3>3. /\ order'.memory_jobs = o.memory_jobs /\ order'.handoff_jobs = o.handoff_jobs
          /\ order'.committed = o.committed
      BY <3>2 DEF OrderStates
    <3>4. Unflushed' = Unflushed
      BY <2>2, <3>1, <3>3, UnflushedPrimed, BudgetTypes
    <3>5. order.handoff_jobs = Len(handoff) + Len(held) + Unflushed + 1
      BY <2>1 DEF BudgetInv, BudgetExact
    <3>6. order'.handoff_jobs = Len(handoff) + Len(held) + Unflushed
      BY <3>1, <3>3, <3>5, BudgetTypes
    <3>7. order'.handoff_jobs = Len(handoff') + Len(held') + Unflushed'
                                + (IF spill'.pc = "job" THEN 1 ELSE 0)
      BY <2>1, <3>4, <3>6, BudgetTypes DEF queueVars
    <3>8. QED
      BY <1>0, <1>00, <3>1, <3>3, <3>7 DEF BudgetInv, BudgetExact
  <2>3. CASE stream' \in Torn \union {stream} /\ order' = Settled(stream', 1)
    <3>1. stream' \in Seq(Record) /\ Len(stream') >= order.committed
      BY <1>0, <2>3, TornIs
    <3>2. QED
      BY <2>1, <2>3, <3>1, BudgetSettled
  <2>4. QED
    BY <1>7, <2>2, <2>3 DEF SpillAppendFails
<1>8. CASE SpillFlush
  <2>1. UNCHANGED <<queueVars, writer, spill>> /\ stream' \in Torn \union {stream}
        /\ order' = Settled(stream', 0) /\ spill.pc = "step"
    BY <1>8 DEF SpillFlush
  <2>2. stream' \in Seq(Record) /\ Len(stream') >= order.committed
    BY <1>0, <2>1, TornIs
  <2>3. QED
    BY <2>1, <2>2, BudgetSettled
<1>9. QED
  BY <1>1, <1>2, <1>3, <1>4, <1>5, <1>6, <1>7, <1>8 DEF SpillStep

(* The writer's steps leave the hand-off side alone. *)
LEMMA BudgetWriterFrom ==
    ASSUME BaseInv, BudgetInv, WriterStep,
           order'.handoff_jobs = order.handoff_jobs, order'.committed = order.committed,
           order'.memory_jobs = Len(memory') + writer'.size, SizeInv'
    PROVE  BudgetInv'
<1>1. UNCHANGED <<handoff, held, stream, spill>>
  BY WriterFrame
<1>2. Unflushed' = Unflushed
  BY <1>1, UnflushedPrimed, BudgetTypes
<1>3. QED
  BY <1>1, <1>2 DEF BudgetInv, BudgetExact

LEMMA BudgetWriter ==
    ASSUME BaseInv, BudgetInv, WriterStep
    PROVE  BudgetInv'
<1>0. /\ order \in OrderStates /\ writer \in WriterStates /\ memory \in Seq(Job)
      /\ Len(memory) \in Nat /\ writer.size \in Nat /\ order.memory_jobs \in Nat
      /\ order.memory_jobs = Len(memory) + writer.size
      /\ (writer.pc # "write" \/ writer.disk => writer.size = 0)
  BY BudgetTypes DEF BaseInv, TypeInv, BudgetInv, BudgetExact, SizeInv
<1>1. CASE RefreshRead \/ RefreshObserve \/ RefreshBusy \/ Write
  <2>1. UNCHANGED <<order, memory>> /\ writer'.size = writer.size
    <3>1. CASE RefreshRead
      BY <1>0, <3>1 DEF RefreshRead, WriterStates, queueVars
    <3>2. CASE RefreshObserve
      BY <1>0, <3>2 DEF RefreshObserve, WriterStates, queueVars
    <3>3. CASE RefreshBusy
      BY <1>0, <3>3 DEF RefreshBusy, WriterStates, queueVars
    <3>4. CASE Write
      BY <1>0, <3>4 DEF Write, WriterStates, queueVars
    <3>5. QED
      BY <1>1, <3>1, <3>2, <3>3, <3>4
  <2>2. SizeInv'
    <3>1. CASE RefreshRead
      <4>1. writer.pc = "top"
        BY <3>1 DEF RefreshRead
      <4>2. QED
        BY <1>0, <2>1, <4>1 DEF SizeInv
    <3>2. CASE RefreshObserve
      <4>1. writer.pc = "top"
        BY <3>2 DEF RefreshObserve, BaseInv, PositionInv
      <4>2. QED
        BY <1>0, <2>1, <4>1 DEF SizeInv
    <3>3. CASE RefreshBusy
      BY <1>0, <3>3 DEF RefreshBusy, SizeInv
    <3>4. CASE Write
      <4>1. writer'.pc = writer.pc /\ writer'.disk = writer.disk
        BY <1>0, <3>4 DEF Write, WriterStates
      <4>2. QED
        BY <1>0, <2>1, <4>1 DEF SizeInv
    <3>5. QED
      BY <1>1, <3>1, <3>2, <3>3, <3>4
  <2>3. QED
    BY <1>0, <2>1, <2>2, BudgetWriterFrom
<1>2. CASE Gather
  <2> DEFINE reset  == marks.purge_seq # writer.seq /\ marks.purges = {}
             cursor == IF reset THEN Max({marks.read_start, order.consumed}) ELSE writer.cursor
             seq    == IF reset THEN marks.purge_seq ELSE writer.seq
             n      == Min({BatchMax, Len(memory)})
             at     == [writer EXCEPT !.cursor = cursor, !.seq = seq]
  <2>1. writer.size = 0
    BY <1>0, <1>2 DEF Gather
  <2>2. n \in Nat /\ n <= Len(memory)
    BY GatherSize DEF BaseInv
  <2>3. \/ /\ writer' = [at EXCEPT !.pc = "write", !.disk = FALSE, !.size = n,
                                   !.batch = SubSeq(memory, 1, n)]
           /\ memory' = SubSeq(memory, n + 1, Len(memory)) /\ UNCHANGED order
        \/ /\ writer' = [at EXCEPT !.pc = "reading", !.upto = order.committed,
                                   !.read_seq = marks.purge_seq]
           /\ UNCHANGED <<memory, order>>
        \/ /\ order' = TryResume(order) /\ UNCHANGED memory
           /\ writer' = [at EXCEPT !.pc = "top"]
    BY <1>2 DEF Gather
  <2> HIDE DEF cursor, seq, n
  <2>4. CASE /\ writer' = [at EXCEPT !.pc = "write", !.disk = FALSE, !.size = n,
                                     !.batch = SubSeq(memory, 1, n)]
             /\ memory' = SubSeq(memory, n + 1, Len(memory)) /\ UNCHANGED order
    <3>1. writer'.pc = "write" /\ writer'.disk = FALSE /\ writer'.size = n
      BY <1>0, <2>4 DEF WriterStates
    <3>2. Len(memory') = Len(memory) - n
      <4>1. Len(SubSeq(memory, n + 1, Len(memory))) =
                IF n + 1 <= Len(memory) THEN Len(memory) - (n + 1) + 1 ELSE 0
        BY <1>0, <2>2, SubSeqProperties
      <4>2. QED
        BY <1>0, <2>2, <2>4, <4>1
    <3>3. order'.memory_jobs = Len(memory') + writer'.size
      <4>1. order.memory_jobs = Len(memory) /\ UNCHANGED order
        BY <1>0, <2>1, <2>4
      <4>2. QED
        BY <1>0, <2>2, <3>1, <3>2, <4>1
    <3>4. QED
      BY <2>4, <3>1, <3>3, BudgetWriterFrom DEF SizeInv
  <2>5. CASE /\ writer' = [at EXCEPT !.pc = "reading", !.upto = order.committed,
                                     !.read_seq = marks.purge_seq]
             /\ UNCHANGED <<memory, order>>
    <3>1. writer'.size = 0
      BY <1>0, <2>1, <2>5 DEF WriterStates
    <3>2. QED
      BY <1>0, <2>1, <2>5, <3>1, BudgetWriterFrom DEF SizeInv
  <2>6. CASE /\ order' = TryResume(order) /\ UNCHANGED memory
             /\ writer' = [at EXCEPT !.pc = "top"]
    <3>1. writer'.size = 0
      BY <1>0, <2>1, <2>6 DEF WriterStates
    <3>2. order'.memory_jobs = order.memory_jobs /\ order'.handoff_jobs = order.handoff_jobs
          /\ order'.committed = order.committed
      BY <1>0, <2>6, TryResumeIs
    <3>3. QED
      BY <1>0, <2>1, <2>6, <3>1, <3>2, BudgetWriterFrom DEF SizeInv
  <2>7. QED
    BY <2>3, <2>4, <2>5, <2>6
<1>3. CASE ReadEnd \/ ReadGivesUp
  <2>1. writer.pc = "reading" /\ UNCHANGED memory
    BY <1>3 DEF ReadEnd, ReadGivesUp, queueVars
  <2>2. ReadNext \in Nat /\ writer.upto \in Nat
    BY <2>1, ReadNextIs
  <2>3. order' \in {order, DiskDone(order, ReadNext), DiskDone(order, writer.upto)}
    BY <1>3 DEF ReadEnd, ReadGivesUp
  <2>4. order'.memory_jobs = order.memory_jobs /\ order'.handoff_jobs = order.handoff_jobs
        /\ order'.committed = order.committed
    <3>1. \A p \in Nat : /\ DiskDone(order, p).memory_jobs = order.memory_jobs
                         /\ DiskDone(order, p).handoff_jobs = order.handoff_jobs
                         /\ DiskDone(order, p).committed = order.committed
      BY <1>0, DiskDoneIs
    <3>2. CASE order' = order
      BY <3>2
    <3>3. CASE order' = DiskDone(order, ReadNext)
      BY <2>2, <3>1, <3>3
    <3>4. CASE order' = DiskDone(order, writer.upto)
      BY <2>2, <3>1, <3>4
    <3>5. QED
      BY <2>3, <3>2, <3>3, <3>4
  <2>5. writer'.size = 0
    <3>1. PICK v \in WriterStates : v = WriterAt("gather") /\ v.size = 0
      BY <1>0, WriterAtType
    <3>2. PICK w \in WriterStates : w = WriterAt("write") /\ w.size = 0
      BY <1>0, WriterAtType
    <3>3. \/ writer' = WriterAt("gather")
          \/ writer' = [WriterAt("gather") EXCEPT !.cursor = ReadNext]
          \/ writer' = [WriterAt("gather") EXCEPT !.cursor = writer.upto]
          \/ writer' = [WriterAt("write") EXCEPT !.cursor = ReadNext, !.disk = TRUE, !.size = 0,
                                                !.batch = Records(writer.cursor, ReadNext)]
      BY <1>3 DEF ReadEnd, ReadGivesUp
    <3>4. \/ writer' = v
          \/ writer' = [v EXCEPT !.cursor = ReadNext]
          \/ writer' = [v EXCEPT !.cursor = writer.upto]
          \/ writer' = [w EXCEPT !.cursor = ReadNext, !.disk = TRUE, !.size = 0,
                                 !.batch = Records(writer.cursor, ReadNext)]
      BY <3>1, <3>2, <3>3
    <3>5. QED
      BY <3>1, <3>2, <3>4 DEF WriterStates
  <2>6. QED
    BY <1>0, <2>1, <2>4, <2>5, BudgetWriterFrom DEF SizeInv
<1>4. CASE WriteEnd
  <2>1. writer.pc = "write" /\ writer' = WriterAt("top") /\ UNCHANGED memory
    BY <1>4 DEF WriteEnd, queueVars
  <2>2. writer'.size = 0
    BY <1>0, <2>1, WriterAtType
  <2>3. order'.memory_jobs = Len(memory) /\ order'.handoff_jobs = order.handoff_jobs
        /\ order'.committed = order.committed
    <3>1. CASE writer.disk /\ order' = DiskDone(order, in_flight.next)
      <4>1. in_flight.next \in Nat /\ writer.size = 0
        BY <1>0, <2>1, <3>1 DEF BaseInv, PositionInv, FlightStates
      <4>2. order'.memory_jobs = order.memory_jobs /\ order'.handoff_jobs = order.handoff_jobs
            /\ order'.committed = order.committed
        BY <1>0, <3>1, <4>1, DiskDoneIs
      <4>3. QED
        BY <1>0, <4>1, <4>2
    <3>2. CASE order' = ReleaseMemory(order, writer.size)
      <4>1. /\ order'.memory_jobs = IF order.memory_jobs >= writer.size
                                    THEN order.memory_jobs - writer.size ELSE 0
            /\ order'.handoff_jobs = order.handoff_jobs /\ order'.committed = order.committed
        BY <1>0, <3>2, ReleaseMemoryIs
      <4>2. order.memory_jobs >= writer.size /\ order.memory_jobs - writer.size = Len(memory)
        BY <1>0
      <4>3. QED
        BY <4>1, <4>2
    <3>3. QED
      BY <1>4, <3>1, <3>2 DEF WriteEnd
  <2>4. QED
    BY <1>0, <2>1, <2>2, <2>3, BudgetWriterFrom DEF SizeInv
<1>5. CASE WriterPanics
  <2>1. writer.pc = "write" /\ writer'.size = 0 /\ UNCHANGED memory
    BY <1>5 DEF WriterPanics, WriterNew, queueVars
  <2>2. order'.memory_jobs = Len(memory) /\ order'.handoff_jobs = order.handoff_jobs
        /\ order'.committed = order.committed
    <3>1. CASE writer.disk /\ order' \in {order, DiskDone(order, in_flight.next)}
      <4>1. in_flight.next \in Nat /\ writer.size = 0
        BY <1>0, <2>1, <3>1 DEF BaseInv, PositionInv, FlightStates
      <4>2. order'.memory_jobs = order.memory_jobs /\ order'.handoff_jobs = order.handoff_jobs
            /\ order'.committed = order.committed
        <5>1. /\ DiskDone(order, in_flight.next).memory_jobs = order.memory_jobs
              /\ DiskDone(order, in_flight.next).handoff_jobs = order.handoff_jobs
              /\ DiskDone(order, in_flight.next).committed = order.committed
          BY <1>0, <4>1, DiskDoneIs
        <5>2. QED
          BY <3>1, <5>1, Zenon
      <4>3. QED
        BY <1>0, <4>1, <4>2
    <3>2. CASE order' = ReleaseMemory(order, writer.size)
      <4>1. /\ order'.memory_jobs = IF order.memory_jobs >= writer.size
                                    THEN order.memory_jobs - writer.size ELSE 0
            /\ order'.handoff_jobs = order.handoff_jobs /\ order'.committed = order.committed
        BY <1>0, <3>2, ReleaseMemoryIs
      <4>2. order.memory_jobs >= writer.size /\ order.memory_jobs - writer.size = Len(memory)
        BY <1>0
      <4>3. QED
        BY <4>1, <4>2
    <3>3. QED
      BY <1>5, <3>1, <3>2 DEF WriterPanics
  <2>3. QED
    BY <1>0, <2>1, <2>2, BudgetWriterFrom DEF SizeInv
<1>6. QED
  BY <1>1, <1>2, <1>3, <1>4, <1>5 DEF WriterStep

LEMMA BudgetCrash ==
    ASSUME BaseInv, BudgetInv, Crash
    PROVE  BudgetInv'
<1>1. Unflushed' = 0
  BY CrashIs, UnflushedPrimed, UnflushedNone
<1>2. Len(memory') = 0 /\ Len(handoff') = 0 /\ Len(held') = 0 /\ spill'.pc # "job"
      /\ writer'.size = 0 /\ order'.memory_jobs = 0 /\ order'.handoff_jobs = 0
  BY CrashIs, SpillIdleType, EmptySeq
<1>3. QED
  BY <1>1, <1>2 DEF BudgetInv, BudgetExact, SizeInv

LEMMA BudgetInvariance == Spec => [](BaseInv /\ BudgetInv)
<1>1. BaseInv /\ BudgetInv /\ [Next]_vars => BudgetInv'
  <2> SUFFICES ASSUME BaseInv, BudgetInv, [Next]_vars PROVE BudgetInv'
    OBVIOUS
  <2>1. CASE UNCHANGED vars
    <3>1. UNCHANGED <<queueVars, stream, order, spill, writer>>
      BY <2>1 DEF vars, queueVars
    <3>2. QED
      BY <3>1, BudgetSame DEF BudgetInv, SizeInv
  <2>2. CASE Next
    BY <2>2, BudgetSubmit, BudgetClear, BudgetSpill, BudgetWriter, BudgetCrash DEF Next
  <2>3. QED
    BY <2>1, <2>2
<1>2. QED
  BY <1>1, BudgetInit, BaseInvariance, PTL DEF Spec

(***************************************************************************)
(* BudgetExact: release_memory, finish_handoff and finish_unflushed give   *)
(* back exactly what try_enter_memory and try_enter_handoff charged, so    *)
(* the saturating subtractions never hide a difference, whatever fails and *)
(* however many clears discard, hold back and requeue jobs.                *)
(***************************************************************************)
THEOREM BudgetsAlwaysExact == Spec => []BudgetExact
<1>1. BudgetInv => BudgetExact
  BY DEF BudgetInv
<1>2. QED
  BY <1>1, BudgetInvariance, PTL

-----------------------------------------------------------------------------
(* Generations and epochs.                                                 *)

Running == {c \in Clears : clear[c].pc \notin {"idle", "done"}}

(* ClearState counts the clears that are under way. *)
CountInv == clear_state.started = clear_state.finished + Cardinality(Running)

(* Nothing in memory is ahead of the database. *)
GenInv ==
    /\ clear_state.mirror <= generation
    /\ writer.read # None => writer.read.gen <= generation
    /\ \A c \in Clears : clear[c].gen # None => clear[c].gen <= generation

(* What the stamp of a job says of the generation it was captured at. *)
JobOK(j) ==
    /\ j.at <= generation
    /\ j.boot <= boot
    /\ j.gen >= 0 => j.gen <= j.at
    /\ j.gen < 0 /\ j.boot = boot /\ j.epoch # InFlight =>
          /\ j.epoch <= clear_state.started
          /\ j.epoch = clear_state.started
                => j.at = generation /\ clear_state.started = clear_state.finished

GoodJobs == {j \in Job : JobOK(j)}

StampInv == CountInv /\ GenInv /\ Carried(GoodJobs)

LEMMA RunningFinite ==
    IsFiniteSet(Running) /\ Cardinality(Running) \in Nat
<1>1. IsFiniteSet(Running)
  BY ClearsAssumption, FS_Subset DEF Running
<1>2. QED
  BY <1>1, FS_CardinalityType

LEMMA RunningCounted ==
    ASSUME TypeInv, CountInv, NEW c \in Clears, clear[c].pc \notin {"idle", "done"}
    PROVE  clear_state.started > clear_state.finished
<1>1. Running # {}
  BY DEF Running
<1>2. Cardinality(Running) # 0
  BY <1>1, RunningFinite, FS_EmptySet
<1>3. QED
  BY <1>2, RunningFinite DEF TypeInv, CountInv

LEMMA CountInit == Init => CountInv
<1> SUFFICES ASSUME Init PROVE CountInv
  OBVIOUS
<1>1. Running = {}
  BY DEF Init, Running
<1>2. QED
  BY <1>1, FS_EmptySet DEF Init, CountInv, NewClearState

LEMMA CountSame ==
    ASSUME CountInv, \A c \in Clears : clear'[c].pc \in {"idle", "done"} <=> clear[c].pc \in {"idle", "done"},
           clear_state'.started = clear_state.started, clear_state'.finished = clear_state.finished
    PROVE  CountInv'
<1>1. Running' = Running
  BY DEF Running
<1>2. QED
  BY <1>1 DEF CountInv

(* How a step may change the four clocks. *)
LEMMA Clocks ==
    ASSUME BaseInv, [Next]_vars
    PROVE  \/ /\ UNCHANGED <<generation, boot>>
              /\ clear_state'.started = clear_state.started
              /\ clear_state'.finished = clear_state.finished
              /\ \A c \in Clears : clear'[c].pc \in {"idle", "done"} <=> clear[c].pc \in {"idle", "done"}
           \/ \E c \in Clears : ClearStart(c) \/ ClearCommit(c) \/ ClearFinish(c)
           \/ Crash
<1>0. clear_state \in [mirror : Int, started : Nat, finished : Nat] /\ clear \in [Clears -> ClearStates]
  BY DEF BaseInv, TypeInv
<1>1. CASE Submit \/ SpillStep \/ SpillUnblock \/ UNCHANGED vars
  <2>1. UNCHANGED <<generation, boot, clear_state, clear>>
    BY <1>1, SpillFrame DEF Submit, vars, dbVars
  <2>2. QED
    BY <2>1
<1>2. CASE WriterStep
  <2>1. UNCHANGED <<generation, boot, clear>>
    BY <1>2, WriterFrame
  <2>2. clear_state' = clear_state \/ \E m : clear_state' = [clear_state EXCEPT !.mirror = m]
    BY <1>2 DEF WriterStep, RefreshRead, RefreshObserve, RefreshBusy, Gather, ReadEnd, ReadGivesUp,
       Write, WriteEnd, WriterPanics
  <2>3. clear_state'.started = clear_state.started /\ clear_state'.finished = clear_state.finished
    BY <1>0, <2>2
  <2>4. QED
    BY <2>1, <2>3
<1>3. ASSUME NEW c \in Clears, ClearBegin(c) \/ ClearFails(c) \/ ClearDropped(c)
      PROVE  /\ UNCHANGED <<generation, boot, clear_state>>
             /\ \A d \in Clears : clear'[d].pc \in {"idle", "done"} <=> clear[d].pc \in {"idle", "done"}
  <2>1. /\ UNCHANGED <<generation, boot, clear_state>>
        /\ clear[c].pc \notin {"idle", "done"}
        /\ \E pc \in {"run", "failed", "lost", "detached"} : clear' = [clear EXCEPT ![c].pc = pc]
    BY <1>3 DEF ClearBegin, ClearFails, ClearDropped, To, dbVars
  <2>2. QED
    BY <1>0, <2>1 DEF ClearStates
<1>4. ASSUME NEW c \in Clears, ClearRead(c) \/ PurgeAfterClear(c) \/ AbandonClear(c)
      PROVE  /\ UNCHANGED <<generation, boot>>
             /\ clear_state'.started = clear_state.started
             /\ clear_state'.finished = clear_state.finished
             /\ \A d \in Clears : clear'[d].pc \in {"idle", "done"} <=> clear[d].pc \in {"idle", "done"}
  <2>1. /\ UNCHANGED <<generation, boot>>
        /\ clear[c].pc \notin {"idle", "done"}
        /\ \E pc \in {"purge", "finish"} : \E g :
               clear' = [clear EXCEPT ![c] = [pc |-> pc, gen |-> g]]
    BY <1>4 DEF ClearRead, PurgeAfterClear, AbandonClear, dbVars
  <2>2. clear_state' = clear_state \/ \E m : clear_state' = [clear_state EXCEPT !.mirror = m]
    BY <1>4, PurgeIs DEF ClearRead, AbandonClear
  <2>3. clear_state'.started = clear_state.started /\ clear_state'.finished = clear_state.finished
    BY <1>0, <2>2
  <2>4. \A d \in Clears : clear'[d].pc \in {"idle", "done"} <=> clear[d].pc \in {"idle", "done"}
    BY <1>0, <2>1 DEF ClearStates
  <2>5. QED
    BY <2>1, <2>3, <2>4
<1>5. QED
  BY <1>1, <1>2, <1>3, <1>4 DEF Next, ClearStep

LEMMA CountStep ==
    ASSUME BaseInv, CountInv, [Next]_vars
    PROVE  CountInv'
<1>0. clear_state \in [mirror : Int, started : Nat, finished : Nat] /\ clear \in [Clears -> ClearStates]
  BY DEF BaseInv, TypeInv
<1>1. ASSUME NEW c \in Clears, ClearStart(c) PROVE CountInv'
  <2>1. /\ clear_state' = [clear_state EXCEPT !.started = @ + 1] /\ clear[c].pc = "idle"
        /\ clear' = [clear EXCEPT ![c].pc = "begin"]
    BY <1>1 DEF ClearStart, To
  <2>2. Running' = Running \union {c} /\ c \notin Running
    BY <1>0, <2>1 DEF Running, ClearStates
  <2>3. Cardinality(Running') = Cardinality(Running) + 1
    BY <2>2, RunningFinite, FS_AddElement
  <2>4. clear_state'.started = clear_state.started + 1 /\ clear_state'.finished = clear_state.finished
    BY <1>0, <2>1
  <2>5. QED
    BY <1>0, <2>3, <2>4, RunningFinite DEF CountInv
<1>2. ASSUME NEW c \in Clears, ClearFinish(c) PROVE CountInv'
  <2>1. /\ clear_state' = [clear_state EXCEPT !.finished = @ + 1] /\ clear[c].pc = "finish"
        /\ clear' = [clear EXCEPT ![c].pc = "done"]
    BY <1>2 DEF ClearFinish, To
  <2>2. Running' = Running \ {c} /\ c \in Running
    BY <1>0, <2>1 DEF Running, ClearStates
  <2>3. Cardinality(Running') = Cardinality(Running) - 1
    BY <2>2, RunningFinite, FS_RemoveElement
  <2>4. clear_state'.started = clear_state.started /\ clear_state'.finished = clear_state.finished + 1
    BY <1>0, <2>1
  <2>5. QED
    BY <1>0, <2>3, <2>4, RunningFinite DEF CountInv
<1>3. ASSUME NEW c \in Clears, ClearCommit(c) PROVE CountInv'
  <2>1. /\ UNCHANGED clear_state /\ clear[c].pc \notin {"idle", "done"}
        /\ \E pc \in {"committed", "lost"} : clear' = [clear EXCEPT ![c].pc = pc]
    BY <1>3 DEF ClearCommit, To
  <2>2. \A d \in Clears : clear'[d].pc \in {"idle", "done"} <=> clear[d].pc \in {"idle", "done"}
    BY <1>0, <2>1 DEF ClearStates
  <2>3. QED
    BY <2>1, <2>2, CountSame
<1>4. CASE Crash
  <2>1. Running' = {}
    BY <1>4, CrashIs DEF Running
  <2>2. clear_state'.started = 0 /\ clear_state'.finished = 0
    BY <1>4 DEF Crash, NewClearState
  <2>3. QED
    BY <2>1, <2>2, FS_EmptySet DEF CountInv
<1>5. QED
  BY <1>1, <1>2, <1>3, <1>4, Clocks, CountSame

LEMMA GenGrows ==
    ASSUME BaseInv, [Next]_vars
    PROVE  generation' \in Nat /\ generation' >= generation
<1>1. generation \in Nat
  BY DEF BaseInv, TypeInv
<1>2. generation' \in {generation, generation + 1}
  BY Clocks DEF ClearStart, ClearCommit, ClearFinish, Crash, dbVars
<1>3. QED
  BY <1>1, <1>2

LEMMA ObservedBounded ==
    ASSUME TypeInv, GenInv, NEW g \in Int, g <= generation, NEW e,
           clear_state' = [clear_state EXCEPT !.mirror = Observed(g, e)]
    PROVE  clear_state'.mirror <= generation
<1>1. Observed(g, e) \in {g, clear_state.mirror}
  BY ObservedType
<1>2. clear_state \in [mirror : Int, started : Nat, finished : Nat]
  BY DEF TypeInv
<1>3. clear_state'.mirror = Observed(g, e)
  BY <1>2
<1>4. QED
  BY <1>1, <1>3 DEF GenInv

(* The writer's reading of the generation is taken by RefreshRead and kept *)
(* until it is used or the thread starts again.                            *)
LEMMA ReadChanges ==
    ASSUME BaseInv, [Next]_vars
    PROVE  writer'.read = None \/ RefreshRead \/ (writer'.read = writer.read /\ ~Crash)
<1>0. TypeInv /\ writer \in WriterStates
  BY DEF BaseInv, TypeInv
<1>1. CASE Crash
  BY <1>1, CrashIs
<1>2. CASE RefreshObserve
  <2>1. writer' = [writer EXCEPT !.read = None, !.pc = "gather"]
    BY <1>2 DEF RefreshObserve
  <2>2. QED
    BY <1>0, <2>1 DEF WriterStates
<1>3. CASE WriterPanics
  <2>1. writer' = WriterNew(Max({marks.read_start, order'.consumed}), marks.purge_seq)
    BY <1>3 DEF WriterPanics
  <2>2. QED
    BY <2>1 DEF WriterNew
<1>4. CASE Write
  <2>1. writer'.read = writer.read
    BY <1>0, <1>4 DEF Write, WriterStates
  <2>2. QED
    BY <1>1, <2>1
<1>5. CASE Gather
  <2>1. writer'.read = writer.read
    BY <1>0, <1>5 DEF Gather, WriterStates
  <2>2. QED
    BY <1>1, <2>1
<1>6. CASE ReadEnd \/ ReadGivesUp \/ WriteEnd
  <2>1. \/ writer' = WriterAt("gather")
        \/ writer' = [WriterAt("gather") EXCEPT !.cursor = ReadNext]
        \/ writer' = [WriterAt("gather") EXCEPT !.cursor = writer.upto]
        \/ writer' = WriterAt("top")
        \/ writer' = [WriterAt("write") EXCEPT !.cursor = ReadNext, !.disk = TRUE, !.size = 0,
                                               !.batch = Records(writer.cursor, ReadNext)]
    BY <1>6 DEF ReadEnd, ReadGivesUp, WriteEnd
  <2>2. PICK v \in WriterStates : v = WriterAt("gather") /\ v.read = writer.read
    BY <1>0, WriterAtType
  <2>3. PICK w \in WriterStates : w = WriterAt("write") /\ w.read = writer.read
    BY <1>0, WriterAtType
  <2>4. PICK t \in WriterStates : t = WriterAt("top") /\ t.read = writer.read
    BY <1>0, WriterAtType
  <2>5. \/ writer' = v
        \/ writer' = [v EXCEPT !.cursor = ReadNext]
        \/ writer' = [v EXCEPT !.cursor = writer.upto]
        \/ writer' = t
        \/ writer' = [w EXCEPT !.cursor = ReadNext, !.disk = TRUE, !.size = 0,
                               !.batch = Records(writer.cursor, ReadNext)]
    BY <2>1, <2>2, <2>3, <2>4
  <2>6. writer'.read = writer.read
    BY <2>2, <2>3, <2>4, <2>5 DEF WriterStates
  <2>7. QED
    BY <1>1, <2>6
<1>7. CASE UNCHANGED writer
  BY <1>1, <1>7
<1>8. CASE SpillStep \/ SpillUnblock
  BY <1>7, <1>8, SpillFrame
<1>9. CASE WriterStep
  BY <1>2, <1>3, <1>4, <1>5, <1>6, <1>7, <1>9 DEF WriterStep, RefreshBusy
<1>10. ASSUME NEW c \in Clears, ClearStart(c) \/ ClearDropped(c) \/ ClearStep(c) PROVE UNCHANGED writer
  BY <1>10 DEF ClearStart, ClearDropped, ClearStep, ClearBegin, ClearCommit, ClearFails, ClearRead,
     PurgeAfterClear, AbandonClear, ClearFinish
<1>11. CASE Submit \/ UNCHANGED vars
  BY <1>7, <1>11 DEF Submit, vars
<1>12. QED
  BY <1>1, <1>7, <1>8, <1>9, <1>10, <1>11 DEF Next

LEMMA GenStep ==
    ASSUME BaseInv, GenInv, [Next]_vars
    PROVE  GenInv'
<1>0. /\ TypeInv /\ generation \in Nat /\ generation' \in Nat /\ generation' >= generation
      /\ clear_state \in [mirror : Int, started : Nat, finished : Nat]
      /\ clear_state.mirror \in Int
      /\ clear \in [Clears -> ClearStates] /\ writer \in WriterStates
  BY GenGrows DEF BaseInv, TypeInv
<1>1. clear_state'.mirror <= generation'
  <2>1. clear_state'.mirror = clear_state.mirror => clear_state'.mirror <= generation'
    BY <1>0 DEF GenInv
  <2>2. clear_state'.mirror <= generation => clear_state'.mirror <= generation'
    <3>1. BaseInv'
      BY BaseStep
    <3>2. clear_state'.mirror \in Int
      BY <3>1 DEF BaseInv, TypeInv
    <3>3. QED
      BY <1>0, <3>2
  <2>3. CASE Submit \/ SpillStep \/ SpillUnblock \/ UNCHANGED vars
    <3>1. UNCHANGED clear_state
      BY <2>3, SpillFrame DEF Submit, vars
    <3>2. QED
      BY <2>1, <3>1
  <2>4. CASE WriterStep
    <3>1. CASE RefreshObserve
      <4>1. writer.read.gen \in Int /\ writer.read.gen <= generation
        BY <1>0, <3>1 DEF RefreshObserve, GenInv, WriterStates
      <4>2. QED
        BY <1>0, <2>2, <3>1, <4>1, ObservedBounded DEF RefreshObserve
    <3>2. CASE RefreshBusy \/ Write
      BY <1>0, <2>2, <3>2, ObservedBounded DEF RefreshBusy, Write
    <3>3. CASE UNCHANGED clear_state
      BY <2>1, <3>3
    <3>4. QED
      BY <2>4, <3>1, <3>2, <3>3 DEF WriterStep, RefreshRead, Gather, ReadEnd, ReadGivesUp,
         WriteEnd, WriterPanics
  <2>5. ASSUME NEW c \in Clears, ClearStart(c) \/ ClearDropped(c) \/ ClearStep(c)
        PROVE  clear_state'.mirror <= generation'
    <3>1. CASE PurgeAfterClear(c)
      <4>1. clear[c].gen \in Nat \union {None}
        BY <1>0 DEF ClearStates
      <4>2. CASE clear[c].gen = None
        BY <1>0, <2>1, <3>1, <4>2, PurgeIs
      <4>3. CASE clear[c].gen # None
        <5>1. clear[c].gen \in Int /\ clear[c].gen <= generation
          BY <4>1, <4>3 DEF GenInv
        <5>2. clear_state' = [clear_state EXCEPT !.mirror = Observed(clear[c].gen, None)]
          BY <3>1, <4>3, PurgeIs
        <5>3. QED
          BY <1>0, <2>2, <5>1, <5>2, ObservedBounded
      <4>4. QED
        BY <4>2, <4>3
    <3>2. CASE ClearStart(c) \/ ClearFinish(c)
      BY <1>0, <2>1, <3>2 DEF ClearStart, ClearFinish
    <3>3. CASE UNCHANGED clear_state
      BY <2>1, <3>3
    <3>4. QED
      BY <2>5, <3>1, <3>2, <3>3 DEF ClearDropped, ClearStep, ClearBegin, ClearCommit, ClearFails,
         ClearRead, AbandonClear
  <2>6. CASE Crash
    <3>1. PICK m \in {generation, Unresolved} : clear_state' = NewClearState(m)
      BY <2>6 DEF Crash
    <3>2. QED
      BY <1>0, <3>1 DEF NewClearState, Unresolved
  <2>7. QED
    BY <2>3, <2>4, <2>5, <2>6 DEF Next
<1>2. writer'.read # None => writer'.read.gen <= generation'
  <2>1. CASE writer'.read = writer.read
    <3>1. writer.read # None => writer.read.gen \in Nat
      BY <1>0 DEF WriterStates
    <3>2. QED
      BY <1>0, <2>1, <3>1 DEF GenInv
  <2>2. CASE writer'.read = None
    BY <2>2
  <2>3. CASE RefreshRead
    <3>1. writer' = [writer EXCEPT !.read = [epoch |-> ReadEpoch, gen |-> generation]]
      BY <2>3 DEF RefreshRead
    <3>2. writer'.read.gen = generation
      BY <1>0, <3>1 DEF WriterStates
    <3>3. QED
      BY <1>0, <3>2
  <2>4. QED
    BY <2>1, <2>2, <2>3, ReadChanges
<1>3. ASSUME NEW c \in Clears, clear'[c].gen # None PROVE clear'[c].gen <= generation'
  <2>1. clear'[c].gen \in {clear[c].gen, generation, None}
    <3>1. CASE UNCHANGED clear
      BY <3>1
    <3>2. CASE Crash
      BY <3>2, CrashIs
    <3>3. ASSUME NEW d \in Clears, NEW pc, clear' = [clear EXCEPT ![d].pc = pc]
          PROVE  clear'[c].gen \in {clear[c].gen, generation, None}
      BY <1>0, <3>3 DEF ClearStates
    <3>4. ASSUME NEW d \in Clears, NEW pc \in {"purge", "finish"}, NEW g \in {generation, None},
                 clear' = [clear EXCEPT ![d] = [pc |-> pc, gen |-> g]]
          PROVE  clear'[c].gen \in {clear[c].gen, generation, None}
      BY <1>0, <3>4 DEF ClearStates
    <3>5. ASSUME NEW d \in Clears, ClearStart(d) \/ ClearDropped(d) \/ ClearBegin(d) \/ ClearCommit(d)
                                   \/ ClearFails(d) \/ ClearFinish(d)
          PROVE  \E pc : clear' = [clear EXCEPT ![d].pc = pc]
      BY <3>5 DEF ClearStart, ClearDropped, ClearBegin, ClearCommit, ClearFails, ClearFinish, To
    <3>6. ASSUME NEW d \in Clears, ClearRead(d) \/ PurgeAfterClear(d) \/ AbandonClear(d)
          PROVE  \E pc \in {"purge", "finish"}, g \in {generation, None} :
                     clear' = [clear EXCEPT ![d] = [pc |-> pc, gen |-> g]]
      <4>1. \/ clear' = [clear EXCEPT ![d] = [pc |-> "purge", gen |-> generation]]
            \/ clear' = [clear EXCEPT ![d] = [pc |-> "purge", gen |-> None]]
            \/ clear' = [clear EXCEPT ![d] = [pc |-> "finish", gen |-> None]]
        BY <3>6 DEF ClearRead, PurgeAfterClear, AbandonClear
      <4>2. QED
        BY <4>1
    <3>7. QED
      BY <3>1, <3>2, <3>3, <3>4, <3>5, <3>6, SpillFrame, WriterFrame
         DEF Next, Submit, vars, ClearStep
  <2>2. clear[c].gen \in Nat \union {None}
    BY <1>0 DEF ClearStates
  <2>3. QED
    BY <1>0, <1>3, <2>1, <2>2 DEF GenInv
<1>4. QED
  BY <1>1, <1>2, <1>3 DEF GenInv

(* What a stamp says stays true. *)
LEMMA JobStable ==
    ASSUME BaseInv, CountInv, [Next]_vars, NEW j \in Job, JobOK(j)
    PROVE  JobOK(j)'
<1>0. /\ j.at \in Nat /\ j.gen \in Int /\ j.epoch \in Int /\ j.boot \in Nat
      /\ generation \in Nat /\ boot \in Nat /\ TypeInv
      /\ clear_state \in [mirror : Int, started : Nat, finished : Nat]
      /\ clear_state.started \in Nat /\ clear_state.finished \in Nat
  BY DEF Job, BaseInv, TypeInv
<1>1. CASE /\ UNCHANGED <<generation, boot>>
           /\ clear_state'.started = clear_state.started
           /\ clear_state'.finished = clear_state.finished
  BY <1>1 DEF JobOK
<1>2. ASSUME NEW c \in Clears, ClearStart(c) PROVE JobOK(j)'
  <2>1. UNCHANGED <<generation, boot>> /\ clear_state'.started = clear_state.started + 1
    BY <1>0, <1>2 DEF ClearStart, dbVars
  <2>2. QED
    BY <1>0, <2>1 DEF JobOK
<1>3. ASSUME NEW c \in Clears, ClearCommit(c) PROVE JobOK(j)'
  <2>1. UNCHANGED <<boot, clear_state>> /\ generation' = generation + 1
    BY <1>3 DEF ClearCommit
  <2>2. clear_state.started # clear_state.finished
    BY <1>0, <1>3, RunningCounted DEF ClearCommit
  <2>3. QED
    BY <1>0, <2>1, <2>2 DEF JobOK
<1>4. ASSUME NEW c \in Clears, ClearFinish(c) PROVE JobOK(j)'
  <2>1. UNCHANGED <<generation, boot>> /\ clear_state'.started = clear_state.started
    BY <1>0, <1>4 DEF ClearFinish, dbVars
  <2>2. clear_state.started # clear_state.finished
    BY <1>0, <1>4, RunningCounted DEF ClearFinish
  <2>3. QED
    BY <1>0, <2>1, <2>2 DEF JobOK
<1>5. CASE Crash
  <2>1. UNCHANGED generation /\ boot' = boot + 1
    BY <1>5 DEF Crash, dbVars
  <2>2. QED
    BY <1>0, <2>1 DEF JobOK
<1>6. QED
  BY <1>1, <1>2, <1>3, <1>4, <1>5, Clocks

LEMMA NewJobGood ==
    ASSUME BaseInv, GenInv
    PROVE  NewJob \in GoodJobs
<1>1. NewJob \in Job
  BY NewJobType DEF BaseInv
<1>2. JobOK(NewJob)
  BY DEF JobOK, NewJob, CaptureEpoch, GenInv, BaseInv, TypeInv
<1>3. QED
  BY <1>1, <1>2 DEF GoodJobs

LEMMA CarriedGrows ==
    ASSUME NEW S, NEW T, S \subseteq T, Carried(S)'
    PROVE  Carried(T)'
<1>1. Seq(S) \subseteq Seq(T) /\ Seq(S \union {Gap}) \subseteq Seq(T \union {Gap})
  <2>1. ASSUME NEW A, NEW B, A \subseteq B, NEW s \in Seq(A) PROVE s \in Seq(B)
    BY <2>1, RestrictSeq
  <2>2. QED
    BY <2>1
<1>2. QED
  BY <1>1 DEF Carried

LEMMA StampInit == Init => StampInv
<1> SUFFICES ASSUME Init PROVE StampInv
  OBVIOUS
<1>1. GenInv
  BY DEF Init, GenInv, NewClearState, WriterNew
<1>2. Leftover \in GoodJobs
  <2>1. Leftover \in Job
    BY DEF Leftover, Job, Unresolved
  <2>2. JobOK(Leftover)
    BY DEF Leftover, JobOK, Init, Unresolved
  <2>3. QED
    BY <2>1, <2>2 DEF GoodJobs
<1>3. stream \in Seq(GoodJobs \union {Gap})
  <2>1. <<Leftover>> \in Seq(GoodJobs \union {Gap}) /\ <<>> \in Seq(GoodJobs \union {Gap})
    BY <1>2, EmptySeq
  <2>2. stream \in {<<>>, <<Leftover>>}
    BY DEF Init
  <2>3. QED
    BY <2>1, <2>2, Zenon
<1>4. Carried(GoodJobs)
  BY <1>3, EmptySeq DEF Carried, Init, WriterNew, SpillIdle
<1>5. QED
  BY <1>1, <1>4, CountInit DEF StampInv

LEMMA StampStep ==
    ASSUME BaseInv, StampInv, [Next]_vars
    PROVE  StampInv'
<1>1. CountInv' /\ GenInv'
  BY CountStep, GenStep DEF StampInv
<1>2. PICK S : S = GoodJobs
  OBVIOUS
<1>3. Carried(S)'
  BY <1>2, CarryStep, NewJobGood DEF StampInv
<1>4. PICK T : T = GoodJobs'
  OBVIOUS
<1>5. S \subseteq T
  <2>1. ASSUME NEW j \in S PROVE j \in T
    <3>1. j \in Job /\ JobOK(j)
      BY <1>2 DEF GoodJobs
    <3>2. JobOK(j)'
      BY <3>1, JobStable DEF StampInv
    <3>3. QED
      BY <1>4, <3>1, <3>2 DEF GoodJobs
  <2>2. QED
    BY <2>1
<1>6. Carried(T)'
  BY <1>3, <1>5, CarriedGrows
<1>7. Carried(GoodJobs)'
  BY <1>4, <1>6 DEF Carried
<1>8. QED
  BY <1>1, <1>7 DEF StampInv

LEMMA StampInvariance == Spec => [](BaseInv /\ StampInv)
<1>1. BaseInv /\ StampInv /\ [Next]_vars => StampInv'
  BY StampStep
<1>2. QED
  BY <1>1, StampInit, BaseInvariance, PTL DEF Spec

(* What the write transaction accepts was captured at this generation. *)
LEMMA AcceptedIsCurrent ==
    ASSUME TypeInv, NEW j \in GoodJobs, Accepted(j)
    PROVE  j.at = generation
<1>1. /\ j.at \in Nat /\ j.gen \in Int /\ j.epoch \in Int /\ j.boot \in Nat /\ JobOK(j)
      /\ generation \in Nat
  BY DEF GoodJobs, Job, TypeInv
<1>2. QED
  BY <1>1 DEF JobOK, Accepted

(***************************************************************************)
(* StaleNeverStored: classify_generation and job_is_current, evaluated in  *)
(* the write transaction, accept a job only if no clear has committed      *)
(* since it was captured.  The stamp of a job, taken from a mirror that    *)
(* lags and an epoch that counts clears, is enough to tell (JobOK),        *)
(* wherever the job has been: in memory, handed off, held back, requeued,  *)
(* in the files, in a batch, or in the files of an earlier run.            *)
(***************************************************************************)
THEOREM StaleJobsNeverStored == Spec => []StaleNeverStored
<1>1. Init => StaleNeverStored
  BY DEF Init, StaleNeverStored
<1>2. BaseInv /\ StampInv /\ StaleNeverStored /\ [Next]_vars => StaleNeverStored'
  <2> SUFFICES ASSUME BaseInv, StampInv, StaleNeverStored, [Next]_vars PROVE StaleNeverStored'
    OBVIOUS
  <2>1. CASE Write
    <3> DEFINE job == Head(writer.batch)
               e   == [id |-> job.id, at |-> job.at, gen |-> generation]
    <3>1. job \in GoodJobs
      <4>1. writer.batch \in Seq(GoodJobs) /\ writer.batch # <<>>
        BY <2>1 DEF StampInv, Carried, Write
      <4>2. QED
        BY <4>1, HeadTailProperties
    <3>2. written' = written \/ (written' = Append(written, e) /\ Accepted(job))
      BY <2>1 DEF Write
    <3> HIDE DEF job
    <3>3. Accepted(job) => job.at = generation
      BY <3>1, AcceptedIsCurrent DEF BaseInv
    <3>4. CASE written' = written
      BY <3>4 DEF StaleNeverStored
    <3>5. CASE written' = Append(written, e) /\ Accepted(job)
      <4>1. e.at = e.gen
        BY <3>3, <3>5
      <4>2. written \in Seq([id : Nat, at : Nat, gen : Nat])
        BY DEF BaseInv, TypeInv
      <4> HIDE DEF e
      <4>3. ASSUME NEW i \in DOMAIN written' PROVE written'[i].at = written'[i].gen
        <5>1. i \in 1..(Len(written) + 1) /\ Len(written) \in Nat
          BY <3>5, <4>2
        <5>2. CASE i = Len(written) + 1
          BY <3>5, <4>1, <4>2, <5>2
        <5>3. CASE i \in 1..Len(written)
          BY <3>5, <4>2, <5>3 DEF StaleNeverStored
        <5>4. QED
          BY <5>1, <5>2, <5>3
      <4>4. QED
        BY <4>3 DEF StaleNeverStored
    <3>6. QED
      BY <3>2, <3>4, <3>5
  <2>2. CASE UNCHANGED written
    BY <2>2 DEF StaleNeverStored
  <2>3. QED
    BY <2>1, <2>2, SpillFrame DEF Next, vars, dbVars, Submit, ClearStart, ClearDropped, ClearStep,
       ClearBegin, ClearCommit, ClearFails, ClearRead, PurgeAfterClear, AbandonClear, ClearFinish,
       WriterStep, RefreshRead, RefreshObserve, RefreshBusy, Gather, ReadEnd, ReadGivesUp,
       WriteEnd, WriterPanics, Crash
<1>3. QED
  BY <1>1, <1>2, StampInvariance, PTL DEF Spec

-----------------------------------------------------------------------------
(* What clears throw away.                                                 *)

(* No transaction of this process will accept j any more. *)
Dead(j) ==
    IF j.gen >= 0 THEN j.gen < generation
    ELSE j.epoch # InFlight /\ j.boot = boot => j.epoch < clear_state.started

DeadJobs == {j \in Job : Dead(j)}

(* The records of s up to position p are in D. *)
AllUpTo(s, p, D) == \A i \in DOMAIN s : i <= p /\ s[i] # Gap => s[i] \in D

(* Clear c has raised the generation and will purge, or has asked for it. *)
Committed(c) == clear[c].pc \in {"committed", "purge"} \/ c \in marks.purges

(* The spill thread has yet to start a segment for c; until then it takes  *)
(* no job.                                                                 *)
Unrolled(c) == c \in marks.rolls \/ (spill.pc = "roll" /\ c \in spill.seqs)

(* What a purge may remove was captured before the clear committed. *)
DeadInv(c) ==
    Committed(c) =>
        /\ Unrolled(c) => /\ AllUpTo(stream, Len(stream), DeadJobs)
                          /\ spill.pc = "job" => spill.job \in DeadJobs
        /\ marks.boundaries[c] # None => AllUpTo(stream, marks.boundaries[c], DeadJobs)

PurgeInv ==
    /\ \A c \in marks.purges : clear[c].pc \in {"finish", "done"}
    /\ \A c \in Clears : DeadInv(c)
    /\ spill.pc = "purge" => AllUpTo(stream, spill.boundary, DeadJobs)

(* A generation that was read while no clear ran, and before any that has  *)
(* started since, is the current one.                                      *)
ReadInv ==
    writer.read # None /\ writer.read.epoch # None =>
        /\ writer.read.epoch <= clear_state.started
        /\ writer.read.epoch = clear_state.started
              => clear_state.started = clear_state.finished /\ writer.read.gen = generation

NotWronged == \A w \in wronged : w.held

KeptInv == ReadInv /\ PurgeInv /\ NotWronged

LEMMA DeadRejected ==
    ASSUME TypeInv, NEW j \in DeadJobs
    PROVE  ~Accepted(j)
<1>1. j.gen \in Int /\ j.epoch \in Int /\ Dead(j) /\ generation \in Nat /\ clear_state.started \in Nat
  BY DEF DeadJobs, Job, TypeInv
<1>2. QED
  BY <1>1 DEF Dead, Accepted

(* While a clear runs, a job without a generation is rejected for good. *)
LEMMA UnstampedDead ==
    ASSUME TypeInv, CountInv, NEW c \in Clears, clear[c].pc \notin {"idle", "done"},
           NEW j \in GoodJobs, j.gen < 0
    PROVE  j \in DeadJobs
<1>1. /\ j \in Job /\ j.gen \in Int /\ j.epoch \in Int /\ JobOK(j)
      /\ clear_state.started \in Nat /\ clear_state.finished \in Nat
  BY DEF GoodJobs, Job, TypeInv
<1>2. clear_state.started # clear_state.finished
  BY <1>1, RunningCounted
<1>3. Dead(j)
  BY <1>1, <1>2 DEF Dead, JobOK
<1>4. QED
  BY <1>1, <1>3 DEF DeadJobs

LEMMA DeadStable ==
    ASSUME BaseInv, [Next]_vars, ~Crash
    PROVE  DeadJobs \subseteq DeadJobs'
<1>0. /\ generation \in Nat /\ TypeInv
      /\ clear_state \in [mirror : Int, started : Nat, finished : Nat]
      /\ clear_state.started \in Nat
  BY DEF BaseInv, TypeInv
<1>1. /\ generation' \in Nat /\ generation' >= generation /\ boot' = boot
      /\ clear_state'.started \in Nat /\ clear_state'.started >= clear_state.started
  <2>1. generation' \in Nat /\ generation' >= generation
    BY GenGrows
  <2>2. boot' = boot
    BY Clocks DEF ClearStart, ClearCommit, ClearFinish
  <2>3. clear_state'.started \in {clear_state.started, clear_state.started + 1}
    <3>1. ASSUME NEW c \in Clears, ClearStart(c) \/ ClearCommit(c) \/ ClearFinish(c)
          PROVE  clear_state'.started \in {clear_state.started, clear_state.started + 1}
      BY <1>0, <3>1 DEF ClearStart, ClearCommit, ClearFinish
    <3>2. QED
      BY <3>1, Clocks
  <2>4. QED
    BY <1>0, <2>1, <2>2, <2>3
<1>2. ASSUME NEW j \in Job, Dead(j) PROVE Dead(j)'
  <2>1. j.gen \in Int /\ j.epoch \in Int
    BY DEF Job
  <2>2. QED
    BY <1>0, <1>1, <1>2, <2>1 DEF Dead
<1>3. QED
  BY <1>2 DEF DeadJobs

(* The commit of a clear is the end of every job captured before. *)
LEMMA CommitKills ==
    ASSUME BaseInv, CountInv, NEW c \in Clears, ClearCommit(c)
    PROVE  GoodJobs \subseteq DeadJobs'
<1>1. /\ UNCHANGED <<boot, clear_state>> /\ generation' = generation + 1
      /\ clear[c].pc \notin {"idle", "done"}
  BY DEF ClearCommit
<1>2. /\ TypeInv /\ generation \in Nat
  BY DEF BaseInv, TypeInv
<1>3. ASSUME NEW j \in GoodJobs PROVE j \in Job /\ Dead(j)'
  <2>1. /\ j \in Job /\ j.at \in Nat /\ j.gen \in Int /\ JobOK(j)
    BY DEF GoodJobs, Job
  <2>2. CASE j.gen < 0
    <3>1. Dead(j)
      BY <1>1, <1>2, <2>2, UnstampedDead DEF DeadJobs
    <3>2. QED
      BY <1>1, <2>1, <2>2, <3>1 DEF Dead
  <2>3. CASE j.gen >= 0
    <3>1. j.gen <= j.at /\ j.at <= generation
      BY <2>1, <2>3 DEF JobOK
    <3>2. j.gen < generation'
      BY <1>1, <1>2, <2>1, <3>1
    <3>3. QED
      BY <2>1, <2>3, <3>2 DEF Dead
  <2>4. QED
    BY <2>1, <2>2, <2>3
<1>4. QED
  BY <1>3 DEF DeadJobs

(* A step of the spill thread changes the stream behind what is committed, *)
(* and adds at most the job in hand.                                       *)
LEMMA StreamChanges ==
    ASSUME BaseInv, SpillStep
    PROVE  \A i \in DOMAIN stream' : stream'[i] # Gap =>
               \/ i \in DOMAIN stream /\ stream'[i] = stream[i]
               \/ SpillAppend /\ i = Len(stream) + 1 /\ stream'[i] = spill.job
<1>0. /\ stream \in Seq(Record) /\ Len(stream) \in Nat /\ order.committed \in Nat
      /\ order.committed <= Len(stream) /\ TypeInv
  BY DEF BaseInv, TypeInv, PositionInv, OrderStates
<1>1. CASE SpillAppend
  <2>1. stream' = Append(stream, spill.job) /\ spill.job \in Record
    BY <1>0, <1>1 DEF SpillAppend, TypeInv, Record
  <2>2. ASSUME NEW i \in DOMAIN stream'
        PROVE  \/ i \in DOMAIN stream /\ stream'[i] = stream[i]
               \/ i = Len(stream) + 1 /\ stream'[i] = spill.job
    BY <1>0, <2>1, <2>2, AppendProperties
  <2>3. QED
    BY <1>1, <2>2
<1>2. CASE UNCHANGED stream
  BY <1>2
<1>3. CASE stream' \in Torn
  BY <1>3, TornIs
<1>4. CASE SpillRoll
  <2>1. stream = SubSeq(stream, 1, Len(stream)) /\ Len(stream) \in order.committed..Len(stream)
    BY <1>0, SubSeqFull
  <2>2. Rolled(stream) \in Torn
    BY <2>1 DEF Torn
  <2>3. stream' \in Torn
    BY <1>4, <2>2 DEF SpillRoll
  <2>4. QED
    BY <1>3, <2>3
<1>5. QED
  BY <1>1, <1>2, <1>3, <1>4 DEF SpillStep, SpillRollTake, SpillPurgeTake, SpillPurge, SpillTake,
     SpillAppendFails, SpillFlush

(* Steps that leave the files and the spill thread alone. *)
LEMMA PurgeSame ==
    ASSUME BaseInv, PurgeInv, [Next]_vars, ~Crash, UNCHANGED <<stream, spill>>,
           \A c \in marks'.purges : clear'[c].pc \in {"finish", "done"},
           \A c \in Clears : Committed(c)' => Committed(c),
           marks'.rolls \subseteq marks.rolls,
           \A c \in Clears : marks'.boundaries[c] \in {None, marks.boundaries[c]}
    PROVE  PurgeInv'
<1>1. PICK E : E = DeadJobs' /\ DeadJobs \subseteq E
  BY DeadStable
<1>2. \A p : AllUpTo(stream, p, DeadJobs) => AllUpTo(stream, p, E)
  BY <1>1 DEF AllUpTo
<1>3. ASSUME NEW c \in Clears PROVE DeadInv(c)'
  <2>1. SUFFICES ASSUME Committed(c)'
                 PROVE  /\ Unrolled(c)' => /\ AllUpTo(stream, Len(stream), E)
                                           /\ spill.pc = "job" => spill.job \in E
                        /\ marks'.boundaries[c] # None => AllUpTo(stream, marks'.boundaries[c], E)
    BY <1>1 DEF DeadInv
  <2>2. Committed(c) /\ DeadInv(c)
    BY <2>1 DEF PurgeInv
  <2>3. Unrolled(c)' => Unrolled(c)
    BY DEF Unrolled
  <2>4. QED
    BY <1>1, <1>2, <2>2, <2>3 DEF DeadInv
<1>4. spill'.pc = "purge" => AllUpTo(stream', spill'.boundary, E)
  BY <1>2 DEF PurgeInv
<1>5. QED
  BY <1>1, <1>3, <1>4 DEF PurgeInv

LEMMA PurgeClear ==
    ASSUME BaseInv, StampInv, PurgeInv, [Next]_vars, NEW c \in Clears,
           ClearStart(c) \/ ClearDropped(c) \/ ClearStep(c)
    PROVE  PurgeInv'
<1>0. /\ clear \in [Clears -> ClearStates] /\ marks \in MarkStates /\ ~Crash
      /\ UNCHANGED <<stream, spill>>
  <2>1. clear \in [Clears -> ClearStates] /\ marks \in MarkStates /\ boot \in Nat
    BY DEF BaseInv, TypeInv
  <2>2. UNCHANGED <<stream, spill, boot>>
    BY DEF ClearStart, ClearDropped, ClearStep, ClearBegin, ClearCommit, ClearFails, ClearRead,
       PurgeAfterClear, AbandonClear, ClearFinish
  <2>3. QED
    BY <2>1, <2>2 DEF Crash
<1>1. \A d \in marks.purges : clear[d].pc \in {"finish", "done"}
  BY DEF PurgeInv
<1>2. CASE ClearCommit(c)
  <2>1. PICK E : E = DeadJobs' /\ GoodJobs \subseteq E /\ DeadJobs \subseteq E
    BY <1>0, <1>2, CommitKills, DeadStable DEF StampInv
  <2>2. /\ stream \in Seq(GoodJobs \union {Gap})
        /\ spill.pc = "job" => spill.job \in GoodJobs
    BY DEF StampInv, Carried
  <2>3. \A p : AllUpTo(stream, p, E)
    BY <2>1, <2>2 DEF AllUpTo
  <2>4. \A d \in Clears : DeadInv(d)'
    BY <1>0, <2>1, <2>2, <2>3 DEF DeadInv
  <2>5. PICK pc \in {"committed", "lost"} : clear' = [clear EXCEPT ![c].pc = pc]
    BY <1>2 DEF ClearCommit, To
  <2>6. \A d \in marks'.purges : clear'[d].pc \in {"finish", "done"}
    <3>1. marks' = marks /\ clear[c].pc \notin {"finish", "done"}
      BY <1>2 DEF ClearCommit
    <3>2. QED
      BY <1>0, <1>1, <2>5, <3>1 DEF MarkStates
  <2>7. QED
    BY <1>0, <2>1, <2>3, <2>4, <2>6 DEF PurgeInv
<1>3. CASE ClearStart(c) \/ ClearBegin(c) \/ ClearFails(c) \/ ClearDropped(c) \/ ClearFinish(c)
  <2>1. PICK pc \in {"begin", "run", "failed", "lost", "detached", "done"} :
            clear' = [clear EXCEPT ![c].pc = pc]
    BY <1>3 DEF ClearStart, ClearBegin, ClearFails, ClearDropped, ClearFinish, To
  <2>2. /\ marks'.purges = marks.purges
        /\ marks'.boundaries = marks.boundaries
    BY <1>0, <1>3 DEF ClearStart, ClearBegin, ClearFails, ClearDropped, ClearFinish, MarkStates
  <2>3. c \in marks.purges => pc = "done"
    <3>1. CASE ClearFinish(c)
      <4>1. clear' = [clear EXCEPT ![c].pc = "done"]
        BY <3>1 DEF ClearFinish, To
      <4>2. clear'[c].pc = "done" /\ clear'[c].pc = pc
        BY <1>0, <2>1, <4>1 DEF ClearStates
      <4>3. QED
        BY <4>2
    <3>2. CASE ~ClearFinish(c)
      <4>1. clear[c].pc \notin {"finish", "done"}
        BY <1>3, <3>2 DEF ClearStart, ClearBegin, ClearFails, ClearDropped
      <4>2. QED
        BY <1>1, <4>1
    <3>3. QED
      BY <3>1, <3>2
  <2>4. \A d \in marks'.purges : clear'[d].pc \in {"finish", "done"}
    BY <1>0, <1>1, <2>1, <2>2, <2>3 DEF MarkStates, ClearStates
  <2>5. \A d \in Clears : Committed(d)' => Committed(d)
    BY <1>0, <2>1, <2>2 DEF Committed, ClearStates
  <2>6. CASE ~ClearBegin(c)
    <3>1. marks' = marks
      BY <1>3, <2>6 DEF ClearStart, ClearFails, ClearDropped, ClearFinish
    <3>2. QED
      BY <1>0, <2>4, <2>5, <3>1, PurgeSame
  <2>7. CASE ClearBegin(c)
    <3>1. clear' = [clear EXCEPT ![c].pc = "run"] /\ clear[c].pc = "begin"
          /\ marks' = [marks EXCEPT !.thresholds[c] = clear_state.mirror, !.rolls = @ \union {c}]
      BY <2>7 DEF ClearBegin, To
    <3>2. clear'[c].pc = "run" /\ c \notin marks'.purges
      BY <1>0, <1>1, <2>2, <3>1 DEF ClearStates
    <3>3. ~Committed(c)'
      BY <3>2 DEF Committed
    <3>4. PICK E : E = DeadJobs' /\ DeadJobs \subseteq E
      BY <1>0, DeadStable
    <3>5. \A p : AllUpTo(stream, p, DeadJobs) => AllUpTo(stream, p, E)
      BY <3>4 DEF AllUpTo
    <3>6. ASSUME NEW d \in Clears PROVE DeadInv(d)'
      <4>1. CASE d = c
        BY <3>3, <4>1 DEF DeadInv
      <4>2. CASE d # c
        <5>1. Unrolled(d)' => Unrolled(d)
          BY <1>0, <3>1, <4>2 DEF Unrolled, MarkStates
        <5>2. SUFFICES ASSUME Committed(d)'
                 PROVE  /\ Unrolled(d)' => /\ AllUpTo(stream, Len(stream), E)
                                           /\ spill.pc = "job" => spill.job \in E
                        /\ marks'.boundaries[d] # None => AllUpTo(stream, marks'.boundaries[d], E)
          BY <1>0, <3>4 DEF DeadInv
        <5>3. Committed(d) /\ DeadInv(d)
          BY <2>5, <5>2 DEF PurgeInv
        <5>4. QED
          BY <2>2, <3>4, <3>5, <5>1, <5>3 DEF DeadInv
      <4>3. QED
        BY <4>1, <4>2
    <3>7. spill'.pc = "purge" => AllUpTo(stream', spill'.boundary, E)
      BY <1>0, <3>5 DEF PurgeInv
    <3>8. QED
      BY <2>4, <3>4, <3>6, <3>7 DEF PurgeInv
  <2>8. QED
    BY <2>6, <2>7
<1>4. CASE ClearRead(c)
  <2>1. PICK g : clear' = [clear EXCEPT ![c] = [pc |-> "purge", gen |-> g]]
    BY <1>4 DEF ClearRead
  <2>2. marks' = marks /\ clear[c].pc = "committed"
    BY <1>4 DEF ClearRead
  <2>3. \A d \in Clears : Committed(d)' => Committed(d)
    BY <1>0, <2>1, <2>2 DEF Committed
  <2>4. \A d \in marks'.purges : clear'[d].pc \in {"finish", "done"}
    BY <1>0, <1>1, <2>1, <2>2 DEF MarkStates
  <2>5. QED
    BY <1>0, <2>2, <2>3, <2>4, PurgeSame
<1>5. CASE PurgeAfterClear(c)
  <2>1. /\ marks' = [marks EXCEPT !.thresholds = Cleared(c), !.rolls = @ \ {c},
                                  !.purges = @ \union {c}, !.purge_seq = @ + 1]
        /\ clear' = [clear EXCEPT ![c] = [pc |-> "finish", gen |-> None]]
        /\ clear[c].pc = "purge"
    BY <1>5, PurgeIs DEF PurgeAfterClear
  <2>2. marks'.purges = marks.purges \union {c} /\ marks'.rolls \subseteq marks.rolls
        /\ marks'.boundaries = marks.boundaries
    BY <1>0, <2>1 DEF MarkStates
  <2>3. \A d \in Clears : Committed(d)' => Committed(d)
    BY <1>0, <2>1, <2>2 DEF Committed
  <2>4. \A d \in marks'.purges : clear'[d].pc \in {"finish", "done"}
    BY <1>0, <1>1, <2>1, <2>2 DEF MarkStates
  <2>5. QED
    BY <1>0, <2>2, <2>3, <2>4, PurgeSame
<1>6. CASE AbandonClear(c)
  <2>1. /\ marks' = [marks EXCEPT !.thresholds = Cleared(c), !.rolls = @ \ {c}, !.boundaries[c] = None]
        /\ clear' = [clear EXCEPT ![c] = [pc |-> "finish", gen |-> None]]
    BY <1>6 DEF AbandonClear, Cleared
  <2>2. marks'.purges = marks.purges /\ marks'.rolls \subseteq marks.rolls
        /\ \A d \in Clears : marks'.boundaries[d] \in {None, marks.boundaries[d]}
    BY <1>0, <2>1 DEF MarkStates
  <2>3. \A d \in Clears : Committed(d)' => Committed(d)
    BY <1>0, <2>1, <2>2 DEF Committed
  <2>4. \A d \in marks'.purges : clear'[d].pc \in {"finish", "done"}
    BY <1>0, <1>1, <2>1, <2>2 DEF MarkStates
  <2>5. QED
    BY <1>0, <2>2, <2>3, <2>4, PurgeSame
<1>7. QED
  BY <1>2, <1>3, <1>4, <1>5, <1>6 DEF ClearStep

LEMMA PurgeSpill ==
    ASSUME BaseInv, PurgeInv, SpillStep
    PROVE  PurgeInv'
<1>0. /\ marks \in MarkStates /\ spill \in SpillStates /\ ~Crash /\ UNCHANGED clear
      /\ stream \in Seq(Record) /\ Len(stream) \in Nat /\ DOMAIN stream = 1..Len(stream)
      /\ order.committed \in Nat /\ order.committed <= Len(stream)
      /\ spill.boundary \in Nat /\ spill.boundary <= order.committed
      /\ \A c \in Clears : /\ marks.boundaries[c] \in Nat \union {None}
                           /\ marks.boundaries[c] # None => marks.boundaries[c] <= order.committed
  <2>1. /\ marks \in MarkStates /\ spill \in SpillStates /\ boot \in Nat
        /\ stream \in Seq(Record) /\ Len(stream) \in Nat /\ DOMAIN stream = 1..Len(stream)
        /\ order.committed \in Nat
    BY DEF BaseInv, TypeInv, OrderStates
  <2>2. UNCHANGED <<clear, boot>>
    BY SpillFrame
  <2>3. ~Crash
    BY <2>1, <2>2 DEF Crash
  <2>4. QED
    BY <2>1, <2>2, <2>3 DEF BaseInv, PositionInv, MarkStates, SpillStates
<1>1. PICK E : E = DeadJobs' /\ DeadJobs \subseteq E
  BY <1>0, DeadStable DEF Next
<1>2. stream' \in Seq(Record) /\ Len(stream') \in Nat /\ DOMAIN stream' = 1..Len(stream')
  <2>1. stream' \in Seq(Record)
    BY BaseSpill DEF BaseInv, TypeInv
  <2>2. QED
    BY <2>1
<1>3. ASSUME NEW p \in Nat, p <= Len(stream), AllUpTo(stream, p, DeadJobs)
      PROVE  AllUpTo(stream', p, E)
  <2>1. ASSUME NEW i \in DOMAIN stream', i <= p, stream'[i] # Gap PROVE stream'[i] \in E
    <3>1. i \in DOMAIN stream /\ stream'[i] = stream[i]
      BY <1>0, <1>2, <1>3, <2>1, StreamChanges
    <3>2. QED
      BY <1>1, <1>3, <2>1, <3>1 DEF AllUpTo
  <2>2. QED
    BY <2>1 DEF AllUpTo
<1>4. ASSUME AllUpTo(stream, Len(stream), DeadJobs), spill.pc = "job" => spill.job \in DeadJobs
      PROVE  AllUpTo(stream', Len(stream'), E)
  <2>1. ASSUME NEW i \in DOMAIN stream', stream'[i] # Gap PROVE stream'[i] \in E
    <3>1. CASE i \in DOMAIN stream /\ stream'[i] = stream[i]
      BY <1>0, <1>1, <1>4, <2>1, <3>1 DEF AllUpTo
    <3>2. CASE SpillAppend /\ stream'[i] = spill.job
      BY <1>1, <1>4, <3>2 DEF SpillAppend
    <3>3. QED
      BY <2>1, <3>1, <3>2, StreamChanges
  <2>2. QED
    BY <2>1 DEF AllUpTo
<1>5. ASSUME NEW c \in Clears, marks.boundaries[c] # None, Committed(c)
      PROVE  AllUpTo(stream', marks.boundaries[c], E)
  <2>1. AllUpTo(stream, marks.boundaries[c], DeadJobs)
    BY <1>5 DEF PurgeInv, DeadInv
  <2>2. marks.boundaries[c] \in Nat /\ marks.boundaries[c] <= Len(stream)
    <3>1. PICK b : b = marks.boundaries[c]
      OBVIOUS
    <3>2. b \in Nat /\ b <= order.committed
      BY <1>0, <1>5, <3>1
    <3>3. b <= Len(stream)
      BY <1>0, <3>2
    <3>4. QED
      BY <3>1, <3>2, <3>3
  <2>3. QED
    BY <1>3, <2>1, <2>2
<1>6. ASSUME NEW c \in Clears, Committed(c), Unrolled(c)
      PROVE  AllUpTo(stream', Len(stream'), E) /\ (spill.pc = "job" => spill.job \in E)
  <2>1. DeadInv(c)
    BY DEF PurgeInv
  <2>2. AllUpTo(stream, Len(stream), DeadJobs) /\ (spill.pc = "job" => spill.job \in DeadJobs)
    BY <1>6, <2>1 DEF DeadInv
  <2>3. QED
    BY <1>1, <1>4, <2>2
<1>7. SUFFICES /\ marks'.purges \subseteq marks.purges
               /\ \A c \in Clears : Committed(c)' =>
                     /\ Unrolled(c)' => /\ AllUpTo(stream', Len(stream'), E)
                                        /\ spill'.pc = "job" => spill'.job \in E
                     /\ marks'.boundaries[c] # None => AllUpTo(stream', marks'.boundaries[c], E)
               /\ spill'.pc = "purge" => AllUpTo(stream', spill'.boundary, E)
  <2>1. ASSUME marks'.purges \subseteq marks.purges
        PROVE  \A c \in marks'.purges : clear'[c].pc \in {"finish", "done"}
    BY <1>0, <2>1 DEF PurgeInv
  <2>2. QED
    BY <1>1, <2>1 DEF PurgeInv, DeadInv
<1>8. ASSUME NEW c \in Clears, marks'.purges \subseteq marks.purges, Committed(c)' PROVE Committed(c)
  BY <1>0, <1>8 DEF Committed
<1>9. CASE SpillRollTake
  <2>1. /\ spill' = [SpillIdle EXCEPT !.pc = "roll", !.seqs = marks.rolls]
        /\ marks' = [marks EXCEPT !.rolls = {}]
    BY <1>9 DEF SpillRollTake
  <2>2. /\ spill'.pc = "roll" /\ spill'.seqs = marks.rolls
        /\ marks'.purges = marks.purges /\ marks'.rolls = {} /\ marks'.boundaries = marks.boundaries
    BY <1>0, <2>1 DEF SpillIdle, MarkStates
  <2>3. \A c \in Clears : Unrolled(c)' => Unrolled(c)
    BY <2>2 DEF Unrolled
  <2>4. QED
    BY <1>5, <1>6, <1>8, <2>2, <2>3
<1>10. CASE SpillRoll
  <2>1. /\ spill' = SpillIdle /\ spill.pc = "roll"
        /\ marks' = [marks EXCEPT !.boundaries =
                        [c \in Clears |-> IF c \in spill.seqs THEN Len(stream') ELSE @[c]]]
    BY <1>10 DEF SpillRoll
  <2>2. /\ spill'.pc = "step" /\ marks'.purges = marks.purges /\ marks'.rolls = marks.rolls
        /\ \A c \in Clears : marks'.boundaries[c] = IF c \in spill.seqs THEN Len(stream')
                                                    ELSE marks.boundaries[c]
    BY <1>0, <2>1 DEF SpillIdle, MarkStates
  <2>3. \A c \in Clears : /\ Unrolled(c)' => Unrolled(c)
                          /\ c \in spill.seqs => Unrolled(c)
    BY <2>1, <2>2 DEF Unrolled
  <2>4. ASSUME NEW c \in Clears, Committed(c)', marks'.boundaries[c] # None
        PROVE  AllUpTo(stream', marks'.boundaries[c], E)
    <3>1. Committed(c)
      BY <1>8, <2>2, <2>4
    <3>2. CASE c \in spill.seqs
      BY <1>6, <2>2, <2>3, <3>1, <3>2
    <3>3. CASE c \notin spill.seqs
      BY <1>5, <2>2, <2>4, <3>1, <3>3
    <3>4. QED
      BY <3>2, <3>3
  <2>5. QED
    BY <1>6, <1>8, <2>2, <2>3, <2>4
<1>11. CASE SpillPurgeTake
  <2> DEFINE recorded == {marks.boundaries[c] : c \in marks.purges} \ {None}
  <2>1. /\ marks' = [marks EXCEPT !.purges = {},
                                  !.boundaries = [c \in Clears |-> IF c \in marks.purges
                                                                   THEN None ELSE @[c]]]
        /\ marks.rolls = {} /\ UNCHANGED stream
        /\ spill' = IF recorded = {} THEN SpillIdle
                    ELSE [SpillIdle EXCEPT !.pc = "purge", !.boundary = Max(recorded)]
    BY <1>11 DEF SpillPurgeTake
  <2>2. /\ marks'.purges = {} /\ marks'.rolls = {}
        /\ \A c \in Clears : marks'.boundaries[c] \in {None, marks.boundaries[c]}
    BY <1>0, <2>1 DEF MarkStates
  <2>3. spill'.pc # "roll" /\ spill'.pc # "job"
    BY <2>1 DEF SpillIdle
  <2>4. \A c \in Clears : ~Unrolled(c)'
    BY <2>2, <2>3 DEF Unrolled
  <2>5. ASSUME spill'.pc = "purge" PROVE AllUpTo(stream', spill'.boundary, E)
    <3>1. recorded # {} /\ spill'.boundary = Max(recorded)
      BY <2>1, <2>5 DEF SpillIdle
    <3>2. recorded \subseteq Nat /\ \A b \in recorded : b <= order.committed
      BY <1>0 DEF MarkStates
    <3>3. Max(recorded) \in recorded
      BY <1>0, <3>1, <3>2, MaxProperty
    <3>4. PICK c \in marks.purges : marks.boundaries[c] = Max(recorded) /\ marks.boundaries[c] # None
      BY <3>3
    <3>5. c \in Clears /\ Committed(c)
      BY <1>0, <3>4 DEF MarkStates, Committed
    <3>6. QED
      BY <1>5, <3>1, <3>4, <3>5
  <2>6. \A c \in Clears : Committed(c)' /\ marks'.boundaries[c] # None
            => AllUpTo(stream', marks'.boundaries[c], E)
    BY <1>5, <1>8, <2>2
  <2>7. QED
    BY <2>2, <2>4, <2>5, <2>6
<1>12. CASE SpillPurge
  <2>1. spill' = SpillIdle /\ marks' = [marks EXCEPT !.read_start = Max({@, spill.boundary})]
    BY <1>12 DEF SpillPurge
  <2>2. /\ spill'.pc = "step" /\ marks'.purges = marks.purges /\ marks'.rolls = marks.rolls
        /\ marks'.boundaries = marks.boundaries
    BY <1>0, <2>1 DEF SpillIdle, MarkStates
  <2>3. \A c \in Clears : Unrolled(c)' => Unrolled(c)
    BY <2>2 DEF Unrolled
  <2>4. QED
    BY <1>5, <1>6, <1>8, <2>2, <2>3
<1>13. CASE SpillTake
  <2>1. marks' = marks /\ marks.rolls = {} /\ spill'.pc \in {"step", "job"}
    BY <1>13 DEF SpillTake, SpillIdle
  <2>2. \A c \in Clears : ~Unrolled(c)'
    BY <2>1 DEF Unrolled
  <2>3. QED
    BY <1>5, <1>8, <2>1, <2>2
<1>14. CASE SpillAppend \/ SpillAppendFails
  <2>1. marks' = marks /\ spill'.pc = "step"
    BY <1>14 DEF SpillAppend, SpillAppendFails, SpillIdle
  <2>2. \A c \in Clears : Unrolled(c)' => Unrolled(c)
    BY <2>1 DEF Unrolled
  <2>3. QED
    BY <1>5, <1>6, <1>8, <2>1, <2>2
<1>15. CASE SpillFlush
  <2>1. marks' = marks /\ spill' = spill /\ spill.pc = "step"
    BY <1>15 DEF SpillFlush
  <2>2. \A c \in Clears : Unrolled(c)' => Unrolled(c)
    BY <2>1 DEF Unrolled
  <2>3. QED
    BY <1>5, <1>6, <1>8, <2>1, <2>2
<1>16. QED
  BY <1>9, <1>10, <1>11, <1>12, <1>13, <1>14, <1>15 DEF SpillStep

LEMMA PurgeStep ==
    ASSUME BaseInv, StampInv, PurgeInv, [Next]_vars
    PROVE  PurgeInv'
<1>1. CASE SpillStep
  BY <1>1, PurgeSpill
<1>2. ASSUME NEW c \in Clears, ClearStart(c) \/ ClearDropped(c) \/ ClearStep(c) PROVE PurgeInv'
  BY <1>2, PurgeClear
<1>3. CASE Crash
  <2>1. /\ marks'.purges = {} /\ marks'.rolls = {} /\ spill'.pc = "step"
        /\ \A c \in Clears : clear'[c].pc \in {"idle", "done"}
    BY <1>3, CrashIs, SpillIdleType
  <2>2. \A c \in Clears : ~Committed(c)'
    BY <2>1 DEF Committed
  <2>3. QED
    BY <2>1, <2>2 DEF PurgeInv, DeadInv
<1>4. CASE Submit \/ SpillUnblock \/ WriterStep \/ UNCHANGED vars
  <2>1. UNCHANGED <<stream, spill, marks, clear, boot>>
    BY <1>4, WriterFrame DEF Submit, SpillUnblock, vars
  <2>2. ~Crash
    BY <2>1 DEF Crash, BaseInv, TypeInv
  <2>3. /\ \A c \in marks'.purges : clear'[c].pc \in {"finish", "done"}
        /\ \A c \in Clears : Committed(c)' => Committed(c)
    BY <2>1 DEF PurgeInv, Committed
  <2>4. QED
    BY <2>1, <2>2, <2>3, PurgeSame
<1>5. QED
  BY <1>1, <1>2, <1>3, <1>4 DEF Next

LEMMA ReadStep ==
    ASSUME BaseInv, StampInv, ReadInv, [Next]_vars
    PROVE  ReadInv'
<1>0. /\ TypeInv /\ generation \in Nat /\ writer \in WriterStates
      /\ clear_state \in [mirror : Int, started : Nat, finished : Nat]
      /\ clear_state.started \in Nat /\ clear_state.finished \in Nat
      /\ clear \in [Clears -> ClearStates] /\ CountInv
  BY DEF BaseInv, TypeInv, StampInv
<1>1. CASE writer'.read = None
  BY <1>1 DEF ReadInv
<1>2. CASE RefreshRead
  <2>1. writer' = [writer EXCEPT !.read = [epoch |-> ReadEpoch, gen |-> generation]]
        /\ UNCHANGED <<generation, clear_state>>
    BY <1>2 DEF RefreshRead, dbVars
  <2>2. writer'.read.epoch = ReadEpoch /\ writer'.read.gen = generation
    BY <1>0, <2>1 DEF WriterStates
  <2>3. ReadEpoch # None => ReadEpoch = clear_state.started /\ clear_state.started = clear_state.finished
    BY DEF ReadEpoch
  <2>4. QED
    BY <1>0, <2>1, <2>2, <2>3 DEF ReadInv
<1>3. CASE writer'.read = writer.read /\ ~Crash
  <2>1. SUFFICES ASSUME writer.read # None, writer.read.epoch # None
                 PROVE  /\ writer.read.epoch <= clear_state'.started
                        /\ writer.read.epoch = clear_state'.started
                              => /\ clear_state'.started = clear_state'.finished
                                 /\ writer.read.gen = generation'
    BY <1>3 DEF ReadInv
  <2>2. PICK e, g : e = writer.read.epoch /\ g = writer.read.gen
    OBVIOUS
  <2>3. /\ e \in Nat
        /\ e <= clear_state.started
        /\ e = clear_state.started => clear_state.started = clear_state.finished /\ g = generation
    BY <1>0, <2>1, <2>2 DEF ReadInv, WriterStates
  <2>4. CASE /\ UNCHANGED generation
             /\ clear_state'.started = clear_state.started
             /\ clear_state'.finished = clear_state.finished
    BY <2>2, <2>3, <2>4
  <2>5. ASSUME NEW c \in Clears, ClearStart(c)
        PROVE  e < clear_state'.started
    <3>1. clear_state'.started = clear_state.started + 1
      BY <1>0, <2>5 DEF ClearStart
    <3>2. QED
      BY <1>0, <2>3, <3>1
  <2>6. ASSUME NEW c \in Clears, ClearCommit(c) \/ ClearFinish(c)
        PROVE  e < clear_state'.started
    <3>1. clear_state'.started = clear_state.started /\ clear[c].pc \notin {"idle", "done"}
      BY <1>0, <2>6 DEF ClearCommit, ClearFinish
    <3>2. clear_state.started # clear_state.finished
      BY <1>0, <3>1, RunningCounted
    <3>3. QED
      BY <1>0, <2>3, <3>1, <3>2
  <2>7. CASE e < clear_state'.started /\ clear_state'.started \in Nat
    BY <2>2, <2>3, <2>7
  <2>8. clear_state'.started \in Nat
    BY BaseStep DEF BaseInv, TypeInv
  <2>9. QED
    BY <1>3, <2>4, <2>5, <2>6, <2>7, <2>8, Clocks
<1>4. writer'.read = None \/ RefreshRead \/ (writer'.read = writer.read /\ ~Crash)
  BY ReadChanges
<1>5. QED
  BY <1>1, <1>2, <1>3, <1>4

(* What PurgeAfterClear drops from the queues, no transaction accepts: the *)
(* mirror and the generation read after the commit are not ahead of the    *)
(* database.                                                               *)
LEMMA DroppedDead ==
    ASSUME BaseInv, StampInv, NEW c \in Clears, clear[c].pc = "purge", NEW q \in Seq(GoodJobs)
    PROVE  Dropped(c, q) \in Seq(DeadJobs)
<1>0. /\ TypeInv /\ CountInv /\ GenInv /\ generation \in Nat
      /\ clear_state.mirror \in Int /\ clear[c] \in ClearStates
  BY DEF BaseInv, TypeInv, StampInv
<1>1. PICK t \in Int : t = PurgeThreshold(c) /\ t <= generation
  <2>1. clear_state.mirror <= generation
    BY <1>0 DEF GenInv
  <2>2. CASE clear[c].gen = None
    BY <1>0, <2>1, <2>2 DEF PurgeThreshold
  <2>3. CASE clear[c].gen # None
    BY <1>0, <2>3 DEF PurgeThreshold, GenInv, ClearStates
  <2>4. QED
    BY <2>2, <2>3
<1>2. ASSUME NEW i \in DOMAIN q, i \in DOMAIN q \ Kept(c, q) PROVE q[i] \in DeadJobs
  <2>1. PICK j \in GoodJobs : j = q[i]
    BY <1>2
  <2>2. j \in Job /\ j.gen \in Int
    BY DEF GoodJobs, Job
  <2>3. j.gen < 0 \/ j.gen < t
    BY <1>1, <1>2, <2>1, <2>2 DEF Kept
  <2>4. CASE j.gen < 0
    BY <1>0, <2>1, <2>4, UnstampedDead
  <2>5. CASE j.gen >= 0
    <3>1. Dead(j)
      BY <1>0, <1>1, <2>2, <2>3, <2>5 DEF Dead
    <3>2. QED
      BY <2>1, <2>2, <3>1 DEF DeadJobs
  <2>6. QED
    BY <2>2, <2>4, <2>5
<1>3. QED
  BY <1>2, PickProperties DEF Dropped

LEMMA ThrownDead ==
    ASSUME TypeInv, NEW q \in Seq(DeadJobs)
    PROVE  Thrown(q, FALSE) = {}
<1>1. \A i \in DOMAIN q : ~Accepted(q[i])
  BY DeadRejected
<1>2. QED
  BY <1>1 DEF Thrown

LEMMA WrongedStep ==
    ASSUME BaseInv, StampInv, PurgeInv, NotWronged, [Next]_vars
    PROVE  NotWronged'
<1>0. TypeInv
  BY DEF BaseInv
<1>1. CASE UNCHANGED wronged
  BY <1>1 DEF NotWronged
<1>2. ASSUME NEW c \in Clears, PurgeAfterClear(c) PROVE NotWronged'
  <2>1. clear[c].pc = "purge" /\ memory \in Seq(GoodJobs) /\ handoff \in Seq(GoodJobs)
    BY <1>2 DEF PurgeAfterClear, StampInv, Carried
  <2>2. Thrown(Dropped(c, memory), FALSE) = {} /\ Thrown(Dropped(c, handoff), FALSE) = {}
    BY <1>0, <2>1, DroppedDead, ThrownDead
  <2>3. \A w \in Thrown(Gone(c), TRUE) : w.held
    BY DEF Thrown
  <2>4. wronged' = wronged \union Thrown(Gone(c), TRUE)
    BY <1>2, <2>2, PurgeIs
  <2>5. QED
    BY <2>3, <2>4 DEF NotWronged
<1>3. CASE SpillPurge
  <2>1. /\ stream \in Seq(Record) /\ Len(stream) \in Nat
        /\ order.consumed \in Nat /\ order.committed \in Nat /\ order.committed <= Len(stream)
        /\ spill.boundary \in Nat /\ spill.boundary <= order.committed
        /\ AllUpTo(stream, spill.boundary, DeadJobs)
    BY <1>3 DEF BaseInv, TypeInv, PositionInv, OrderStates, SpillStates, PurgeInv, SpillPurge
  <2> DEFINE p == order.consumed
             q == spill.boundary
             s == SubSeq(stream, p + 1, q)
  <2>2. p \in Nat /\ q \in Nat /\ q <= Len(stream) /\ AllUpTo(stream, q, DeadJobs)
    BY <2>1
  <2>3. wronged' = wronged \union Thrown(Records(p, q), FALSE)
    BY <1>3 DEF SpillPurge
  <2> HIDE DEF p, q
  <2>4. s \in Seq(Record)
    BY <2>1, <2>2, RecordsType
  <2>5. ASSUME NEW i \in DOMAIN s, s[i] # Gap PROVE s[i] \in DeadJobs
    <3>1. i + p \in DOMAIN stream /\ i + p <= q /\ s[i] = stream[i + p]
      BY <2>1, <2>2, <2>5, SubSeqProperties
    <3>2. QED
      BY <2>2, <2>5, <3>1 DEF AllUpTo
  <2>6. Records(p, q) = Pick(s, {i \in DOMAIN s : s[i] # Gap})
    BY DEF Records
  <2> HIDE DEF s
  <2>7. Records(p, q) \in Seq(DeadJobs)
    BY <2>4, <2>5, <2>6, PickProperties
  <2>8. wronged' = wronged
    BY <1>0, <2>3, <2>7, ThrownDead
  <2>9. QED
    BY <2>8 DEF NotWronged
<1>4. CASE SpillStep \/ SpillUnblock
  BY <1>1, <1>3, <1>4 DEF SpillStep, SpillUnblock, SpillRollTake, SpillRoll, SpillPurgeTake, SpillTake,
     SpillAppend, SpillAppendFails, SpillFlush, histVars
<1>5. ASSUME NEW c \in Clears, ClearStart(c) \/ ClearDropped(c) \/ ClearStep(c) PROVE NotWronged'
  BY <1>1, <1>2, <1>5 DEF ClearStart, ClearDropped, ClearStep, ClearBegin, ClearCommit, ClearFails,
     ClearRead, AbandonClear, ClearFinish, histVars
<1>6. CASE Submit \/ WriterStep \/ Crash \/ UNCHANGED vars
  BY <1>1, <1>6, WriterFrame DEF Submit, Crash, vars, histVars
<1>7. QED
  BY <1>4, <1>5, <1>6 DEF Next

(* observe_generation in the three places it is called from. *)
LEMMA ObservedGrows ==
    ASSUME TypeInv, NEW g \in Int, NEW e,
           g >= clear_state.mirror \/ e = None \/ e # ReadEpoch,
           clear_state' = [clear_state EXCEPT !.mirror = Observed(g, e)]
    PROVE  clear_state'.mirror >= clear_state.mirror
<1>1. clear_state \in [mirror : Int, started : Nat, finished : Nat] /\ clear_state.mirror \in Int
  BY DEF TypeInv
<1>2. clear_state'.mirror = Observed(g, e)
  BY <1>1
<1>3. QED
  BY <1>1, <1>2 DEF Observed

LEMMA MirrorGrows ==
    ASSUME BaseInv, StampInv, ReadInv, [Next]_vars, boot' = boot
    PROVE  clear_state'.mirror >= clear_state.mirror
<1>0. /\ TypeInv /\ GenInv /\ generation \in Nat /\ boot \in Nat /\ writer \in WriterStates
      /\ clear_state \in [mirror : Int, started : Nat, finished : Nat]
      /\ clear_state.mirror \in Int /\ clear_state.mirror <= generation
      /\ clear \in [Clears -> ClearStates]
  BY DEF BaseInv, TypeInv, StampInv, GenInv
<1>1. CASE clear_state'.mirror = clear_state.mirror
  BY <1>0, <1>1
<1>2. CASE RefreshObserve
  <2>1. PICK e, g : e = writer.read.epoch /\ g = writer.read.gen
    OBVIOUS
  <2>2. writer.read # None /\ clear_state' = [clear_state EXCEPT !.mirror = Observed(g, e)]
    BY <1>2, <2>1 DEF RefreshObserve
  <2>3. g \in Int /\ e \in Nat \union {None}
    BY <1>0, <2>1, <2>2 DEF WriterStates
  <2>4. CASE e = None \/ e # ReadEpoch
    BY <1>0, <2>2, <2>3, <2>4, ObservedGrows
  <2>5. CASE e # None /\ e = ReadEpoch
    <3>1. e = clear_state.started
      BY <2>5 DEF ReadEpoch
    <3>2. g = generation
      BY <2>1, <2>2, <2>5, <3>1 DEF ReadInv
    <3>3. QED
      BY <1>0, <2>2, <3>2, ObservedGrows
  <2>6. QED
    BY <2>4, <2>5
<1>3. CASE RefreshBusy \/ Write
  BY <1>0, <1>3, ObservedGrows DEF RefreshBusy, Write
<1>4. ASSUME NEW c \in Clears, PurgeAfterClear(c) PROVE clear_state'.mirror >= clear_state.mirror
  <2>1. clear[c].gen \in Nat \union {None}
    BY <1>0 DEF ClearStates
  <2>2. CASE clear[c].gen = None
    BY <1>0, <1>1, <1>4, <2>2, PurgeIs
  <2>3. CASE clear[c].gen # None
    <3>1. clear[c].gen \in Int
      BY <2>1, <2>3
    <3>2. clear_state' = [clear_state EXCEPT !.mirror = Observed(clear[c].gen, None)]
      BY <1>4, <2>3, PurgeIs
    <3>3. QED
      BY <1>0, <3>1, <3>2, ObservedGrows
  <2>4. QED
    BY <2>2, <2>3
<1>5. ASSUME NEW c \in Clears, ClearStart(c) \/ ClearFinish(c)
      PROVE  clear_state'.mirror = clear_state.mirror
  BY <1>0, <1>5 DEF ClearStart, ClearFinish
<1>6. ASSUME NEW c \in Clears, ClearStart(c) \/ ClearDropped(c) \/ ClearStep(c)
      PROVE  clear_state'.mirror >= clear_state.mirror
  BY <1>1, <1>4, <1>5, <1>6 DEF ClearDropped, ClearStep, ClearBegin, ClearCommit, ClearFails,
     ClearRead, AbandonClear
<1>7. CASE WriterStep
  BY <1>1, <1>2, <1>3, <1>7 DEF WriterStep, RefreshRead, Gather, ReadEnd, ReadGivesUp, WriteEnd,
     WriterPanics
<1>8. CASE Submit \/ SpillStep \/ SpillUnblock \/ UNCHANGED vars
  BY <1>1, <1>8, SpillFrame DEF Submit, vars
<1>9. ~Crash
  BY <1>0 DEF Crash
<1>10. QED
  BY <1>6, <1>7, <1>8, <1>9 DEF Next

LEMMA KeptInit == Init => KeptInv
<1> SUFFICES ASSUME Init PROVE KeptInv
  OBVIOUS
<1>1. ReadInv
  BY DEF Init, ReadInv, WriterNew
<1>2. /\ marks.purges = {} /\ spill.pc = "step"
      /\ \A c \in Clears : clear[c].pc = "idle"
  BY DEF Init, NoMarks, SpillIdle
<1>3. PurgeInv
  BY <1>2 DEF PurgeInv, DeadInv, Committed
<1>4. NotWronged
  BY DEF Init, NotWronged
<1>5. QED
  BY <1>1, <1>3, <1>4 DEF KeptInv

LEMMA KeptStep ==
    ASSUME BaseInv, StampInv, KeptInv, [Next]_vars
    PROVE  KeptInv'
  BY ReadStep, PurgeStep, WrongedStep DEF KeptInv

LEMMA KeptInvariance == Spec => [](BaseInv /\ StampInv /\ KeptInv)
<1>1. BaseInv /\ StampInv /\ KeptInv /\ [Next]_vars => KeptInv'
  BY KeptStep
<1>2. QED
  BY <1>1, KeptInit, StampInvariance, PTL DEF Spec

(***************************************************************************)
(* KeptByClear: what purge_after_clear drops from memory and the hand-off, *)
(* and what purge_before deletes with the segments, no transaction of this *)
(* process would have accepted: a boundary is recorded before the spill    *)
(* thread takes a job captured after the clear (PurgeInv).  And            *)
(* observe_generation never lowers the mirror within a run, as an epoch    *)
(* that is still current vouches for the generation read with it           *)
(* (ReadInv).                                                              *)
(***************************************************************************)
THEOREM ClearsAlwaysSpare == Spec => KeptByClear
<1>1. BaseInv /\ StampInv /\ KeptInv /\ [Next]_vars
        => [/\ \A w \in wronged' : w.held
            /\ boot' = boot => clear_state'.mirror >= clear_state.mirror]_vars
  <2> SUFFICES ASSUME BaseInv, StampInv, KeptInv, [Next]_vars
               PROVE  /\ \A w \in wronged' : w.held
                      /\ boot' = boot => clear_state'.mirror >= clear_state.mirror
    OBVIOUS
  <2>1. NotWronged'
    BY KeptStep DEF KeptInv
  <2>2. QED
    BY <2>1, MirrorGrows DEF NotWronged, KeptInv
<1>2. QED
  BY <1>1, KeptInvariance, PTL DEF Spec, KeptByClear

-----------------------------------------------------------------------------
(* The order of capture.                                                   *)

(* What a transaction would still store; and of that, what CaptureOrder    *)
(* does not except.                                                        *)
Wanted == {j \in GoodJobs : Accepted(j) /\ ~Stored(j)}
Live == {j \in Wanted : j.id \notin unstored \union passed}
Done == GoodJobs \ Live

(* The pairs of jobs of which the first may be stored before the second. *)
GapPairs == (Record \X {Gap}) \union ({Gap} \X Record)

Fits ==
    GapPairs \union
    {p \in GoodJobs \X GoodJobs : p[1] \in Wanted /\ p[2] \in Live => p[1].id < p[2].id}

Elems(s) == {s[i] : i \in DOMAIN s}

(* The entries of s from position m to q. *)
Part(s, m, q) == {s[i] : i \in {i \in DOMAIN s : m <= i /\ i <= q}}

InOrder(s, R) == \A i, k \in DOMAIN s : i < k => <<s[i], s[k]>> \in R

Ahead(X, Y, R) == \A x \in X, y \in Y : <<x, y>> \in R

DiskBatch == writer.pc = "write" /\ writer.disk

(* A disk batch stays in the files until it is marked consumed. *)
Unread == {stream[i] : i \in {i \in DOMAIN stream : DiskBatch => i > writer.cursor}}

(* What the writer is about to read was captured before what has come to   *)
(* memory since.                                                           *)
Reading == IF writer.pc = "reading" THEN Part(stream, writer.cursor + 1, writer.upto) ELSE {}

InHand == IF spill.pc = "job" THEN {spill.job} ELSE {}

(* A job passes from the batch B, the memory M, the files S of which U are *)
(* unread, the hand of the spill thread J, what is held back H and the     *)
(* hand-off F, to the left of each.                                        *)
Line(B, M, S, U, J, H, F, R) ==
    /\ Ahead(B, M, R) /\ Ahead(B, U, R) /\ Ahead(B, J, R) /\ Ahead(B, H, R) /\ Ahead(B, F, R)
    /\ Ahead(M, S, R) /\ Ahead(M, J, R) /\ Ahead(M, H, R) /\ Ahead(M, F, R)
    /\ Ahead(S, J, R) /\ Ahead(S, H, R) /\ Ahead(S, F, R)
    /\ Ahead(J, H, R) /\ Ahead(J, F, R)
    /\ Ahead(H, F, R)

Chain(R) ==
    /\ InOrder(writer.batch, R) /\ InOrder(memory, R) /\ InOrder(stream, R)
    /\ InOrder(held, R) /\ InOrder(handoff, R)
    /\ Line(Elems(writer.batch), Elems(memory), Elems(stream), Unread, InHand, Elems(held),
            Elems(handoff), R)
    /\ Ahead(Reading, Elems(memory), R)

(* What is consumed, or would be if the batch were, is done with; and in   *)
(* memory mode so is everything in the files.                              *)
DoneInv ==
    /\ AllUpTo(stream, order.consumed, Done)
    /\ DiskBatch => AllUpTo(stream, writer.cursor, Done \union Elems(writer.batch))
    /\ ~order.spilling => order.handoff_jobs = 0 /\ AllUpTo(stream, Len(stream), Done)

(* What is still to be stored comes after what has been. *)
Later ==
    {j \in GoodJobs : /\ j.id <= captured
                      /\ j \in Live => \A i \in DOMAIN written : written[i].id < j.id}

LaterInv == Carried(Later) /\ \A i \in DOMAIN written : written[i].id <= captured

OrderInv == Chain(Fits) /\ DoneInv /\ LaterInv /\ CaptureOrder

(* Sequences in order. *)
LEMMA ElemsIn ==
    ASSUME NEW S, NEW s \in Seq(S)
    PROVE  Elems(s) \subseteq S /\ s \in Seq(Elems(s))
<1>1. Elems(s) \subseteq S
  BY DEF Elems
<1>2. \A i \in DOMAIN s : s[i] \in Elems(s)
  BY DEF Elems
<1>3. QED
  BY <1>1, <1>2, RestrictSeq

LEMMA ElemsOf ==
    ASSUME NEW S, NEW X, NEW s \in Seq(S), s \in Seq(X)
    PROVE  Elems(s) \subseteq X
  BY DEF Elems

LEMMA OrderEmpty ==
    ASSUME NEW R
    PROVE  InOrder(<<>>, R) /\ Elems(<<>>) = {}
  BY DEF InOrder, Elems

LEMMA OrderSub ==
    ASSUME NEW S, NEW s \in Seq(S), NEW m \in Nat, m > 0, NEW q \in Nat, q <= Len(s),
           NEW R, InOrder(s, R), NEW t, t = SubSeq(s, m, q)
    PROVE  /\ t \in Seq(S) /\ InOrder(t, R)
           /\ Elems(t) \subseteq Part(s, m, q) /\ Part(s, m, q) \subseteq Elems(t)
<1>0. Len(s) \in Nat /\ DOMAIN s = 1..Len(s)
  OBVIOUS
<1>1. /\ t \in Seq(S)
      /\ Len(t) = IF m <= q THEN q - m + 1 ELSE 0
      /\ \A i \in 1..(q - m + 1) : t[i] = s[m + i - 1]
  BY <1>0, SubSeqProperties
<1>2. DOMAIN t = 1..Len(t)
  BY <1>0, <1>1
<1>3. ASSUME NEW i \in DOMAIN t
      PROVE  m + i - 1 \in DOMAIN s /\ m <= m + i - 1 /\ m + i - 1 <= q /\ t[i] = s[m + i - 1]
  <2>1. i \in 1..(q - m + 1) /\ m + i - 1 \in 1..Len(s) /\ m <= m + i - 1 /\ m + i - 1 <= q
    BY <1>0, <1>1, <1>2
  <2>2. t[i] = s[m + i - 1]
    BY <1>1, <2>1
  <2>3. QED
    BY <1>0, <2>1, <2>2
<1>4. InOrder(t, R)
  <2>1. ASSUME NEW i \in DOMAIN t, NEW k \in DOMAIN t, i < k PROVE <<t[i], t[k]>> \in R
    <3>1. m + i - 1 < m + k - 1
      BY <1>1, <1>2, <2>1
    <3>2. QED
      BY <1>3, <3>1 DEF InOrder
  <2>2. QED
    BY <2>1 DEF InOrder
<1>5. Elems(t) \subseteq Part(s, m, q)
  BY <1>3 DEF Elems, Part
<1>6. ASSUME NEW i \in DOMAIN s, m <= i, i <= q PROVE s[i] \in Elems(t)
  <2>1. PICK k \in 1..(q - m + 1) : k \in 1..Len(t) /\ m + k - 1 = i
    <3>1. i - m + 1 \in 1..(q - m + 1) /\ i - m + 1 \in 1..Len(t) /\ m + (i - m + 1) - 1 = i
      BY <1>0, <1>1, <1>6
    <3>2. QED
      BY <3>1
  <2>2. t[k] = s[i]
    BY <1>1, <2>1
  <2>3. QED
    BY <1>2, <2>1, <2>2 DEF Elems
<1>7. Part(s, m, q) \subseteq Elems(t)
  BY <1>6 DEF Part
<1>8. QED
  BY <1>1, <1>4, <1>5, <1>7

LEMMA OrderConcat ==
    ASSUME NEW S, NEW s \in Seq(S), NEW t \in Seq(S), NEW R, InOrder(s, R), InOrder(t, R),
           Ahead(Elems(s), Elems(t), R)
    PROVE  InOrder(s \o t, R) /\ Elems(s \o t) = Elems(s) \union Elems(t)
<1> DEFINE u == s \o t
<1>1. /\ u \in Seq(S) /\ Len(u) = Len(s) + Len(t) /\ Len(s) \in Nat /\ Len(t) \in Nat
      /\ DOMAIN s = 1..Len(s) /\ DOMAIN t = 1..Len(t) /\ DOMAIN u = 1..(Len(s) + Len(t))
      /\ \A i \in 1..Len(s) : u[i] = s[i]
      /\ \A i \in 1..Len(t) : u[Len(s) + i] = t[i]
  BY ConcatProperties
<1> HIDE DEF u
<1>2. \A i \in DOMAIN u : i <= Len(s) => i \in DOMAIN s /\ u[i] = s[i]
  BY <1>1
<1>3. ASSUME NEW i \in DOMAIN u, i > Len(s) PROVE i - Len(s) \in DOMAIN t /\ u[i] = t[i - Len(s)]
  <2>1. i - Len(s) \in 1..Len(t) /\ Len(s) + (i - Len(s)) = i
    BY <1>1, <1>3
  <2>2. QED
    BY <1>1, <2>1
<1>4. ASSUME NEW i \in DOMAIN u, NEW k \in DOMAIN u, i < k PROVE <<u[i], u[k]>> \in R
  <2>0. i \in Int /\ k \in Int /\ Len(s) \in Int
    BY <1>1
  <2>1. CASE k <= Len(s)
    <3>1. i <= Len(s)
      BY <1>4, <2>0, <2>1
    <3>2. QED
      BY <1>2, <1>4, <2>1, <3>1 DEF InOrder
  <2>2. CASE i > Len(s)
    <3>1. k > Len(s) /\ i - Len(s) < k - Len(s)
      BY <1>4, <2>0, <2>2
    <3>2. QED
      BY <1>3, <2>2, <3>1 DEF InOrder
  <2>3. CASE i <= Len(s) /\ k > Len(s)
    <3>1. u[i] \in Elems(s) /\ u[k] \in Elems(t)
      BY <1>2, <1>3, <2>3 DEF Elems
    <3>2. QED
      BY <3>1 DEF Ahead
  <2>4. QED
    BY <2>0, <2>1, <2>2, <2>3
<1>5. Elems(u) \subseteq Elems(s) \union Elems(t)
  <2>1. ASSUME NEW i \in DOMAIN u PROVE u[i] \in Elems(s) \union Elems(t)
    <3>0. i \in Int /\ Len(s) \in Int
      BY <1>1
    <3>1. CASE i <= Len(s)
      BY <1>2, <3>1 DEF Elems
    <3>2. CASE i > Len(s)
      BY <1>3, <3>2 DEF Elems
    <3>3. QED
      BY <3>0, <3>1, <3>2
  <2>2. QED
    BY <2>1 DEF Elems
<1>6. Elems(s) \union Elems(t) \subseteq Elems(u)
  <2>1. \A i \in 1..Len(s) : i \in DOMAIN u
    BY <1>1
  <2>2. \A i \in 1..Len(t) : Len(s) + i \in DOMAIN u
    BY <1>1
  <2>3. QED
    BY <1>1, <2>1, <2>2 DEF Elems
<1>7. QED
  BY <1>4, <1>5, <1>6 DEF InOrder, u

LEMMA OrderAppend ==
    ASSUME NEW S, NEW s \in Seq(S), NEW x \in S, NEW R, InOrder(s, R),
           \A y \in Elems(s) : <<y, x>> \in R
    PROVE  /\ InOrder(Append(s, x), R) /\ Elems(s) \subseteq Elems(Append(s, x))
           /\ x \in Elems(Append(s, x))
           /\ \A y \in Elems(Append(s, x)) : y \in Elems(s) \/ y = x
<1>1. Append(s, x) = s \o <<x>> /\ <<x>> \in Seq(S)
  <2>1. Append(s, x) = s \o <<x>>
    BY AppendIsConcat
  <2>2. QED
    BY <2>1
<1>2. PICK t \in Seq(S) : t = <<x>>
  BY <1>1
<1>3. Elems(t) = {x} /\ InOrder(t, R)
  BY <1>2 DEF Elems, InOrder
<1>4. Ahead(Elems(s), Elems(t), R)
  BY <1>3 DEF Ahead
<1>5. InOrder(s \o t, R) /\ Elems(s \o t) = Elems(s) \union Elems(t)
  BY <1>3, <1>4, OrderConcat
<1>6. QED
  BY <1>1, <1>2, <1>3, <1>5

LEMMA OrderTail ==
    ASSUME NEW S, NEW s \in Seq(S), s # <<>>, NEW R, InOrder(s, R)
    PROVE  /\ Tail(s) \in Seq(S) /\ InOrder(Tail(s), R)
           /\ Elems(s) = Elems(Tail(s)) \union {Head(s)}
           /\ Ahead({Head(s)}, Elems(Tail(s)), R)
<1> DEFINE t == Tail(s)
<1>1. /\ t \in Seq(S) /\ Len(s) \in Nat /\ Len(s) >= 1 /\ Len(t) = Len(s) - 1 /\ Head(s) = s[1]
      /\ DOMAIN s = 1..Len(s) /\ DOMAIN t = 1..(Len(s) - 1)
      /\ \A i \in 1..(Len(s) - 1) : t[i] = s[i + 1]
  BY HeadTailProperties
<1> HIDE DEF t
<1>2. \A i \in DOMAIN t : i + 1 \in DOMAIN s /\ t[i] = s[i + 1] /\ 1 < i + 1
  BY <1>1
<1>3. \A i, k \in DOMAIN t : i < k => i + 1 < k + 1
  BY <1>1
<1>4. \A i \in DOMAIN s : i = 1 \/ (i - 1 \in DOMAIN t /\ t[i - 1] = s[i])
  BY <1>1
<1>5. 1 \in DOMAIN s
  BY <1>1
<1>6. InOrder(t, R) /\ Ahead({Head(s)}, Elems(t), R)
  BY <1>1, <1>2, <1>3, <1>5 DEF InOrder, Ahead, Elems
<1>7. Elems(s) = Elems(t) \union {Head(s)}
  <2>1. \A i \in DOMAIN s : s[i] \in Elems(t) \union {Head(s)}
    BY <1>1, <1>4 DEF Elems
  <2>2. \A i \in DOMAIN t : t[i] \in Elems(s)
    BY <1>2 DEF Elems
  <2>3. Head(s) \in Elems(s)
    BY <1>1, <1>5 DEF Elems
  <2>4. QED
    BY <2>1, <2>2, <2>3 DEF Elems
<1>8. QED
  BY <1>1, <1>6, <1>7 DEF t

LEMMA OrderPick ==
    ASSUME NEW S, NEW s \in Seq(S), NEW P, NEW R, InOrder(s, R)
    PROVE  /\ Pick(s, P) \in Seq(S) /\ InOrder(Pick(s, P), R)
           /\ \A i \in DOMAIN s : i \in P => s[i] \in Elems(Pick(s, P))
           /\ Elems(Pick(s, P)) \subseteq Elems(s)
<1>1. PICK f : Picks(f, s, P, Len(s)) /\ Pick(s, P) = f[Len(s)]
  BY PickIs
<1> DEFINE U(i) == {s[m] : m \in 1..i}
           Good(i) == /\ f[i] \in Seq(S) /\ f[i] \in Seq(U(i)) /\ InOrder(f[i], R)
                      /\ \A m \in 1..i : m \in P => s[m] \in Elems(f[i])
           G == {i \in Nat : i <= Len(s) => Good(i)}
<1>a. Len(s) \in Nat /\ DOMAIN s = 1..Len(s)
  OBVIOUS
<1>b. Good(0)
  <2>1. f[0] = <<>>
    BY <1>a, <1>1 DEF Picks
  <2>2. QED
    BY <2>1, EmptySeq, OrderEmpty
<1>c. ASSUME NEW i \in Nat, i + 1 <= Len(s), Good(i) PROVE Good(i + 1)
  <2>1. i + 1 \in 0..Len(s) /\ i + 1 # 0 /\ (i + 1) - 1 = i /\ i + 1 \in DOMAIN s
        /\ \A m \in 1..i : m \in DOMAIN s /\ m < i + 1 /\ m \in 1..(i + 1)
    BY <1>a, <1>c
  <2>2. f[i + 1] = (IF i + 1 \in P THEN Append(f[i], s[i + 1]) ELSE f[i])
    BY <1>1, <2>1 DEF Picks
  <2>3. PICK u : u = f[i] /\ u \in Seq(S) /\ u \in Seq(U(i)) /\ InOrder(u, R)
    BY <1>c
  <2>31. u \in Seq(S) /\ InOrder(u, R)
    BY <2>3
  <2>4. U(i) \subseteq U(i + 1) /\ s[i + 1] \in U(i + 1) /\ s[i + 1] \in S
    BY <1>a, <1>c, <2>1
  <2>5. u \in Seq(U(i + 1))
    BY <2>3, <2>4, RestrictSeq
  <2>6. \A y \in Elems(u) : <<y, s[i + 1]>> \in R
    <3>1. \A x \in U(i) : <<x, s[i + 1]>> \in R
      BY <2>1 DEF InOrder
    <3>2. Elems(u) \subseteq U(i)
      BY <2>3, ElemsOf
    <3>3. QED
      BY <3>1, <3>2
  <2>7. \A m \in 1..(i + 1) : m \in 1..i \/ m = i + 1
    BY <1>c
  <2>8. \A m \in 1..i : m \in P => s[m] \in Elems(u)
    BY <1>c, <2>3
  <2>9. CASE i + 1 \in P
    <3>1. f[i + 1] = Append(u, s[i + 1])
      BY <2>2, <2>3, <2>9
    <3>2. Append(u, s[i + 1]) \in Seq(S) /\ Append(u, s[i + 1]) \in Seq(U(i + 1))
      BY <2>3, <2>4, <2>5, AppendProperties
    <3>3. PICK x \in S : x = s[i + 1]
      BY <2>4
    <3>4. InOrder(Append(u, x), R) /\ Elems(u) \subseteq Elems(Append(u, x)) /\ x \in Elems(Append(u, x))
      BY <2>31, <2>6, <3>3, OrderAppend
    <3>5. \A m \in 1..(i + 1) : m \in P => s[m] \in Elems(f[i + 1])
      BY <2>7, <2>8, <3>1, <3>3, <3>4
    <3>6. QED
      BY <3>1, <3>2, <3>3, <3>4, <3>5
  <2>10. CASE i + 1 \notin P
    <3>1. f[i + 1] = u
      BY <2>2, <2>3, <2>10
    <3>2. \A m \in 1..(i + 1) : m \in P => s[m] \in Elems(u)
      BY <2>7, <2>8, <2>10
    <3>3. QED
      BY <2>3, <2>5, <3>1, <3>2
  <2>11. QED
    BY <2>9, <2>10
<1> HIDE DEF Good
<1>2. 0 \in G
  BY <1>b
<1>3. ASSUME NEW i \in G PROVE i + 1 \in G
  BY <1>a, <1>c, <1>3
<1>4. G = Nat
  <2> HIDE DEF G
  <2>1. G \subseteq Nat
    BY DEF G
  <2>2. QED
    BY <1>2, <1>3, <2>1, AllNumbers
<1>5. Good(Len(s))
  BY <1>a, <1>4
<1>6. /\ Pick(s, P) \in Seq(S) /\ InOrder(Pick(s, P), R)
      /\ \A i \in DOMAIN s : i \in P => s[i] \in Elems(Pick(s, P))
  BY <1>a, <1>1, <1>5 DEF Good
<1>7. Elems(Pick(s, P)) \subseteq Elems(s)
  <2>1. \A i \in DOMAIN s : s[i] \in Elems(s)
    BY DEF Elems
  <2>2. Pick(s, P) \in Seq(Elems(s))
    BY <2>1, PickProperties
  <2>3. QED
    BY <1>6, <2>2, ElemsOf
<1>8. QED
  BY <1>6, <1>7

(* The records between two positions. *)
LEMMA RecordsOrder ==
    ASSUME stream \in Seq(Record), NEW p \in Nat, NEW q \in Nat, q <= Len(stream),
           NEW R, InOrder(stream, R)
    PROVE  /\ InOrder(Records(p, q), R)
           /\ Elems(Records(p, q)) = Part(stream, p + 1, q) \ {Gap}
<1>1. PICK m \in Nat : m = p + 1 /\ m > 0
  OBVIOUS
<1>2. PICK s : s = SubSeq(stream, m, q)
  OBVIOUS
<1>3. s \in Seq(Record) /\ InOrder(s, R) /\ Elems(s) = Part(stream, m, q)
  <2>1. /\ m \in Nat /\ m > 0 /\ q \in Nat /\ q <= Len(stream) /\ stream \in Seq(Record)
        /\ InOrder(stream, R)
    BY <1>1
  <2>2. s \in Seq(Record)
    BY <1>2, <2>1, OrderSub
  <2>3. InOrder(s, R)
    BY <1>2, <2>1, OrderSub
  <2>4. Elems(s) \subseteq Part(stream, m, q)
    BY <1>2, <2>1, OrderSub
  <2>5. Part(stream, m, q) \subseteq Elems(s)
    BY <1>2, <2>1, OrderSub
  <2>6. QED
    BY <2>2, <2>3, <2>4, <2>5
<1> DEFINE P == {i \in DOMAIN s : s[i] # Gap}
           r == Pick(s, P)
<1>4. Records(p, q) = r
  BY <1>1, <1>2 DEF Records
<1>5. /\ r \in Seq(Record) /\ InOrder(r, R) /\ Elems(r) \subseteq Elems(s)
      /\ \A i \in DOMAIN s : i \in P => s[i] \in Elems(r)
  <2> HIDE DEF P
  <2>1. QED
    BY <1>3, OrderPick
<1>6. \A x \in Elems(s) : x # Gap => x \in Elems(r)
  BY <1>5 DEF Elems
<1>7. Gap \notin Elems(r)
  <2>1. Records(p, q) \in Seq(Job)
    BY RecordsType
  <2>2. Elems(r) \subseteq Job
    BY <1>4, <2>1, ElemsIn
  <2>3. QED
    BY <2>2, NullsAssumption
<1> HIDE DEF r
<1>8. Elems(r) = Elems(s) \ {Gap}
  BY <1>5, <1>6, <1>7
<1>9. QED
  BY <1>1, <1>3, <1>4, <1>5, <1>8

(* Without unflushed jobs, what lies behind the committed position is no   *)
(* record.                                                                 *)
LEMMA UnflushedGaps ==
    ASSUME NEW s \in Seq(Record), NEW p \in Nat, UnflushedIn(s, p) = 0,
           NEW i \in DOMAIN s, i > p
    PROVE  s[i] = Gap
<1>1. PICK m \in Nat : m = p + 1 /\ m > 0
  OBVIOUS
<1>2. PICK q \in Nat : q = Len(s) /\ q <= Len(s)
  <2>1. Len(s) \in Nat /\ Len(s) <= Len(s)
    OBVIOUS
  <2>2. QED
    BY <2>1
<1>3. PICK t : t = SubSeq(s, m, q)
  OBVIOUS
<1>4. PICK R : R = Record \X Record
  OBVIOUS
<1>5. InOrder(s, R)
  BY <1>4 DEF InOrder
<1>6. m \in Nat /\ m > 0 /\ q \in Nat /\ q <= Len(s) /\ s \in Seq(Record) /\ t = SubSeq(s, m, q)
  BY <1>1, <1>2, <1>3
<1>7. t \in Seq(Record) /\ InOrder(t, R)
  BY <1>5, <1>6, OrderSub
<1>8. Part(s, m, q) \subseteq Elems(t)
  BY <1>5, <1>6, OrderSub
<1>9. PICK P : P = {k \in DOMAIN t : t[k] # Gap}
  OBVIOUS
<1>10. PICK r : r = Pick(t, P)
  OBVIOUS
<1>11. Len(r) = 0
  BY <1>1, <1>2, <1>3, <1>9, <1>10 DEF UnflushedIn
<1>12. r \in Seq(Record) /\ \A k \in DOMAIN t : k \in P => t[k] \in Elems(r)
  BY <1>7, <1>10, OrderPick
<1>13. Elems(r) = {}
  BY <1>11, <1>12 DEF Elems
<1>14. \A x \in Elems(t) : x = Gap
  BY <1>9, <1>12, <1>13 DEF Elems
<1>15. s[i] \in Part(s, m, q)
  BY <1>1, <1>2 DEF Part
<1>16. QED
  BY <1>8, <1>14, <1>15

-----------------------------------------------------------------------------
(* What is stored, given up or rejected stays so.                          *)

LEMMA HistoryGrows ==
    ASSUME BaseInv, [Next]_vars
    PROVE  /\ unstored \subseteq unstored' /\ passed \subseteq passed'
           /\ \A i \in DOMAIN written : i \in DOMAIN written' /\ written'[i] = written[i]
<1>1. unstored \subseteq unstored'
  <2>1. CASE WriterStep
    BY <2>1 DEF WriterStep, RefreshRead, RefreshObserve, RefreshBusy, Gather, ReadEnd, ReadGivesUp,
       Write, WriteEnd, WriterPanics, histVars
  <2>2. QED
    BY <2>1, SpillFrame DEF Next, vars, histVars, Submit, ClearStart, ClearDropped, ClearStep, Crash,
       ClearBegin, ClearCommit, ClearFails, ClearRead, PurgeAfterClear, AbandonClear, ClearFinish
<1>2. passed \subseteq passed'
  <2>1. CASE SpillStep \/ SpillUnblock
    BY <2>1 DEF SpillStep, SpillUnblock, SpillRollTake, SpillRoll, SpillPurgeTake, SpillPurge,
       SpillTake, SpillAppend, SpillAppendFails, SpillFlush, histVars
  <2>2. QED
    BY <2>1, WriterFrame DEF Next, vars, histVars, Submit, ClearStart, ClearDropped, ClearStep, Crash,
       ClearBegin, ClearCommit, ClearFails, ClearRead, PurgeAfterClear, AbandonClear, ClearFinish
<1>3. \A i \in DOMAIN written : i \in DOMAIN written' /\ written'[i] = written[i]
  <2>1. CASE UNCHANGED written
    BY <2>1
  <2>2. CASE Write
    <3>1. PICK e \in [id : Nat, at : Nat, gen : Nat] : written' \in {written, Append(written, e)}
      <4>1. writer.batch \in Seq(Job) /\ writer.batch # <<>> /\ generation \in Nat
        BY <2>2 DEF Write, BaseInv, TypeInv, WriterStates
      <4>2. PICK j \in Job : j = Head(writer.batch)
        BY <4>1, HeadTailProperties
      <4>3. written' \in {written, Append(written, [id |-> j.id, at |-> j.at, gen |-> generation])}
        BY <2>2, <4>2 DEF Write
      <4>4. [id |-> j.id, at |-> j.at, gen |-> generation] \in [id : Nat, at : Nat, gen : Nat]
        BY <4>1 DEF Job
      <4>5. QED
        BY <4>3, <4>4
    <3>2. written \in Seq([id : Nat, at : Nat, gen : Nat])
      BY DEF BaseInv, TypeInv
    <3>3. CASE written' = Append(written, e)
      <4>1. Len(written) \in Nat /\ DOMAIN written = 1..Len(written)
            /\ DOMAIN Append(written, e) = 1..(Len(written) + 1)
            /\ \A i \in 1..Len(written) : Append(written, e)[i] = written[i]
        BY <3>1, <3>2, AppendProperties
      <4>2. \A i \in 1..Len(written) : i \in 1..(Len(written) + 1)
        BY <4>1
      <4>3. QED
        BY <3>3, <4>1, <4>2
    <3>4. QED
      BY <2>1, <3>1, <3>3
  <2>3. QED
    BY <2>1, <2>2, SpillFrame DEF Next, vars, dbVars, Submit, ClearStart, ClearDropped, ClearStep, Crash,
       ClearBegin, ClearCommit, ClearFails, ClearRead, PurgeAfterClear, AbandonClear, ClearFinish,
       WriterStep, RefreshRead, RefreshObserve, RefreshBusy, Gather, ReadEnd, ReadGivesUp, WriteEnd,
       WriterPanics
<1>4. QED
  BY <1>1, <1>2, <1>3

(* A job that is rejected now is rejected for good. *)
LEMMA AcceptedBefore ==
    ASSUME BaseInv, CountInv, [Next]_vars, NEW j \in GoodJobs, Accepted(j)'
    PROVE  Accepted(j)
<1>0. /\ j \in Job /\ JobOK(j) /\ j.at \in Nat /\ j.gen \in Int /\ j.epoch \in Int /\ j.boot \in Nat
      /\ generation \in Nat /\ boot \in Nat
      /\ clear_state \in [mirror : Int, started : Nat, finished : Nat]
      /\ clear_state.started \in Nat
  BY DEF GoodJobs, Job, BaseInv, TypeInv
<1>1. generation' \in Nat /\ generation' >= generation
  BY GenGrows
<1>2. CASE j.gen >= 0
  BY <1>0, <1>1, <1>2 DEF Accepted, JobOK
<1>3. CASE j.gen < 0
  <2>1. j.epoch # InFlight /\ j.boot = boot' /\ j.epoch = clear_state'.started
    BY <1>0, <1>3 DEF Accepted
  <2>2. boot' \in {boot, boot + 1} /\ (boot' = boot => clear_state'.started \in
                                            {clear_state.started, clear_state.started + 1})
    <3>1. ASSUME NEW c \in Clears, ClearStart(c) \/ ClearCommit(c) \/ ClearFinish(c)
          PROVE  boot' = boot /\ clear_state'.started \in {clear_state.started, clear_state.started + 1}
      BY <1>0, <3>1 DEF ClearStart, ClearCommit, ClearFinish
    <3>2. Crash => boot' = boot + 1
      BY DEF Crash
    <3>3. QED
      BY <1>0, <3>1, <3>2, Clocks
  <2>3. j.boot = boot /\ boot' = boot
    BY <1>0, <2>1, <2>2 DEF JobOK
  <2>4. j.epoch = clear_state.started
    BY <1>0, <1>3, <2>1, <2>2, <2>3 DEF JobOK
  <2>5. QED
    BY <1>0, <1>3, <2>1, <2>3, <2>4 DEF Accepted
<1>4. QED
  BY <1>0, <1>2, <1>3

LEMMA WantedShrinks ==
    ASSUME BaseInv, CountInv, [Next]_vars
    PROVE  /\ GoodJobs \subseteq GoodJobs'
           /\ \A j \in GoodJobs : /\ j \in Wanted' => j \in Wanted
                                  /\ j \in Live' => j \in Live
           /\ Done \subseteq Done'
<1>1. GoodJobs \subseteq GoodJobs'
  BY JobStable DEF GoodJobs
<1>2. ASSUME NEW j \in GoodJobs, Stored(j) PROVE Stored(j)'
  BY <1>2, HistoryGrows DEF Stored
<1>3. ASSUME NEW j \in GoodJobs, j \in Wanted' PROVE j \in Wanted
  <2>1. Accepted(j)' /\ ~Stored(j)'
    BY <1>3 DEF Wanted
  <2>2. QED
    BY <1>2, <2>1, AcceptedBefore DEF Wanted
<1>4. ASSUME NEW j \in GoodJobs, j \in Live' PROVE j \in Live
  <2>1. j \in Wanted' /\ j.id \notin unstored' \union passed'
    BY <1>4 DEF Live
  <2>2. QED
    BY <1>3, <2>1, HistoryGrows DEF Live
<1>5. QED
  BY <1>1, <1>3, <1>4 DEF Done

LEMMA FitsGrow ==
    ASSUME BaseInv, CountInv, [Next]_vars
    PROVE  Fits \subseteq Fits'
<1>1. PICK G, W, L : G = GoodJobs' /\ W = Wanted' /\ L = Live'
  OBVIOUS
<1>2. /\ GoodJobs \subseteq G
      /\ \A j \in GoodJobs : (j \in W => j \in Wanted) /\ (j \in L => j \in Live)
  BY <1>1, WantedShrinks
<1>3. Fits' = GapPairs \union {p \in G \X G : p[1] \in W /\ p[2] \in L => p[1].id < p[2].id}
  BY <1>1 DEF Fits, GapPairs
<1>4. ASSUME NEW p \in Fits, p \notin GapPairs PROVE p \in Fits'
  <2>1. PICK x \in GoodJobs, y \in GoodJobs :
            p = <<x, y>> /\ (x \in Wanted /\ y \in Live => x.id < y.id)
    BY <1>4 DEF Fits
  <2>2. x \in G /\ y \in G /\ (x \in W /\ y \in L => x.id < y.id)
    BY <1>2, <2>1
  <2>3. QED
    BY <1>3, <2>1, <2>2
<1>5. QED
  BY <1>3, <1>4

LEMMA FitsIs ==
    ASSUME NEW x, NEW y
    PROVE  /\ x \in GoodJobs /\ y \in GoodJobs /\ (x \in Wanted /\ y \in Live => x.id < y.id)
                  => <<x, y>> \in Fits
           /\ <<x, y>> \in Fits /\ x \in Wanted /\ y \in Live => x.id < y.id
<1>1. x \in Wanted => x # Gap
  BY NullsAssumption DEF Wanted, GoodJobs
<1>2. y \in Live => y # Gap
  BY NullsAssumption DEF Live, Wanted, GoodJobs
<1>3. QED
  BY <1>1, <1>2 DEF Fits, GapPairs

LEMMA ChainGrows ==
    ASSUME NEW R, NEW T, R \subseteq T, Chain(R)
    PROVE  Chain(T)
<1>1. \A s : InOrder(s, R) => InOrder(s, T)
  BY DEF InOrder
<1>2. \A X, Y : Ahead(X, Y, R) => Ahead(X, Y, T)
  BY DEF Ahead
<1>3. QED
  BY <1>1, <1>2 DEF Chain, Line

(* The line after jobs have moved to the left, or left it. *)
LEMMA LineShrinks ==
    ASSUME NEW B, NEW M, NEW S, NEW U, NEW J, NEW H, NEW F, NEW R, Line(B, M, S, U, J, H, F, R),
           NEW C, C \subseteq B, NEW N, N \subseteq M, NEW D, D \subseteq S, NEW V, V \subseteq U,
           NEW K, K \subseteq J, NEW I, I \subseteq H, NEW G, G \subseteq F
    PROVE  Line(C, N, D, V, K, I, G, R)
<1>1. ASSUME NEW X, NEW Y, NEW A \in SUBSET X, NEW Z \in SUBSET Y, Ahead(X, Y, R) PROVE Ahead(A, Z, R)
  BY <1>1 DEF Ahead
<1>2. QED
  BY <1>1 DEF Line

-----------------------------------------------------------------------------
(* No step takes a job past another one.                                   *)

LEMMA Places ==
    ASSUME BaseInv
    PROVE  /\ writer.batch \in Seq(Job) /\ memory \in Seq(Job) /\ held \in Seq(Job)
           /\ handoff \in Seq(Job) /\ stream \in Seq(Record)
           /\ Elems(writer.batch) \subseteq Record /\ Elems(memory) \subseteq Record
           /\ Elems(held) \subseteq Record /\ Elems(handoff) \subseteq Record
           /\ Elems(stream) \subseteq Record /\ Unread \subseteq Elems(stream)
           /\ InHand \subseteq Record
<1>1. /\ writer.batch \in Seq(Job) /\ memory \in Seq(Job) /\ held \in Seq(Job)
      /\ handoff \in Seq(Job) /\ stream \in Seq(Record) /\ (spill.pc = "job" => spill.job \in Job)
  BY DEF BaseInv, TypeInv, WriterStates
<1>2. Job \subseteq Record
  BY DEF Record
<1>3. \A s \in Seq(Job) : Elems(s) \subseteq Record
  BY <1>2 DEF Elems
<1>4. Elems(stream) \subseteq Record /\ Unread \subseteq Elems(stream)
  BY <1>1 DEF Elems, Unread
<1>5. QED
  BY <1>1, <1>2, <1>3, <1>4 DEF InHand

(* A step that leaves the places alone, or takes jobs out. *)
LEMMA ChainShrinks ==
    ASSUME NEW R, Chain(R), UNCHANGED <<stream, writer>>,
           InOrder(memory', R), Elems(memory') \subseteq Elems(memory),
           InOrder(held', R), Elems(held') \subseteq Elems(held),
           InOrder(handoff', R), Elems(handoff') \subseteq Elems(handoff),
           InHand' \subseteq InHand
    PROVE  Chain(R)'
<1>1. Unread' = Unread /\ Reading' = Reading
  BY DEF Unread, DiskBatch, Reading
<1>2. Line(Elems(writer.batch), Elems(memory'), Elems(stream), Unread, InHand', Elems(held'),
           Elems(handoff'), R)
  <2>1. Line(Elems(writer.batch), Elems(memory), Elems(stream), Unread, InHand, Elems(held),
             Elems(handoff), R)
    BY DEF Chain
  <2>2. QED
    BY <2>1, LineShrinks
<1>3. Ahead(Reading, Elems(memory'), R)
  BY DEF Chain, Ahead
<1>4. QED
  BY <1>1, <1>2, <1>3 DEF Chain

LEMMA ChainClear ==
    ASSUME BaseInv, NEW R, Chain(R), NEW c \in Clears,
           ClearStart(c) \/ ClearDropped(c) \/ ClearStep(c)
    PROVE  Chain(R)'
<1>0. /\ memory \in Seq(Job) /\ handoff \in Seq(Job) /\ held \in Seq(Job)
      /\ InOrder(memory, R) /\ InOrder(handoff, R) /\ InOrder(held, R)
  BY Places DEF Chain
<1>1. CASE ClearStart(c) \/ ClearDropped(c) \/ ClearBegin(c) \/ ClearCommit(c) \/ ClearFails(c)
           \/ ClearRead(c) \/ ClearFinish(c)
  <2>1. UNCHANGED <<stream, writer, memory, held, handoff, spill>>
    BY <1>1 DEF ClearStart, ClearDropped, ClearBegin, ClearCommit, ClearFails, ClearRead, ClearFinish,
       queueVars
  <2>2. InHand' = InHand
    BY <2>1 DEF InHand
  <2>3. QED
    BY <1>0, <2>1, <2>2, ChainShrinks
<1>2. CASE PurgeAfterClear(c)
  <2>1. PICK P, Q : memory' = Pick(memory, P) /\ handoff' = Pick(handoff, Q)
    BY <1>2 DEF PurgeAfterClear
  <2>2. /\ InOrder(Pick(memory, P), R) /\ Elems(Pick(memory, P)) \subseteq Elems(memory)
        /\ InOrder(Pick(handoff, Q), R) /\ Elems(Pick(handoff, Q)) \subseteq Elems(handoff)
    BY <1>0, OrderPick
  <2>3. held' \in {<<>>, held} /\ UNCHANGED <<stream, spill, writer>>
    BY <1>2 DEF PurgeAfterClear
  <2>4. InOrder(held', R) /\ Elems(held') \subseteq Elems(held)
    BY <1>0, <2>3, OrderEmpty
  <2>5. InHand' = InHand
    BY <2>3 DEF InHand
  <2>6. QED
    BY <2>1, <2>2, <2>3, <2>4, <2>5, ChainShrinks
<1>3. CASE AbandonClear(c)
  <2>1. /\ \/ handoff' = handoff /\ held' = held
           \/ handoff' = held \o handoff /\ held' = <<>>
        /\ UNCHANGED <<memory, stream, spill, writer>>
    BY <1>3 DEF AbandonClear
  <2>2. InHand' = InHand /\ Unread' = Unread /\ Reading' = Reading
    BY <2>1 DEF InHand, Unread, DiskBatch, Reading
  <2>3. CASE handoff' = handoff /\ held' = held
    BY <1>0, <2>1, <2>2, <2>3, ChainShrinks
  <2>4. CASE handoff' = held \o handoff /\ held' = <<>>
    <3> DEFINE H == Elems(held)
               F == Elems(handoff)
    <3>1. Ahead(H, F, R)
      BY DEF Chain, Line
    <3>2. InOrder(handoff', R) /\ Elems(handoff') = H \union F
      BY <1>0, <2>4, <3>1, OrderConcat
    <3>3. InOrder(held', R) /\ Elems(held') = {}
      BY <2>4, OrderEmpty
    <3>4. \A X : Ahead(X, H, R) /\ Ahead(X, F, R) => Ahead(X, H \union F, R)
      BY DEF Ahead
    <3>5. \A X : Ahead(X, {}, R) /\ Ahead({}, X, R)
      BY DEF Ahead
    <3>6. QED
      BY <2>1, <2>2, <3>2, <3>3, <3>4, <3>5 DEF Chain, Line
  <2>5. QED
    BY <2>1, <2>3, <2>4
<1>4. QED
  BY <1>1, <1>2, <1>3 DEF ClearStep

(* A segment is torn or closed. *)
LEMMA ChainTorn ==
    ASSUME BaseInv, NEW R, GapPairs \subseteq R, Chain(R), UNCHANGED <<queueVars, writer>>,
           InHand' \subseteq InHand, stream' \in Seq(Record),
           \A i \in DOMAIN stream' : stream'[i] # Gap => i \in DOMAIN stream /\ stream'[i] = stream[i],
           \A i \in 1..order.committed : stream'[i] = stream[i],
           Len(stream') >= order.committed
    PROVE  Chain(R)'
<1>0. /\ \A x \in Record : <<x, Gap>> \in R /\ <<Gap, x>> \in R
      /\ UNCHANGED <<memory, held, handoff>> /\ Gap \in Record
  BY DEF GapPairs, queueVars, Record
<1>1. InOrder(stream', R)
  <2>1. ASSUME NEW i \in DOMAIN stream', NEW k \in DOMAIN stream', i < k
        PROVE  <<stream'[i], stream'[k]>> \in R
    <3>1. stream'[i] \in Record /\ stream'[k] \in Record
      OBVIOUS
    <3>2. CASE stream'[i] = Gap \/ stream'[k] = Gap
      BY <1>0, <3>1, <3>2
    <3>3. CASE stream'[i] # Gap /\ stream'[k] # Gap
      BY <2>1, <3>3 DEF Chain, InOrder
    <3>4. QED
      BY <3>2, <3>3
  <2>2. QED
    BY <2>1 DEF InOrder
<1> DEFINE S == Elems(stream)
           U == Unread
           B == Elems(writer.batch)
           M == Elems(memory)
           J == InHand
           H == Elems(held)
           F == Elems(handoff)
<1>2. Elems(stream') \subseteq S \union {Gap}
  BY DEF Elems
<1>3. Unread' \subseteq U \union {Gap}
  <2>1. DiskBatch' = DiskBatch /\ writer' = writer
    BY DEF DiskBatch
  <2>2. QED
    BY <2>1 DEF Unread
<1>4. Reading' \subseteq Reading
  <2>1. CASE writer.pc # "reading"
    BY <2>1 DEF Reading
  <2>2. CASE writer.pc = "reading"
    <3>1. /\ writer.cursor \in Nat /\ writer.upto \in Nat /\ order.committed \in Nat
          /\ writer.upto <= order.committed /\ order.committed <= Len(stream) /\ Len(stream) \in Nat
          /\ stream \in Seq(Record)
      BY <2>2 DEF BaseInv, TypeInv, PositionInv, WriterStates, OrderStates
    <3>2. ASSUME NEW i \in DOMAIN stream', writer.cursor + 1 <= i, i <= writer.upto
          PROVE  i \in DOMAIN stream /\ stream'[i] = stream[i]
      <4>1. i \in 1..order.committed /\ i \in 1..Len(stream)
        BY <3>1, <3>2
      <4>2. QED
        BY <3>1, <4>1
    <3>3. Part(stream', writer.cursor + 1, writer.upto) \subseteq Part(stream, writer.cursor + 1, writer.upto)
      BY <3>2 DEF Part
    <3>4. QED
      BY <2>2, <3>3 DEF Reading
  <2>3. QED
    BY <2>1, <2>2
<1>5. Line(B, M, S, U, J, H, F, R) /\ Ahead(Reading, M, R)
  BY DEF Chain
<1>6. /\ B \subseteq Record /\ M \subseteq Record /\ H \subseteq Record /\ F \subseteq Record
      /\ S \subseteq Record /\ U \subseteq Record /\ J \subseteq Record
  BY Places
<1> HIDE DEF S, U, B, M, J, H, F
<1>7. \A X \in SUBSET Record, Y \in SUBSET Record :
          Ahead(X, Y, R) => Ahead(X \union {Gap}, Y, R) /\ Ahead(X, Y \union {Gap}, R)
  BY <1>0 DEF Ahead
<1>8. Line(B, M, S \union {Gap}, U \union {Gap}, J, H, F, R)
  BY <1>5, <1>6, <1>7 DEF Line
<1>9. Line(B, M, Elems(stream'), Unread', InHand', H, F, R)
  BY <1>2, <1>3, <1>8, LineShrinks DEF J
<1>10. Ahead(Reading', M, R)
  BY <1>4, <1>5 DEF Ahead
<1>11. QED
  BY <1>0, <1>1, <1>9, <1>10 DEF Chain, B, M, H, F

(* A sequence is cut in two. *)
LEMMA OrderPrefix ==
    ASSUME NEW S, NEW s \in Seq(S), NEW m \in Nat, m <= Len(s), NEW R, InOrder(s, R),
           NEW t, t = SubSeq(s, 1, m)
    PROVE  t \in Seq(S) /\ InOrder(t, R) /\ Elems(t) \subseteq Part(s, 1, m)
<1>1. PICK o \in Nat : o = 1 /\ o > 0
  OBVIOUS
<1>2. t = SubSeq(s, o, m)
  BY <1>1
<1>3. t \in Seq(S) /\ InOrder(t, R) /\ Elems(t) \subseteq Part(s, o, m)
  BY <1>1, <1>2, OrderSub
<1>4. QED
  BY <1>1, <1>3

LEMMA OrderSuffix ==
    ASSUME NEW S, NEW s \in Seq(S), NEW p \in Nat, p > 0, NEW R, InOrder(s, R),
           NEW u, u = SubSeq(s, p, Len(s))
    PROVE  u \in Seq(S) /\ InOrder(u, R) /\ Elems(u) \subseteq Part(s, p, Len(s))
<1>1. Len(s) \in Nat /\ Len(s) <= Len(s)
  OBVIOUS
<1>2. PICK l \in Nat : l = Len(s) /\ l <= Len(s)
  BY <1>1
<1>3. u = SubSeq(s, p, l)
  BY <1>2
<1>4. u \in Seq(S) /\ InOrder(u, R) /\ Elems(u) \subseteq Part(s, p, l)
  BY <1>2, <1>3, OrderSub
<1>5. QED
  BY <1>2, <1>4

LEMMA PartsAhead ==
    ASSUME NEW S, NEW s \in Seq(S), NEW m \in Nat, NEW p \in Nat, m < p, NEW R, InOrder(s, R)
    PROVE  Ahead(Part(s, 1, m), Part(s, p, Len(s)), R)
<1>1. ASSUME NEW i \in DOMAIN s, i <= m, NEW k \in DOMAIN s, p <= k PROVE <<s[i], s[k]>> \in R
  <2>1. i < k
    BY <1>1
  <2>2. QED
    BY <2>1 DEF InOrder
<1>2. QED
  BY <1>1 DEF Ahead, Part

(* A job that is held back for a running clear, and one that is not, are   *)
(* not both accepted.                                                      *)
LEMMA HeldBehind ==
    ASSUME BaseInv, StampInv, HeldInv, NEW x \in GoodJobs, Withheld(x), NEW j \in GoodJobs, ~Withheld(j),
           Accepted(j)
    PROVE  ~Accepted(x)
<1>1. PICK c \in Clears : marks.thresholds[c] # None /\ x.gen <= marks.thresholds[c]
  BY DEF Withheld
<1>2. /\ x.gen \in Int /\ j.gen \in Int /\ marks.thresholds[c] \in Int /\ generation \in Nat
      /\ ~(j.gen <= marks.thresholds[c])
  BY <1>1 DEF GoodJobs, Job, BaseInv, TypeInv, MarkStates, Withheld
<1>3. clear[c].pc \notin {"idle", "done"}
  BY <1>1 DEF HeldInv
<1>4. CASE x.gen < 0
  <2>1. TypeInv /\ CountInv
    BY DEF BaseInv, StampInv
  <2>2. x \in DeadJobs
    BY <1>3, <1>4, <2>1, UnstampedDead
  <2>3. QED
    BY <2>1, <2>2, DeadRejected
<1>5. CASE x.gen >= 0
  <2>1. j.gen > x.gen /\ j.gen >= 0
    BY <1>1, <1>2, <1>5
  <2>2. j.gen = generation
    BY <2>1 DEF Accepted
  <2>3. QED
    BY <1>2, <1>5, <2>1, <2>2 DEF Accepted
<1>6. QED
  BY <1>2, <1>4, <1>5

LEMMA ChainTake ==
    ASSUME BaseInv, StampInv, HeldInv, NEW R, Chain(R), SpillTake,
           \A x \in GoodJobs, y \in GoodJobs : (x \in Wanted' /\ y \in Live' => x.id < y.id) => <<x, y>> \in R
    PROVE  Chain(R)'
<1> DEFINE free == {i \in DOMAIN handoff : ~Withheld(handoff[i])}
           n    == IF free = {} THEN Len(handoff) + 1 ELSE Min(free)
<1>1. /\ held' = held \o SubSeq(handoff, 1, n - 1)
      /\ handoff' = SubSeq(handoff, n + 1, Len(handoff))
      /\ spill' = IF free = {} THEN SpillIdle ELSE [SpillIdle EXCEPT !.pc = "job", !.job = handoff[n]]
      /\ passed' = IF free = {} THEN passed
                   ELSE passed \union {held[i].id : i \in {i \in DOMAIN held : ~Withheld(held[i])}}
      /\ UNCHANGED <<memory, stream, writer, generation, clear_state, boot>>
  BY DEF SpillTake, dbVars
<1>2. /\ handoff \in Seq(Job) /\ held \in Seq(Job) /\ Len(handoff) \in Nat
      /\ DOMAIN handoff = 1..Len(handoff)
      /\ handoff \in Seq(GoodJobs) /\ held \in Seq(GoodJobs)
      /\ InOrder(handoff, R) /\ InOrder(held, R)
  BY Places DEF StampInv, Carried, Chain
<1>3. /\ n \in Nat /\ n >= 1 /\ n <= Len(handoff) + 1
      /\ \A i \in DOMAIN handoff : i < n => Withheld(handoff[i])
      /\ free # {} => n \in DOMAIN handoff /\ ~Withheld(handoff[n])
  <2>1. CASE free = {}
    BY <1>2, <2>1
  <2>2. CASE free # {}
    <3>1. free \subseteq Nat
      BY <1>2
    <3>2. n \in free /\ \A m \in free : n <= m
      <4> HIDE DEF free
      <4>1. QED
        BY <2>2, <3>1, MinProperty
    <3>3. n \in DOMAIN handoff /\ ~Withheld(handoff[n])
      BY <3>2
    <3>4. ASSUME NEW i \in DOMAIN handoff, i < n PROVE Withheld(handoff[i])
      <4> HIDE DEF n
      <4>1. i \notin free
        BY <1>2, <3>2, <3>3, <3>4
      <4>2. QED
        BY <4>1
    <3>5. QED
      <4> HIDE DEF n, free
      <4>1. QED
        BY <1>2, <2>2, <3>3, <3>4
  <2>3. QED
    BY <2>1, <2>2
<1> HIDE DEF n
<1>40. PICK m \in Nat : m = n - 1
  BY <1>3
<1>41. PICK p \in Nat : p = n + 1
  BY <1>3
<1>42. PICK t : t = SubSeq(handoff, 1, m)
  OBVIOUS
<1>43. PICK u : u = SubSeq(handoff, p, Len(handoff))
  OBVIOUS
<1>4. /\ m = n - 1 /\ p = n + 1 /\ held' = held \o t /\ handoff' = u
  BY <1>1, <1>40, <1>41, <1>42, <1>43
<1>5. /\ m \in Nat /\ m <= Len(handoff) /\ p \in Nat /\ p > 0 /\ m < p /\ t = SubSeq(handoff, 1, m)
      /\ u = SubSeq(handoff, p, Len(handoff)) /\ handoff \in Seq(Job) /\ InOrder(handoff, R)
  BY <1>2, <1>3, <1>40, <1>41, <1>42, <1>43
<1>6. /\ t \in Seq(Job) /\ InOrder(t, R) /\ Elems(t) \subseteq Part(handoff, 1, m)
      /\ u \in Seq(Job) /\ InOrder(u, R) /\ Elems(u) \subseteq Part(handoff, p, Len(handoff))
      /\ Ahead(Elems(t), Elems(u), R)
      /\ Elems(t) \subseteq Elems(handoff) /\ Elems(u) \subseteq Elems(handoff)
  <2>1. t \in Seq(Job) /\ InOrder(t, R) /\ Elems(t) \subseteq Part(handoff, 1, m)
    BY <1>5, OrderPrefix
  <2>2. u \in Seq(Job) /\ InOrder(u, R) /\ Elems(u) \subseteq Part(handoff, p, Len(handoff))
    BY <1>5, OrderSuffix
  <2>3. Ahead(Elems(t), Elems(u), R)
    <3>1. Ahead(Part(handoff, 1, m), Part(handoff, p, Len(handoff)), R)
      BY <1>5, PartsAhead
    <3>2. QED
      BY <2>1, <2>2, <3>1 DEF Ahead
  <2>4. Elems(t) \subseteq Elems(handoff) /\ Elems(u) \subseteq Elems(handoff)
    BY <2>1, <2>2 DEF Part, Elems
  <2>5. QED
    BY <2>1, <2>2, <2>3, <2>4
<1> DEFINE B == Elems(writer.batch)
           M == Elems(memory)
           S == Elems(stream)
           H == Elems(held)
           F == Elems(handoff)
<1>7. Line(B, M, S, Unread, InHand, H, F, R) /\ Ahead(Reading, M, R)
  BY DEF Chain
<1>8. Ahead(H, F, R)
  BY <1>7 DEF Line
<1>9. InOrder(held', R) /\ Elems(held') = H \union Elems(t)
  <2>1. Ahead(H, Elems(t), R)
    BY <1>6, <1>8 DEF Ahead
  <2>2. QED
    BY <1>2, <1>4, <1>6, <2>1, OrderConcat
<1>10. InOrder(handoff', R) /\ Elems(handoff') = Elems(u)
  BY <1>1, <1>4, <1>6
<1>11. Unread' = Unread /\ Reading' = Reading
  BY <1>1 DEF Unread, DiskBatch, Reading
<1>12. InHand' \subseteq F
  BY <1>1, <1>3 DEF InHand, SpillIdle, Elems
<1>13. Ahead(InHand', Elems(u), R)
  <2>1. CASE free = {}
    BY <1>1, <2>1 DEF InHand, SpillIdle, Ahead
  <2>2. CASE free # {}
    <3>1. InHand' = {handoff[n]}
      BY <1>1, <2>2 DEF InHand, SpillIdle
    <3>2. \A k \in DOMAIN handoff : p <= k => n < k
      BY <1>2, <1>3, <1>4
    <3>3. \A y \in Part(handoff, p, Len(handoff)) : <<handoff[n], y>> \in R
      BY <1>2, <1>3, <2>2, <3>2 DEF Part, InOrder
    <3>4. QED
      BY <1>6, <3>1, <3>3 DEF Ahead
  <2>3. QED
    BY <2>1, <2>2
<1>14. Ahead(InHand', H \union Elems(t), R)
  <2>1. CASE free = {}
    BY <1>1, <2>1 DEF InHand, SpillIdle, Ahead
  <2>2. CASE free # {}
    <3>1. PICK j \in GoodJobs : InHand' = {j} /\ j = handoff[n]
      BY <1>1, <1>2, <1>3, <2>2 DEF InHand, SpillIdle
    <3>2. ASSUME NEW x \in H \union Elems(t)
          PROVE  <<j, x>> \in R
      <4>1. x \in GoodJobs
        <5>1. H \subseteq GoodJobs /\ F \subseteq GoodJobs
          BY <1>2, ElemsIn
        <5>2. QED
          BY <1>6, <5>1
      <4>2. SUFFICES ASSUME j \in Wanted', x \in Live' PROVE FALSE
        BY <3>1, <4>1
      <4>3. Accepted(j)' /\ Accepted(x)' /\ x.id \notin passed'
        BY <4>2 DEF Wanted, Live
      <4>31. \A k \in Job : Accepted(k)' <=> Accepted(k)
        BY <1>1 DEF Accepted
      <4>4. Accepted(j) /\ Accepted(x)
        BY <3>1, <4>1, <4>3, <4>31 DEF GoodJobs
      <4>5. Withheld(x)
        <5>1. CASE x \in H
          <6>1. PICK i \in DOMAIN held : x = held[i]
            BY <5>1 DEF Elems
          <6>2. QED
            BY <1>1, <2>2, <4>3, <6>1
        <5>2. CASE x \in Elems(t)
          <6>1. PICK i \in DOMAIN handoff : x = handoff[i] /\ i <= m
            BY <1>6, <5>2 DEF Part
          <6>2. i < n
            BY <1>2, <1>3, <1>4, <6>1
          <6>3. QED
            BY <1>3, <6>1, <6>2
        <5>3. QED
          BY <3>2, <5>1, <5>2
      <4>6. QED
        BY <1>3, <2>2, <3>1, <4>1, <4>4, <4>5, HeldBehind
    <3>3. QED
      BY <3>1, <3>2 DEF Ahead
  <2>3. QED
    BY <2>1, <2>2
<1> HIDE DEF B, M, S, H, F, free
<1>15. PICK J, T, V : J = InHand' /\ T = Elems(t) /\ V = Elems(u)
  OBVIOUS
<1>16. /\ J \subseteq F /\ T \subseteq F /\ V \subseteq F /\ Ahead(J, V, R) /\ Ahead(J, H \union T, R)
       /\ Ahead(T, V, R)
  BY <1>6, <1>12, <1>13, <1>14, <1>15 DEF F
<1>17. \A X, Y \in SUBSET F : Ahead(X, F, R) => Ahead(X, Y, R)
  BY DEF Ahead
<1>18. \A X : Ahead(X, H, R) /\ Ahead(X, T, R) => Ahead(X, H \union T, R)
  BY DEF Ahead
<1>19. \A Y : Ahead(H, Y, R) /\ Ahead(T, Y, R) => Ahead(H \union T, Y, R)
  BY DEF Ahead
<1>20. Line(B, M, S, Unread, J, H \union T, V, R)
  <2>1. \A X : Ahead(X, F, R) => Ahead(X, J, R) /\ Ahead(X, T, R) /\ Ahead(X, V, R)
    BY <1>16 DEF Ahead
  <2>2. QED
    BY <1>7, <1>16, <1>18, <1>19, <2>1 DEF Line
<1>21. QED
  BY <1>1, <1>7, <1>9, <1>10, <1>11, <1>15, <1>20 DEF Chain, B, M, S, H, F

LEMMA ChainSpill ==
    ASSUME BaseInv, StampInv, HeldInv, NEW R, GapPairs \subseteq R, Chain(R), SpillStep \/ SpillUnblock,
           \A x \in GoodJobs, y \in GoodJobs : (x \in Wanted' /\ y \in Live' => x.id < y.id) => <<x, y>> \in R
    PROVE  Chain(R)'
<1>0. /\ memory \in Seq(Job) /\ handoff \in Seq(Job) /\ held \in Seq(Job) /\ stream \in Seq(Record)
      /\ InOrder(memory, R) /\ InOrder(handoff, R) /\ InOrder(held, R) /\ InOrder(stream, R)
      /\ Len(stream) \in Nat
  BY Places DEF Chain
<1>1. CASE SpillRollTake \/ SpillPurgeTake \/ SpillPurge \/ SpillUnblock
  <2>1. UNCHANGED <<stream, writer, memory, held, handoff>>
    BY <1>1 DEF SpillRollTake, SpillPurgeTake, SpillPurge, SpillUnblock, queueVars
  <2>2. InHand' \subseteq InHand
    <3>1. CASE SpillUnblock
      BY <3>1 DEF SpillUnblock, InHand
    <3>2. CASE SpillRollTake \/ SpillPurgeTake \/ SpillPurge
      <4>1. spill'.pc # "job"
        <5>1. SpillIdle.pc = "step" /\ \A p, x, y : [SpillIdle EXCEPT !.pc = p, !.seqs = x].pc = p
                                                  /\ [SpillIdle EXCEPT !.pc = p, !.boundary = y].pc = p
          BY DEF SpillIdle
        <5>2. CASE SpillRollTake
          BY <5>1, <5>2 DEF SpillRollTake
        <5>3. CASE SpillPurgeTake
          BY <5>1, <5>3 DEF SpillPurgeTake
        <5>4. CASE SpillPurge
          BY <5>1, <5>4 DEF SpillPurge
        <5>5. QED
          BY <3>2, <5>2, <5>3, <5>4
      <4>2. QED
        BY <4>1 DEF InHand
    <3>3. QED
      BY <1>1, <3>1, <3>2
  <2>3. QED
    BY <1>0, <2>1, <2>2, ChainShrinks
<1>2. CASE SpillRoll \/ SpillAppendFails \/ SpillFlush
  <2>1. UNCHANGED <<queueVars, writer>> /\ InHand' \subseteq InHand
    BY <1>2 DEF SpillRoll, SpillAppendFails, SpillFlush, queueVars, InHand, SpillIdle
  <2>2. stream' \in Torn \/ stream' = stream
    <3>1. Rolled(stream) \in Torn
      <4>1. order.committed \in Nat /\ order.committed <= Len(stream)
        BY DEF BaseInv, TypeInv, PositionInv, OrderStates
      <4>2. SubSeq(stream, 1, Len(stream)) = stream
        BY <1>0
      <4>3. Len(stream) \in order.committed..Len(stream)
        BY <1>0, <4>1
      <4>4. QED
        BY <4>2, <4>3 DEF Torn
    <3>2. QED
      BY <1>2, <3>1 DEF SpillRoll, SpillAppendFails, SpillFlush
  <2>3. /\ stream' \in Seq(Record)
        /\ \A i \in DOMAIN stream' : stream'[i] # Gap => i \in DOMAIN stream /\ stream'[i] = stream[i]
        /\ \A i \in 1..order.committed : stream'[i] = stream[i]
        /\ Len(stream') >= order.committed
    <3>1. CASE stream' \in Torn
      <4>1. PICK t \in Torn : t = stream'
        BY <3>1
      <4>2. /\ t \in Seq(Record) /\ Len(t) >= order.committed
            /\ \A i \in 1..order.committed : t[i] = stream[i]
            /\ \A i \in DOMAIN t : t[i] # Gap => i \in DOMAIN stream /\ t[i] = stream[i]
        BY TornIs
      <4>3. QED
        BY <4>1, <4>2
    <3>2. CASE stream' = stream
      BY <1>0, <3>2 DEF BaseInv, TypeInv, PositionInv, OrderStates
    <3>3. QED
      BY <2>2, <3>1, <3>2
  <2>4. QED
    BY <2>1, <2>3, ChainTorn
<1>3. CASE SpillTake
  BY <1>3, ChainTake
<1>4. CASE SpillAppend
  <2>1. /\ spill.pc = "job" /\ stream' = Append(stream, spill.job) /\ spill'.pc # "job"
        /\ UNCHANGED <<memory, held, handoff, writer>>
    BY <1>4 DEF SpillAppend, SpillIdle, queueVars
  <2>2. PICK j \in Record : j = spill.job
    BY <2>1 DEF BaseInv, TypeInv, Record
  <2>3. InHand = {j} /\ InHand' = {}
    BY <2>1, <2>2 DEF InHand
  <2> DEFINE B == Elems(writer.batch)
             M == Elems(memory)
             S == Elems(stream)
             H == Elems(held)
             F == Elems(handoff)
  <2>4. Line(B, M, S, Unread, InHand, H, F, R) /\ Ahead(Reading, M, R)
    BY DEF Chain
  <2>5. \A y \in S : <<y, j>> \in R
    BY <2>3, <2>4 DEF Line, Ahead
  <2>6. /\ InOrder(Append(stream, j), R)
        /\ \A y \in Elems(Append(stream, j)) : y \in S \/ y = j
    BY <1>0, <2>2, <2>5, OrderAppend
  <2>7. /\ DOMAIN stream = 1..Len(stream) /\ DOMAIN stream' = 1..(Len(stream) + 1)
        /\ \A i \in 1..Len(stream) : stream'[i] = stream[i]
        /\ stream'[Len(stream) + 1] = j
    BY <1>0, <2>1, <2>2, AppendProperties
  <2>8. \A i \in DOMAIN stream' : \/ i \in DOMAIN stream /\ stream'[i] = stream[i]
                                  \/ i = Len(stream) + 1 /\ stream'[i] = j
    <3>1. \A i \in 1..(Len(stream) + 1) : i \in 1..Len(stream) \/ i = Len(stream) + 1
      BY <1>0
    <3>2. QED
      BY <2>7, <3>1
  <2>9. Unread' \subseteq Unread \union {j}
    <3>1. DiskBatch' = DiskBatch /\ writer' = writer
      BY <2>1 DEF DiskBatch
    <3>2. QED
      BY <2>8, <3>1 DEF Unread
  <2>10. Reading' \subseteq Reading
    <3>1. CASE writer.pc # "reading"
      BY <2>1, <3>1 DEF Reading
    <3>2. CASE writer.pc = "reading"
      <4>1. /\ writer.cursor \in Nat /\ writer.upto \in Nat /\ writer.upto <= Len(stream)
        BY <1>0, <3>2 DEF BaseInv, TypeInv, PositionInv, WriterStates, OrderStates
      <4>2. \A i \in DOMAIN stream' : i <= writer.upto => i \in DOMAIN stream /\ stream'[i] = stream[i]
        BY <1>0, <2>8, <4>1
      <4>3. QED
        BY <2>1, <3>2, <4>2 DEF Reading, Part
    <3>3. QED
      BY <3>1, <3>2
  <2>11. PICK D, V : D = Elems(stream') /\ V = Unread'
    OBVIOUS
  <2>12. D \subseteq S \union {j} /\ V \subseteq Unread \union {j}
    BY <2>1, <2>2, <2>6, <2>9, <2>11
  <2> HIDE DEF B, M, S, H, F
  <2>13. Line(B, M, D, V, {}, H, F, R)
    <3>1. \A X : Ahead(X, S, R) /\ Ahead(X, {j}, R) => Ahead(X, D, R)
      BY <2>12 DEF Ahead
    <3>2. \A X : Ahead(X, Unread, R) /\ Ahead(X, {j}, R) => Ahead(X, V, R)
      BY <2>12 DEF Ahead
    <3>3. \A X : Ahead(S, X, R) /\ Ahead({j}, X, R) => Ahead(D, X, R)
      BY <2>12 DEF Ahead
    <3>4. \A X : Ahead(X, {}, R) /\ Ahead({}, X, R)
      BY DEF Ahead
    <3>5. QED
      BY <2>3, <2>4, <3>1, <3>2, <3>3, <3>4 DEF Line
  <2>14. Ahead(Reading', M, R)
    BY <2>4, <2>10 DEF Ahead
  <2>15. QED
    BY <1>0, <2>1, <2>2, <2>3, <2>6, <2>11, <2>13, <2>14 DEF Chain, B, M, S, H, F
<1>5. QED
  BY <1>1, <1>2, <1>3, <1>4 DEF SpillStep

LEMMA ChainSubmit ==
    ASSUME BaseInv, BudgetInv, NEW R, Chain(R), Submit,
           ~order.spilling => order.handoff_jobs = 0 /\ AllUpTo(stream, Len(stream), Done),
           NEW j \in Record, j = NewJob,
           NEW E, Carried(E), \A x \in E \union {Gap} : <<x, j>> \in R,
           \A x \in Done \union {Gap} : <<j, x>> \in R
    PROVE  Chain(R)'
<1> DEFINE B == Elems(writer.batch)
           M == Elems(memory)
           S == Elems(stream)
           H == Elems(held)
           F == Elems(handoff)
<1>1. Line(B, M, S, Unread, InHand, H, F, R) /\ Ahead(Reading, M, R)
  BY DEF Chain
<1>2. /\ B \subseteq E \union {Gap} /\ M \subseteq E \union {Gap} /\ S \subseteq E \union {Gap}
      /\ H \subseteq E \union {Gap} /\ F \subseteq E \union {Gap}
      /\ InHand \subseteq E \union {Gap} /\ Unread \subseteq E \union {Gap}
      /\ Reading \subseteq E \union {Gap}
  <2>1. /\ writer.batch \in Seq(E) /\ memory \in Seq(E) /\ held \in Seq(E) /\ handoff \in Seq(E)
        /\ stream \in Seq(E \union {Gap}) /\ InHand \subseteq E
    BY DEF Carried, InHand
  <2>2. S \subseteq E \union {Gap} /\ Unread \subseteq S /\ Reading \subseteq S
    BY <2>1 DEF Elems, Unread, Reading, Part
  <2>3. B \subseteq E /\ M \subseteq E /\ H \subseteq E /\ F \subseteq E
    BY <2>1 DEF Elems
  <2>4. QED
    BY <2>1, <2>2, <2>3
<1>3. /\ memory \in Seq(Record) /\ handoff \in Seq(Record)
      /\ InOrder(memory, R) /\ InOrder(handoff, R)
  <2>1. memory \in Seq(Job) /\ handoff \in Seq(Job) /\ Job \subseteq Record
    BY Places DEF Record
  <2>2. QED
    BY <2>1 DEF Chain
<1>4. /\ UNCHANGED <<held, stream, writer, spill>>
      /\ Unread' = Unread /\ Reading' = Reading /\ InHand' = InHand
  BY DEF Submit, Unread, DiskBatch, Reading, InHand
<1>5. \/ UNCHANGED <<memory, handoff>>
      \/ ~order.spilling /\ memory' = Append(memory, j) /\ UNCHANGED handoff
      \/ handoff' = Append(handoff, j) /\ UNCHANGED memory
  BY DEF Submit, NewJob
<1>6. CASE UNCHANGED <<memory, handoff>>
  BY <1>4, <1>6 DEF Chain
<1>7. CASE handoff' = Append(handoff, j) /\ UNCHANGED memory
  <2>1. \A y \in F : <<y, j>> \in R
    BY <1>2
  <2>2. InOrder(handoff', R) /\ \A y \in Elems(handoff') : y \in F \/ y = j
    BY <1>3, <1>7, <2>1, OrderAppend
  <2>3. PICK G : G = Elems(handoff')
    OBVIOUS
  <2> HIDE DEF B, M, S, H, F
  <2>4. \A X \in SUBSET (E \union {Gap}) : Ahead(X, F, R) => Ahead(X, G, R)
    BY <2>2, <2>3 DEF Ahead
  <2>5. Line(B, M, S, Unread, InHand, H, G, R)
    BY <1>1, <1>2, <2>4 DEF Line
  <2>6. QED
    BY <1>1, <1>4, <1>7, <2>2, <2>3, <2>5 DEF Chain, B, M, S, H
<1>8. CASE ~order.spilling /\ memory' = Append(memory, j) /\ UNCHANGED handoff
  <2>1. \A y \in M : <<y, j>> \in R
    BY <1>2
  <2>2. InOrder(memory', R) /\ \A y \in Elems(memory') : y \in M \/ y = j
    BY <1>3, <1>8, <2>1, OrderAppend
  <2>3. PICK N : N = Elems(memory')
    OBVIOUS
  <2>4. H = {} /\ F = {} /\ InHand = {}
    <3>1. /\ Len(handoff) \in Nat /\ Len(held) \in Nat /\ Unflushed \in Nat
          /\ order.handoff_jobs = 0 /\ held \in Seq(Job) /\ handoff \in Seq(Job)
      BY <1>8, BudgetTypes, Places
    <3>2. order.handoff_jobs = Len(handoff) + Len(held) + Unflushed
                               + (IF spill.pc = "job" THEN 1 ELSE 0)
      BY DEF BudgetInv, BudgetExact
    <3>3. Len(handoff) = 0 /\ Len(held) = 0 /\ spill.pc # "job"
      BY <3>1, <3>2
    <3>4. QED
      BY <3>1, <3>3 DEF InHand, Elems
  <2>5. S \subseteq Done \union {Gap}
    <3>1. stream \in Seq(Record) /\ AllUpTo(stream, Len(stream), Done)
      BY <1>8, Places
    <3>2. \A i \in DOMAIN stream : i <= Len(stream)
      BY <3>1
    <3>3. QED
      BY <3>1, <3>2 DEF AllUpTo, Elems
  <2> HIDE DEF B, M, S, H, F
  <2>6. \A X \in SUBSET (E \union {Gap}) : Ahead(X, M, R) => Ahead(X, N, R)
    BY <2>2, <2>3 DEF Ahead
  <2>7. Ahead(M, S, R) => Ahead(N, S, R)
    BY <2>2, <2>3, <2>5 DEF Ahead
  <2>8. \A X : Ahead(X, {}, R)
    BY DEF Ahead
  <2>9. Line(B, N, S, Unread, InHand, H, F, R)
    BY <1>1, <1>2, <2>4, <2>6, <2>7, <2>8 DEF Line
  <2>10. Ahead(Reading, N, R)
    BY <1>1, <1>2, <2>6
  <2>11. QED
    BY <1>4, <1>8, <2>2, <2>3, <2>9, <2>10 DEF Chain, B, S, H, F
<1>9. QED
  BY <1>5, <1>6, <1>7, <1>8

LEMMA ChainCrash ==
    ASSUME BaseInv, NEW R, Chain(R), Crash
    PROVE  Chain(R)'
<1>1. /\ memory' = <<>> /\ handoff' = <<>> /\ held' = <<>> /\ writer'.batch = <<>>
      /\ writer'.pc = "top" /\ spill'.pc # "job"
  BY DEF Crash, WriterNew, SpillIdle
<1>2. PICK from \in 0..order.consumed, upto \in order.committed..Len(stream) :
          stream' = SubSeq(stream, from + 1, upto)
  BY DEF Crash
<1>3. /\ stream \in Seq(Record) /\ InOrder(stream, R) /\ Len(stream) \in Nat
      /\ order.consumed \in Nat /\ order.committed \in Nat
  BY Places DEF Chain, BaseInv, TypeInv, OrderStates
<1>4. PICK m \in Nat : m = from + 1 /\ m > 0
  BY <1>3
<1>5. upto \in Nat /\ upto <= Len(stream)
  BY <1>3
<1>6. PICK s : s = SubSeq(stream, m, upto)
  OBVIOUS
<1>7. InOrder(s, R)
  BY <1>3, <1>4, <1>5, <1>6, OrderSub
<1>8. InHand' = {} /\ Reading' = {} /\ stream' = s
  BY <1>1, <1>2, <1>4, <1>6 DEF InHand, Reading
<1>9. \A X : Ahead({}, X, R) /\ Ahead(X, {}, R)
  BY DEF Ahead
<1>10. InOrder(<<>>, R) /\ Elems(<<>>) = {}
  BY OrderEmpty
<1>11. QED
  BY <1>1, <1>7, <1>8, <1>9, <1>10 DEF Chain, Line

(* The writer touches only its batch and the memory. *)
LEMMA ChainWriterFrom ==
    ASSUME NEW R, Chain(R), UNCHANGED <<stream, handoff, held, spill>>,
           InOrder(memory', R), Elems(memory') \subseteq Elems(memory),
           Ahead(Reading', Elems(memory'), R),
           InOrder(writer'.batch, R), Ahead(Elems(writer'.batch), Elems(memory'), R),
           Ahead(Elems(writer'.batch), Unread', R), Ahead(Elems(writer'.batch), InHand, R),
           Ahead(Elems(writer'.batch), Elems(held), R), Ahead(Elems(writer'.batch), Elems(handoff), R)
    PROVE  Chain(R)'
<1>1. InHand' = InHand
  BY DEF InHand
<1>2. PICK N, B : N = Elems(memory') /\ B = Elems(writer'.batch)
  OBVIOUS
<1>3. \A X : Ahead(Elems(memory), X, R) => Ahead(N, X, R)
  BY <1>2 DEF Ahead
<1>4. Line(B, N, Elems(stream), Unread', InHand, Elems(held), Elems(handoff), R)
  BY <1>2, <1>3 DEF Chain, Line
<1>5. QED
  BY <1>1, <1>2, <1>4 DEF Chain

(* The batch is as it was or shorter, and nothing in the files comes back. *)
LEMMA ChainBatch ==
    ASSUME NEW R, Chain(R), UNCHANGED <<stream, handoff, held, spill, memory>>,
           Ahead(Reading', Elems(memory), R), InOrder(writer'.batch, R),
           Elems(writer'.batch) \subseteq Elems(writer.batch),
           Unread' \subseteq Unread \/ Elems(writer'.batch) = {}
    PROVE  Chain(R)'
<1>1. PICK B, V, M : B = Elems(writer'.batch) /\ V = Unread' /\ M = Elems(memory')
  OBVIOUS
<1>2. \A X : Ahead(Elems(writer.batch), X, R) => Ahead(B, X, R)
  BY <1>1 DEF Ahead
<1>3. Ahead(B, V, R)
  <2>1. CASE B = {}
    BY <2>1 DEF Ahead
  <2>2. CASE V \subseteq Unread
    BY <1>2, <2>2 DEF Chain, Line, Ahead
  <2>3. QED
    BY <1>1, <2>1, <2>2
<1>4. /\ Ahead(B, M, R) /\ Ahead(B, InHand, R) /\ Ahead(B, Elems(held), R) /\ Ahead(B, Elems(handoff), R)
      /\ InOrder(memory', R) /\ M \subseteq Elems(memory)
  BY <1>1, <1>2 DEF Chain, Line
<1>5. QED
  BY <1>1, <1>3, <1>4, ChainWriterFrom

LEMMA ChainGather ==
    ASSUME BaseInv, NEW R, Chain(R), Gather
    PROVE  Chain(R)'
<1>0. /\ memory \in Seq(Job) /\ InOrder(memory, R) /\ InOrder(writer.batch, R) /\ Len(memory) \in Nat
      /\ writer \in WriterStates /\ writer.pc \in {"top", "gather"} /\ ~DiskBatch
      /\ UNCHANGED <<stream, handoff, held, spill>>
  BY Places DEF Chain, Gather, DiskBatch, BaseInv, TypeInv
<1>1. CASE memory # <<>>
  <2>1. PICK n \in Nat : n = Min({BatchMax, Len(memory)}) /\ n <= Len(memory)
    BY GatherSize DEF BaseInv
  <2>2. /\ memory' = SubSeq(memory, n + 1, Len(memory))
        /\ writer'.pc = "write" /\ writer'.disk = FALSE /\ writer'.batch = SubSeq(memory, 1, n)
    BY <1>0, <1>1, <2>1 DEF Gather, WriterStates
  <2>3. PICK p \in Nat : p = n + 1 /\ n < p
    OBVIOUS
  <2>4. PICK t, u : t = SubSeq(memory, 1, n) /\ u = SubSeq(memory, p, Len(memory))
    OBVIOUS
  <2>5. /\ memory \in Seq(Job) /\ n \in Nat /\ n <= Len(memory) /\ p \in Nat /\ p > 0 /\ n < p
        /\ InOrder(memory, R) /\ t = SubSeq(memory, 1, n) /\ u = SubSeq(memory, p, Len(memory))
    BY <1>0, <2>1, <2>3, <2>4
  <2>6. InOrder(t, R) /\ Elems(t) \subseteq Part(memory, 1, n)
    BY <2>5, OrderPrefix
  <2>7. InOrder(u, R) /\ Elems(u) \subseteq Part(memory, p, Len(memory))
    BY <2>5, OrderSuffix
  <2>8. Ahead(Elems(t), Elems(u), R)
    <3>1. Ahead(Part(memory, 1, n), Part(memory, p, Len(memory)), R)
      BY <2>5, PartsAhead
    <3>2. QED
      BY <2>6, <2>7, <3>1 DEF Ahead
  <2>11. Elems(t) \subseteq Elems(memory) /\ Elems(u) \subseteq Elems(memory)
    BY <2>6, <2>7 DEF Part, Elems
  <2>12. memory' = u /\ writer'.batch = t /\ Unread' \subseteq Elems(stream) /\ Reading' = {}
    BY <1>0, <2>2, <2>3, <2>4 DEF Unread, Elems, Reading
  <2>13. \A X, Y : Ahead(Elems(memory), X, R) /\ Y \subseteq X => Ahead(Elems(t), Y, R)
    BY <2>11 DEF Ahead
  <2>14. \A X : Ahead({}, X, R)
    BY DEF Ahead
  <2>15. /\ Ahead(Elems(t), Unread', R) /\ Ahead(Elems(t), InHand, R)
         /\ Ahead(Elems(t), Elems(held), R) /\ Ahead(Elems(t), Elems(handoff), R)
    BY <2>12, <2>13 DEF Chain, Line
  <2>16. /\ UNCHANGED <<stream, handoff, held, spill>>
         /\ InOrder(memory', R) /\ Elems(memory') \subseteq Elems(memory)
         /\ Ahead(Reading', Elems(memory'), R)
         /\ InOrder(writer'.batch, R) /\ Ahead(Elems(writer'.batch), Elems(memory'), R)
         /\ Ahead(Elems(writer'.batch), Unread', R) /\ Ahead(Elems(writer'.batch), InHand, R)
         /\ Ahead(Elems(writer'.batch), Elems(held), R) /\ Ahead(Elems(writer'.batch), Elems(handoff), R)
    BY <1>0, <2>6, <2>7, <2>8, <2>11, <2>12, <2>14, <2>15
  <2>17. QED
    BY <2>16, ChainWriterFrom
<1>2. CASE memory = <<>>
  <2>1. /\ UNCHANGED memory /\ writer'.batch = writer.batch
        /\ writer'.pc \in {"top", "reading"}
    BY <1>0, <1>2 DEF Gather, WriterStates
  <2>2. ~DiskBatch' /\ Unread' = Unread
    BY <1>0, <2>1 DEF DiskBatch, Unread
  <2>3. Ahead(Reading', Elems(memory), R)
    <3>1. Elems(memory) = {}
      BY <1>2, OrderEmpty
    <3>2. QED
      BY <3>1 DEF Ahead
  <2>4. QED
    BY <1>0, <2>1, <2>2, <2>3, ChainBatch
<1>3. QED
  BY <1>1, <1>2

LEMMA ChainRead ==
    ASSUME BaseInv, NEW R, Chain(R), ReadEnd
    PROVE  Chain(R)'
<1>0. /\ writer \in WriterStates /\ writer.pc = "reading" /\ ~DiskBatch
      /\ UNCHANGED <<stream, handoff, held, spill, memory>> /\ InOrder(writer.batch, R)
      /\ InOrder(stream, R) /\ stream \in Seq(Record)
  BY Places DEF Chain, ReadEnd, DiskBatch, BaseInv, TypeInv, queueVars
<1>1. CASE writer'.pc = "gather" /\ writer'.batch = writer.batch
  <2>1. Unread' = Unread /\ Reading' = {}
    BY <1>0, <1>1 DEF DiskBatch, Unread, Reading
  <2>2. Ahead(Reading', Elems(memory), R)
    BY <2>1 DEF Ahead
  <2>3. QED
    BY <1>0, <1>1, <2>1, <2>2, ChainBatch
<1>2. CASE /\ writer'.pc = "write" /\ writer'.disk /\ writer'.cursor = ReadNext
           /\ writer'.batch = Records(writer.cursor, ReadNext)
  <2>1. /\ ReadNext \in Nat /\ writer.cursor \in Nat /\ writer.upto \in Nat /\ Len(stream) \in Nat
        /\ ReadNext <= writer.upto /\ ReadNext <= Len(stream)
    BY <1>0, ReadNextIs DEF BaseInv, PositionInv, TypeInv, OrderStates
  <2>20. PICK q \in Nat : q = ReadNext
    BY <2>1
  <2>2. PICK b : q = ReadNext /\ b = Records(writer.cursor, q)
    BY <2>20
  <2>3. InOrder(b, R) /\ Elems(b) = Part(stream, writer.cursor + 1, q) \ {Gap}
    BY <1>0, <2>1, <2>2, RecordsOrder
  <2>4. Elems(b) \subseteq Reading /\ Elems(b) \subseteq Elems(stream)
    <3>1. \A i \in DOMAIN stream : i <= q => i <= writer.upto
      BY <1>0, <2>1, <2>2
    <3>2. QED
      BY <1>0, <2>3, <3>1 DEF Reading, Part, Elems
  <2>5. Ahead(Elems(b), Unread', R)
    <3>1. \A i, k \in DOMAIN stream : i <= q /\ k > q => i < k
      BY <1>0, <2>1
    <3>2. \A k \in DOMAIN stream : \A x \in Elems(b) : k > q => <<x, stream[k]>> \in R
      BY <1>0, <2>3, <3>1 DEF Part, InOrder
    <3>3. Unread' = {stream[i] : i \in {i \in DOMAIN stream : i > q}}
      BY <1>0, <1>2, <2>2 DEF Unread, DiskBatch
    <3>4. QED
      BY <3>2, <3>3 DEF Ahead
  <2>6. /\ Ahead(Elems(b), Elems(memory), R) /\ Ahead(Elems(b), InHand, R)
        /\ Ahead(Elems(b), Elems(held), R) /\ Ahead(Elems(b), Elems(handoff), R)
    <3>1. \A X : Ahead(Elems(stream), X, R) => Ahead(Elems(b), X, R)
      BY <2>4 DEF Ahead
    <3>2. Ahead(Reading, Elems(memory), R) => Ahead(Elems(b), Elems(memory), R)
      BY <2>4 DEF Ahead
    <3>3. QED
      BY <3>1, <3>2 DEF Chain, Line
  <2>7. Ahead(Reading', Elems(memory), R)
    <3>1. Reading' = {}
      BY <1>2 DEF Reading
    <3>2. QED
      BY <3>1 DEF Ahead
  <2>8. writer'.batch = b /\ memory' = memory /\ InOrder(memory, R)
    BY <1>0, <1>2, <2>2 DEF Chain
  <2>9. /\ UNCHANGED <<stream, handoff, held, spill>>
        /\ InOrder(memory', R) /\ Elems(memory') \subseteq Elems(memory)
        /\ Ahead(Reading', Elems(memory'), R)
        /\ InOrder(writer'.batch, R) /\ Ahead(Elems(writer'.batch), Elems(memory'), R)
        /\ Ahead(Elems(writer'.batch), Unread', R) /\ Ahead(Elems(writer'.batch), InHand, R)
        /\ Ahead(Elems(writer'.batch), Elems(held), R) /\ Ahead(Elems(writer'.batch), Elems(handoff), R)
    BY <1>0, <2>3, <2>5, <2>6, <2>7, <2>8
  <2>10. QED
    BY <2>9, ChainWriterFrom
<1>3. QED
  <2>1. /\ WriterAt("gather").pc = "gather" /\ WriterAt("gather").batch = writer.batch
        /\ WriterAt("gather") \in WriterStates /\ WriterAt("write") \in WriterStates
        /\ WriterAt("write").pc = "write"
    BY <1>0, WriterAtType
  <2>2. CASE marks.purge_seq # writer.read_seq
    BY <1>1, <2>1, <2>2 DEF ReadEnd
  <2>3. CASE marks.purge_seq = writer.read_seq /\ Records(writer.cursor, ReadNext) = <<>>
    <3>1. writer' = [WriterAt("gather") EXCEPT !.cursor = ReadNext]
      BY <2>3 DEF ReadEnd
    <3>2. QED
      BY <1>1, <2>1, <3>1 DEF WriterStates
  <2>4. CASE marks.purge_seq = writer.read_seq /\ Records(writer.cursor, ReadNext) # <<>>
    <3>1. writer' = [WriterAt("write") EXCEPT !.cursor = ReadNext, !.disk = TRUE, !.size = 0,
                                              !.batch = Records(writer.cursor, ReadNext)]
      BY <2>4 DEF ReadEnd
    <3>2. QED
      BY <1>2, <2>1, <3>1 DEF WriterStates
  <2>5. QED
    BY <2>2, <2>3, <2>4

LEMMA ChainWriter ==
    ASSUME BaseInv, NEW R, Chain(R), WriterStep
    PROVE  Chain(R)'
<1>0. /\ writer \in WriterStates /\ UNCHANGED <<stream, handoff, held, spill>>
      /\ InOrder(writer.batch, R) /\ writer.batch \in Seq(Job)
  BY Places, WriterFrame DEF Chain, BaseInv, TypeInv
<1>1. CASE Gather
  BY <1>1, ChainGather
<1>2. CASE ReadEnd
  BY <1>2, ChainRead
<1>3. CASE RefreshRead \/ RefreshObserve \/ RefreshBusy \/ ReadGivesUp
  <2>1. /\ UNCHANGED memory /\ writer'.batch = writer.batch
        /\ \/ ~DiskBatch' /\ ~DiskBatch /\ writer'.pc \in {"top", "gather"}
           \/ writer' = writer
    <3>1. CASE RefreshRead
      BY <1>0, <3>1 DEF RefreshRead, queueVars, DiskBatch, WriterStates
    <3>2. CASE RefreshObserve
      <4>1. writer.pc = "top"
        BY <3>2 DEF RefreshObserve, BaseInv, PositionInv
      <4>2. QED
        BY <1>0, <3>2, <4>1 DEF RefreshObserve, queueVars, DiskBatch, WriterStates
    <3>3. CASE RefreshBusy
      BY <1>0, <3>3 DEF RefreshBusy, queueVars
    <3>4. CASE ReadGivesUp
      <4>1. /\ WriterAt("gather").pc = "gather" /\ WriterAt("gather").batch = writer.batch
            /\ WriterAt("gather") \in WriterStates
        BY <1>0, WriterAtType
      <4>2. QED
        BY <1>0, <3>4, <4>1 DEF ReadGivesUp, queueVars, DiskBatch, WriterStates
    <3>5. QED
      BY <1>3, <3>1, <3>2, <3>3, <3>4
  <2>2. Unread' = Unread /\ (Reading' = Reading \/ Reading' = {})
    BY <1>0, <2>1 DEF Unread, Reading, DiskBatch
  <2>3. Ahead(Reading', Elems(memory), R)
    BY <2>2 DEF Chain, Ahead
  <2>4. QED
    BY <1>0, <2>1, <2>2, <2>3, ChainBatch
<1>4. CASE Write
  <2>1. /\ UNCHANGED memory /\ writer' = [writer EXCEPT !.batch = Tail(@)] /\ writer.batch # <<>>
        /\ writer.pc = "write"
    BY <1>4 DEF Write, queueVars
  <2>2. writer'.batch = Tail(writer.batch) /\ Unread' = Unread /\ Reading' = {}
    BY <1>0, <2>1 DEF Unread, Reading, DiskBatch, WriterStates
  <2>3. PICK t : t = Tail(writer.batch)
    OBVIOUS
  <2>4. InOrder(t, R) /\ Elems(t) \subseteq Elems(writer.batch)
    <3>1. InOrder(Tail(writer.batch), R)
      BY <1>0, <2>1, OrderTail
    <3>2. Elems(writer.batch) = Elems(Tail(writer.batch)) \union {Head(writer.batch)}
      BY <1>0, <2>1, OrderTail
    <3>3. QED
      BY <2>3, <3>1, <3>2
  <2>5. Ahead(Reading', Elems(memory), R)
    BY <2>2 DEF Ahead
  <2>6. QED
    BY <1>0, <2>1, <2>2, <2>3, <2>4, <2>5, ChainBatch
<1>5. CASE WriteEnd \/ WriterPanics
  <2>1. UNCHANGED memory /\ writer'.batch = <<>> /\ writer'.pc = "top"
    <3>1. CASE WriteEnd
      <4>1. WriterAt("top").pc = "top" /\ WriterAt("top").batch = writer.batch
        BY <1>0, WriterAtType
      <4>2. QED
        BY <3>1, <4>1 DEF WriteEnd, queueVars
    <3>2. CASE WriterPanics
      BY <3>2 DEF WriterPanics, WriterNew, queueVars
    <3>3. QED
      BY <1>5, <3>1, <3>2
  <2>2. Elems(writer'.batch) = {} /\ InOrder(writer'.batch, R)
    BY <2>1, OrderEmpty
  <2>3. Ahead(Reading', Elems(memory), R)
    BY <2>1 DEF Reading, Ahead
  <2>4. QED
    BY <1>0, <2>1, <2>2, <2>3, ChainBatch
<1>6. QED
  BY <1>1, <1>2, <1>3, <1>4, <1>5 DEF WriterStep

LEMMA FitsNext ==
    ASSUME BaseInv, CountInv, [Next]_vars
    PROVE  /\ GapPairs \subseteq Fits'
           /\ \A x \in GoodJobs, y \in GoodJobs :
                  (x \in Wanted' /\ y \in Live' => x.id < y.id) => <<x, y>> \in Fits'
<1>1. PICK G, W, L : G = GoodJobs' /\ W = Wanted' /\ L = Live'
  OBVIOUS
<1>2. GoodJobs \subseteq G
  BY <1>1, WantedShrinks
<1>3. Fits' = GapPairs \union {p \in G \X G : p[1] \in W /\ p[2] \in L => p[1].id < p[2].id}
  BY <1>1 DEF Fits, GapPairs
<1>4. ASSUME NEW x \in GoodJobs, NEW y \in GoodJobs, x \in W /\ y \in L => x.id < y.id
      PROVE  <<x, y>> \in Fits'
  BY <1>2, <1>3, <1>4
<1>5. QED
  BY <1>1, <1>3, <1>4

LEMMA ChainStep ==
    ASSUME BaseInv, StampInv, HeldInv, BudgetInv, Chain(Fits), DoneInv, LaterInv, [Next]_vars
    PROVE  Chain(Fits)'
<1>0. CountInv /\ GenInv
  BY DEF StampInv
<1>1. PICK R : R = Fits'
  OBVIOUS
<1>2. /\ GapPairs \subseteq R
      /\ \A x \in GoodJobs, y \in GoodJobs : (x \in Wanted' /\ y \in Live' => x.id < y.id) => <<x, y>> \in R
  BY <1>0, <1>1, FitsNext
<1>3. Chain(R)
  <2>1. PICK Q : Q = Fits
    OBVIOUS
  <2>2. Chain(Q) /\ Q \subseteq R
    BY <1>0, <1>1, <2>1, FitsGrow
  <2>3. QED
    BY <2>2, ChainGrows
<1>4. Chain(R)'
  <2>1. CASE Submit
    <3>1. PICK j \in GoodJobs : j = NewJob
      BY <1>0, NewJobGood
    <3>2. j \in Record /\ j.id = captured + 1 /\ captured \in Nat
      BY <3>1 DEF GoodJobs, Record, NewJob, BaseInv, TypeInv
    <3>3. ASSUME NEW x \in Later \union {Gap} PROVE <<x, j>> \in R
      <4>1. CASE x = Gap
        BY <1>2, <3>2, <4>1 DEF GapPairs
      <4>2. CASE x \in Later
        <5>1. x \in GoodJobs /\ x.id <= captured /\ x.id \in Nat
          BY <4>2 DEF Later, GoodJobs, Job
        <5>2. x.id < j.id
          BY <3>2, <5>1
        <5>3. QED
          BY <1>2, <3>1, <5>1, <5>2
      <4>3. QED
        BY <3>3, <4>1, <4>2
    <3>4. ASSUME NEW x \in Done \union {Gap} PROVE <<j, x>> \in R
      <4>1. CASE x = Gap
        BY <1>2, <3>2, <4>1 DEF GapPairs
      <4>2. CASE x \in Done
        <5>1. x \in GoodJobs /\ x \notin Live
          BY <4>2 DEF Done
        <5>2. x \notin Live'
          BY <1>0, <5>1, WantedShrinks
        <5>3. QED
          BY <1>2, <3>1, <5>1, <5>2
      <4>3. QED
        BY <3>4, <4>1, <4>2
    <3>5. PICK E : E = Later
      OBVIOUS
    <3>6. Carried(E) /\ \A x \in E \union {Gap} : <<x, j>> \in R
      BY <3>3, <3>5 DEF LaterInv
    <3>7. ~order.spilling => order.handoff_jobs = 0 /\ AllUpTo(stream, Len(stream), Done)
      BY DEF DoneInv
    <3>8. QED
      BY <1>3, <2>1, <3>1, <3>2, <3>4, <3>6, <3>7, ChainSubmit
  <2>2. CASE \E c \in Clears : ClearStart(c) \/ ClearDropped(c) \/ ClearStep(c)
    BY <1>3, <2>2, ChainClear
  <2>3. CASE SpillStep \/ SpillUnblock
    BY <1>2, <1>3, <2>3, ChainSpill
  <2>4. CASE WriterStep
    BY <1>3, <2>4, ChainWriter
  <2>5. CASE Crash
    BY <1>3, <2>5, ChainCrash
  <2>6. CASE UNCHANGED vars
    <3>1. /\ UNCHANGED <<writer, memory, stream, held, handoff>>
          /\ InHand' = InHand /\ Unread' = Unread /\ Reading' = Reading
      BY <2>6 DEF vars, InHand, Unread, Reading, DiskBatch
    <3>2. QED
      BY <1>3, <3>1 DEF Chain
  <2>7. QED
    BY <2>1, <2>2, <2>3, <2>4, <2>5, <2>6 DEF Next
<1>5. QED
  BY <1>1, <1>4 DEF Chain, Line

-----------------------------------------------------------------------------
(* What counts as consumed is done with.                                   *)

LEMMA UpToGrows ==
    ASSUME NEW s, NEW p, NEW D, NEW E, D \subseteq E, AllUpTo(s, p, D)
    PROVE  AllUpTo(s, p, E)
  BY DEF AllUpTo

(* A job that is given up, stored or rejected is done with. *)
LEMMA DoneNext ==
    ASSUME BaseInv, CountInv, [Next]_vars, NEW j \in GoodJobs,
           j.id \in unstored' \/ Stored(j)' \/ ~Accepted(j)
    PROVE  j \in Done'
<1>1. GoodJobs \subseteq GoodJobs' /\ (j \in Live' => j \in Live)
  BY WantedShrinks
<1>2. CASE j.id \in unstored'
  BY <1>1, <1>2 DEF Done, Live
<1>3. CASE Stored(j)'
  BY <1>1, <1>3 DEF Done, Live, Wanted
<1>4. CASE ~Accepted(j)
  BY <1>1, <1>4 DEF Done, Live, Wanted
<1>5. QED
  BY <1>2, <1>3, <1>4

LEMMA HeadDone ==
    ASSUME BaseInv, StampInv, Write
    PROVE  Head(writer.batch) \in Done'
<1>1. writer.batch \in Seq(GoodJobs) /\ writer.batch # <<>>
  BY DEF StampInv, Carried, Write
<1>2. PICK j \in GoodJobs : j = Head(writer.batch)
  BY <1>1, HeadTailProperties
<1>3. CountInv /\ [Next]_vars
  BY DEF StampInv, Next, WriterStep
<1>4. CASE j.id \in unstored'
  BY <1>2, <1>3, <1>4, DoneNext
<1>5. CASE Accepted(j) /\ ~Stored(j) /\ j.id \notin unstored'
  <2>1. PICK e : e = [id |-> j.id, at |-> j.at, gen |-> generation]
    OBVIOUS
  <2>2. written' = Append(written, e)
    BY <1>2, <1>5, <2>1 DEF Write
  <2>3. e \in [id : Nat, at : Nat, gen : Nat] /\ e.id = j.id
        /\ written \in Seq([id : Nat, at : Nat, gen : Nat])
    BY <2>1 DEF GoodJobs, Job, BaseInv, TypeInv
  <2>4. Len(written) + 1 \in DOMAIN written' /\ written'[Len(written) + 1] = e
    <3>1. /\ DOMAIN Append(written, e) = 1..(Len(written) + 1) /\ Len(written) \in Nat
          /\ Append(written, e)[Len(written) + 1] = e
      BY <2>3, AppendProperties
    <3>2. Len(written) + 1 \in 1..(Len(written) + 1)
      BY <3>1
    <3>3. QED
      BY <2>2, <3>1, <3>2
  <2>5. Stored(j)'
    BY <2>3, <2>4 DEF Stored
  <2>6. QED
    BY <1>2, <1>3, <2>5, DoneNext
<1>6. CASE Stored(j)
  <2>1. Stored(j)'
    BY <1>3, <1>6, HistoryGrows DEF Stored
  <2>2. QED
    BY <1>2, <1>3, <2>1, DoneNext
<1>7. CASE ~Accepted(j)
  BY <1>2, <1>3, <1>7, DoneNext
<1>8. QED
  BY <1>4, <1>5, <1>6, <1>7

(* What is read up to a position of the stream, after the cursor. *)
LEMMA DoneRead ==
    ASSUME BaseInv, DoneInv, writer.pc = "reading", NEW q \in Nat, q <= writer.upto,
           NEW D, Done \subseteq D, Elems(Records(writer.cursor, q)) \subseteq D
    PROVE  AllUpTo(stream, q, D)
<1>1. /\ writer.cursor \in Nat /\ writer.upto \in Nat /\ order.consumed \in Nat
      /\ writer.cursor <= order.consumed /\ writer.upto <= Len(stream) /\ Len(stream) \in Nat
      /\ stream \in Seq(Record)
  <2>1. /\ writer \in WriterStates /\ order \in OrderStates /\ stream \in Seq(Record)
        /\ writer.upto <= order.committed /\ order.committed <= Len(stream)
        /\ writer.cursor <= order.consumed
    BY DEF BaseInv, TypeInv, PositionInv
  <2>2. Len(stream) \in Nat /\ order.committed \in Nat /\ writer.upto \in Nat
    BY <2>1 DEF WriterStates, OrderStates
  <2>3. QED
    BY <2>1, <2>2 DEF WriterStates, OrderStates
<1>2. PICK R : R = Record \X Record
  OBVIOUS
<1>3. InOrder(stream, R) /\ q <= Len(stream)
  BY <1>1, <1>2 DEF InOrder
<1>4. Elems(Records(writer.cursor, q)) = Part(stream, writer.cursor + 1, q) \ {Gap}
  BY <1>1, <1>3, RecordsOrder
<1>5. ASSUME NEW i \in DOMAIN stream, i <= q, stream[i] # Gap PROVE stream[i] \in D
  <2>0. i \in Nat
    BY <1>1
  <2>1. CASE i <= writer.cursor
    <3>1. i <= order.consumed
      BY <1>1, <2>0, <2>1
    <3>2. QED
      BY <1>5, <3>1 DEF DoneInv, AllUpTo
  <2>2. CASE i > writer.cursor
    <3>1. writer.cursor + 1 <= i
      BY <1>1, <2>0, <2>2
    <3>2. stream[i] \in Part(stream, writer.cursor + 1, q)
      BY <1>5, <3>1 DEF Part
    <3>3. QED
      BY <1>4, <1>5, <3>2
  <2>3. QED
    BY <1>1, <2>0, <2>1, <2>2
<1>6. QED
  BY <1>5 DEF AllUpTo

LEMMA DoneBatch ==
    ASSUME BaseInv, StampInv, DoneInv, [Next]_vars, ~Crash, DiskBatch'
    PROVE  /\ writer'.cursor \in Nat /\ writer'.cursor <= order.committed
           /\ AllUpTo(stream, writer'.cursor, Done' \union Elems(writer'.batch))
<1>0. /\ CountInv /\ writer \in WriterStates /\ order.committed \in Nat
      /\ writer.cursor \in Nat /\ writer.cursor <= order.committed /\ writer.batch \in Seq(Job)
      /\ order.committed <= Len(stream) /\ Len(stream) \in Nat /\ stream \in Seq(Record)
  BY DEF StampInv, BaseInv, TypeInv, PositionInv, WriterStates, OrderStates
<1>1. Done \subseteq Done'
  BY <1>0, WantedShrinks
<1>2. CASE writer' = writer
  <2>1. AllUpTo(stream, writer.cursor, Done \union Elems(writer.batch))
    BY <1>2 DEF DoneInv, DiskBatch
  <2>2. PICK D, E : D = Done \union Elems(writer.batch) /\ E = Done' \union Elems(writer'.batch)
    OBVIOUS
  <2>3. D \subseteq E
    BY <1>1, <1>2, <2>2
  <2>4. AllUpTo(stream, writer.cursor, E)
    BY <2>1, <2>2, <2>3, UpToGrows
  <2>5. QED
    BY <1>0, <1>2, <2>2, <2>4
<1>3. CASE Write
  <2>1. writer' = [writer EXCEPT !.batch = Tail(@)] /\ writer.batch # <<>>
    BY <1>3 DEF Write
  <2>2. writer'.cursor = writer.cursor /\ writer'.batch = Tail(writer.batch) /\ DiskBatch
    BY <1>0, <2>1 DEF WriterStates, DiskBatch
  <2>3. AllUpTo(stream, writer.cursor, Done \union Elems(writer.batch))
    BY <2>2 DEF DoneInv
  <2>4. Elems(writer.batch) = Elems(Tail(writer.batch)) \union {Head(writer.batch)}
    <3>1. PICK R : R = Job \X Job
      OBVIOUS
    <3>2. InOrder(writer.batch, R)
      BY <1>0, <3>1 DEF InOrder
    <3>3. QED
      BY <1>0, <2>1, <3>2, OrderTail
  <2>5. Head(writer.batch) \in Done'
    BY <1>3, HeadDone
  <2>6. PICK D, E : D = Done \union Elems(writer.batch) /\ E = Done' \union Elems(writer'.batch)
    OBVIOUS
  <2>7. D \subseteq E
    BY <1>1, <2>2, <2>4, <2>5, <2>6
  <2>8. AllUpTo(stream, writer.cursor, E)
    BY <2>3, <2>6, <2>7, UpToGrows
  <2>9. QED
    BY <1>0, <2>2, <2>6, <2>8
<1>4. CASE ReadEnd
  <2>0. /\ WriterAt("gather").pc = "gather" /\ WriterAt("gather") \in WriterStates
        /\ WriterAt("write") \in WriterStates /\ writer'.pc = "write"
    BY <1>0, WriterAtType DEF DiskBatch
  <2>1. writer' = [WriterAt("write") EXCEPT !.cursor = ReadNext, !.disk = TRUE, !.size = 0,
                                            !.batch = Records(writer.cursor, ReadNext)]
    <3>1. [WriterAt("gather") EXCEPT !.cursor = ReadNext].pc = "gather"
      BY <2>0 DEF WriterStates
    <3>2. QED
      BY <1>4, <2>0, <3>1 DEF ReadEnd
  <2>2. writer'.cursor = ReadNext /\ writer'.batch = Records(writer.cursor, ReadNext)
    BY <2>0, <2>1 DEF WriterStates
  <2>3. writer.pc = "reading"
    BY <1>4 DEF ReadEnd
  <2>4. PICK q \in Nat : q = ReadNext /\ q <= writer.upto /\ q <= order.committed
    <3>1. ReadNext \in Nat /\ ReadNext <= writer.upto /\ writer.upto <= order.committed /\ writer.upto \in Nat
      BY <2>3, ReadNextIs
    <3>2. QED
      BY <1>0, <3>1
  <2>5. PICK D : D = Done' \union Elems(writer'.batch)
    OBVIOUS
  <2>6. Done \subseteq D /\ Elems(Records(writer.cursor, q)) \subseteq D
    BY <1>1, <2>2, <2>4, <2>5
  <2>7. AllUpTo(stream, q, D)
    BY <2>3, <2>4, <2>6, DoneRead
  <2>8. QED
    BY <2>2, <2>4, <2>5, <2>7
<1>5. CASE RefreshRead \/ RefreshObserve \/ Gather \/ ReadGivesUp \/ WriteEnd \/ WriterPanics
  <2>1. writer'.pc # "write" \/ ~writer'.disk
    <3>0. /\ WriterAt("gather").pc = "gather" /\ WriterAt("gather") \in WriterStates
          /\ WriterAt("top").pc = "top" /\ WriterAt("top") \in WriterStates
      BY <1>0, WriterAtType
    <3>1. CASE RefreshRead \/ RefreshObserve
      BY <1>0, <3>1 DEF RefreshRead, RefreshObserve, WriterStates
    <3>2. CASE Gather
      <4>1. CASE memory # <<>>
        BY <1>0, <3>2, <4>1 DEF Gather, WriterStates
      <4>2. CASE memory = <<>>
        <5>1. writer'.pc \in {"top", "reading"}
          BY <1>0, <3>2, <4>2 DEF Gather, WriterStates
        <5>2. QED
          BY <5>1
      <4>3. QED
        BY <4>1, <4>2
    <3>3. CASE ReadGivesUp
      BY <1>0, <3>0, <3>3 DEF ReadGivesUp, WriterStates
    <3>4. CASE WriteEnd
      BY <3>0, <3>4 DEF WriteEnd
    <3>5. CASE WriterPanics
      BY <3>5 DEF WriterPanics, WriterNew
    <3>6. QED
      BY <1>5, <3>1, <3>2, <3>3, <3>4, <3>5
  <2>2. QED
    BY <2>1 DEF DiskBatch
<1>6. CASE RefreshBusy \/ SpillStep \/ SpillUnblock \/ Submit \/ UNCHANGED vars
           \/ \E c \in Clears : ClearStart(c) \/ ClearDropped(c) \/ ClearStep(c)
  <2>1. writer' = writer
    BY <1>6, SpillFrame DEF RefreshBusy, Submit, vars, ClearStart, ClearDropped, ClearStep, ClearBegin,
       ClearCommit, ClearFails, ClearRead, PurgeAfterClear, AbandonClear, ClearFinish
  <2>2. QED
    BY <1>2, <2>1
<1>7. QED
  BY <1>3, <1>4, <1>5, <1>6 DEF Next, WriterStep

LEMMA DoneConsumed ==
    ASSUME BaseInv, StampInv, KeptInv, DoneInv, [Next]_vars, ~Crash
    PROVE  /\ order'.consumed \in Nat /\ order'.consumed <= order.committed
           /\ AllUpTo(stream, order'.consumed, Done')
<1>0. /\ CountInv /\ writer \in WriterStates /\ order \in OrderStates /\ order.committed \in Nat
      /\ order.consumed \in Nat /\ order.consumed <= order.committed
      /\ stream \in Seq(Record) /\ stream \in Seq(GoodJobs \union {Gap}) /\ writer.batch \in Seq(GoodJobs)
      /\ order.committed <= Len(stream) /\ Len(stream) \in Nat
  BY DEF StampInv, Carried, BaseInv, TypeInv, PositionInv, OrderStates
<1>1. Done \subseteq Done' /\ AllUpTo(stream, order.consumed, Done')
  <2>1. Done \subseteq Done' /\ AllUpTo(stream, order.consumed, Done)
    BY <1>0, WantedShrinks DEF DoneInv
  <2>2. QED
    BY <2>1 DEF AllUpTo
<1>2. CASE order'.consumed = order.consumed
  BY <1>0, <1>1, <1>2
<1>3. ASSUME NEW p \in Nat, p <= order.committed, AllUpTo(stream, p, Done'),
             order'.consumed = IF p > order.consumed THEN p ELSE order.consumed
      PROVE  /\ order'.consumed \in Nat /\ order'.consumed <= order.committed
             /\ AllUpTo(stream, order'.consumed, Done')
  BY <1>0, <1>1, <1>3
<1>4. CASE SpillPurge
  <2>1. PICK p \in Nat : p = spill.boundary /\ p <= order.committed
    BY DEF BaseInv, TypeInv, PositionInv, SpillStates
  <2>2. order'.consumed = IF p > order.consumed THEN p ELSE order.consumed
    BY <1>0, <1>4, <2>1, SkipStreamToIs DEF SpillPurge
  <2>3. AllUpTo(stream, p, DeadJobs)
    BY <1>4, <2>1 DEF SpillPurge, KeptInv, PurgeInv
  <2>4. ASSUME NEW i \in DOMAIN stream, i <= p, stream[i] # Gap PROVE stream[i] \in Done'
    <3>1. PICK j \in GoodJobs : j = stream[i]
      BY <1>0, <2>4
    <3>2. j \in DeadJobs
      BY <2>3, <2>4, <3>1 DEF AllUpTo
    <3>3. ~Accepted(j)
      BY <3>2, DeadRejected DEF BaseInv
    <3>4. QED
      BY <1>0, <3>1, <3>3, DoneNext
  <2>5. AllUpTo(stream, p, Done')
    BY <2>4 DEF AllUpTo
  <2>6. QED
    BY <1>3, <2>1, <2>2, <2>5
<1>5. CASE ReadEnd
  <2>1. CASE order' = order
    BY <1>2, <2>1
  <2>2. CASE order' # order
    <3>1. /\ Records(writer.cursor, ReadNext) = <<>> /\ order' = DiskDone(order, ReadNext)
          /\ writer.pc = "reading"
      BY <1>5, <2>2 DEF ReadEnd
    <3>2. PICK q \in Nat : q = ReadNext /\ q <= writer.upto /\ q <= order.committed
      <4>1. ReadNext \in Nat /\ ReadNext <= writer.upto /\ writer.upto <= order.committed /\ writer.upto \in Nat
        BY <3>1, ReadNextIs
      <4>2. QED
        BY <1>0, <4>1
    <3>3. PICK D : D = Done'
      OBVIOUS
    <3>4. Done \subseteq D /\ Elems(Records(writer.cursor, q)) \subseteq D
      BY <1>1, <3>1, <3>2, <3>3, OrderEmpty
    <3>5. AllUpTo(stream, q, D)
      BY <3>1, <3>2, <3>4, DoneRead
    <3>6. order'.consumed = IF q > order.consumed THEN q ELSE order.consumed
      BY <1>0, <3>1, <3>2, DiskDoneIs
    <3>7. QED
      BY <1>3, <3>2, <3>3, <3>5, <3>6
  <2>3. QED
    BY <2>1, <2>2
<1>6. CASE ReadGivesUp
  <2>1. /\ order' = DiskDone(order, writer.upto) /\ writer.pc = "reading"
        /\ unstored' = unstored \union Ids(Records(writer.cursor, writer.upto))
    BY <1>6 DEF ReadGivesUp
  <2>2. PICK q \in Nat : q = writer.upto /\ q <= writer.upto /\ q <= order.committed /\ q <= Len(stream)
    <3>1. writer.upto \in Nat /\ writer.upto <= order.committed
      BY <2>1 DEF BaseInv, TypeInv, PositionInv, WriterStates
    <3>2. QED
      BY <1>0, <3>1
  <2>3. PICK b : b = Records(writer.cursor, q)
    OBVIOUS
  <2>4. b \in Seq(GoodJobs)
    <3>1. writer.cursor \in Nat
      BY <1>0 DEF WriterStates
    <3>2. QED
      BY <1>0, <2>2, <2>3, <3>1, RecordsIn
  <2>5. Elems(b) \subseteq Done'
    <3>1. ASSUME NEW i \in DOMAIN b PROVE b[i] \in Done'
      <4>1. PICK j \in GoodJobs : j = b[i]
        BY <2>4
      <4>2. j.id \in unstored'
        BY <2>1, <2>2, <2>3, <4>1 DEF Ids
      <4>3. QED
        BY <1>0, <4>1, <4>2, DoneNext
    <3>2. QED
      BY <3>1 DEF Elems
  <2>6. PICK D : D = Done'
    OBVIOUS
  <2>7. Done \subseteq D /\ Elems(Records(writer.cursor, q)) \subseteq D
    BY <1>1, <2>3, <2>5, <2>6
  <2>8. AllUpTo(stream, q, D)
    BY <2>1, <2>2, <2>7, DoneRead
  <2>9. order'.consumed = IF q > order.consumed THEN q ELSE order.consumed
    BY <1>0, <2>1, <2>2, DiskDoneIs
  <2>10. QED
    BY <1>3, <2>2, <2>6, <2>8, <2>9
<1>7. CASE WriteEnd \/ WriterPanics
  <2>1. writer.pc = "write"
    BY <1>7 DEF WriteEnd, WriterPanics
  <2>2. CASE order'.consumed = order.consumed
    BY <1>2, <2>2
  <2>3. CASE order'.consumed # order.consumed
    <3>1. /\ writer.disk /\ order' = DiskDone(order, in_flight.next)
          /\ writer.batch = <<>> \/ unstored' = unstored \union Ids(writer.batch)
      <4>1. CASE WriteEnd
        <5>1. ReleaseMemory(order, writer.size).consumed = order.consumed
          BY <1>0, ReleaseMemoryIs DEF WriterStates
        <5>2. QED
          BY <2>3, <4>1, <5>1 DEF WriteEnd
      <4>2. CASE WriterPanics
        <5>1. ReleaseMemory(order, writer.size).consumed = order.consumed
          BY <1>0, ReleaseMemoryIs DEF WriterStates
        <5>2. QED
          BY <2>3, <4>2, <5>1 DEF WriterPanics
      <4>3. QED
        BY <1>7, <4>1, <4>2
    <3>2. PICK p \in Nat : p = in_flight.next /\ p = writer.cursor /\ p <= order.committed
      <4>1. in_flight.next = writer.cursor /\ writer.cursor <= order.committed /\ writer.cursor \in Nat
        BY <1>0, <2>1, <3>1 DEF BaseInv, PositionInv, WriterStates
      <4>2. QED
        BY <4>1
    <3>3. order'.consumed = IF p > order.consumed THEN p ELSE order.consumed
      <4>1. order' = DiskDone(order, p)
        BY <3>1, <3>2
      <4>2. QED
        BY <1>0, <4>1, DiskDoneIs
    <3>4. AllUpTo(stream, p, Done \union Elems(writer.batch))
      BY <2>1, <3>1, <3>2 DEF DoneInv, DiskBatch
    <3>5. Elems(writer.batch) \subseteq Done'
      <4>1. CASE writer.batch = <<>>
        BY <4>1, OrderEmpty
      <4>2. CASE unstored' = unstored \union Ids(writer.batch)
        <5>1. ASSUME NEW i \in DOMAIN writer.batch PROVE writer.batch[i] \in Done'
          <6>1. PICK j \in GoodJobs : j = writer.batch[i]
            BY <1>0
          <6>2. j.id \in unstored'
            BY <4>2, <6>1 DEF Ids
          <6>3. QED
            BY <1>0, <6>1, <6>2, DoneNext
        <5>2. QED
          BY <5>1 DEF Elems
      <4>3. QED
        BY <3>1, <4>1, <4>2
    <3>6. PICK D, E : D = Done \union Elems(writer.batch) /\ E = Done'
      OBVIOUS
    <3>7. AllUpTo(stream, p, E)
      <4>1. D \subseteq E /\ AllUpTo(stream, p, D)
        BY <1>1, <3>4, <3>5, <3>6
      <4>2. QED
        BY <4>1, UpToGrows
    <3>8. QED
      BY <1>3, <3>2, <3>3, <3>6, <3>7
  <2>4. QED
    BY <2>2, <2>3
<1>8. CASE Submit \/ UNCHANGED vars \/ \E c \in Clears : ClearStart(c) \/ ClearDropped(c) \/ ClearStep(c)
  <2>1. CASE Submit
    <3>1. order'.consumed = order.consumed
      BY <1>0, <2>1 DEF Submit, OrderStates
    <3>2. QED
      BY <1>2, <3>1
  <2>2. ASSUME NEW c \in Clears, PurgeAfterClear(c) PROVE order'.consumed = order.consumed
    BY <2>2, PurgeOrder
  <2>3. ASSUME NEW c \in Clears, ClearStart(c) \/ ClearDropped(c) \/ ClearStep(c), ~PurgeAfterClear(c)
        PROVE  order' = order
    BY <2>3 DEF ClearStart, ClearDropped, ClearStep, ClearBegin, ClearCommit, ClearFails, ClearRead,
       AbandonClear, ClearFinish
  <2>4. QED
    BY <1>2, <1>8, <2>1, <2>2, <2>3 DEF vars
<1>9. CASE SpillRoll \/ SpillAppendFails \/ SpillFlush
  <2>1. order'.consumed = order.consumed
    <3>1. \A n \in Nat : FinishHandoff(order, n).consumed = order.consumed
                         /\ FinishHandoff(order, n) \in OrderStates
      BY <1>0, FinishHandoffIs
    <3>2. \A n, p \in Nat : SetCommitted(FinishHandoff(order, n), p).consumed = order.consumed
      BY <3>1, SetCommittedIs
    <3>3. Unflushed \in Nat /\ Unflushed + 0 \in Nat /\ Unflushed + 1 \in Nat
      BY UnflushedType
    <3>4. stream' \in Seq(Record)
      <4>1. Carried(Job)'
        BY CarriedJobs
      <4>2. QED
        BY <4>1 DEF Carried, Record
    <3>5. \A n \in {0, 1} : Settled(stream', n).consumed = order.consumed
      <4>1. Len(stream') \in Nat
        BY <3>4
      <4>2. QED
        BY <3>2, <3>3, <4>1 DEF Settled
    <3>6. [FinishHandoff(order, 1) EXCEPT !.blocked = TRUE].consumed = order.consumed
      <4>1. PICK o \in OrderStates : o = FinishHandoff(order, 1) /\ o.consumed = order.consumed
        BY <3>1
      <4>2. [o EXCEPT !.blocked = TRUE].consumed = o.consumed
        BY DEF OrderStates
      <4>3. QED
        BY <4>1, <4>2
    <3>7. QED
      BY <1>9, <3>5, <3>6 DEF SpillRoll, SpillAppendFails, SpillFlush
  <2>2. QED
    BY <1>2, <2>1
<1>10. CASE SpillRollTake \/ SpillPurgeTake \/ SpillTake \/ SpillAppend \/ SpillUnblock
  <2>1. order'.consumed = order.consumed
    BY <1>0, <1>10 DEF SpillRollTake, SpillPurgeTake, SpillTake, SpillAppend, SpillUnblock, OrderStates
  <2>2. QED
    BY <1>2, <2>1
<1>11. CASE RefreshRead \/ RefreshObserve \/ RefreshBusy \/ Gather \/ Write
  <2>1. order' \in {order, TryResume(order)}
    BY <1>11 DEF RefreshRead, RefreshObserve, RefreshBusy, Gather, Write
  <2>2. QED
    BY <1>0, <1>2, <2>1, TryResumeIs
<1>12. QED
  BY <1>4, <1>5, <1>6, <1>7, <1>8, <1>9, <1>10, <1>11 DEF Next, WriterStep, SpillStep

(* The queue returns to memory only from where nothing is left. *)
LEMMA ResumesDrained ==
    ASSUME BaseInv, [Next]_vars, ~Crash, ~order'.spilling, order.spilling
    PROVE  order'.handoff_jobs = 0 /\ order'.consumed >= order'.committed
<1>0. order \in OrderStates /\ writer \in WriterStates /\ spill \in SpillStates
  BY DEF BaseInv, TypeInv
<1>1. CASE Submit
  BY <1>0, <1>1 DEF Submit, OrderStates
<1>2. ASSUME NEW c \in Clears, ClearStart(c) \/ ClearDropped(c) \/ ClearStep(c)
      PROVE  order'.handoff_jobs = 0 /\ order'.consumed >= order'.committed
  <2>1. CASE PurgeAfterClear(c)
    BY <2>1, PurgeOrder
  <2>2. CASE ~PurgeAfterClear(c)
    BY <1>2, <2>2 DEF ClearStart, ClearDropped, ClearStep, ClearBegin, ClearCommit, ClearFails, ClearRead,
       AbandonClear, ClearFinish
  <2>3. QED
    BY <2>1, <2>2
<1>3. CASE SpillRoll \/ SpillAppendFails \/ SpillFlush
  <2>1. \A n \in Nat : FinishHandoff(order, n).spilling = order.spilling
                       /\ FinishHandoff(order, n) \in OrderStates
    BY <1>0, FinishHandoffIs
  <2>2. \A n, p \in Nat : SetCommitted(FinishHandoff(order, n), p).spilling = order.spilling
    BY <2>1, SetCommittedIs
  <2>3. Unflushed \in Nat /\ Unflushed + 0 \in Nat /\ Unflushed + 1 \in Nat
    BY UnflushedType
  <2>4. Len(stream') \in Nat
    <3>1. Carried(Job)'
      BY CarriedJobs
    <3>2. QED
      BY <3>1 DEF Carried, Record
  <2>5. \A n \in {0, 1} : Settled(stream', n).spilling = order.spilling
    BY <2>2, <2>3, <2>4 DEF Settled
  <2>6. [FinishHandoff(order, 1) EXCEPT !.blocked = TRUE].spilling = order.spilling
    <3>1. PICK o \in OrderStates : o = FinishHandoff(order, 1) /\ o.spilling = order.spilling
      BY <2>1
    <3>2. [o EXCEPT !.blocked = TRUE].spilling = o.spilling
      BY DEF OrderStates
    <3>3. QED
      BY <3>1, <3>2
  <2>7. QED
    BY <1>3, <2>5, <2>6 DEF SpillRoll, SpillAppendFails, SpillFlush
<1>4. CASE SpillRollTake \/ SpillPurgeTake \/ SpillTake \/ SpillAppend \/ SpillUnblock
  BY <1>0, <1>4 DEF SpillRollTake, SpillPurgeTake, SpillTake, SpillAppend, SpillUnblock, OrderStates
<1>5. CASE SpillPurge
  <2>1. PICK p \in Nat : p = spill.boundary
    BY <1>0 DEF SpillStates
  <2>2. order' = SkipStreamTo(order, p)
    BY <1>5, <2>1 DEF SpillPurge
  <2>3. QED
    BY <1>0, <2>2, SkipStreamToIs
<1>6. ASSUME NEW p \in Nat, order' = DiskDone(order, p)
      PROVE  order'.handoff_jobs = 0 /\ order'.consumed >= order'.committed
  <2>1. PICK o \in OrderStates : o = DiskDone(order, p)
    BY <1>0, DiskDoneIs
  <2>2. /\ o.handoff_jobs = order.handoff_jobs /\ o.committed = order.committed
        /\ o.spilling = IF order.handoff_jobs = 0 /\ o.consumed >= order.committed
                        THEN FALSE ELSE order.spilling
    BY <1>0, <2>1, DiskDoneIs
  <2>3. QED
    BY <1>6, <2>1, <2>2
<1>7. CASE order' = TryResume(order)
  BY <1>0, <1>7, TryResumeIs
<1>8. CASE ReadEnd \/ ReadGivesUp
  <2>1. writer.pc = "reading"
    BY <1>8 DEF ReadEnd, ReadGivesUp
  <2>2. writer.upto \in Nat /\ ReadNext \in Nat
    BY <2>1, ReadNextIs
  <2>3. order' = order \/ order' = DiskDone(order, ReadNext) \/ order' = DiskDone(order, writer.upto)
    BY <1>8 DEF ReadEnd, ReadGivesUp
  <2>4. QED
    BY <1>6, <2>2, <2>3
<1>9. CASE WriteEnd \/ WriterPanics
  <2>1. ReleaseMemory(order, writer.size).spilling = order.spilling
    BY <1>0, ReleaseMemoryIs DEF WriterStates
  <2>2. writer.pc = "write"
    BY <1>9 DEF WriteEnd, WriterPanics
  <2>3. writer.disk => in_flight.next \in Nat
    BY <2>2 DEF BaseInv, PositionInv, FlightStates
  <2>4. \/ order' = order \/ order' = ReleaseMemory(order, writer.size)
        \/ writer.disk /\ order' = DiskDone(order, in_flight.next)
    BY <1>9 DEF WriteEnd, WriterPanics
  <2>5. QED
    BY <1>6, <2>1, <2>3, <2>4
<1>10. CASE RefreshRead \/ RefreshObserve \/ RefreshBusy \/ Gather \/ Write \/ UNCHANGED vars
  <2>1. order' \in {order, TryResume(order)}
    BY <1>10 DEF RefreshRead, RefreshObserve, RefreshBusy, Gather, Write, vars
  <2>2. QED
    BY <1>7, <2>1
<1>11. QED
  BY <1>1, <1>2, <1>3, <1>4, <1>5, <1>8, <1>9, <1>10 DEF Next, WriterStep, SpillStep

(* In memory mode nothing is handed off. *)
LEMMA NothingHandedOff ==
    ASSUME BaseInv, BudgetInv, order.handoff_jobs = 0, [Next]_vars, ~Crash, ~order'.spilling
    PROVE  order'.handoff_jobs = 0
<1>0. order \in OrderStates /\ writer \in WriterStates /\ spill \in SpillStates
  BY DEF BaseInv, TypeInv
<1>1. CASE Submit
  BY <1>0, <1>1 DEF Submit, OrderStates
<1>2. ASSUME NEW c \in Clears, ClearStart(c) \/ ClearDropped(c) \/ ClearStep(c)
      PROVE  order'.handoff_jobs = 0
  <2>1. CASE PurgeAfterClear(c)
    <3>1. PICK h : /\ h = Len(Dropped(c, handoff)) + Len(Gone(c)) /\ h \in Nat
                   /\ order'.handoff_jobs = IF order.handoff_jobs >= h THEN order.handoff_jobs - h ELSE 0
      BY <2>1, PurgeOrder
    <3>2. QED
      BY <3>1
  <2>2. CASE ~PurgeAfterClear(c)
    BY <1>2, <2>2 DEF ClearStart, ClearDropped, ClearStep, ClearBegin, ClearCommit, ClearFails, ClearRead,
       AbandonClear, ClearFinish
  <2>3. QED
    BY <2>1, <2>2
<1>3. CASE SpillRoll \/ SpillAppendFails \/ SpillFlush
  <2>1. \A n \in Nat : FinishHandoff(order, n).handoff_jobs = 0
                       /\ FinishHandoff(order, n) \in OrderStates
    BY <1>0, FinishHandoffIs
  <2>2. \A n, p \in Nat : SetCommitted(FinishHandoff(order, n), p).handoff_jobs = 0
    BY <2>1, SetCommittedIs
  <2>3. Unflushed \in Nat /\ Unflushed + 0 \in Nat /\ Unflushed + 1 \in Nat
    BY UnflushedType
  <2>4. Len(stream') \in Nat
    <3>1. Carried(Job)'
      BY CarriedJobs
    <3>2. QED
      BY <3>1 DEF Carried, Record
  <2>5. \A n \in {0, 1} : Settled(stream', n).handoff_jobs = 0
    BY <2>2, <2>3, <2>4 DEF Settled
  <2>6. [FinishHandoff(order, 1) EXCEPT !.blocked = TRUE].handoff_jobs = 0
    <3>1. PICK o \in OrderStates : o = FinishHandoff(order, 1) /\ o.handoff_jobs = 0
      BY <2>1
    <3>2. [o EXCEPT !.blocked = TRUE].handoff_jobs = o.handoff_jobs
      BY DEF OrderStates
    <3>3. QED
      BY <3>1, <3>2
  <2>7. QED
    BY <1>3, <2>5, <2>6 DEF SpillRoll, SpillAppendFails, SpillFlush
<1>4. CASE SpillRollTake \/ SpillPurgeTake \/ SpillTake \/ SpillAppend \/ SpillUnblock
  BY <1>0, <1>4 DEF SpillRollTake, SpillPurgeTake, SpillTake, SpillAppend, SpillUnblock, OrderStates
<1>5. CASE SpillPurge
  <2>1. PICK p \in Nat : p = spill.boundary
    BY <1>0 DEF SpillStates
  <2>2. order' = SkipStreamTo(order, p)
    BY <1>5, <2>1 DEF SpillPurge
  <2>3. QED
    BY <1>0, <2>2, SkipStreamToIs
<1>6. CASE WriterStep \/ UNCHANGED vars
  <2>1. order'.handoff_jobs = order.handoff_jobs
    <3>1. \A n \in Nat : ReleaseMemory(order, n).handoff_jobs = order.handoff_jobs
                         /\ DiskDone(order, n).handoff_jobs = order.handoff_jobs
      BY <1>0, ReleaseMemoryIs, DiskDoneIs
    <3>2. TryResume(order).handoff_jobs = order.handoff_jobs /\ writer.size \in Nat
      BY <1>0, TryResumeIs DEF WriterStates
    <3>3. CASE ReadEnd \/ ReadGivesUp
      <4>1. writer.pc = "reading"
        BY <3>3 DEF ReadEnd, ReadGivesUp
      <4>2. writer.upto \in Nat /\ ReadNext \in Nat
        BY <4>1, ReadNextIs
      <4>3. order' = order \/ order' = DiskDone(order, ReadNext) \/ order' = DiskDone(order, writer.upto)
        BY <3>3 DEF ReadEnd, ReadGivesUp
      <4>4. QED
        BY <3>1, <4>2, <4>3
    <3>4. CASE WriteEnd \/ WriterPanics
      <4>1. writer.pc = "write"
        BY <3>4 DEF WriteEnd, WriterPanics
      <4>2. writer.disk => in_flight.next \in Nat
        BY <4>1 DEF BaseInv, PositionInv, FlightStates
      <4>3. \/ order' = order \/ order' = ReleaseMemory(order, writer.size)
            \/ writer.disk /\ order' = DiskDone(order, in_flight.next)
        BY <3>4 DEF WriteEnd, WriterPanics
      <4>4. QED
        BY <3>1, <3>2, <4>2, <4>3
    <3>5. CASE RefreshRead \/ RefreshObserve \/ RefreshBusy \/ Gather \/ Write \/ UNCHANGED vars
      <4>1. order' \in {order, TryResume(order)}
        BY <3>5 DEF RefreshRead, RefreshObserve, RefreshBusy, Gather, Write, vars
      <4>2. QED
        BY <3>2, <4>1
    <3>6. QED
      BY <1>6, <3>3, <3>4, <3>5 DEF WriterStep
  <2>2. QED
    BY <2>1
<1>7. QED
  BY <1>1, <1>2, <1>3, <1>4, <1>5, <1>6 DEF Next, SpillStep

LEMMA DoneStep ==
    ASSUME BaseInv, StampInv, BudgetInv, KeptInv, DoneInv, [Next]_vars, BaseInv', BudgetInv'
    PROVE  DoneInv'
<1>0. /\ CountInv /\ order \in OrderStates /\ order.committed \in Nat /\ order.consumed \in Nat
      /\ stream \in Seq(Record) /\ Len(stream) \in Nat /\ order.committed <= Len(stream)
      /\ DOMAIN stream = 1..Len(stream)
  BY DEF StampInv, BaseInv, TypeInv, PositionInv, OrderStates
<1>01. /\ order' \in OrderStates /\ stream' \in Seq(Record) /\ Len(stream') \in Nat
       /\ DOMAIN stream' = 1..Len(stream') /\ order'.committed \in Nat /\ order'.consumed \in Nat
  BY DEF BaseInv, TypeInv, OrderStates
<1>1. CASE Crash
  <2>1. /\ order'.consumed = 0 /\ order'.handoff_jobs = 0 /\ (~order'.spilling => stream' = <<>>)
        /\ writer'.pc = "top"
    <3>1. order' = NewOrder(stream') /\ writer' = WriterNew(0, 0)
      BY <1>1 DEF Crash
    <3>2. NewOrder(stream').spilling = (stream' # <<>>)
      BY DEF NewOrder
    <3>3. QED
      BY <3>1, <3>2 DEF NewOrder, WriterNew
  <2>2. AllUpTo(stream, order.consumed, Done)' /\ ~DiskBatch'
    BY <1>01, <2>1 DEF AllUpTo, DiskBatch
  <2>3. ~order'.spilling => AllUpTo(stream, Len(stream), Done)'
    BY <2>1 DEF AllUpTo
  <2>4. QED
    BY <2>1, <2>2, <2>3 DEF DoneInv
<1>2. CASE ~Crash
  <2>1. \A i \in DOMAIN stream' : stream'[i] # Gap =>
            \/ i \in DOMAIN stream /\ stream'[i] = stream[i]
            \/ SpillAppend /\ i = Len(stream) + 1 /\ stream'[i] = spill.job
    <3>1. CASE SpillStep
      BY <3>1, StreamChanges
    <3>2. CASE ~SpillStep
      <4>1. stream' = stream
        BY <1>2, <3>2, WriterFrame DEF Next, vars, Submit, SpillUnblock, ClearStart, ClearDropped, ClearStep,
           ClearBegin, ClearCommit, ClearFails, ClearRead, PurgeAfterClear, AbandonClear, ClearFinish
      <4>2. QED
        BY <4>1
    <3>3. QED
      BY <3>1, <3>2
  <2>2. ASSUME NEW p \in Nat, p <= order.committed, NEW D, AllUpTo(stream, p, D)
        PROVE  \A i \in DOMAIN stream' : i <= p /\ stream'[i] # Gap => stream'[i] \in D
    <3>1. ASSUME NEW i \in DOMAIN stream', i <= p, stream'[i] # Gap PROVE stream'[i] \in D
      <4>1. i # Len(stream) + 1
        BY <1>0, <1>01, <2>2, <3>1
      <4>2. i \in DOMAIN stream /\ stream'[i] = stream[i]
        BY <2>1, <3>1, <4>1
      <4>3. QED
        BY <2>2, <3>1, <4>2 DEF AllUpTo
    <3>2. QED
      BY <3>1
  <2>3. AllUpTo(stream, order.consumed, Done)'
    <3>0. PICK p, D : p = order'.consumed /\ D = Done'
      OBVIOUS
    <3>1. p \in Nat /\ p <= order.committed /\ AllUpTo(stream, p, D)
      BY <1>2, <3>0, DoneConsumed
    <3>2. \A i \in DOMAIN stream' : i <= p /\ stream'[i] # Gap => stream'[i] \in D
      BY <2>2, <3>1
    <3>3. QED
      BY <3>0, <3>2 DEF AllUpTo
  <2>4. DiskBatch' => AllUpTo(stream, writer.cursor, Done \union Elems(writer.batch))'
    <3>1. SUFFICES ASSUME DiskBatch'
                   PROVE  AllUpTo(stream, writer.cursor, Done \union Elems(writer.batch))'
      OBVIOUS
    <3>0. PICK p, D : p = writer'.cursor /\ D = Done' \union Elems(writer'.batch)
      OBVIOUS
    <3>2. p \in Nat /\ p <= order.committed /\ AllUpTo(stream, p, D)
      BY <1>2, <3>0, <3>1, DoneBatch
    <3>3. \A i \in DOMAIN stream' : i <= p /\ stream'[i] # Gap => stream'[i] \in D
      BY <2>2, <3>2
    <3>4. QED
      BY <3>0, <3>3 DEF AllUpTo
  <2>5. ASSUME ~order'.spilling
        PROVE  order'.handoff_jobs = 0 /\ AllUpTo(stream, Len(stream), Done)'
    <3>1. CASE order.spilling
      <4>1. order'.handoff_jobs = 0 /\ order'.consumed >= order'.committed
        BY <1>2, <2>5, <3>1, ResumesDrained
      <4>2. UnflushedIn(stream', order'.committed) = 0
        <5>1. /\ Len(handoff') \in Nat /\ Len(held') \in Nat
              /\ UnflushedIn(stream', order'.committed) \in Nat
          <6>1. handoff' \in Seq(Job) /\ held' \in Seq(Job)
            BY DEF BaseInv, TypeInv
          <6>2. order'.committed <= Len(stream')
            BY DEF BaseInv, PositionInv
          <6>3. Leftover \in Job
            BY DEF Leftover, Job, Unresolved
          <6>4. UnflushedIn(stream', order'.committed) \in Nat
            BY <1>01, <6>2, <6>3, UnflushedAppend
          <6>5. QED
            BY <6>1, <6>4
        <5>2. order'.handoff_jobs = Len(handoff') + Len(held') + UnflushedIn(stream', order'.committed)
                                    + (IF spill'.pc = "job" THEN 1 ELSE 0)
          BY UnflushedPrimed DEF BudgetInv, BudgetExact
        <5>3. QED
          BY <4>1, <5>1, <5>2
      <4>3. ASSUME NEW i \in DOMAIN stream', stream'[i] # Gap PROVE i <= order'.consumed
        <5>1. ~(i > order'.committed)
          BY <1>01, <4>2, <4>3, UnflushedGaps
        <5>2. QED
          BY <1>01, <4>1, <5>1
      <4>4. QED
        BY <2>3, <4>1, <4>3 DEF AllUpTo
    <3>2. CASE ~order.spilling
      <4>1. order.handoff_jobs = 0 /\ AllUpTo(stream, Len(stream), Done)
        BY <3>2 DEF DoneInv
      <4>2. order'.handoff_jobs = 0
        BY <1>2, <2>5, <4>1, NothingHandedOff
      <4>3. spill.pc # "job"
        <5>1. Len(handoff) \in Nat /\ Len(held) \in Nat /\ Unflushed \in Nat
          BY BudgetTypes
        <5>2. order.handoff_jobs = Len(handoff) + Len(held) + Unflushed
                                   + (IF spill.pc = "job" THEN 1 ELSE 0)
          BY DEF BudgetInv, BudgetExact
        <5>3. QED
          BY <4>1, <5>1, <5>2
      <4>4. ~SpillAppend
        BY <4>3 DEF SpillAppend
      <4>5. Done \subseteq Done'
        BY <1>0, WantedShrinks
      <4>6. \A i \in DOMAIN stream : i <= Len(stream)
        BY <1>0
      <4>7. \A i \in DOMAIN stream' : stream'[i] # Gap => stream'[i] \in Done'
        BY <2>1, <4>1, <4>4, <4>5, <4>6 DEF AllUpTo
      <4>8. QED
        BY <4>2, <4>7 DEF AllUpTo
    <3>3. QED
      BY <3>1, <3>2
  <2>6. QED
    BY <2>3, <2>4, <2>5 DEF DoneInv
<1>3. QED
  BY <1>1, <1>2

-----------------------------------------------------------------------------
(* What is stored next was captured last.                                  *)

(* A step that stores nothing. *)
LEMMA LaterGrows ==
    ASSUME BaseInv, CountInv, [Next]_vars, UNCHANGED written
    PROVE  Later \subseteq Later'
<1>1. captured \in Nat /\ captured' \in {captured, captured + 1}
  <2>1. captured \in Nat
    BY DEF BaseInv, TypeInv
  <2>2. captured' \in {captured, captured + 1}
    BY SpillFrame, WriterFrame DEF Next, vars, Submit, Crash, ClearStart, ClearDropped, ClearStep,
       ClearBegin, ClearCommit, ClearFails, ClearRead, PurgeAfterClear, AbandonClear, ClearFinish
  <2>3. QED
    BY <2>1, <2>2
<1>2. ASSUME NEW j \in Later PROVE j \in Later'
  <2>1. /\ j \in GoodJobs /\ j.id <= captured /\ j.id \in Nat
        /\ j \in Live => \A i \in DOMAIN written : written[i].id < j.id
    BY DEF Later, GoodJobs, Job
  <2>2. j \in GoodJobs' /\ (j \in Live' => j \in Live)
    BY <2>1, WantedShrinks
  <2>3. j.id <= captured'
    BY <1>1, <2>1
  <2>4. j \in Live' => \A i \in DOMAIN written' : written'[i].id < j.id
    BY <2>1, <2>2
  <2>5. QED
    BY <2>2, <2>3, <2>4 DEF Later
<1>3. QED
  BY <1>2

LEMMA LaterSubmit ==
    ASSUME BaseInv, StampInv, LaterInv, Submit
    PROVE  LaterInv'
<1>0. /\ CountInv /\ GenInv /\ [Next]_vars /\ UNCHANGED written /\ captured' = captured + 1
      /\ captured \in Nat /\ written \in Seq([id : Nat, at : Nat, gen : Nat])
  BY DEF StampInv, Next, Submit, dbVars, BaseInv, TypeInv
<1>1. PICK j \in GoodJobs : j = NewJob /\ j.id = captured + 1
  BY <1>0, NewJobGood DEF NewJob
<1>2. PICK L : L = Later'
  OBVIOUS
<1>3. \A i \in DOMAIN written : written[i].id \in Nat /\ written[i].id <= captured
  <2>0. PICK T : T = [id : Nat, at : Nat, gen : Nat] /\ written \in Seq(T)
    BY <1>0
  <2>1. \A i \in DOMAIN written : written[i] \in T
    <3>1. written \in Seq(T)
      BY <2>0
    <3>2. QED
      BY <3>1
  <2>2. \A i \in DOMAIN written : written[i].id <= captured
    BY DEF LaterInv
  <2>3. QED
    BY <2>0, <2>1, <2>2
<1>4. j \in L
  <2>1. j \in GoodJobs' /\ j.id <= captured'
    BY <1>0, <1>1, WantedShrinks
  <2>2. \A i \in DOMAIN written' : written'[i].id < j.id
    BY <1>0, <1>1, <1>3
  <2>3. QED
    BY <1>2, <2>1, <2>2 DEF Later
<1>5. Carried(L)
  <2>1. Later \subseteq L
    BY <1>0, <1>2, LaterGrows
  <2>2. Seq(Later) \subseteq Seq(L) /\ Seq(Later \union {Gap}) \subseteq Seq(L \union {Gap})
    <3>1. ASSUME NEW A, NEW B, A \subseteq B, NEW s \in Seq(A) PROVE s \in Seq(B)
      BY <3>1, RestrictSeq
    <3>2. QED
      BY <2>1, <3>1
  <2>3. QED
    BY <2>1, <2>2 DEF LaterInv, Carried
<1>6. Carried(L)'
  BY <1>1, <1>4, <1>5, CarrySubmit
<1>7. \A i \in DOMAIN written' : written'[i].id <= captured'
  BY <1>0, <1>3
<1>8. QED
  BY <1>2, <1>6, <1>7 DEF LaterInv, Carried

LEMMA LaterOther ==
    ASSUME BaseInv, StampInv, LaterInv, [Next]_vars, ~Submit, UNCHANGED written
    PROVE  LaterInv'
<1>0. CountInv
  BY DEF StampInv
<1>1. captured' = captured
  BY SpillFrame, WriterFrame DEF Next, vars, Crash, ClearStart, ClearDropped, ClearStep,
     ClearBegin, ClearCommit, ClearFails, ClearRead, PurgeAfterClear, AbandonClear, ClearFinish
<1>2. PICK S, T : S = Later /\ T = Later'
  OBVIOUS
<1>3. Carried(S) /\ S \subseteq T
  BY <1>0, <1>2, LaterGrows DEF LaterInv
<1>4. Carried(S)'
  <2>1. CASE UNCHANGED vars
    BY <1>3, <2>1, CarrySame DEF vars, queueVars
  <2>2. CASE Next
    BY <1>3, <2>2, CarryClear, CarrySpill, CarryWriter, CarryCrash DEF Next
  <2>3. QED
    BY <2>1, <2>2
<1>5. Carried(T)'
  BY <1>3, <1>4, CarriedGrows
<1>6. \A i \in DOMAIN written' : written'[i].id <= captured'
  BY <1>1 DEF LaterInv
<1>7. QED
  BY <1>2, <1>5, <1>6 DEF LaterInv, Carried

(* Write stores the job at the head of the batch, which is ahead of every  *)
(* other one.                                                              *)
LEMMA LaterWrite ==
    ASSUME BaseInv, StampInv, Chain(Fits), DoneInv, LaterInv, CaptureOrder, Write, ~UNCHANGED written
    PROVE  LaterInv' /\ CaptureOrder'
<1>0. /\ CountInv /\ [Next]_vars /\ UNCHANGED <<queueVars, stream, spill, captured, unstored, passed>>
      /\ writer' = [writer EXCEPT !.batch = Tail(@)] /\ writer \in WriterStates
      /\ writer.batch # <<>> /\ writer.pc = "write"
      /\ written \in Seq([id : Nat, at : Nat, gen : Nat]) /\ Len(written) \in Nat
      /\ DOMAIN written = 1..Len(written) /\ captured \in Nat
  BY DEF StampInv, Next, WriterStep, Write, BaseInv, TypeInv
<1>1. /\ memory \in Seq(Later) /\ handoff \in Seq(Later) /\ held \in Seq(Later)
      /\ stream \in Seq(Later \union {Gap}) /\ writer.batch \in Seq(Later)
      /\ spill.pc = "job" => spill.job \in Later
  BY DEF LaterInv, Carried
<1>2. PICK b \in Later : b = Head(writer.batch)
  BY <1>0, <1>1, HeadTailProperties
<1>3. b \in GoodJobs /\ b.id \in Nat /\ b.id <= captured /\ Accepted(b) /\ ~Stored(b) /\ b \in Wanted
  <2>1. b \in GoodJobs /\ b.id \in Nat /\ b.id <= captured
    BY DEF Later, GoodJobs, Job
  <2>2. Accepted(b) /\ ~Stored(b)
    BY <1>2 DEF Write
  <2>3. QED
    BY <2>1, <2>2 DEF Wanted
<1>4. PICK e \in [id : Nat, at : Nat, gen : Nat] : e.id = b.id /\ written' = Append(written, e)
  <2>1. PICK e : e = [id |-> b.id, at |-> b.at, gen |-> generation]
    OBVIOUS
  <2>2. written' = Append(written, e)
    BY <1>2, <1>3, <2>1 DEF Write
  <2>3. e \in [id : Nat, at : Nat, gen : Nat] /\ e.id = b.id
    BY <1>3, <2>1 DEF GoodJobs, Job, BaseInv, TypeInv
  <2>4. QED
    BY <2>2, <2>3
<1>5. /\ DOMAIN written' = 1..(Len(written) + 1) /\ written'[Len(written) + 1] = e
      /\ \A i \in 1..Len(written) : written'[i] = written[i]
  <2>1. written \in Seq([id : Nat, at : Nat, gen : Nat])
    BY <1>0
  <2>2. /\ DOMAIN Append(written, e) = 1..(Len(written) + 1)
        /\ Append(written, e)[Len(written) + 1] = e
        /\ \A i \in 1..Len(written) : Append(written, e)[i] = written[i]
    BY <2>1, AppendProperties
  <2>3. QED
    BY <1>4, <2>2
<1>6. \A i \in DOMAIN written' : \/ i \in DOMAIN written /\ written'[i] = written[i]
                                 \/ i = Len(written) + 1 /\ written'[i] = e
  <2>1. \A i \in 1..(Len(written) + 1) : i \in 1..Len(written) \/ i = Len(written) + 1
    BY <1>0
  <2>2. QED
    BY <1>0, <1>5, <2>1
<1>7. ASSUME NEW x \in Later, x \in Live' => b.id < x.id PROVE x \in Later'
  <2>1. /\ x \in GoodJobs /\ x.id <= captured
        /\ x \in Live => \A i \in DOMAIN written : written[i].id < x.id
    BY DEF Later
  <2>2. x \in GoodJobs' /\ (x \in Live' => x \in Live)
    BY <1>0, <2>1, WantedShrinks
  <2>3. x \in Live' => \A i \in DOMAIN written' : written'[i].id < x.id
    BY <1>4, <1>6, <1>7, <2>1, <2>2
  <2>4. QED
    BY <1>0, <2>1, <2>2, <2>3 DEF Later
<1>8. ASSUME NEW x \in Later, <<b, x>> \in Fits PROVE x \in Later'
  <2>1. x \in Live' => x \in Live
    BY <1>0, WantedShrinks DEF Later
  <2>2. x \in Live => b.id < x.id
    BY <1>3, <1>8, FitsIs
  <2>3. QED
    BY <1>7, <2>1, <2>2
<1>9. /\ InOrder(writer.batch, Fits)
      /\ Line(Elems(writer.batch), Elems(memory), Elems(stream), Unread, InHand, Elems(held),
              Elems(handoff), Fits)
  BY DEF Chain
<1>10. /\ Tail(writer.batch) \in Seq(Later)
       /\ Elems(writer.batch) = Elems(Tail(writer.batch)) \union {b}
       /\ \A x \in Elems(Tail(writer.batch)) : <<b, x>> \in Fits
  <2>1. PICK R : R = Fits
    OBVIOUS
  <2>2. writer.batch \in Seq(Later) /\ writer.batch # <<>> /\ InOrder(writer.batch, R)
    BY <1>0, <1>1, <1>9, <2>1
  <2>3. Tail(writer.batch) \in Seq(Later)
    BY <2>2, OrderTail
  <2>4. Elems(writer.batch) = Elems(Tail(writer.batch)) \union {Head(writer.batch)}
    BY <2>2, OrderTail
  <2>5. Ahead({Head(writer.batch)}, Elems(Tail(writer.batch)), R)
    BY <2>2, OrderTail
  <2>6. QED
    BY <1>2, <2>1, <2>3, <2>4, <2>5 DEF Ahead
<1>11. b \in Later'
  <2>1. b \in Done'
    BY <1>2, HeadDone DEF Write
  <2>2. QED
    BY <1>7, <2>1 DEF Done
<1>12. \A X : Ahead(Elems(writer.batch), X, Fits) => \A x \in X : <<b, x>> \in Fits
  BY <1>10 DEF Ahead
<1>13. PICK L : L = Later'
  OBVIOUS
<1>14. ASSUME NEW s \in Seq(Later), \A x \in Elems(s) : <<b, x>> \in Fits PROVE s \in Seq(L)
  <2>1. ASSUME NEW i \in DOMAIN s PROVE s[i] \in L
    <3>1. s[i] \in Later /\ s[i] \in Elems(s)
      BY DEF Elems
    <3>2. QED
      BY <1>8, <1>13, <1>14, <3>1
  <2>2. QED
    BY <2>1, RestrictSeq
<1>15. memory' \in Seq(L) /\ handoff' \in Seq(L) /\ held' \in Seq(L)
  <2>1. memory' = memory /\ handoff' = handoff /\ held' = held
    BY <1>0 DEF queueVars
  <2>2. /\ \A x \in Elems(memory) : <<b, x>> \in Fits
        /\ \A x \in Elems(handoff) : <<b, x>> \in Fits
        /\ \A x \in Elems(held) : <<b, x>> \in Fits
    BY <1>9, <1>12 DEF Line
  <2>3. QED
    BY <1>1, <1>14, <2>1, <2>2
<1>16. writer'.batch \in Seq(L)
  <2>1. writer'.batch = Tail(writer.batch)
    BY <1>0 DEF WriterStates
  <2>2. QED
    BY <1>10, <1>14, <2>1
<1>17. spill'.pc = "job" => spill'.job \in L
  <2>1. SUFFICES ASSUME spill.pc = "job" PROVE spill.job \in L
    BY <1>0
  <2>2. spill.job \in InHand
    BY <2>1 DEF InHand
  <2>3. <<b, spill.job>> \in Fits
    BY <1>9, <1>12, <2>2 DEF Line
  <2>4. QED
    BY <1>1, <1>8, <1>13, <2>1, <2>3
<1>18. stream' \in Seq(L \union {Gap})
  <2>1. ASSUME NEW i \in DOMAIN stream PROVE stream[i] \in L \union {Gap}
    <3>1. CASE stream[i] = Gap
      BY <3>1
    <3>2. CASE stream[i] # Gap
      <4>1. PICK x \in Later : x = stream[i]
        BY <1>1, <3>2
      <4>2. CASE x \in Unread
        <5>1. <<b, x>> \in Fits
          BY <1>9, <1>12, <4>2 DEF Line
        <5>2. QED
          BY <1>8, <1>13, <4>1, <5>1
      <4>3. CASE x \notin Unread
        <5>1. DiskBatch /\ ~(i > writer.cursor)
          BY <4>1, <4>3 DEF Unread
        <5>2. i \in Nat /\ writer.cursor \in Nat
          BY <1>0, <1>1 DEF WriterStates
        <5>3. x \in Done \union Elems(writer.batch)
          BY <3>2, <4>1, <5>1, <5>2 DEF DoneInv, AllUpTo
        <5>4. CASE x \in Done
          <6>1. x \notin Live' /\ x \in GoodJobs
            BY <1>0, <5>4, WantedShrinks DEF Done
          <6>2. QED
            BY <1>7, <1>13, <4>1, <6>1
        <5>5. CASE x = b
          BY <1>11, <1>13, <4>1, <5>5
        <5>6. CASE x \in Elems(Tail(writer.batch))
          BY <1>8, <1>10, <1>13, <4>1, <5>6
        <5>7. QED
          BY <1>10, <5>3, <5>4, <5>5, <5>6
      <4>4. QED
        BY <4>2, <4>3
    <3>3. QED
      BY <3>1, <3>2
  <2>2. stream \in Seq(L \union {Gap})
    BY <1>1, <2>1, RestrictSeq
  <2>3. QED
    BY <1>0, <2>2
<1>19. LaterInv'
  <2>1. \A i \in DOMAIN written' : written'[i].id <= captured'
    BY <1>0, <1>3, <1>4, <1>6 DEF LaterInv
  <2>2. QED
    BY <1>13, <1>15, <1>16, <1>17, <1>18, <2>1 DEF LaterInv, Carried
<1>20. ASSUME NEW i \in DOMAIN written', NEW k \in DOMAIN written', i < k
       PROVE  written'[i].id < written'[k].id \/ written'[k].id \in unstored' \union passed'
  <2>0. i \in Nat /\ k \in Nat /\ k <= Len(written) + 1
    BY <1>0, <1>5
  <2>1. i \in DOMAIN written /\ written'[i] = written[i]
    BY <1>0, <1>6, <1>20, <2>0
  <2>2. CASE k \in DOMAIN written /\ written'[k] = written[k]
    BY <1>0, <1>20, <2>1, <2>2 DEF CaptureOrder
  <2>3. CASE k = Len(written) + 1 /\ written'[k] = e
    <3>1. CASE b \in Live
      <4>1. written[i].id < b.id
        BY <2>1, <3>1 DEF Later
      <4>2. QED
        BY <1>4, <2>1, <2>3, <4>1
    <3>2. CASE b \notin Live
      <4>1. b.id \in unstored \union passed
        BY <1>3, <3>2 DEF Live
      <4>2. QED
        BY <1>0, <1>4, <2>3, <4>1
    <3>3. QED
      BY <3>1, <3>2
  <2>4. QED
    BY <1>6, <2>2, <2>3
<1>21. QED
  BY <1>19, <1>20 DEF CaptureOrder

LEMMA OrderInit == Init => OrderInv
<1> SUFFICES ASSUME Init PROVE OrderInv
  OBVIOUS
<1>0. /\ memory = <<>> /\ handoff = <<>> /\ held = <<>> /\ written = <<>> /\ captured = 1
      /\ stream = <<>> \/ stream = <<Leftover>>
      /\ order = NewOrder(stream) /\ writer.batch = <<>> /\ writer.pc = "top" /\ spill.pc = "step"
  BY DEF Init, WriterNew, SpillIdle
<1>1. Chain(Fits)
  <2>1. PICK R : R = Fits
    OBVIOUS
  <2>2. InOrder(<<>>, R) /\ Elems(<<>>) = {}
    BY OrderEmpty
  <2>3. InOrder(stream, R)
    <3>1. CASE stream = <<>>
      BY <2>2, <3>1
    <3>2. CASE stream = <<Leftover>>
      BY <3>2 DEF InOrder
    <3>3. QED
      BY <1>0, <3>1, <3>2
  <2>4. InHand = {} /\ Reading = {}
    BY <1>0 DEF InHand, Reading
  <2>5. \A X : Ahead({}, X, R) /\ Ahead(X, {}, R)
    BY DEF Ahead
  <2>6. Chain(R)
    BY <1>0, <2>2, <2>3, <2>4, <2>5 DEF Chain, Line
  <2>7. QED
    BY <2>1, <2>6
<1>2. DoneInv
  <2>1. order.consumed = 0 /\ order.handoff_jobs = 0 /\ (~order.spilling => stream = <<>>)
    <3>1. NewOrder(stream).spilling = (stream # <<>>)
      BY DEF NewOrder
    <3>2. QED
      BY <1>0, <3>1 DEF NewOrder
  <2>2. stream \in Seq(Record)
    BY BaseInit DEF BaseInv, TypeInv
  <2>3. \A i \in DOMAIN stream : ~(i <= 0)
    BY <2>2
  <2>4. AllUpTo(stream, order.consumed, Done) /\ ~DiskBatch
    BY <1>0, <2>1, <2>3 DEF AllUpTo, DiskBatch
  <2>5. ~order.spilling => AllUpTo(stream, Len(stream), Done)
    BY <2>1 DEF AllUpTo
  <2>6. QED
    BY <2>1, <2>4, <2>5 DEF DoneInv
<1>3. LaterInv
  <2>1. Leftover \in GoodJobs
    <3>1. Leftover \in Job
      BY DEF Leftover, Job, Unresolved
    <3>2. JobOK(Leftover)
      BY DEF Leftover, JobOK, Init, Unresolved
    <3>3. QED
      BY <3>1, <3>2 DEF GoodJobs
  <2>2. Leftover \in Later
    BY <1>0, <2>1 DEF Later, Leftover
  <2>3. PICK L : L = Later
    OBVIOUS
  <2>4. stream \in Seq(L \union {Gap})
    <3>1. <<Leftover>> \in Seq(L \union {Gap}) /\ <<>> \in Seq(L \union {Gap})
      BY <2>2, <2>3, EmptySeq
    <3>2. QED
      BY <1>0, <3>1
  <2>5. Carried(L)
    BY <1>0, <2>4, EmptySeq DEF Carried
  <2>6. \A i \in DOMAIN written : written[i].id <= captured
    BY <1>0
  <2>7. QED
    BY <2>3, <2>5, <2>6 DEF LaterInv
<1>4. CaptureOrder
  BY <1>0 DEF CaptureOrder
<1>5. QED
  BY <1>1, <1>2, <1>3, <1>4 DEF OrderInv

LEMMA OrderStep ==
    ASSUME BaseInv, StampInv, HeldInv, BudgetInv, KeptInv, OrderInv, [Next]_vars, BaseInv', BudgetInv'
    PROVE  OrderInv'
<1>0. Chain(Fits) /\ DoneInv /\ LaterInv /\ CaptureOrder
  BY DEF OrderInv
<1>1. Chain(Fits)'
  BY <1>0, ChainStep
<1>2. DoneInv'
  BY <1>0, DoneStep
<1>3. LaterInv' /\ CaptureOrder'
  <2>1. CASE UNCHANGED written
    <3>1. LaterInv'
      BY <1>0, <2>1, LaterSubmit, LaterOther
    <3>2. unstored \subseteq unstored' /\ passed \subseteq passed'
      BY HistoryGrows
    <3>3. CaptureOrder'
      BY <1>0, <2>1, <3>2 DEF CaptureOrder
    <3>4. QED
      BY <3>1, <3>3
  <2>2. CASE ~UNCHANGED written
    <3>1. Write
      BY <2>2, SpillFrame DEF Next, vars, dbVars, Submit, ClearStart, ClearDropped, ClearStep, Crash,
         ClearBegin, ClearCommit, ClearFails, ClearRead, PurgeAfterClear, AbandonClear, ClearFinish,
         WriterStep, RefreshRead, RefreshObserve, RefreshBusy, Gather, ReadEnd, ReadGivesUp, WriteEnd,
         WriterPanics
    <3>2. QED
      BY <1>0, <2>2, <3>1, LaterWrite
  <2>3. QED
    BY <2>1, <2>2
<1>4. QED
  BY <1>1, <1>2, <1>3 DEF OrderInv

(***************************************************************************)
(* CaptureOrder: the switch between memory and files never lets a job      *)
(* overtake an earlier one.  try_enter_memory is closed while the hand-off *)
(* or the files hold anything that may still be stored (DoneInv), gather   *)
(* takes memory before files, and next_step takes the hand-off from its    *)
(* front, so that batch, memory, files and hand-off form a line in the     *)
(* order of capture (Chain) behind all that is stored (LaterInv).  What is *)
(* out of line is what no transaction accepts any more, what was given up, *)
(* and what was passed while held back.                                    *)
(***************************************************************************)
THEOREM JobsStoredInOrder == Spec => []CaptureOrder
<1>1. BaseInv /\ StampInv /\ HeldInv /\ BudgetInv /\ KeptInv /\ OrderInv /\ [Next]_vars
        /\ BaseInv' /\ BudgetInv' => OrderInv'
  BY OrderStep
<1>2. OrderInv => CaptureOrder
  BY DEF OrderInv
<1>3. QED
  BY <1>1, <1>2, OrderInit, KeptInvariance, HeldInvariance, BudgetInvariance, PTL DEF Spec
=============================================================================
