-------------------------- MODULE SchedulerProofs ---------------------------
(***************************************************************************)
(* ClaimInv is an invariant of the scheduler for every number of slots,    *)
(* processes and tokens and all settings that satisfy LeaseAssumption;     *)
(* SingleExecutor and HoldersAreCurrent follow, and the refinement of       *)
(* SlotLifecycle.                                                          *)
(***************************************************************************)
EXTENDS SchedulerLease, FiniteSetTheorems, TLAPS

USE DEF Statuses, Modes, Phases

M == Cardinality(Workers)

-----------------------------------------------------------------------------
(* Facts about Room *)

\* MaxConcurrent is a positive number.
LEMMA TokensPositive == M \in Nat /\ M >= 1
  BY ConstantsAssumption, FS_CardinalityType, FS_EmptySet DEF M

\* More tokens free within a time never reduce the count of Room.
LEMMA FreeCount ==
  ASSUME NEW F \in SUBSET Workers, NEW G \in SUBSET Workers, F \subseteq G
  PROVE  /\ Cardinality(F) \in Nat /\ Cardinality(G) \in Nat
         /\ Cardinality(F) <= Cardinality(G) /\ Cardinality(G) <= M
  <1>1. IsFiniteSet(F) /\ IsFiniteSet(G)
    BY ConstantsAssumption, FS_Subset
  <1>2. QED
    BY <1>1, ConstantsAssumption, FS_Subset, FS_CardinalityType DEF M

\* Room is not lost when jobs end early or fewer slots wait.
LEMMA RoomMonotone ==
  ASSUME NEW f \in [Workers -> Nat], NEW g \in [Workers -> Nat],
         NEW l \in Int, NEW n \in Nat, NEW m \in Nat,
         m <= n, \A w \in Workers : g[w] <= f[w], Room(f, l, n)
  PROVE  Room(g, l, m)
  <1> SUFFICES ASSUME NEW d \in 0..m, NEW k \in 1..M, d * M + k <= m
               PROVE  Cardinality({w \in Workers : g[w] <= l - (d + 1) * JobTimeout}) >= k
    BY DEF Room, M
  <1> DEFINE t == l - (d + 1) * JobTimeout
             F == {w \in Workers : f[w] <= t}
             G == {w \in Workers : g[w] <= t}
  <1>1. d * M \in Nat /\ t \in Int
    BY ConstantsAssumption, TokensPositive
  <1>2. d * M + k <= n
    BY <1>1, TokensPositive
  <1>3. Cardinality(F) >= k
    BY <1>2 DEF Room, M
  <1>4. F \subseteq G
    BY <1>1
  <1> HIDE DEF F, G
  <1>5. Cardinality(G) >= k
    <2>1. F \in SUBSET Workers /\ G \in SUBSET Workers
      BY DEF F, G
    <2>2. QED
      BY <1>3, <1>4, <2>1, FreeCount, TokensPositive
  <1>6. QED
    BY <1>5 DEF G

\* Room stands still while time passes and every token is busy.
LEMMA RoomAdvance ==
  ASSUME NEW f \in [Workers -> Nat], NEW g \in [Workers -> Nat],
         NEW l \in Int, NEW n \in Nat,
         \A w \in Workers : g[w] = f[w] - 1, Room(f, l, n)
  PROVE  Room(g, l - 1, n)
  <1> SUFFICES ASSUME NEW d \in 0..n, NEW k \in 1..M, d * M + k <= n
               PROVE  Cardinality({w \in Workers : g[w] <= l - 1 - (d + 1) * JobTimeout}) >= k
    BY DEF Room, M
  <1> DEFINE x == (d + 1) * JobTimeout
  <1>1. x \in Int
    BY ConstantsAssumption
  <1>2. Cardinality({w \in Workers : f[w] <= l - x}) >= k
    BY DEF Room, M
  <1> HIDE DEF x
  <1>3. {w \in Workers : f[w] <= l - x} = {w \in Workers : g[w] <= l - 1 - x}
    BY <1>1
  <1>4. QED
    BY <1>2, <1>3 DEF x

\* A slot that waits has a whole job's time left on its lease.
LEMMA RoomLease ==
  ASSUME NEW f \in [Workers -> Nat], NEW l \in Int, NEW n \in Nat, n >= 1,
         Room(f, l, n)
  PROVE  l >= JobTimeout
  <1>1. Cardinality({w \in Workers : f[w] <= l - JobTimeout}) >= 1
    <2>1. 0 \in 0..n /\ 1 \in 1..M /\ 0 * M + 1 <= n
      BY ConstantsAssumption, TokensPositive
    <2>2. (0 + 1) * JobTimeout = JobTimeout
      BY ConstantsAssumption
    <2>3. Cardinality({w \in Workers : f[w] <= l - (0 + 1) * JobTimeout}) >= 1
      BY <2>1 DEF Room, M
    <2>4. QED
      BY <2>2, <2>3
  <1>2. PICK w \in Workers : f[w] <= l - JobTimeout
    <2>1. CASE {w \in Workers : f[w] <= l - JobTimeout} = {}
      BY <1>1, <2>1, FS_EmptySet
    <2>2. QED
      BY <2>1
  <1>3. QED
    BY <1>2, ConstantsAssumption

\* A fresh batch has room: the lease covers its rounds of jobs.
LEMMA RoomClaim ==
  ASSUME NEW f \in [Workers -> 0..JobTimeout], NEW l \in Int, NEW n \in Nat,
         n <= ClaimBatch, l >= (Rounds + 1) * JobTimeout
  PROVE  Room(f, l, n)
  <1> SUFFICES ASSUME NEW d \in 0..n, NEW k \in 1..M, d * M + k <= n
               PROVE  Cardinality({w \in Workers : f[w] <= l - (d + 1) * JobTimeout}) >= k
    BY DEF Room, M
  <1> DEFINE q == (ClaimBatch - 1) \div M
  <1>1. q \in Int /\ d <= q
    <2>1. d * M <= ClaimBatch - 1
      BY ConstantsAssumption, TokensPositive
    <2>2. QED
      BY <2>1, ConstantsAssumption, TokensPositive
  <1>2. Rounds = q + 1
    BY DEF Rounds, M
  <1> HIDE DEF q
  <1>3. (d + 1) * JobTimeout + JobTimeout <= (Rounds + 1) * JobTimeout
    BY <1>1, <1>2, ConstantsAssumption
  <1>4. {w \in Workers : f[w] <= l - (d + 1) * JobTimeout} = Workers
    <2>1. (d + 1) * JobTimeout \in Int /\ (Rounds + 1) * JobTimeout \in Int
      BY <1>1, <1>2, ConstantsAssumption
    <2>2. QED
      BY <1>3, <2>1, ConstantsAssumption
  <1>5. Cardinality({w \in Workers : f[w] <= l - (d + 1) * JobTimeout}) = M
    BY Zenon, <1>4 DEF M
  <1>6. QED
    BY <1>5, TokensPositive

\* Launching takes the first free token and leaves room for the rest.
LEMMA RoomLaunch ==
  ASSUME NEW f \in [Workers -> 0..JobTimeout], NEW v \in Workers, f[v] = 0,
         NEW l \in Int, NEW n \in Nat, n >= 1, Room(f, l, n)
  PROVE  Room([f EXCEPT ![v] = JobTimeout], l, n - 1)
  <1> DEFINE g == [f EXCEPT ![v] = JobTimeout]
  <1> SUFFICES ASSUME NEW d \in 0..(n - 1), NEW k \in 1..M, d * M + k <= n - 1
               PROVE  Cardinality({w \in Workers : g[w] <= l - (d + 1) * JobTimeout}) >= k
    BY DEF Room, M
  <1> DEFINE G == {w \in Workers : g[w] <= l - (d + 1) * JobTimeout}
  <1>0. d * M \in Nat /\ (d + 1) * JobTimeout \in Int
    BY ConstantsAssumption, TokensPositive
  <1>1. CASE k < M
    <2> DEFINE F == {w \in Workers : f[w] <= l - (d + 1) * JobTimeout}
    <2>1. Cardinality(F) >= k + 1
      <3>1. k + 1 \in 1..M /\ d * M + (k + 1) <= n
        BY <1>0, <1>1, TokensPositive
      <3>2. QED
        BY <3>1 DEF Room, M
    <2>2. F \ {v} \subseteq G
      BY <1>0
    <2> HIDE DEF F, G
    <2>3. Cardinality(F \ {v}) >= k
      <3>1. IsFiniteSet(F) /\ Cardinality(F) \in Nat
        BY ConstantsAssumption, FS_Subset, FS_CardinalityType, Zenon DEF F
      <3>2. Cardinality(F \ {v}) = IF v \in F THEN Cardinality(F) - 1
                                             ELSE Cardinality(F)
        BY Zenon, <3>1, FS_RemoveElement
      <3>3. QED
        BY <2>1, <3>1, <3>2, TokensPositive
    <2>4. F \ {v} \in SUBSET Workers /\ G \in SUBSET Workers
      BY DEF F, G
    <2>5. Cardinality(G) >= k
      BY <2>2, <2>3, <2>4, FreeCount, TokensPositive
    <2>6. QED
      BY <2>5 DEF G
  <1>2. CASE k = M
    <2> DEFINE F == {w \in Workers : f[w] <= l - (d + 2) * JobTimeout}
    <2>1. d + 1 \in 0..n /\ 1 \in 1..M /\ (d + 1) * M + 1 <= n
      <3>1. (d + 1) * M = d * M + M
        BY TokensPositive
      <3>2. QED
        BY <3>1, <1>0, <1>2, TokensPositive
    <2>2. Cardinality(F) >= 1
      <3>1. (d + 1) + 1 = d + 2
        OBVIOUS
      <3>2. Cardinality({w \in Workers : f[w] <= l - ((d + 1) + 1) * JobTimeout}) >= 1
        BY <2>1 DEF Room, M
      <3>3. QED
        BY <3>1, <3>2
    <2>3. PICK u \in Workers : f[u] <= l - (d + 2) * JobTimeout
      <3>1. F # {}
        <4> HIDE DEF F
        <4>1. F = {} => Cardinality(F) = 0
          BY FS_EmptySet, Zenon
        <4>2. QED
          BY <2>2, <4>1
      <3>2. QED
        BY <3>1
    <2>4. (d + 1) * JobTimeout + JobTimeout <= l
      <3>1. (d + 2) * JobTimeout = (d + 1) * JobTimeout + JobTimeout
        BY ConstantsAssumption
      <3>2. QED
        BY <2>3, <3>1, <1>0, ConstantsAssumption
    <2>5. G = Workers
      BY <2>4, <1>0, ConstantsAssumption
    <2>6. Cardinality(G) = M
      BY Zenon, <2>5 DEF M
    <2>7. QED
      BY <2>6, <1>2, TokensPositive
  <1>3. QED
    BY <1>1, <1>2, TokensPositive

-----------------------------------------------------------------------------
(* ClaimInv holds initially and is preserved by every action. *)

USE DEF Row, Job

\* The remaining times of a process's tokens are times of jobs.
LEMMA LeftsType ==
  ASSUME TypeOK, NEW i \in Instances
  PROVE  /\ Lefts(i) \in [Workers -> 0..JobTimeout]
         /\ Lefts(i) \in [Workers -> Nat]
         /\ \A w \in Workers : Lefts(i)[w] = job[i][w].left
  BY ConstantsAssumption DEF TypeOK, Lefts

\* A batch is a finite set of slots, so its size is a number.
LEMMA QueueCount ==
  ASSUME TypeOK, NEW i \in Instances
  PROVE  /\ IsFiniteSet(queue[i]) /\ Cardinality(queue[i]) \in Nat
         /\ queue[i] # {} => Cardinality(queue[i]) >= 1
  <1>1. IsFiniteSet(queue[i])
    BY ConstantsAssumption, FS_Subset DEF TypeOK
  <1>2. QED
    BY <1>1, FS_CardinalityType, FS_EmptySet

\* A slot in a batch keeps a job's time of its lease.
LEMMA QueueLease ==
  ASSUME ClaimInv, NEW i \in Instances, NEW s \in queue[i]
  PROVE  row[s].lease \in Int /\ row[s].lease >= JobTimeout
  <1>1. s \in Slots /\ row[s].lease \in Int
    BY DEF ClaimInv, TypeOK
  <1>2. Room(Lefts(i), row[s].lease, Cardinality(queue[i]))
    BY DEF ClaimInv, QueueInv
  <1>3. QED
    BY <1>1, <1>2, LeftsType, QueueCount, RoomLease, Zenon DEF ClaimInv

\* ClaimInv holds before any process has started.
LEMMA ClaimInvInit == Init => ClaimInv
  <1> SUFFICES ASSUME Init PROVE ClaimInv
    OBVIOUS
  <1>1. TypeOK
    BY ConstantsAssumption DEF Init, TypeOK, NoRow, NoJob, Past
  <1>2. LoopInv
    BY DEF Init, LoopInv
  <1>3. JobInv
    BY DEF Init, JobInv, JobOK, Busy, NoJob
  <1>4. QueueInv
    BY DEF Init, QueueInv
  <1>5. Exclusive
    BY DEF Init, Exclusive, Busy, NoJob
  <1>6. QED
    BY <1>1, <1>2, <1>3, <1>4, <1>5 DEF ClaimInv

\* The loop of a process moves on and the rows in anyone's hands stay as they
\* are: StartProcess, TickStart, ClaimError.
LEMMA LoopStep ==
  ASSUME ClaimInv, TypeOK', NEW i \in Instances,
         UNCHANGED <<queue, copied, job>>,
         queue[i] = {},
         \A j \in Instances : j # i => mode'[j] = mode[j] /\ age'[j] = age[j],
         mode'[i] = "claiming" => age'[i] <= TickLag,
         \A s \in Slots : row[s].status = "claimed" => row'[s] = row[s]
  PROVE  ClaimInv'
  <1> USE DEF ClaimInv
  <1>2. LoopInv'
    BY DEF LoopInv
  <1>3. JobInv'
    BY DEF JobInv, JobOK, Busy
  <1>4. QueueInv'
    <2> SUFFICES ASSUME NEW j \in Instances, NEW s \in queue[j]
                 PROVE  /\ row'[s].status = "claimed"
                        /\ row'[s].attempts = copied'[j][s]
                        /\ Room(Lefts(j)', row'[s].lease, Cardinality(queue'[j]))
      BY DEF QueueInv
    <2>1. s \in Slots /\ row'[s] = row[s]
      BY DEF TypeOK, QueueInv
    <2>2. Lefts(j)' = Lefts(j)
      BY DEF Lefts
    <2>3. QED
      BY <2>1, <2>2 DEF QueueInv
  <1>5. Exclusive'
    BY DEF Exclusive, Busy
  <1>6. QED
    BY <1>2, <1>3, <1>4, <1>5

\* A loop ends, with or without its jobs: Shutdown, Exit, Crash.
LEMMA LoopEndsStep ==
  ASSUME ClaimInv, TypeOK', NEW i \in Instances, NEW to \in {"draining", "down"},
         LoopEnds(i, to),
         \/ UNCHANGED job
         \/ job' = [job EXCEPT ![i] = [w \in Workers |-> NoJob]]
  PROVE  ClaimInv'
  <1> USE DEF ClaimInv
  <1>1. /\ \A j \in Instances : queue'[j] = IF j = i THEN {} ELSE queue[j]
        /\ \A j \in Instances : mode'[j] = IF j = i THEN to ELSE mode[j]
        /\ \A j \in Instances : j # i => copied'[j] = copied[j] /\ age'[j] = age[j]
        /\ row' = row
    BY DEF LoopEnds, TypeOK
  <1>0. \A j \in Instances, w \in Workers :
           job'[j][w] = job[j][w] \/ (j = i /\ job'[j][w] = NoJob)
    BY DEF TypeOK
  <1>00. \A j \in Instances : j # i => job'[j] = job[j]
    BY DEF TypeOK
  <1>2. LoopInv'
    BY <1>1 DEF LoopInv
  <1>3. JobInv'
    BY <1>0, <1>1 DEF JobInv, JobOK, Busy, NoJob
  <1>4. QueueInv'
    <2> SUFFICES ASSUME NEW j \in Instances, NEW s \in queue'[j]
                 PROVE  /\ row'[s].status = "claimed"
                        /\ row'[s].attempts = copied'[j][s]
                        /\ Room(Lefts(j)', row'[s].lease, Cardinality(queue'[j]))
      BY DEF QueueInv
    <2>1. j # i /\ s \in queue[j] /\ queue'[j] = queue[j] /\ copied'[j] = copied[j]
      BY <1>1
    <2>2. Lefts(j)' = Lefts(j)
      BY <1>00, <2>1 DEF Lefts
    <2>3. QED
      BY <1>1, <2>1, <2>2 DEF QueueInv
  <1>5. Exclusive'
    BY <1>0, <1>1 DEF Exclusive, Busy, NoJob
  <1>6. QED
    BY <1>2, <1>3, <1>4, <1>5

\* A job goes on within its execution; the columns of the claim stay as they
\* are: StartRun, DispatchReturns.
LEMMA JobStays ==
  ASSUME ClaimInv, TypeOK', NEW i \in Instances, NEW w \in Workers,
         NEW next \in Phases, next # "idle", Busy(i, w),
         job' = [job EXCEPT ![i][w].pc = next],
         UNCHANGED <<mode, age, queue, copied>>,
         \A s \in Slots : /\ row'[s].status = row[s].status
                          /\ row'[s].attempts = row[s].attempts
                          /\ row'[s].lease = row[s].lease
  PROVE  ClaimInv'
  <1> USE DEF ClaimInv
  <1>1. \A j \in Instances, v \in Workers :
          /\ job'[j][v].slot = job[j][v].slot
          /\ job'[j][v].attempts = job[j][v].attempts
          /\ job'[j][v].left = job[j][v].left
          /\ Busy(j, v)' <=> Busy(j, v)
    BY DEF TypeOK, Busy
  <1>2. LoopInv'
    BY DEF LoopInv
  <1>3. JobInv'
    <2> SUFFICES ASSUME NEW j \in Instances, NEW v \in Workers
                 PROVE  JobOK(j, v)'
      BY DEF JobInv
    <2>1. CASE ~Busy(j, v)
      BY <1>1, <2>1 DEF JobInv, JobOK
    <2>2. CASE Busy(j, v)
      <3> DEFINE s == job[j][v].slot
      <3>1. /\ s \in Slots /\ row[s].status = "claimed"
            /\ row[s].attempts = job[j][v].attempts
            /\ row[s].lease >= job[j][v].left
        BY <2>2, Zenon DEF JobInv, JobOK
      <3>2. /\ row'[s].status = row[s].status
            /\ row'[s].attempts = row[s].attempts
            /\ row'[s].lease = row[s].lease
        BY <3>1, Zenon
      <3>3. /\ Busy(j, v)' /\ job'[j][v].slot = s
            /\ job'[j][v].attempts = job[j][v].attempts
            /\ job'[j][v].left = job[j][v].left
        BY <1>1, <2>2
      <3> HIDE DEF s
      <3>4. QED
        BY <3>1, <3>2, <3>3, Zenon DEF JobOK
    <2>3. QED
      BY <2>1, <2>2
  <1>4. QueueInv'
    <2> SUFFICES ASSUME NEW j \in Instances, NEW s \in queue[j]
                 PROVE  /\ row'[s].status = "claimed"
                        /\ row'[s].attempts = copied'[j][s]
                        /\ Room(Lefts(j)', row'[s].lease, Cardinality(queue'[j]))
      BY DEF QueueInv
    <2>1. s \in Slots
      BY DEF TypeOK
    <2>2. Lefts(j)' = Lefts(j)
      BY <1>1 DEF Lefts
    <2>3. QED
      BY <2>1, <2>2 DEF QueueInv
  <1>5. Exclusive'
    BY <1>1 DEF Exclusive
  <1>6. QED
    BY <1>2, <1>3, <1>4, <1>5

\* A job ends; no row but its own changes: StartRunError, Complete, Fail,
\* OutcomeLost, TimedOut.
LEMMA JobEnds ==
  ASSUME ClaimInv, TypeOK', NEW i \in Instances, NEW w \in Workers,
         Busy(i, w), Release(i, w),
         \A s \in Slots : s # job[i][w].slot => row'[s] = row[s]
  PROVE  ClaimInv'
  <1> USE DEF ClaimInv
  <1>1. /\ job'[i][w] = NoJob
        /\ \A j \in Instances, v \in Workers :
             (j # i \/ v # w) => job'[j][v] = job[j][v]
        /\ UNCHANGED <<mode, age, queue, copied>>
    BY Zenon DEF TypeOK, Release
  <1>2. LoopInv'
    BY <1>1, Zenon DEF LoopInv
  <1>3. JobInv'
    <2> SUFFICES ASSUME NEW j \in Instances, NEW v \in Workers
                 PROVE  JobOK(j, v)'
      BY DEF JobInv
    <2>1. CASE j = i /\ v = w
      BY <1>1, <2>1 DEF JobOK, Busy, NoJob
    <2>2. CASE j # i \/ v # w
      <3>1. job'[j][v] = job[j][v]
        BY <1>1, <2>2, Zenon
      <3>2. Busy(j, v) => job[j][v].slot \in Slots /\ job[j][v].slot # job[i][w].slot
        BY <2>2, Zenon DEF Exclusive, JobInv, JobOK
      <3>3. QED
        BY <3>1, <3>2 DEF JobInv, JobOK, Busy
    <2>3. QED
      BY <2>1, <2>2
  <1>4. QueueInv'
    <2> SUFFICES ASSUME NEW j \in Instances, NEW s \in queue[j]
                 PROVE  /\ row'[s].status = "claimed"
                        /\ row'[s].attempts = copied'[j][s]
                        /\ Room(Lefts(j)', row'[s].lease, Cardinality(queue'[j]))
      BY <1>1, Zenon DEF QueueInv
    <2>1. s \in Slots /\ row'[s] = row[s] /\ row[s].lease \in Int
      BY DEF TypeOK, Exclusive
    <2>2. \A v \in Workers : Lefts(j)'[v] <= Lefts(j)[v]
      <3> SUFFICES ASSUME NEW v \in Workers
                   PROVE  job'[j][v].left <= job[j][v].left
        BY DEF Lefts
      <3>1. job[j][v].left \in Nat
        BY ConstantsAssumption DEF TypeOK
      <3>2. job'[j][v] = job[j][v] \/ job'[j][v] = NoJob
        BY <1>1, Zenon
      <3>3. QED
        BY <3>1, <3>2 DEF NoJob
    <2>3. Lefts(j)' \in [Workers -> Nat]
      BY LeftsType, ConstantsAssumption DEF TypeOK, Lefts
    <2>4. Room(Lefts(j)', row[s].lease, Cardinality(queue[j]))
      <3>1. Room(Lefts(j), row[s].lease, Cardinality(queue[j]))
        BY Zenon DEF QueueInv
      <3>2. Lefts(j) \in [Workers -> Nat] /\ Cardinality(queue[j]) \in Nat
        BY LeftsType, QueueCount
      <3>3. Cardinality(queue[j]) <= Cardinality(queue[j])
        BY <3>2
      <3>4. QED
        BY <2>1, <2>2, <2>3, <3>1, <3>2, <3>3, RoomMonotone, Zenon
    <2>5. QED
      BY <1>1, <2>1, <2>4 DEF QueueInv
  <1>5. Exclusive'
    BY <1>1 DEF Exclusive, Busy, NoJob
  <1>6. QED
    BY <1>2, <1>3, <1>4, <1>5

\* ClaimDue: the rows it takes are in nobody's hands, since whoever has a slot
\* in hand has time left on its lease, and the batch has room.
LEMMA ClaimIsFresh ==
  ASSUME ClaimInv, NEW i \in Instances, NEW s \in Slots,
         mode[i] = "claiming", Claimable(i, s)
  PROVE  /\ \A j \in Instances : s \notin queue[j]
         /\ \A j \in Instances, w \in Workers : Busy(j, w) => job[j][w].slot # s
  <1>1. age[i] \in Nat /\ row[s].lease \in Int
    BY DEF ClaimInv, TypeOK
  <1>2. row[s].status = "claimed" => row[s].lease < 0
    BY <1>1 DEF Claimable
  <1>3. ASSUME NEW j \in Instances, s \in queue[j]
        PROVE  FALSE
    <2>1. row[s].status = "claimed"
      BY <1>3, Zenon DEF ClaimInv, QueueInv
    <2>2. QED
      BY <1>1, <1>2, <1>3, <2>1, QueueLease, ConstantsAssumption
  <1>4. ASSUME NEW j \in Instances, NEW w \in Workers, Busy(j, w), job[j][w].slot = s
        PROVE  FALSE
    <2>1. row[s].status = "claimed" /\ row[s].lease >= job[j][w].left
      BY <1>4, Zenon DEF ClaimInv, JobInv, JobOK
    <2>2. job[j][w].left \in Nat
      BY ConstantsAssumption DEF ClaimInv, TypeOK
    <2>3. QED
      BY <1>1, <1>2, <2>1, <2>2
  <1>5. QED
    BY <1>3, <1>4

\* Claim keeps ClaimInv: the batch is held by no one else and has room.
LEMMA ClaimStepInv ==
  ASSUME ClaimInv, TypeOK', NEW i \in Instances,
         NEW S \in SUBSET Slots, NEW locked \in SUBSET Slots, Claim(i, S, locked)
  PROVE  ClaimInv'
  <1> USE DEF ClaimInv
  <1>1. /\ mode[i] = "claiming" /\ queue[i] = {}
        /\ \A j \in Instances : queue'[j] = IF j = i THEN S ELSE queue[j]
        /\ \A j \in Instances : j # i => copied'[j] = copied[j] /\ mode'[j] = mode[j]
        /\ mode'[i] = IF S = {} THEN "idle" ELSE "launching"
        /\ \A s \in S : copied'[i][s] = row[s].attempts
        /\ UNCHANGED <<age, job>>
    <2>1. mode[i] = "claiming" /\ queue[i] = {} /\ UNCHANGED <<age, job>>
      BY Zenon DEF Claim, LoopInv
    <2>2. \A j \in Instances : queue'[j] = IF j = i THEN S ELSE queue[j]
      BY Zenon DEF Claim, TypeOK
    <2>3. /\ \A j \in Instances : j # i => copied'[j] = copied[j]
          /\ \A s \in S : copied'[i][s] = row[s].attempts
      BY ZenonT(40) DEF Claim, TypeOK
    <2>4. /\ \A j \in Instances : j # i => mode'[j] = mode[j]
          /\ mode'[i] = IF S = {} THEN "idle" ELSE "launching"
      BY Zenon DEF Claim, TypeOK
    <2>5. QED
      BY <2>1, <2>2, <2>3, <2>4, Zenon
  <1>2. \A s \in Slots \ S : row'[s] = row[s]
    BY Zenon DEF Claim
  <1>3. \A s \in S : /\ row'[s].status = "claimed"
                     /\ row'[s].attempts = row[s].attempts
                     /\ row'[s].lease = LeaseDuration - age[i]
    <2> SUFFICES ASSUME NEW s \in S
                 PROVE  /\ row'[s].status = "claimed"
                        /\ row'[s].attempts = row[s].attempts
                        /\ row'[s].lease = LeaseDuration - age[i]
      OBVIOUS
    <2>1. row[s] \in Row
      BY DEF TypeOK
    <2>2. row'[s] = [row[s] EXCEPT !.status = "claimed",
                                   !.lease = LeaseDuration - age[i]]
      BY Zenon DEF Claim
    <2>3. QED
      BY <2>1, <2>2
  <1>4. /\ \A s \in S, j \in Instances : s \notin queue[j]
        /\ \A s \in S, j \in Instances, w \in Workers :
             Busy(j, w) => job[j][w].slot # s
    <2>1. \A s \in S : Claimable(i, s)
      BY Zenon DEF Claim, IsClaim
    <2>2. QED
      BY <1>1, <2>1, ClaimIsFresh, Zenon
  <1>5. Cardinality(S) \in Nat /\ Cardinality(S) <= ClaimBatch
    <2>1. IsFiniteSet(S)
      BY ConstantsAssumption, FS_Subset
    <2>2. QED
      BY Zenon, <2>1, FS_CardinalityType DEF Claim, IsClaim
  <1>6. LoopInv'
    BY <1>1, Zenon DEF LoopInv
  <1>7. JobInv'
    <2> SUFFICES ASSUME NEW j \in Instances, NEW w \in Workers
                 PROVE  JobOK(j, w)'
      BY DEF JobInv
    <2>1. JobOK(j, w) /\ job'[j][w] = job[j][w]
      BY <1>1 DEF JobInv
    <2>2. ASSUME Busy(j, w) PROVE row'[job[j][w].slot] = row[job[j][w].slot]
      BY <1>2, <1>4, <2>1, <2>2, Zenon DEF JobOK
    <2>3. QED
      BY <2>1, <2>2, Zenon DEF JobOK, Busy
  <1>8. QueueInv'
    <2> SUFFICES ASSUME NEW j \in Instances, NEW s \in queue'[j]
                 PROVE  /\ row'[s].status = "claimed"
                        /\ row'[s].attempts = copied'[j][s]
                        /\ Room(Lefts(j)', row'[s].lease, Cardinality(queue'[j]))
      BY Zenon DEF QueueInv
    <2>0. Lefts(j)' = Lefts(j)
      BY <1>1 DEF Lefts
    <2>1. CASE j = i
      <3>1. s \in S /\ queue'[j] = S
        BY <1>1, <2>1, Zenon
      <3>2. /\ row'[s].lease \in Int
            /\ row'[s].lease >= (Rounds + 1) * JobTimeout
        <4>1. age[i] \in Nat /\ age[i] <= TickLag
          BY <1>1, Zenon DEF TypeOK, LoopInv
        <4>2. (Rounds + 1) * JobTimeout \in Int
          BY ConstantsAssumption, TokensPositive DEF Rounds, M
        <4>3. QED
          BY <1>3, <3>1, <4>1, <4>2, LeaseAssumption, ConstantsAssumption
      <3>3. Room(Lefts(j), row'[s].lease, Cardinality(S))
        BY <1>5, <3>2, LeftsType, RoomClaim
      <3>4. QED
        BY <1>1, <1>3, <2>0, <2>1, <3>1, <3>3, Zenon
    <2>2. CASE j # i
      <3>1. s \in queue[j] /\ queue'[j] = queue[j] /\ copied'[j] = copied[j]
        BY <1>1, <2>2, Zenon
      <3>2. s \in Slots \ S
        BY <1>4, <3>1, Zenon DEF TypeOK
      <3>3. QED
        BY <1>2, <2>0, <3>1, <3>2 DEF QueueInv
    <2>3. QED
      BY <2>1, <2>2, Zenon
  <1>9. Exclusive'
    BY <1>1, <1>4 DEF Exclusive, Busy
  <1>10. QED
    BY <1>6, <1>7, <1>8, <1>9

\* Launch: the slot leaves the batch for a free token and keeps its room.
LEMMA LaunchStep ==
  ASSUME ClaimInv, TypeOK', NEW i \in Instances, NEW w \in Workers,
         NEW s \in Slots, Launch(i, w, s)
  PROVE  ClaimInv'
  <1> USE DEF ClaimInv
  <1>1. /\ mode[i] = "launching" /\ s \in queue[i] /\ ~Busy(i, w)
        /\ row' = row /\ age' = age
        /\ \A j \in Instances : queue'[j] = IF j = i THEN queue[j] \ {s} ELSE queue[j]
        /\ \A j \in Instances, t \in Slots :
             (j # i \/ t # s) => copied'[j][t] = copied[j][t]
        /\ \A j \in Instances : j # i => mode'[j] = mode[j]
        /\ mode'[i] = IF queue[i] = {s} THEN "idle" ELSE "launching"
    <2>1. /\ mode[i] = "launching" /\ s \in queue[i] /\ ~Busy(i, w)
          /\ row' = row /\ age' = age
      BY Zenon DEF Launch
    <2>2. \A j \in Instances : queue'[j] = IF j = i THEN queue[j] \ {s} ELSE queue[j]
      BY Zenon DEF Launch, TypeOK
    <2>3. \A j \in Instances, t \in Slots :
             (j # i \/ t # s) => copied'[j][t] = copied[j][t]
      BY DEF Launch, TypeOK
    <2>4. /\ \A j \in Instances : j # i => mode'[j] = mode[j]
          /\ mode'[i] = IF queue[i] = {s} THEN "idle" ELSE "launching"
      BY Zenon DEF Launch, TypeOK
    <2>5. QED
      BY <2>1, <2>2, <2>3, <2>4, Zenon
  <1> DEFINE new == [pc |-> "launched", slot |-> s, attempts |-> copied[i][s],
                     left |-> JobTimeout]
  <1>0. job' = [job EXCEPT ![i][w] = new]
    BY DEF Launch
  <1>n. /\ new.pc = "launched" /\ new.slot = s /\ new.attempts = copied[i][s]
        /\ new.left = JobTimeout
    OBVIOUS
  <1> HIDE DEF new
  <1>2. /\ job'[i][w] = new
        /\ \A j \in Instances, v \in Workers :
             (j # i \/ v # w) => job'[j][v] = job[j][v]
    BY SMTT(30), <1>0 DEF TypeOK
  <1>3. /\ row[s].status = "claimed" /\ row[s].attempts = copied[i][s]
        /\ row[s].lease \in Int /\ row[s].lease >= JobTimeout
    BY <1>1, QueueLease, Zenon DEF QueueInv
  <1>4. LoopInv'
    BY ZenonT(40), <1>1 DEF LoopInv
  <1>5. JobInv'
    <2> SUFFICES ASSUME NEW j \in Instances, NEW v \in Workers
                 PROVE  JobOK(j, v)'
      BY DEF JobInv
    <2>1. CASE j = i /\ v = w
      <3>1. /\ job'[j][v].pc = "launched" /\ job'[j][v].slot = s
            /\ job'[j][v].attempts = copied[i][s] /\ job'[j][v].left = JobTimeout
        BY <1>2, <1>n, <2>1, Zenon
      <3>2. Busy(j, v)'
        BY <3>1, Zenon DEF Busy
      <3>3. QED
        BY <1>1, <1>3, <3>1, <3>2, Zenon DEF JobOK
    <2>2. CASE j # i \/ v # w
      <3>1. job'[j][v] = job[j][v]
        BY <1>2, <2>2, Zenon
      <3>2. JobOK(j, v)
        BY DEF JobInv
      <3>3. QED
        BY <1>1, <3>1, <3>2, Zenon DEF JobOK, Busy
    <2>3. QED
      BY <2>1, <2>2
  <1>6. QueueInv'
    <2> SUFFICES ASSUME NEW j \in Instances, NEW t \in queue'[j]
                 PROVE  /\ row'[t].status = "claimed"
                        /\ row'[t].attempts = copied'[j][t]
                        /\ Room(Lefts(j)', row'[t].lease, Cardinality(queue'[j]))
      BY Zenon DEF QueueInv
    <2>1. /\ t \in queue[j] /\ t \in Slots /\ row[t].lease \in Int
          /\ row[t].status = "claimed" /\ row[t].attempts = copied[j][t]
          /\ Room(Lefts(j), row[t].lease, Cardinality(queue[j]))
      <3>1. t \in queue[j]
        BY Zenon, <1>1
      <3>2. t \in Slots /\ row[t].lease \in Int
        BY <3>1, Zenon DEF TypeOK
      <3>3. QED
        BY <3>1, <3>2, Zenon DEF QueueInv
    <2>2. CASE j = i
      <3>1. Lefts(i)' = [Lefts(i) EXCEPT ![w] = JobTimeout]
        BY Zenon, <1>2, <1>n DEF Lefts
      <3>2. Cardinality(queue'[i]) = Cardinality(queue[i]) - 1
        BY ZenonT(40), <1>1, QueueCount, FS_RemoveElement
      <3>3. Lefts(i)[w] = 0
        BY <1>1, Zenon DEF Lefts, JobInv, JobOK
      <3>4. Cardinality(queue[i]) \in Nat /\ Cardinality(queue[i]) >= 1
        BY <1>1, QueueCount, Zenon
      <3>5. Room(Lefts(i)', row[t].lease, Cardinality(queue'[i]))
        <4>1. Lefts(i) \in [Workers -> 0..JobTimeout]
          BY LeftsType, Zenon
        <4>2. Room([Lefts(i) EXCEPT ![w] = JobTimeout], row[t].lease,
                   Cardinality(queue[i]) - 1)
          BY Zenon, <2>1, <2>2, <3>3, <3>4, <4>1, RoomLaunch
        <4>3. QED
          BY <3>1, <3>2, <4>2, Zenon
      <3>6. QED
        BY Zenon, <1>1, <2>1, <2>2, <3>5
    <2>3. CASE j # i
      <3>1. Lefts(j)' = Lefts(j)
        BY <1>2, <2>3, Zenon DEF Lefts
      <3>2. QED
        BY Zenon, <1>1, <2>1, <2>3, <3>1
    <2>4. QED
      BY SMTT(30), <2>2, <2>3
  <1>7. Exclusive'
    <2> SUFFICES ASSUME NEW j \in Instances, NEW k \in Instances
                 PROVE  /\ \A t \in queue'[j] : t \in queue'[k] => j = k
                        /\ \A v \in Workers : Busy(j, v)' => job'[j][v].slot \notin queue'[k]
                        /\ \A u, v \in Workers :
                             Busy(j, u)' /\ Busy(k, v)' /\ job'[j][u].slot = job'[k][v].slot
                               => j = k /\ u = v
      BY Zenon DEF Exclusive
    <2>1. \A t \in queue'[j] : t \in queue'[k] => j = k
      BY ZenonT(40), <1>1 DEF Exclusive
    <2>2. ASSUME NEW v \in Workers, Busy(j, v)'
          PROVE  job'[j][v].slot \notin queue'[k]
      <3>1. CASE j = i /\ v = w
        <4>1. job'[j][v].slot = s
          BY <1>2, <1>n, <3>1, Zenon
        <4>2. s \notin queue'[k]
          BY ZenonT(40), <1>1 DEF Exclusive
        <4>3. QED
          BY <4>1, <4>2
      <3>2. CASE j # i \/ v # w
        <4>1. job'[j][v] = job[j][v] /\ Busy(j, v)
          BY <1>2, <2>2, <3>2, Zenon DEF Busy
        <4>2. job[j][v].slot \notin queue[k]
          BY <4>1, Zenon DEF Exclusive
        <4>3. QED
          BY Zenon, <1>1, <4>1, <4>2
      <3>3. QED
        BY <3>1, <3>2
    <2>3. ASSUME NEW u \in Workers, NEW v \in Workers, Busy(j, u)', Busy(k, v)',
                 job'[j][u].slot = job'[k][v].slot
          PROVE  j = k /\ u = v
      <3>1. \A l \in Instances, x \in Workers :
              (l # i \/ x # w) => (Busy(l, x)' <=> Busy(l, x)) /\ job'[l][x] = job[l][x]
        BY <1>2, Zenon DEF Busy
      <3>2. \A l \in Instances, x \in Workers :
              Busy(l, x) => job[l][x].slot # s
        BY <1>1 DEF Exclusive
      <3>3. CASE j = i /\ u = w
        BY <1>2, <1>n, <2>3, <3>1, <3>2, <3>3
      <3>4. CASE k = i /\ v = w
        BY <1>2, <1>n, <2>3, <3>1, <3>2, <3>4
      <3>5. CASE (j # i \/ u # w) /\ (k # i \/ v # w)
        <4>1. Busy(j, u) /\ Busy(k, v) /\ job[j][u].slot = job[k][v].slot
          BY <2>3, <3>1, <3>5, Zenon
        <4>2. QED
          BY <4>1, Zenon DEF Exclusive
      <3>6. QED
        BY <3>3, <3>4, <3>5
    <2>4. QED
      BY SMTT(30), <2>1, <2>2, <2>3
  <1>8. QED
    BY <1>4, <1>5, <1>6, <1>7

\* Advance: leases and contexts run down together, and a batch only waits while
\* every token is busy.
LEMMA AdvanceStep ==
  ASSUME ClaimInv, TypeOK', Advance
  PROVE  ClaimInv'
  <1> USE DEF ClaimInv
  <1>1. /\ UNCHANGED <<mode, queue, copied>>
        /\ \A i \in Instances : mode[i] = "claiming" => age[i] < TickLag
        /\ \A i \in Instances : age'[i] \in {age[i], age[i] + 1}
    BY Zenon DEF Advance, TypeOK
  <1>2. \A s \in Slots : /\ row'[s].status = row[s].status
                         /\ row'[s].attempts = row[s].attempts
                         /\ row'[s].lease = Earlier(row[s].lease)
    <2> SUFFICES ASSUME NEW s \in Slots
                 PROVE  /\ row'[s].status = row[s].status
                        /\ row'[s].attempts = row[s].attempts
                        /\ row'[s].lease = Earlier(row[s].lease)
      OBVIOUS
    <2>1. row[s] \in Row
      BY DEF TypeOK
    <2>2. row'[s] = [row[s] EXCEPT !.wait = Earlier(row[s].wait),
                                   !.lease = Earlier(row[s].lease)]
      BY Zenon DEF Advance
    <2>3. QED
      BY <2>1, <2>2
  <1>3. \A i \in Instances, w \in Workers :
          /\ job'[i][w].slot = job[i][w].slot
          /\ job'[i][w].attempts = job[i][w].attempts
          /\ Busy(i, w)' <=> Busy(i, w)
          /\ Busy(i, w) => job[i][w].left > 0 /\ job'[i][w].left = job[i][w].left - 1
          /\ ~Busy(i, w) => job'[i][w].left = job[i][w].left
    <2> SUFFICES ASSUME NEW i \in Instances, NEW w \in Workers
                 PROVE  /\ job'[i][w].slot = job[i][w].slot
                        /\ job'[i][w].attempts = job[i][w].attempts
                        /\ Busy(i, w)' <=> Busy(i, w)
                        /\ Busy(i, w) => job[i][w].left > 0 /\ job'[i][w].left = job[i][w].left - 1
                        /\ ~Busy(i, w) => job'[i][w].left = job[i][w].left
      BY Zenon
    <2>1. job[i][w] \in Job
      BY DEF TypeOK
    <2>2. job'[i][w] = IF Busy(i, w) THEN [job[i][w] EXCEPT !.left = job[i][w].left - 1]
                       ELSE job[i][w]
      BY Zenon DEF Advance
    <2>3. Busy(i, w) => job[i][w].left > 0
      BY Zenon DEF Advance
    <2>4. QED
      BY <2>1, <2>2, <2>3 DEF Busy
  <1>4. \A s \in Slots : row[s].lease > 0 => row'[s].lease = row[s].lease - 1
    <2>1. \A x \in Int : x > 0 => Earlier(x) = x - 1
      BY ConstantsAssumption DEF Earlier, Past
    <2>2. \A s \in Slots : row[s].lease \in Int
      BY DEF TypeOK
    <2>3. QED
      BY <1>2, <2>1, <2>2, Zenon
  <1>5. LoopInv'
    <2>1. \A i \in Instances : age[i] \in Nat
      BY SMTT(30) DEF TypeOK
    <2>2. QED
      BY <1>1, <2>1, ConstantsAssumption DEF LoopInv
  <1>6. JobInv'
    <2> SUFFICES ASSUME NEW i \in Instances, NEW w \in Workers
                 PROVE  JobOK(i, w)'
      BY DEF JobInv
    <2>1. CASE ~Busy(i, w)
      BY <1>3, <2>1 DEF JobInv, JobOK
    <2>2. CASE Busy(i, w)
      <3> DEFINE s == job[i][w].slot
      <3>1. /\ s \in Slots /\ row[s].status = "claimed"
            /\ row[s].attempts = job[i][w].attempts
            /\ row[s].lease >= job[i][w].left
        BY <2>2, Zenon DEF JobInv, JobOK
      <3>2. row[s].lease \in Int /\ job[i][w].left \in Nat /\ job[i][w].left > 0
        BY SMTT(30), <1>3, <2>2, <3>1, ConstantsAssumption DEF TypeOK
      <3>3. row'[s].lease = row[s].lease - 1
        BY <1>4, <3>1, <3>2
      <3>4. /\ Busy(i, w)' /\ job'[i][w].slot = s
            /\ job'[i][w].attempts = job[i][w].attempts
            /\ job'[i][w].left = job[i][w].left - 1
        BY <1>3, <2>2, Zenon
      <3>5. row'[s].status = row[s].status /\ row'[s].attempts = row[s].attempts
        BY SMTT(30), <1>2, <3>1
      <3> HIDE DEF s
      <3>6. row'[s].lease >= job'[i][w].left
        <4>1. \A x \in Int, y \in Nat : x >= y => x - 1 >= y - 1
          OBVIOUS
        <4>2. row[s].lease - 1 >= job[i][w].left - 1
          BY <3>1, <3>2, <4>1, Zenon
        <4>3. QED
          BY <3>3, <3>4, <4>2, Zenon
      <3>7. QED
        BY <3>1, <3>4, <3>5, <3>6, Zenon DEF JobOK
    <2>3. QED
      BY <2>1, <2>2
  <1>7. QueueInv'
    <2> SUFFICES ASSUME NEW i \in Instances, NEW s \in queue[i]
                 PROVE  /\ row'[s].status = "claimed"
                        /\ row'[s].attempts = copied'[i][s]
                        /\ Room(Lefts(i)', row'[s].lease, Cardinality(queue'[i]))
      BY <1>1, Zenon DEF QueueInv
    <2>1. /\ s \in Slots /\ row[s].status = "claimed"
          /\ row[s].attempts = copied[i][s]
          /\ Room(Lefts(i), row[s].lease, Cardinality(queue[i]))
      BY Zenon DEF QueueInv, TypeOK
    <2>2. row[s].lease \in Int /\ row'[s].lease = row[s].lease - 1
      BY <1>4, <2>1, QueueLease, ConstantsAssumption
    <2>3. \A w \in Workers : Busy(i, w)
      BY Zenon DEF LoopInv, Advance
    <2>4. \A w \in Workers : Lefts(i)'[w] = Lefts(i)[w] - 1
      BY <1>3, <2>3, Zenon DEF Lefts
    <2>5. Lefts(i) \in [Workers -> Nat] /\ Lefts(i)' \in [Workers -> Nat]
      BY LeftsType, ConstantsAssumption DEF TypeOK, Lefts
    <2>6. Room(Lefts(i)', row[s].lease - 1, Cardinality(queue[i]))
      BY <2>1, <2>2, <2>4, <2>5, QueueCount, RoomAdvance, Zenon
    <2>7. QED
      BY <1>1, <1>2, <2>1, <2>2, <2>6, Zenon
  <1>8. Exclusive'
    <2> SUFFICES ASSUME NEW i \in Instances, NEW j \in Instances
                 PROVE  /\ \A s \in queue'[i] : s \in queue'[j] => i = j
                        /\ \A w \in Workers : Busy(i, w)' => job'[i][w].slot \notin queue'[j]
                        /\ \A w, v \in Workers :
                             Busy(i, w)' /\ Busy(j, v)' /\ job'[i][w].slot = job'[j][v].slot
                               => i = j /\ w = v
      BY Zenon DEF Exclusive
    <2>1. \A s \in queue'[i] : s \in queue'[j] => i = j
      BY Zenon, <1>1 DEF Exclusive
    <2>2. ASSUME NEW w \in Workers, Busy(i, w)' PROVE job'[i][w].slot \notin queue'[j]
      <3>1. Busy(i, w) /\ job'[i][w].slot = job[i][w].slot
        BY <1>3, <2>2, Zenon
      <3>2. QED
        BY Zenon, <1>1, <3>1 DEF Exclusive
    <2>3. ASSUME NEW w \in Workers, NEW v \in Workers, Busy(i, w)', Busy(j, v)',
                 job'[i][w].slot = job'[j][v].slot
          PROVE  i = j /\ w = v
      <3>1. /\ Busy(i, w) /\ job'[i][w].slot = job[i][w].slot
            /\ Busy(j, v) /\ job'[j][v].slot = job[j][v].slot
        BY <1>3, <2>3, Zenon
      <3>2. job[i][w].slot = job[j][v].slot
        BY <2>3, <3>1, Zenon
      <3>3. QED
        BY Zenon, <3>1, <3>2 DEF Exclusive
    <2>4. QED
      BY Zenon, <2>1, <2>2, <2>3
  <1>9. QED
    BY <1>5, <1>6, <1>7, <1>8

-----------------------------------------------------------------------------
(* Types *)


\* TypeOK is kept by the steps of a process's loop other than Claim and Launch.
LEMMA TypeLoop ==
  ASSUME ClaimInv, NEW i \in Instances,
         \/ StartProcess(i) \/ Shutdown(i) \/ Exit(i) \/ Crash(i) \/ ClaimError(i)
         \/ \E S \in SUBSET Slots, lead \in 0..MaxLead : TickStart(i, S, lead)
  PROVE  TypeOK'
  <1> USE ConstantsAssumption DEF ClaimInv, TypeOK
  <1>0. NoJob \in Job /\ NoRow \in Row
    BY DEF NoJob, NoRow, Past
  <1>1. CASE StartProcess(i)
    BY <1>1, Zenon DEF StartProcess
  <1>2. CASE Shutdown(i)
    BY <1>2 DEF Shutdown, LoopEnds
  <1>3. CASE Exit(i)
    BY <1>0, <1>3, Zenon DEF Exit, LoopEnds
  <1>4. CASE Crash(i)
    BY <1>0, <1>4 DEF Crash, LoopEnds
  <1>5. CASE ClaimError(i)
    BY <1>5, Zenon DEF ClaimError
  <1>6. ASSUME NEW S \in SUBSET Slots, NEW lead \in 0..MaxLead, TickStart(i, S, lead)
        PROVE  TypeOK'
    <2>0. lead \in Int
      OBVIOUS
    <2>1. [NoRow EXCEPT !.status = "due", !.wait = lead] \in Row
      BY Zenon, <1>0, <2>0
    <2>2. row' \in [Slots -> Row]
      BY Zenon, <1>6, <2>1 DEF TickStart
    <2>3. QED
      BY Zenon, <1>6, <2>2 DEF TickStart
  <1>7. QED
    BY Zenon, <1>1, <1>2, <1>3, <1>4, <1>5, <1>6

\* TypeOK is kept by ClaimDue.
LEMMA TypeClaim ==
  ASSUME ClaimInv, NEW i \in Instances, NEW S \in SUBSET Slots,
         NEW locked \in SUBSET Slots, Claim(i, S, locked)
  PROVE  TypeOK'
  <1> USE ConstantsAssumption DEF ClaimInv, TypeOK
  <1>1. row' \in [Slots -> Row]
    <2> SUFFICES ASSUME NEW s \in Slots
                 PROVE  [row[s] EXCEPT !.status = "claimed",
                                       !.lease = LeaseDuration - age[i]] \in Row
      BY Zenon DEF Claim
    <2>1. LeaseDuration - age[i] \in Int /\ row[s] \in Row
      OBVIOUS
    <2>2. QED
      BY Zenon, <2>1
  <1>2. copied' \in [Instances -> [Slots -> Nat]]
    <2>1. [s \in Slots |-> IF s \in S THEN row[s].attempts ELSE 0] \in [Slots -> Nat]
      BY Zenon
    <2>2. QED
      BY Zenon, <2>1 DEF Claim
  <1>3. QED
    BY Zenon, <1>1, <1>2 DEF Claim

\* TypeOK is kept by Launch.
LEMMA TypeLaunch ==
  ASSUME ClaimInv, NEW i \in Instances, NEW w \in Workers, NEW s \in Slots,
         Launch(i, w, s)
  PROVE  TypeOK'
  <1> USE ConstantsAssumption DEF ClaimInv, TypeOK
  <1>1. [pc |-> "launched", slot |-> s, attempts |-> copied[i][s],
         left |-> JobTimeout] \in Job
    OBVIOUS
  <1>2. job' \in [Instances -> [Workers -> Job]]
    BY <1>1, Zenon DEF Launch
  <1>3. copied' \in [Instances -> [Slots -> Nat]]
    BY Zenon DEF Launch
  <1>4. QED
    BY <1>2, <1>3, Zenon DEF Launch

\* A job that only moves on to another phase is still a job.
LEMMA TypePc ==
  ASSUME TypeOK, NEW i \in Instances, NEW w \in Workers, NEW next \in Phases,
         job' = [job EXCEPT ![i][w].pc = next]
  PROVE  job' \in [Instances -> [Workers -> Job]]
  <1>0. job[i][w] \in Job
    BY DEF TypeOK
  <1>1. [job[i][w] EXCEPT !.pc = next] \in Job
    BY <1>0
  <1> DEFINE new == [job[i][w] EXCEPT !.pc = next]
  <1>2. job' = [job EXCEPT ![i][w] = new]
    OBVIOUS
  <1> HIDE DEF new
  <1>3. QED
    BY <1>1, <1>2 DEF TypeOK, new

\* TypeOK is kept by the steps of execute.
LEMMA TypeJob ==
  ASSUME ClaimInv, NEW i \in Instances, NEW w \in Workers, JobStep(i, w)
  PROVE  TypeOK'
  <1> USE ConstantsAssumption DEF ClaimInv, TypeOK
  <1> DEFINE s == job[i][w].slot
  <1>0. NoJob \in Job
    BY DEF NoJob
  <1>s. Busy(i, w) => s \in Slots /\ row[s] \in Row
    BY Zenon DEF JobInv, JobOK
  <1>r. Release(i, w) => /\ job' \in [Instances -> [Workers -> Job]]
                         /\ UNCHANGED <<mode, age, queue, copied, crashes>>
    BY <1>0 DEF Release
  <1>1. CASE StartRun(i, w)
    <2>1. job' \in [Instances -> [Workers -> Job]]
      BY Zenon, <1>1, TypePc DEF StartRun
    <2>2. Busy(i, w)
      BY <1>1, Zenon DEF StartRun, Busy
    <2>3. row' \in [Slots -> Row]
      <3> DEFINE n == IF row[s].runs < RunCap THEN row[s].runs + 1 ELSE row[s].runs
      <3>1. n \in 0..RunCap
        BY <1>s, <2>2
      <3>2. [row[s] EXCEPT !.runs = n] \in Row
        BY Zenon, <1>s, <2>2, <3>1
      <3>3. row' = [row EXCEPT ![s] = [row[s] EXCEPT !.runs = n]]
        BY <1>1, Zenon DEF StartRun
      <3>4. QED
        BY Zenon, <3>2, <3>3
    <2>4. QED
      BY Zenon, <1>1, <2>1, <2>3 DEF StartRun
  <1>2. CASE StartRunError(i, w)
    BY <1>2, <1>r, Zenon DEF StartRunError
  <1>3. ASSUME NEW next \in {"completing", "failing"}, DispatchReturns(i, w, next)
        PROVE  TypeOK'
    BY ZenonT(40), <1>3, TypePc DEF DispatchReturns
  <1>4. CASE Complete(i, w)
    <2>1. Busy(i, w)
      BY <1>4, Zenon DEF Complete, Busy
    <2>2. row' \in [Slots -> Row]
      BY Zenon, <1>4, <1>s, <2>1 DEF Complete
    <2>3. QED
      BY <1>4, <1>r, <2>2, Zenon DEF Complete
  <1>5. CASE Fail(i, w)
    <2> DEFINE n == job[i][w].attempts + 1
    <2>1. Busy(i, w)
      BY <1>5, Zenon DEF Fail, Busy
    <2>2. n \in Nat /\ RetryBackoff(n) \in Int /\ Past \in Int
      BY DEF RetryBackoff, Past
    <2>3. FailedRow(row[s], n) \in Row
      BY Zenon, <1>s, <2>1, <2>2 DEF FailedRow
    <2>4. row' = [row EXCEPT ![s] = FailedRow(row[s], n)]
      BY <1>5, Zenon DEF Fail
    <2>5. row' \in [Slots -> Row]
      BY Zenon, <2>3, <2>4
    <2>6. QED
      BY Zenon, <1>5, <1>r, <2>5 DEF Fail
  <1>6. CASE OutcomeLost(i, w)
    BY <1>6, <1>r, Zenon DEF OutcomeLost
  <1>7. CASE TimedOut(i, w)
    BY <1>7, <1>r, Zenon DEF TimedOut
  <1>8. QED
    BY Zenon, <1>1, <1>2, <1>3, <1>4, <1>5, <1>6, <1>7 DEF JobStep

\* TypeOK is kept while time passes.
LEMMA TypeAdvance ==
  ASSUME ClaimInv, Advance
  PROVE  TypeOK'
  <1> USE ConstantsAssumption DEF ClaimInv, TypeOK
  <1>1. row' \in [Slots -> Row]
    <2> SUFFICES ASSUME NEW s \in Slots
                 PROVE  [row[s] EXCEPT !.wait = Earlier(row[s].wait),
                                       !.lease = Earlier(row[s].lease)] \in Row
      BY Zenon DEF Advance
    <2>1. Earlier(row[s].wait) \in Int /\ Earlier(row[s].lease) \in Int /\ row[s] \in Row
      BY DEF Earlier
    <2>2. QED
      BY Zenon, <2>1
  <1>2. job' \in [Instances -> [Workers -> Job]]
    <2> SUFFICES ASSUME NEW i \in Instances, NEW w \in Workers
                 PROVE  (IF Busy(i, w) THEN [job[i][w] EXCEPT !.left = job[i][w].left - 1]
                         ELSE job[i][w]) \in Job
      BY Zenon DEF Advance
    <2>1. job[i][w] \in Job
      OBVIOUS
    <2>2. Busy(i, w) => job[i][w].left > 0
      BY Zenon DEF Advance
    <2>3. Busy(i, w) => job[i][w].left - 1 \in 0..JobTimeout
      BY <2>1, <2>2
    <2>4. QED
      BY Zenon, <2>1, <2>3
  <1>3. age' \in [Instances -> Nat]
    <2>1. \A i \in Instances : age[i] \in Nat /\ age[i] + 1 \in Nat
      OBVIOUS
    <2>2. QED
      BY Zenon, <2>1 DEF Advance
  <1>4. UNCHANGED <<mode, queue, copied, crashes>>
    BY Zenon DEF Advance
  <1>5. QED
    BY <1>1, <1>2, <1>3, <1>4, Zenon

-----------------------------------------------------------------------------
\* Every step of the scheduler keeps ClaimInv.
LEMMA ClaimInvNext == ClaimInv /\ [Next]_vars => ClaimInv'
  <1> SUFFICES ASSUME ClaimInv, [Next]_vars PROVE ClaimInv'
    OBVIOUS
  <1>q. \A i \in Instances : mode[i] # "launching" => queue[i] = {}
    BY DEF ClaimInv, LoopInv
  <1>1. ASSUME NEW i \in Instances, StartProcess(i) PROVE ClaimInv'
    <2>1. TypeOK'
      BY <1>1, TypeLoop
    <2>2. /\ UNCHANGED <<queue, copied, job, row>> /\ queue[i] = {}
          /\ \A j \in Instances : j # i => mode'[j] = mode[j] /\ age'[j] = age[j]
          /\ mode'[i] = "idle"
      BY Zenon, <1>1, <1>q DEF StartProcess, ClaimInv, TypeOK
    <2>3. QED
      BY <2>1, <2>2, LoopStep
  <1>2. ASSUME NEW i \in Instances, Shutdown(i) PROVE ClaimInv'
    <2>1. TypeOK'
      BY <1>2, TypeLoop
    <2>2. QED
      BY <1>2, <2>1, LoopEndsStep, Zenon DEF Shutdown
  <1>3. ASSUME NEW i \in Instances, Exit(i) PROVE ClaimInv'
    <2>1. TypeOK'
      BY <1>3, TypeLoop
    <2>2. QED
      BY Zenon, <1>3, <2>1, LoopEndsStep DEF Exit
  <1>4. ASSUME NEW i \in Instances, Crash(i) PROVE ClaimInv'
    <2>1. TypeOK'
      BY <1>4, TypeLoop
    <2>2. QED
      BY Zenon, <1>4, <2>1, LoopEndsStep DEF Crash
  <1>5. ASSUME NEW i \in Instances, NEW S \in SUBSET Slots, NEW lead \in 0..MaxLead,
               TickStart(i, S, lead)
        PROVE  ClaimInv'
    <2>1. TypeOK'
      BY <1>5, TypeLoop, Zenon
    <2>2. /\ UNCHANGED <<queue, copied, job>> /\ queue[i] = {}
          /\ \A j \in Instances : j # i => mode'[j] = mode[j] /\ age'[j] = age[j]
          /\ age'[i] = 0
          /\ \A s \in Slots : row[s].status = "claimed" => row'[s] = row[s]
      BY Zenon, <1>5, <1>q DEF TickStart, ClaimInv, TypeOK
    <2>3. 0 <= TickLag
      BY ConstantsAssumption
    <2>4. QED
      BY <2>1, <2>2, <2>3, LoopStep, Zenon
  <1>6. ASSUME NEW i \in Instances, NEW S \in SUBSET Slots,
               NEW locked \in SUBSET Slots, Claim(i, S, locked)
        PROVE  ClaimInv'
    BY <1>6, TypeClaim, ClaimStepInv
  <1>7. ASSUME NEW i \in Instances, ClaimError(i) PROVE ClaimInv'
    <2>1. TypeOK'
      BY <1>7, TypeLoop
    <2>2. /\ UNCHANGED <<queue, copied, job, row>> /\ queue[i] = {}
          /\ \A j \in Instances : j # i => mode'[j] = mode[j] /\ age'[j] = age[j]
          /\ mode'[i] = "idle"
      BY Zenon, <1>7, <1>q DEF ClaimError, ClaimInv, TypeOK
    <2>3. QED
      BY <2>1, <2>2, LoopStep
  <1>8. ASSUME NEW i \in Instances, NEW w \in Workers, NEW s \in Slots, Launch(i, w, s)
        PROVE  ClaimInv'
    BY <1>8, TypeLaunch, LaunchStep, Zenon
  <1>9. ASSUME NEW i \in Instances, NEW w \in Workers, JobStep(i, w)
        PROVE  ClaimInv'
    <2>0. TypeOK'
      BY <1>9, TypeJob, Zenon
    <2>1. CASE StartRun(i, w)
      <3>1. Busy(i, w) /\ UNCHANGED <<mode, age, queue, copied>>
        BY <2>1, Zenon DEF StartRun, Busy
      <3>2. \A s \in Slots : /\ row'[s].status = row[s].status
                             /\ row'[s].attempts = row[s].attempts
                             /\ row'[s].lease = row[s].lease
        BY <2>1 DEF StartRun, ClaimInv, TypeOK
      <3>3. QED
        BY Zenon, <2>0, <2>1, <3>1, <3>2, JobStays DEF StartRun
    <2>2. ASSUME NEW next \in {"completing", "failing"}, DispatchReturns(i, w, next)
          PROVE  ClaimInv'
      <3>1. Busy(i, w) /\ UNCHANGED <<mode, age, queue, copied, row>>
        BY <2>2 DEF DispatchReturns, Busy
      <3>2. QED
        BY Zenon, <2>0, <2>2, <3>1, JobStays DEF DispatchReturns
    <2>3. CASE StartRunError(i, w) \/ OutcomeLost(i, w) \/ TimedOut(i, w)
      <3>1. Busy(i, w) /\ Release(i, w) /\ UNCHANGED row
        BY <2>3, Zenon DEF StartRunError, OutcomeLost, TimedOut, Busy
      <3>2. QED
        BY <2>0, <3>1, JobEnds, Zenon
    <2>4. CASE Complete(i, w)
      <3>1. Busy(i, w) /\ Release(i, w)
        BY <2>4, Zenon DEF Complete, Busy
      <3>2. \A s \in Slots : s # job[i][w].slot => row'[s] = row[s]
        BY <2>4 DEF Complete, ClaimInv, TypeOK
      <3>3. QED
        BY <2>0, <3>1, <3>2, JobEnds, Zenon
    <2>5. CASE Fail(i, w)
      <3>1. Busy(i, w) /\ Release(i, w)
        BY <2>5, Zenon DEF Fail, Busy
      <3>2. \A s \in Slots : s # job[i][w].slot => row'[s] = row[s]
        BY <2>5, Zenon DEF Fail, ClaimInv, TypeOK
      <3>3. QED
        BY <2>0, <3>1, <3>2, JobEnds
    <2>6. QED
      BY <1>9, <2>1, <2>2, <2>3, <2>4, <2>5, Zenon DEF JobStep
  <1>10. CASE Advance
    BY <1>10, TypeAdvance, AdvanceStep
  <1>11. CASE UNCHANGED vars
    <2>1. \A i \in Instances : Lefts(i)' = Lefts(i)
      BY <1>11 DEF vars, Lefts
    <2>2. TypeOK' /\ LoopInv' /\ JobInv' /\ Exclusive'
      <3>1. TypeOK' /\ LoopInv'
        BY Zenon, <1>11 DEF ClaimInv, vars, TypeOK, LoopInv
      <3>2. JobInv'
        BY Zenon, <1>11 DEF ClaimInv, vars, JobInv, JobOK, Busy
      <3>3. Exclusive'
        BY SMTT(30), <1>11 DEF ClaimInv, vars, Exclusive, Busy
      <3>4. QED
        BY Zenon, <3>1, <3>2, <3>3
    <2>3. QueueInv'
      BY Zenon, <1>11, <2>1 DEF ClaimInv, vars, QueueInv
    <2>4. QED
      BY <2>2, <2>3 DEF ClaimInv
  <1>12. QED
    <2>1. ASSUME NEW i \in Instances, ClaimStep(i) PROVE ClaimInv'
      <3>1. Lockable(i) \subseteq Slots
        BY DEF Lockable
      <3>2. QED
        BY <2>1, <3>1, <1>6, <1>7, Zenon DEF ClaimStep
    <2>2. QED
      BY <1>1, <1>2, <1>3, <1>4, <1>5, <1>8, <1>9, <1>10, <1>11, <2>1, Zenon DEF Next

\* The type invariant and the bookkeeping of claims hold in every reachable
\* state, whatever the number of processes, tokens and slots.
THEOREM ClaimInvariant == Spec => []ClaimInv
  BY ClaimInvInit, ClaimInvNext, PTL DEF Spec

\* TypeOK for all constants.
THEOREM TypeCorrect == Spec => []TypeOK
  <1>1. ClaimInv => TypeOK
    BY DEF ClaimInv
  <1>2. QED
    BY <1>1, ClaimInvariant, PTL

\* Whoever has a slot in hand, a dispatch loop or a job, works from a current
\* copy of a row that is still claimed and whose lease outlives the job.
THEOREM CopiesAreCurrent == Spec => []HoldersAreCurrent
  <1>1. ClaimInv => HoldersAreCurrent
    <2> SUFFICES ASSUME ClaimInv
                 PROVE  HoldersAreCurrent
      OBVIOUS
    <2>1. ASSUME NEW i \in Instances, NEW s \in queue[i]
          PROVE  /\ row[s].status = "claimed" /\ row[s].lease >= JobTimeout
                 /\ row[s].attempts = copied[i][s]
      BY QueueLease, Zenon DEF ClaimInv, QueueInv
    <2>2. ASSUME NEW i \in Instances, NEW w \in Workers, Busy(i, w)
          PROVE  /\ row[job[i][w].slot].status = "claimed"
                 /\ row[job[i][w].slot].lease >= job[i][w].left
                 /\ row[job[i][w].slot].attempts = job[i][w].attempts
      BY Zenon, <2>2 DEF ClaimInv, JobInv, JobOK
    <2>3. QED
      BY Zenon, <2>1, <2>2 DEF HoldersAreCurrent
  <1>2. QED
    BY <1>1, ClaimInvariant, PTL

\* No two dispatch loops or jobs ever have the same slot in hand, although the
\* writes that end a job check neither owner nor status.
THEOREM ExecutionIsExclusive == Spec => []SingleExecutor
  <1>1. ClaimInv => SingleExecutor
    <2> SUFFICES ASSUME ClaimInv, NEW s \in Slots,
                        NEW g \in Holders(s), NEW h \in Holders(s)
                 PROVE  g = h
      BY DEF SingleExecutor
    <2> DEFINE Q == {<<i, NoSlot>> : i \in {j \in Instances : s \in queue[j]}}
               J == {x \in Instances \X Workers :
                       Busy(x[1], x[2]) /\ job[x[1]][x[2]].slot = s}
    <2>1. g \in Q \cup J /\ h \in Q \cup J
      BY Zenon DEF Holders
    <2>2. \A x \in J : \E i \in Instances, w \in Workers :
                         x = <<i, w>> /\ Busy(i, w) /\ job[i][w].slot = s
      OBVIOUS
    <2>3. \A x \in Q : \E i \in Instances : x = <<i, NoSlot>> /\ s \in queue[i]
      BY Zenon
    <2> HIDE DEF Q, J
    <2>4. Exclusive
      BY DEF ClaimInv
    <2>5. CASE g \in Q /\ h \in Q
      BY Zenon, <2>3, <2>4, <2>5 DEF Exclusive
    <2>6. CASE g \in J /\ h \in J
      BY SMTT(30), <2>2, <2>4, <2>6 DEF Exclusive
    <2>7. \A x \in Q, y \in J : FALSE
      BY SMTT(30), <2>2, <2>3, <2>4 DEF Exclusive
    <2>8. QED
      BY Zenon, <2>1, <2>5, <2>6, <2>7
  <1>2. QED
    BY <1>1, ClaimInvariant, PTL

-----------------------------------------------------------------------------
(* The scheduler implements SlotLifecycle.  Every step falls into one of   *)
(* six classes by what it does to status and attempts.                     *)

\* A row that does not exist counts no attempts.
AbsentIsFresh == \A s \in Slots : row[s].status = "absent" => row[s].attempts = 0

Same(s) == row'[s].status = row[s].status /\ row'[s].attempts = row[s].attempts

Quiet == \A s \in Slots : Same(s)

Generates(T) ==
    \A s \in Slots :
      IF s \in T THEN /\ row[s].status = "absent"
                      /\ row'[s].status = "due" /\ row'[s].attempts = 0
                 ELSE Same(s)

Claims(T) ==
    \A s \in Slots :
      IF s \in T THEN /\ row[s].status \in {"due", "claimed"}
                      /\ row'[s].status = "claimed"
                      /\ row'[s].attempts = row[s].attempts
                 ELSE Same(s)

Completes(t) ==
    /\ row[t].status = "claimed" /\ row'[t].status = "completed"
    /\ row'[t].attempts = row[t].attempts
    /\ \A s \in Slots : s # t => Same(s)

Fails(t) ==
    /\ row[t].status = "claimed" /\ row'[t].attempts = row[t].attempts + 1
    /\ row'[t].status = IF row[t].attempts + 1 < MaxAttempts THEN "due" ELSE "failed"
    /\ \A s \in Slots : s # t => Same(s)

\* What a job's step does to the table: nothing, or it settles its own slot
\* from the copy of Attempts it was claimed with.
LEMMA JobEffect ==
  ASSUME ClaimInv, NEW i \in Instances, NEW w \in Workers, JobStep(i, w)
  PROVE  Quiet \/ \E t \in Slots : Completes(t) \/ Fails(t)
  <1> DEFINE t == job[i][w].slot
  <1>t. row \in [Slots -> Row] /\ job[i][w] \in Job
    BY DEF ClaimInv, TypeOK
  <1>j. Busy(i, w) => /\ t \in Slots /\ row[t].status = "claimed"
                      /\ row[t].attempts = job[i][w].attempts
    BY Zenon DEF ClaimInv, JobInv, JobOK
  <1>1. CASE StartRun(i, w)
    <2>1. PICK n : row' = [row EXCEPT ![t].runs = n]
      BY Zenon, <1>1 DEF StartRun
    <2>2. \A s \in Slots : row'[s] = IF s = t THEN [row[s] EXCEPT !.runs = n] ELSE row[s]
      BY <1>t, <2>1, Zenon
    <2>3. \A s \in Slots : Same(s)
      BY ZenonT(40), <1>t, <2>2 DEF Row, Same
    <2>4. QED
      BY <2>3 DEF Quiet
  <1>2. CASE UNCHANGED row
    BY <1>2 DEF Quiet, Same
  <1>3. CASE Complete(i, w)
    <2>1. Busy(i, w)
      BY <1>3, Zenon DEF Complete, Busy
    <2>2. row' = [row EXCEPT ![t].status = "completed"]
      BY <1>3 DEF Complete
    <2>3. Completes(t)
      BY <1>t, <1>j, <2>1, <2>2, Zenon DEF Completes, Same
    <2>4. QED
      BY <1>j, <2>1, <2>3, Zenon
  <1>4. CASE Fail(i, w)
    <2> DEFINE n == job[i][w].attempts + 1
               new == FailedRow(row[t], n)
    <2>1. Busy(i, w)
      BY <1>4, Zenon DEF Fail, Busy
    <2>2. row[t] \in Row
      BY <1>t, <1>j, <2>1, Zenon
    <2>3. /\ new.attempts = n
          /\ new.status = IF n < MaxAttempts THEN "due" ELSE "failed"
      BY <2>2, Zenon DEF FailedRow
    <2>4. row' = [row EXCEPT ![t] = new]
      BY <1>4, Zenon DEF Fail
    <2> HIDE DEF new
    <2>5. row'[t] = new /\ \A s \in Slots : s # t => row'[s] = row[s]
      BY <1>t, <1>j, <2>1, <2>4, Zenon
    <2>6. Fails(t)
      BY <1>j, <2>1, <2>3, <2>5, Zenon DEF Fails, Same
    <2>7. QED
      BY <1>j, <2>1, <2>6, Zenon
  <1>5. QED
    BY <1>1, <1>2, <1>3, <1>4, Zenon
       DEF JobStep, StartRunError, DispatchReturns, OutcomeLost, TimedOut

\* What any step does to the table.
LEMMA StepEffect ==
  ASSUME ClaimInv, [Next]_vars
  PROVE  \/ Quiet
         \/ \E T \in SUBSET Slots : Generates(T) \/ Claims(T)
         \/ \E t \in Slots : Completes(t) \/ Fails(t)
  <1>t. row \in [Slots -> Row]
    BY Zenon DEF ClaimInv, TypeOK
  <1>0. row' = row => Quiet
    BY DEF Quiet, Same
  <1>1. ASSUME NEW i \in Instances, NEW S \in SUBSET Slots, NEW lead \in 0..MaxLead,
               TickStart(i, S, lead)
        PROVE  \E T \in SUBSET Slots : Generates(T)
    <2> DEFINE T == {s \in S : row[s].status = "absent"}
               due == [NoRow EXCEPT !.status = "due", !.wait = lead]
    <2>1. due.status = "due" /\ due.attempts = 0
      BY DEF NoRow
    <2>2. \A s \in Slots : row'[s] = IF s \in S /\ row[s].status = "absent"
                                     THEN due ELSE row[s]
      BY <1>1 DEF TickStart
    <2> HIDE DEF due
    <2>3. Generates(T)
      BY <2>1, <2>2, Zenon DEF Generates, Same
    <2>4. QED
      BY <2>3, Zenon
  <1>2. ASSUME NEW i \in Instances, NEW S \in SUBSET Slots, NEW locked, Claim(i, S, locked)
        PROVE  Claims(S)
    <2>1. \A s \in S : row[s].status \in {"due", "claimed"}
      BY Zenon, <1>2 DEF Claim, IsClaim, Claimable
    <2>2. \A s \in Slots : row'[s] = IF s \in S
                                     THEN [row[s] EXCEPT !.status = "claimed",
                                             !.lease = LeaseDuration - age[i]]
                                     ELSE row[s]
      BY Zenon, <1>2 DEF Claim
    <2>3. \A s \in S : row'[s].status = "claimed" /\ row'[s].attempts = row[s].attempts
      BY Zenon, <1>t, <2>2
    <2>4. QED
      BY Zenon, <2>1, <2>2, <2>3 DEF Claims, Same
  <1>3. CASE Advance
    <2>1. \A s \in Slots : row'[s] = [row[s] EXCEPT !.wait = Earlier(row[s].wait),
                                                    !.lease = Earlier(row[s].lease)]
      BY Zenon, <1>3 DEF Advance
    <2>2. ASSUME NEW s \in Slots PROVE Same(s)
      <3>1. row[s] \in Row
        BY <1>t
      <3>2. QED
        BY Zenon, <2>1, <3>1 DEF Same
    <2>3. QED
      BY <2>2 DEF Quiet
  <1>4. ASSUME NEW i \in Instances,
               \/ StartProcess(i) \/ Shutdown(i) \/ Exit(i) \/ Crash(i)
               \/ ClaimError(i) \/ \E w \in Workers, s \in Slots : Launch(i, w, s)
        PROVE  row' = row
    BY <1>4, Zenon DEF StartProcess, Shutdown, Exit, Crash, LoopEnds, ClaimError, Launch
  <1>5. UNCHANGED vars => row' = row
    BY DEF vars
  <1>6. QED
    BY <1>0, <1>1, <1>2, <1>3, <1>4, <1>5, JobEffect, Zenon DEF Next, ClaimStep

\* No slot has attempts before it is generated: initially.
LEMMA FreshInit == Init => AbsentIsFresh
  BY DEF Init, AbsentIsFresh, NoRow

\* No slot has attempts before it is generated: every step.
LEMMA FreshNext == ClaimInv /\ AbsentIsFresh /\ [Next]_vars => AbsentIsFresh'
  <1> SUFFICES ASSUME ClaimInv, AbsentIsFresh, [Next]_vars,
                      NEW s \in Slots, row'[s].status = "absent"
               PROVE  row'[s].attempts = 0
    BY Zenon DEF AbsentIsFresh
  <1>1. Same(s)
    BY StepEffect, Zenon DEF Quiet, Generates, Claims, Completes, Fails
  <1>2. QED
    BY <1>1 DEF Same, AbsentIsFresh

\* The empty table is the initial state of SlotLifecycle.
LEMMA LifecycleInit == Init => Lifecycle!Init
  BY DEF Init, Lifecycle!Init, NoRow

\* Every step of the scheduler is a step of SlotLifecycle or leaves the table alone.
LEMMA LifecycleNext ==
  ClaimInv /\ AbsentIsFresh /\ [Next]_vars
    => [Lifecycle!Next]_<<[s \in Slots |-> row[s].status],
                          [s \in Slots |-> row[s].attempts]>>
  <1> SUFFICES ASSUME ClaimInv, AbsentIsFresh, [Next]_vars
               PROVE  \/ Lifecycle!Next
                      \/ UNCHANGED <<[s \in Slots |-> row[s].status],
                                     [s \in Slots |-> row[s].attempts]>>
    BY Zenon
  <1>1. CASE Quiet
    BY <1>1 DEF Quiet, Same
  <1>2. ASSUME NEW T \in SUBSET Slots, Generates(T)
        PROVE  Lifecycle!Generate(T)
    BY <1>2, Zenon DEF Generates, Same, AbsentIsFresh, Lifecycle!Generate
  <1>3. ASSUME NEW T \in SUBSET Slots, Claims(T)
        PROVE  Lifecycle!Claim(T)
    BY <1>3, Zenon DEF Claims, Same, Lifecycle!Claim
  <1>4. ASSUME NEW t \in Slots, Completes(t)
        PROVE  Lifecycle!Complete(t)
    BY Zenon, <1>4 DEF Completes, Same, Lifecycle!Complete
  <1>5. ASSUME NEW t \in Slots, Fails(t)
        PROVE  Lifecycle!Fail(t)
    BY Zenon, <1>5 DEF Fails, Same, Lifecycle!Fail
  <1>6. QED
    BY Zenon, <1>1, <1>2, <1>3, <1>4, <1>5, StepEffect DEF Lifecycle!Next

\* The slot table, written by any number of processes, behaves as the status
\* machine the slot store promises: settled slots are final, only a claimed slot
\* is settled, and every Fail adds exactly one attempt.
THEOREM SchedulerRefinesLifecycle == Spec => LifecycleSpec
  <1>1. Spec => []AbsentIsFresh
    BY FreshInit, FreshNext, ClaimInvariant, PTL DEF Spec
  <1>2. QED
    BY <1>1, LifecycleInit, LifecycleNext, ClaimInvariant, PTL
       DEF Spec, LifecycleSpec, Lifecycle!Spec
=============================================================================
