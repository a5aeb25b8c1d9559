--------------------------- MODULE SchedulerLease ---------------------------
(***************************************************************************)
(* The relation between the scheduler's settings on which its claims rely. *)
(* The settings are read independently (internal/platform/config), and     *)
(* nothing in the code checks it; the defaults satisfy it: a 5 minute      *)
(* lease, 60 second jobs, batches of 10 on 8 tokens leave TickLag up to    *)
(* 120 seconds.                                                            *)
(***************************************************************************)
EXTENDS Scheduler

\* Jobs that follow one another on a token before the last slot of a batch
\* starts.
Rounds == (ClaimBatch - 1) \div Cardinality(Workers) + 1

\* The lease covers the wait for a token of the last slot of a batch, and its
\* own execution.
ASSUME LeaseAssumption ==
    LeaseDuration >= TickLag + (Rounds + 1) * JobTimeout

-----------------------------------------------------------------------------
(* The invariant that makes the claim exclusive. *)

\* n claimed slots get their tokens, become jobs and end before lease l runs
\* out, when token w is free within left[w]: the k-th slot of a round takes the
\* k-th token to become free, d rounds of whole jobs later.
Room(left, l, n) ==
    \A d \in 0..n, k \in 1..Cardinality(Workers) :
      d * Cardinality(Workers) + k <= n =>
        Cardinality({w \in Workers : left[w] <= l - (d + 1) * JobTimeout}) >= k

Lefts(i) == [w \in Workers |-> job[i][w].left]

LoopInv ==
    \A i \in Instances :
      /\ mode[i] = "claiming" => age[i] <= TickLag
      /\ queue[i] # {} => mode[i] = "launching"

JobOK(i, w) ==
    /\ ~Busy(i, w) => job[i][w].left = 0
    /\ Busy(i, w) =>
         /\ job[i][w].slot \in Slots
         /\ row[job[i][w].slot].status = "claimed"
         /\ row[job[i][w].slot].attempts = job[i][w].attempts
         /\ row[job[i][w].slot].lease >= job[i][w].left

JobInv == \A i \in Instances, w \in Workers : JobOK(i, w)

QueueInv ==
    \A i \in Instances : \A s \in queue[i] :
      /\ row[s].status = "claimed"
      /\ row[s].attempts = copied[i][s]
      /\ Room(Lefts(i), row[s].lease, Cardinality(queue[i]))

Exclusive ==
    \A i, j \in Instances :
      /\ \A s \in queue[i] : s \in queue[j] => i = j
      /\ \A w \in Workers : Busy(i, w) => job[i][w].slot \notin queue[j]
      /\ \A w, v \in Workers :
           Busy(i, w) /\ Busy(j, v) /\ job[i][w].slot = job[j][v].slot
             => i = j /\ w = v

ClaimInv == TypeOK /\ LoopInv /\ JobInv /\ QueueInv /\ Exclusive

-----------------------------------------------------------------------------
\* The rows of the slot table seen as the status machine of SlotLifecycle.
Lifecycle == INSTANCE SlotLifecycle WITH
    status   <- [s \in Slots |-> row[s].status],
    attempts <- [s \in Slots |-> row[s].attempts]

\* The scheduler keeps the promise of its slot store although Complete and Fail
\* write by id alone: every change of a row is a step of SlotLifecycle, so a
\* settled slot is final, only a claimed slot is settled, and each Fail adds
\* exactly one attempt to the row it finds.
LifecycleSpec == Lifecycle!Spec
=============================================================================
