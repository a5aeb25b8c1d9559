----------------------------- MODULE Scheduler -----------------------------
(***************************************************************************)
(* The DB-backed job scheduler: internal/scheduler/scheduler.go over the   *)
(* collection_schedules table of adapters/persistence/schedulerpg.         *)
(*                                                                         *)
(* Several processes (Instances) share one slot table.  Each runs a tick   *)
(* loop that generates slots, claims a batch under a lease and launches    *)
(* the batch on a pool of MaxConcurrent semaphore tokens (Workers); each   *)
(* job runs under its own timeout and then writes the outcome back with    *)
(* statements keyed by the slot id only.                                   *)
(*                                                                         *)
(* Time.  Every timestamp is stored relative to the present: wait, lease   *)
(* and left are "deadline minus now", and Advance lets one unit of time    *)
(* pass.  Values below -(TickLag + 1) are not told apart, since no         *)
(* statement compares with an instant older than TickLag.  All processes   *)
(* read the same clock.                                                    *)
(***************************************************************************)
EXTENDS Integers, FiniteSets

CONSTANTS
    Slots,          \* keys (configuration, job type, location, slot_time)
    SlotTime,       \* their slot_time, used to order a claim
    NoSlot,         \* the slot of a free token
    Instances,      \* processes running Scheduler.Run
    Workers,        \* semaphore tokens of one process: MaxConcurrent of them
    ClaimBatch,     \* LIMIT of one claim
    LeaseDuration,  \* validity of a claim
    JobTimeout,     \* deadline of a job's context
    Interval,       \* period of the ticker
    TickLag,        \* longest time between reading the clock and claiming
    MaxAttempts,    \* slot.go: the per-slot retry ceiling
    MaxLead,        \* bound: how far ahead of slot_time a slot is generated
    RunCap,         \* bound: schedule_runs rows counted per slot
    MaxCrashes      \* bound: crashes and shutdowns in one behaviour

ASSUME ConstantsAssumption ==
    /\ IsFiniteSet(Slots) /\ IsFiniteSet(Workers) /\ Workers # {}
    /\ NoSlot \notin Slots \cup Workers
    /\ SlotTime \in [Slots -> Nat]
    /\ ClaimBatch \in Nat \ {0}
    /\ LeaseDuration \in Nat /\ JobTimeout \in Nat \ {0} 
    /\ TickLag \in Nat /\ Interval \in Nat \ {0}
    /\ MaxAttempts \in Nat \ {0}
    /\ MaxLead \in Nat /\ RunCap \in Nat /\ MaxCrashes \in Nat

VARIABLES
    row,      \* collection_schedules: one row per slot key
    mode,     \* where the loop of a process is
    age,      \* time since its last tick read the clock
    queue,    \* slots its tick has claimed and not launched yet
    copied,   \* Attempts of those slots as the claim returned them
    job,      \* what each semaphore token is executing
    crashes   \* crashes and shutdowns so far

vars == <<row, mode, age, queue, copied, job, crashes>>

Statuses == {"absent", "due", "claimed", "completed", "failed"}
Modes    == {"down", "idle", "claiming", "launching", "draining"}
Phases   == {"idle", "launched", "dispatching", "completing", "failing"}

\* Instants further back than any statement compares with.
Past == -(TickLag + 1)

\* status "absent": no such row.  wait is max(slot_time, next_retry_at) - now,
\* lease is lease_expires_at - now, runs the number of schedule_runs rows.
\* The scheduler never reads claimed_by, claimed_at, schedule_run_id, last_error
\* or the contents of schedule_runs, and they are left out.
Row == [status : Statuses, attempts : Nat, wait : Int, lease : Int,
        runs : 0..RunCap]

NoRow == [status |-> "absent", attempts |-> 0, wait |-> Past, lease |-> Past,
          runs |-> 0]

\* A running execute(): its copy of the slot (id and Attempts) and left, the
\* time until its context expires.
Job == [pc : Phases, slot : Slots \cup {NoSlot}, attempts : Nat,
        left : 0..JobTimeout]

NoJob == [pc |-> "idle", slot |-> NoSlot, attempts |-> 0, left |-> 0]

Busy(i, w) == job[i][w].pc # "idle"

\* Every variable has its type.
TypeOK ==
    /\ row \in [Slots -> Row]
    /\ mode \in [Instances -> Modes]
    /\ age \in [Instances -> Nat]
    /\ queue \in [Instances -> SUBSET Slots]
    /\ copied \in [Instances -> [Slots -> Nat]]
    /\ job \in [Instances -> [Workers -> Job]]
    /\ crashes \in 0..MaxCrashes

Init ==
    /\ row = [s \in Slots |-> NoRow]
    /\ mode = [i \in Instances |-> "down"]
    /\ age = [i \in Instances |-> 0]
    /\ queue = [i \in Instances |-> {}]
    /\ copied = [i \in Instances |-> [s \in Slots |-> 0]]
    /\ job = [i \in Instances |-> [w \in Workers |-> NoJob]]
    /\ crashes = 0

-----------------------------------------------------------------------------
(* Processes *)

\* Run begins and ticks at once.
StartProcess(i) ==
    /\ mode[i] = "down"
    /\ mode' = [mode EXCEPT ![i] = "idle"]
    /\ age' = [age EXCEPT ![i] = Interval]
    /\ UNCHANGED <<row, queue, copied, job, crashes>>

\* The loop is gone: the claimed slots it has not launched are forgotten.
LoopEnds(i, to) ==
    /\ mode' = [mode EXCEPT ![i] = to]
    /\ age' = [age EXCEPT ![i] = 0]
    /\ queue' = [queue EXCEPT ![i] = {}]
    /\ copied' = [copied EXCEPT ![i] = [s \in Slots |-> 0]]
    /\ UNCHANGED row

\* The context is cancelled: a tick that is claiming fails, a dispatch loop
\* returns, and drain waits for the jobs in flight.
Shutdown(i) ==
    /\ mode[i] \in {"idle", "claiming", "launching"} /\ crashes < MaxCrashes
    /\ LoopEnds(i, "draining")
    /\ crashes' = crashes + 1
    /\ UNCHANGED job

\* drain is over, all jobs done or DrainTimeout elapsed, and the process exits.
Exit(i) ==
    /\ mode[i] = "draining"
    /\ LoopEnds(i, "down")
    /\ job' = [job EXCEPT ![i] = [w \in Workers |-> NoJob]]
    /\ UNCHANGED crashes

\* The process dies, and its goroutines with it, wherever they are.
Crash(i) ==
    /\ mode[i] # "down" /\ crashes < MaxCrashes
    /\ LoopEnds(i, "down")
    /\ job' = [job EXCEPT ![i] = [w \in Workers |-> NoJob]]
    /\ crashes' = crashes + 1

-----------------------------------------------------------------------------
(* The tick *)

\* tick reads the clock and generateSlots inserts the slots of its window:
\* INSERT ... ON CONFLICT DO NOTHING, so only absent rows appear.  Which cells
\* are active is the catalog's business, and the insert may fail: any subset.
TickStart(i, S, lead) ==
    /\ mode[i] = "idle" /\ age[i] > 0
    /\ mode' = [mode EXCEPT ![i] = "claiming"]
    /\ row' = [s \in Slots |->
                 IF s \in S /\ row[s].status = "absent"
                 THEN [NoRow EXCEPT !.status = "due", !.wait = lead]
                 ELSE row[s]]
    /\ age' = [age EXCEPT ![i] = 0]
    /\ UNCHANGED <<queue, copied, job, crashes>>

\* Mutants of Claimable: the lease is not looked at; an expired lease is not
\* reclaimed; a slot is claimable only at the very instant it falls due.
ClaimableDuringLease(i, s) ==
    \/ row[s].status = "due" /\ row[s].wait <= -age[i]
    \/ row[s].status = "claimed"

ClaimableDueOnly(i, s) == row[s].status = "due" /\ row[s].wait <= -age[i]

ClaimableAtInstant(i, s) ==
    \/ row[s].status = "due" /\ row[s].wait = -age[i]
    \/ row[s].status = "claimed" /\ row[s].lease < -age[i]

\* The predicate of ClaimDue, evaluated at the instant the tick read.
Claimable(i, s) ==
    \/ row[s].status = "due" /\ row[s].wait <= -age[i]
    \/ row[s].status = "claimed" /\ row[s].lease < -age[i]

\* FOR UPDATE SKIP LOCKED: rows another process is claiming at this moment may
\* be locked, and are then skipped.
Lockable(i) ==
    {s \in Slots : \E j \in Instances \ {i} :
                      mode[j] = "claiming" /\ Claimable(j, s)}

\* ORDER BY slot_time LIMIT ClaimBatch over the rows that are not locked.
IsClaim(i, S, locked) ==
    LET free == {s \in Slots : Claimable(i, s)} \ locked IN
    /\ S \subseteq free
    /\ Cardinality(S) <= ClaimBatch
    /\ S # free => Cardinality(S) = ClaimBatch
    /\ \A s \in S, t \in free \ S : SlotTime[s] <= SlotTime[t]

\* Mutant of Claim: the UPDATE counts an attempt (workflow 05 has "attempts++"
\* for a reclaim) and the batch keeps the value read before it.
ClaimCountsAttempt(i, S, locked) ==
    /\ mode[i] = "claiming"
    /\ IsClaim(i, S, locked)
    /\ row' = [s \in Slots |->
                 IF s \in S
                 THEN [row[s] EXCEPT !.status = "claimed", !.attempts = @ + 1,
                                     !.lease = LeaseDuration - age[i]]
                 ELSE row[s]]
    /\ queue' = [queue EXCEPT ![i] = S]
    /\ copied' = [copied EXCEPT ![i] =
                    [s \in Slots |-> IF s \in S THEN row[s].attempts ELSE 0]]
    /\ mode' = [mode EXCEPT ![i] = IF S = {} THEN "idle" ELSE "launching"]
    /\ UNCHANGED <<age, job, crashes>>

\* ClaimDue takes a batch under a lease counted from the tick's instant.
Claim(i, S, locked) ==
    /\ mode[i] = "claiming"
    /\ IsClaim(i, S, locked)
    /\ row' = [s \in Slots |->
                 IF s \in S
                 THEN [row[s] EXCEPT !.status = "claimed",
                                     !.lease = LeaseDuration - age[i]]
                 ELSE row[s]]
    /\ queue' = [queue EXCEPT ![i] = S]
    /\ copied' = [copied EXCEPT ![i] =
                    [s \in Slots |-> IF s \in S THEN row[s].attempts ELSE 0]]
    /\ mode' = [mode EXCEPT ![i] = IF S = {} THEN "idle" ELSE "launching"]
    /\ UNCHANGED <<age, job, crashes>>

\* The claim transaction fails: the tick logs it and returns.
ClaimError(i) ==
    /\ mode[i] = "claiming"
    /\ mode' = [mode EXCEPT ![i] = "idle"]
    /\ UNCHANGED <<row, age, queue, copied, job, crashes>>

\* The dispatch loop obtains a token for the next claimed slot and starts
\* execute in a goroutine with its own timeout.
Launch(i, w, s) ==
    /\ mode[i] = "launching" /\ s \in queue[i] /\ ~Busy(i, w)
    /\ job' = [job EXCEPT ![i][w] =
                 [pc |-> "launched", slot |-> s, attempts |-> copied[i][s],
                  left |-> JobTimeout]]
    /\ queue' = [queue EXCEPT ![i] = @ \ {s}]
    /\ copied' = [copied EXCEPT ![i][s] = 0]
    /\ mode' = [mode EXCEPT ![i] = IF queue[i] = {s} THEN "idle" ELSE @]
    /\ UNCHANGED <<row, age, crashes>>

-----------------------------------------------------------------------------
(* The job *)

\* execute returns and releases its token without another write.
Release(i, w) ==
    /\ job' = [job EXCEPT ![i][w] = NoJob]
    /\ UNCHANGED <<mode, age, queue, copied, crashes>>

\* runs.Start inserts the schedule_runs row ...
StartRun(i, w) ==
    /\ job[i][w].pc = "launched"
    /\ job' = [job EXCEPT ![i][w].pc = "dispatching"]
    /\ row' = [row EXCEPT ![job[i][w].slot].runs =
                 IF @ < RunCap THEN @ + 1 ELSE @]
    /\ UNCHANGED <<mode, age, queue, copied, crashes>>

\* ... or fails, and the slot is left to its lease.
StartRunError(i, w) ==
    /\ job[i][w].pc = "launched"
    /\ Release(i, w)
    /\ UNCHANGED row

\* Dispatch returns, with or without an error.  runs.Finish follows in a
\* transaction of its own; its error is only logged and execute goes on.
DispatchReturns(i, w, next) ==
    /\ job[i][w].pc = "dispatching"
    /\ job' = [job EXCEPT ![i][w].pc = next]
    /\ UNCHANGED <<row, mode, age, queue, copied, crashes>>

\* UPDATE ... SET status = 'completed' WHERE id = $1: neither the owner nor the
\* status of the row is looked at.
Complete(i, w) ==
    /\ job[i][w].pc = "completing"
    /\ row' = [row EXCEPT ![job[i][w].slot].status = "completed"]
    /\ Release(i, w)

\* retryBackoff: 1, 2, 4, 8, then 16 seconds.
RetryBackoff(n) == IF n <= 1 THEN 1 ELSE IF n = 2 THEN 2 ELSE IF n = 3 THEN 4
                   ELSE IF n = 4 THEN 8 ELSE 16

\* Mutant of FailedRow: one retry more than the ceiling allows.
FailedRowOneMore(r, n) ==
    [r EXCEPT !.status = IF n <= MaxAttempts THEN "due" ELSE "failed",
              !.attempts = n,
              !.wait = IF n <= MaxAttempts THEN RetryBackoff(n) ELSE @,
              !.lease = Past]

\* A row after its n-th failed attempt: due again after the backoff until the
\* ceiling is reached, the claim given up.
FailedRow(r, n) ==
    [r EXCEPT !.status = IF n < MaxAttempts THEN "due" ELSE "failed",
              !.attempts = n,
              !.wait = IF n < MaxAttempts THEN RetryBackoff(n) ELSE @,
              !.lease = Past]

\* Fail counts from the job's own copy of Attempts.
Fail(i, w) ==
    /\ job[i][w].pc = "failing"
    /\ row' = [row EXCEPT ![job[i][w].slot] = FailedRow(@, job[i][w].attempts + 1)]
    /\ Release(i, w)

\* The last transaction fails; its error is only logged.
OutcomeLost(i, w) ==
    /\ job[i][w].pc \in {"completing", "failing"}
    /\ Release(i, w)
    /\ UNCHANGED row

\* The job's context expires.  Every later statement of execute runs under
\* that same context and fails, so nothing more is written: not the run, not
\* the slot, not its attempts.
TimedOut(i, w) ==
    /\ Busy(i, w) /\ job[i][w].left = 0
    /\ Release(i, w)
    /\ UNCHANGED row

-----------------------------------------------------------------------------
(* Time *)

Earlier(x) == IF x > Past THEN x - 1 ELSE x

\* One unit of time passes.  A job does not outlive its context, a tick does
\* not linger before its claim longer than TickLag, an idle loop ticks within
\* Interval of its last tick, and a dispatch loop does not sleep while a token is free.
Advance ==
    /\ \A i \in Instances, w \in Workers : Busy(i, w) => job[i][w].left > 0
    /\ \A i \in Instances : mode[i] = "idle" => age[i] < Interval
    /\ \A i \in Instances : mode[i] = "claiming" => age[i] < TickLag
    /\ \A i \in Instances : mode[i] = "launching" => \A w \in Workers : Busy(i, w)
    /\ row' = [s \in Slots |-> [row[s] EXCEPT !.wait = Earlier(@),
                                              !.lease = Earlier(@)]]
    /\ age' = [i \in Instances |-> 
                 IF mode[i] # "down" /\ age[i] < TickLag + Interval
                 THEN age[i] + 1 ELSE age[i]]
    /\ job' = [i \in Instances |-> [w \in Workers |->
                 IF Busy(i, w) THEN [job[i][w] EXCEPT !.left = @ - 1]
                 ELSE job[i][w]]]
    /\ UNCHANGED <<mode, queue, copied, crashes>>

-----------------------------------------------------------------------------
ClaimStep(i) ==
    \/ \E S \in SUBSET Slots, locked \in SUBSET Lockable(i) : Claim(i, S, locked)
    \/ ClaimError(i)

JobStep(i, w) ==
    \/ StartRun(i, w)
    \/ StartRunError(i, w)
    \/ \E next \in {"completing", "failing"} : DispatchReturns(i, w, next)
    \/ Complete(i, w)
    \/ Fail(i, w)
    \/ OutcomeLost(i, w)
    \/ TimedOut(i, w)

Next ==
    \/ \E i \in Instances :
         \/ StartProcess(i)
         \/ Shutdown(i)
         \/ Exit(i)
         \/ Crash(i)
         \/ \E S \in SUBSET Slots, lead \in 0..MaxLead : TickStart(i, S, lead)
         \/ ClaimStep(i)
         \/ \E w \in Workers, s \in Slots : Launch(i, w, s)
         \/ \E w \in Workers : JobStep(i, w)
    \/ Advance

Spec == Init /\ [][Next]_vars

\* Time passes, goroutines run, an exited process is started again, and
\* errors and locks do not thwart every claim that would take a given slot.
Fairness ==
    /\ SF_vars(Advance)
    /\ \A i \in Instances :
         /\ WF_vars(StartProcess(i))
         /\ WF_vars(Exit(i))
         /\ WF_vars(\E S \in SUBSET Slots, lead \in 0..MaxLead : TickStart(i, S, lead))
         /\ WF_vars(ClaimStep(i))
         /\ \A s \in Slots :
              SF_vars(\E S \in SUBSET Slots : s \in S /\ Claim(i, S, {}))
         /\ WF_vars(\E w \in Workers, s \in Slots : Launch(i, w, s))
         /\ \A w \in Workers : WF_vars(JobStep(i, w))

FairSpec == Spec /\ Fairness

-----------------------------------------------------------------------------
(* Properties *)

\* Who may still launch s or write its row: a dispatch loop holding it in its
\* batch (token NoSlot) or a job executing it.
Holders(s) ==
    {<<i, NoSlot>> : i \in {j \in Instances : s \in queue[j]}}
    \cup {h \in Instances \X Workers :
            Busy(h[1], h[2]) /\ job[h[1]][h[2]].slot = s}

\* The claim is what serialises execution: at any time at most one dispatch
\* loop or job, of all processes, has a slot in hand.  Complete and Fail rely
\* on it, since they name the slot by id and check no owner.
SingleExecutor ==
    \A s \in Slots : \A g, h \in Holders(s) : g = h

\* Whoever has a slot in hand works from a current copy: the row is still
\* claimed, its lease outlives the job's context, and Attempts is what the
\* claim read, so execute's Attempts + 1 loses no failure.
HoldersAreCurrent ==
    /\ \A i \in Instances : \A s \in queue[i] :
         /\ row[s].status = "claimed" /\ row[s].lease >= JobTimeout
         /\ row[s].attempts = copied[i][s]
    /\ \A i \in Instances, w \in Workers : Busy(i, w) =>
         LET j == job[i][w] IN
         /\ row[j.slot].status = "claimed" /\ row[j.slot].lease >= j.left
         /\ row[j.slot].attempts = j.attempts

\* A slot a process gave up on (crash, shutdown mid-batch, timeout, a lost
\* outcome) does not stay claimed for good: after its lease some process has
\* it in hand again, or it was settled.
OrphansRecovered ==
    \A s \in Slots :
      (row[s].status = "claimed" /\ Holders(s) = {})
        ~> (row[s].status # "claimed" \/ Holders(s) # {})

\* No due slot is passed over for ever, whatever else is retried before it.
DueIsServed ==
    \A s \in Slots : row[s].status = "due" ~> row[s].status = "claimed"

\* slot.go, MaxAttempts: no slot is executed more often than the ceiling.
RetryCeiling ==
    \A s \in Slots : row[s].runs <= MaxAttempts
=============================================================================
