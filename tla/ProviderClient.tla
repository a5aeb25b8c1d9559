--------------------------- MODULE ProviderClient ---------------------------
(***************************************************************************)
(* The outbound side of a forecast provider adapter: FetchForecast, the    *)
(* transport's Get with its retries (providerhttp), the token bucket every *)
(* request waits for, and OpenWeather's daily budget.                      *)
(*                                                                         *)
(* Fetchers are the jobs that collect from one provider at the same time.  *)
(* Budget and bucket have a mutex each, so each of their methods is one    *)
(* step; a fetch goes on between them.  Time is counted from a midnight.   *)
(***************************************************************************)
EXTENDS TokenBucket, FiniteSets

CONSTANTS
    Fetchers,       \* concurrent fetches
    MaxAttempts,    \* Config.MaxRetries
    MaxBudget,      \* Config.DailyBudget
    Day,            \* units of time in a day
    Advice,         \* what Retry-After may say; 0 stands for its absence
    MaxUtc          \* bound: time

ASSUME ClientAssumption ==
    /\ IsFiniteSet(Fetchers) /\ MaxAttempts \in Nat \ {0} /\ MaxBudget \in Nat \ {0}
    /\ Day \in Nat \ {0} /\ Advice \subseteq Nat /\ MaxUtc \in Nat

VARIABLES
    utc,        \* the time
    guarded,    \* whether the adapter has a budget and opts 429 out of retries
    bucket,     \* the token bucket
    budget,     \* dailyBudget
    fetch,      \* where each fetch is
    sent,       \* history: the requests made today
    crossed,    \* history: the fetches that were under way at the last midnight
    advised,    \* history: until when today's answers asked to wait
    eager       \* history: the tokens of a bucket that is refilled all the time

clientVars == <<utc, guarded, bucket, budget, fetch, sent, crossed, advised, eager>>

\* What a request comes to: success; 5xx; 429; another status; no response.
Answers == {"ok", "unavailable", "limited", "refused", "lost"}

FetchPCs == {"idle", "reserve", "backoff", "wait", "send", "account", "pause"}

\* at is the time read before the budget is asked; limited is whether Get ends with a
\* 429, and advice what came with it.
Fetch == [pc : FetchPCs, at : 0..MaxUtc, attempts : 0..MaxAttempts,
          limited : BOOLEAN, advice : Advice \cup {0}]

NoFetch == [pc |-> "idle", at |-> 0, attempts |-> 0, limited |-> FALSE, advice |-> 0]

Today(t) == t \div Day

Midnight(t) == (Today(t) + 1) * Day

\* Every variable has its type.
ClientTypeOK ==
    /\ utc \in 0..MaxUtc
    /\ guarded \in BOOLEAN
    /\ bucket \in Bucket
    /\ budget \in [day : 0..Today(MaxUtc), used : 0..MaxBudget, pausedTil : Nat]
    /\ fetch \in [Fetchers -> Fetch]
    /\ sent \in Nat /\ crossed \in 0..Cardinality(Fetchers)
    /\ advised \in Nat /\ eager \in Int

-----------------------------------------------------------------------------
(* dailyBudget.  A pausedTil of 0 is none.                                 *)

\* rollover.
Rollover(b, t) ==
    IF Today(t) > b.day THEN [day |-> Today(t), used |-> 0, pausedTil |-> 0] ELSE b

\* reserve, when it admits the call.
MayReserve(b, t) ==
    LET r == Rollover(b, t) IN r.pausedTil <= t /\ r.used < MaxBudget

\* What reserve leaves; an elapsed pause is cleared before the counter is looked at.
Reserved(b, t) ==
    LET r == Rollover(b, t)
        cleared == IF r.pausedTil <= t THEN [r EXCEPT !.pausedTil = 0] ELSE r
    IN  IF MayReserve(b, t) THEN [cleared EXCEPT !.used = @ + 1] ELSE cleared

\* Mutant of Paused: the later call wins, not the later time.
PausedLast(b, t, d) ==
    [Rollover(b, t) EXCEPT !.pausedTil = IF d > 0 THEN t + d ELSE Midnight(t)]

\* pause.
Paused(b, t, d) ==
    LET r == Rollover(b, t)
        until == IF d > 0 THEN t + d ELSE Midnight(t)
    IN  [r EXCEPT !.pausedTil = IF until > @ THEN until ELSE @]

\* Mutant of Consumed: the counter is not capped.
ConsumedUncapped(b, t, n) ==
    IF n <= 0 THEN b ELSE [Rollover(b, t) EXCEPT !.used = @ + n]

\* consume.
Consumed(b, t, n) ==
    IF n <= 0 THEN b
    ELSE [Rollover(b, t) EXCEPT !.used = IF @ + n > MaxBudget THEN MaxBudget ELSE @ + n]

-----------------------------------------------------------------------------
(* FetchForecast and Get.                                                  *)

FetchGoto(f, pc) == fetch' = [fetch EXCEPT ![f].pc = pc]

\* The clock is read before the budget is asked.  Open-Meteo has no budget to ask.
StartFetch(f) ==
    /\ fetch[f].pc = "idle"
    /\ fetch' = [fetch EXCEPT ![f] = [NoFetch EXCEPT !.pc = IF guarded THEN "reserve" ELSE "wait",
                                                     !.at = utc]]
    /\ UNCHANGED <<utc, bucket, budget, sent, crossed, advised, eager>>

\* Refused, the fetch ends as rate limited.
Reserve(f) ==
    /\ fetch[f].pc = "reserve"
    /\ budget' = Reserved(budget, fetch[f].at)
    /\ IF MayReserve(budget, fetch[f].at)
       THEN FetchGoto(f, "wait")
       ELSE fetch' = [fetch EXCEPT ![f] = NoFetch]
    /\ UNCHANGED <<utc, bucket, sent, crossed, advised, eager>>

\* The delay before a retry is over.
Backoff(f) ==
    /\ fetch[f].pc = "backoff"
    /\ FetchGoto(f, "wait")
    /\ UNCHANGED <<utc, bucket, budget, sent, crossed, advised, eager>>

\* A pass of Limiter.Wait's loop: take a token, or look again later.
Wait(f) ==
    /\ fetch[f].pc = "wait"
    /\ bucket' = Taken(bucket, utc)
    /\ IF Available(bucket, utc)
       THEN FetchGoto(f, "send") /\ eager' = eager - Token
       ELSE UNCHANGED <<fetch, eager>>
    /\ UNCHANGED <<utc, budget, sent, crossed, advised>>

\* The context ends during the backoff or the wait for a token: ErrTimeout.
ContextDone(f) ==
    /\ fetch[f].pc \in {"backoff", "wait"}
    /\ FetchGoto(f, "account")
    /\ UNCHANGED <<utc, bucket, budget, sent, crossed, advised, eager>>

\* classify, and the override of OpenWeather.
Retryable(answer) ==
    answer \in {"unavailable", "lost"} \/ (answer = "limited" /\ ~guarded)

\* Mutant of DoOnce: the attempts of the last round are not counted.
DoOnceUncounted(f) ==
    /\ fetch[f].pc = "send"
    /\ sent' = sent + 1
    /\ \E a \in Answers, d \in Advice \cup {0} :
         /\ a # "limited" => d = 0
         /\ LET n == fetch[f].attempts + 1
                again == Retryable(a) /\ n < MaxAttempts
            IN  fetch' = [fetch EXCEPT ![f] =
                            [@ EXCEPT !.attempts = IF again THEN n ELSE fetch[f].attempts,
                                      !.limited = a = "limited" /\ ~again,
                                      !.advice = IF again THEN 0 ELSE d,
                                      !.pc = IF again THEN "backoff" ELSE "account"]]
    /\ UNCHANGED <<utc, bucket, budget, crossed, advised, eager>>

\* One request and its answer.  A response that the rest of the transport rejects (too
\* large, cut short) is retried like one that is lost.
DoOnce(f) ==
    /\ fetch[f].pc = "send"
    /\ sent' = sent + 1
    /\ \E a \in Answers, d \in Advice \cup {0} :
         /\ a # "limited" => d = 0
         /\ LET n == fetch[f].attempts + 1
                again == Retryable(a) /\ n < MaxAttempts
            IN  fetch' = [fetch EXCEPT ![f] =
                            [@ EXCEPT !.attempts = n,
                                      !.limited = a = "limited" /\ ~again,
                                      !.advice = IF again THEN 0 ELSE d,
                                      !.pc = IF again THEN "backoff" ELSE "account"]]
    /\ UNCHANGED <<utc, bucket, budget, crossed, advised, eager>>

\* Get has returned: the requests beyond the reserved one are debited.
Account(f) ==
    /\ fetch[f].pc = "account"
    /\ budget' = IF guarded THEN Consumed(budget, utc, fetch[f].attempts - 1) ELSE budget
    /\ IF guarded /\ fetch[f].limited
       THEN FetchGoto(f, "pause")
       ELSE fetch' = [fetch EXCEPT ![f] = NoFetch]
    /\ UNCHANGED <<utc, bucket, sent, crossed, advised, eager>>

\* A 429 engages the pause, for as long as advised or until midnight.
Pause(f) ==
    LET d == fetch[f].advice
        until == IF d > 0 THEN utc + d ELSE Midnight(utc)
    IN  /\ fetch[f].pc = "pause"
        /\ budget' = Paused(budget, utc, d)
        /\ advised' = IF until > advised THEN until ELSE advised
        /\ fetch' = [fetch EXCEPT ![f] = NoFetch]
        /\ UNCHANGED <<utc, bucket, sent, crossed, eager>>

\* Time passes.
Pass ==
    LET midnight == (utc + 1) % Day = 0
    IN  /\ utc < MaxUtc
        /\ utc' = utc + 1
        /\ eager' = IF eager + Refill > BucketMax THEN BucketMax ELSE eager + Refill
        /\ sent' = IF midnight THEN 0 ELSE sent
        /\ advised' = IF midnight THEN 0 ELSE advised
        /\ crossed' = IF midnight THEN Cardinality({f \in Fetchers : fetch[f].pc # "idle"})
                      ELSE crossed
        /\ UNCHANGED <<bucket, budget, fetch>>

ClientInit ==
    /\ utc = 0
    /\ guarded \in BOOLEAN
    /\ bucket = NewLimiter(0)
    /\ budget = [day |-> 0, used |-> 0, pausedTil |-> 0]
    /\ fetch = [f \in Fetchers |-> NoFetch]
    /\ sent = 0 /\ crossed = 0 /\ advised = 0
    /\ eager = BucketMax

FetchStep(f) ==
    \/ StartFetch(f) \/ Reserve(f) \/ Backoff(f) \/ Wait(f) \/ ContextDone(f)
    \/ DoOnce(f) \/ Account(f) \/ Pause(f)

ClientNext == (Pass \/ \E f \in Fetchers : FetchStep(f)) /\ UNCHANGED guarded

ClientSpec == ClientInit /\ [][ClientNext]_clientVars

-----------------------------------------------------------------------------
\* With a budget, the requests of a UTC day stay within it but for what it cannot see in
\* time: the retries of the fetches under way, which are debited when they end, and the
\* fetches that reserved before midnight and asked after it.
DayCapped ==
    guarded => sent <= MaxBudget + crossed + Cardinality(Fetchers) * (MaxAttempts - 1)

\* The budget admits no fetch before the time that any answer of the day advised to wait
\* for, in whatever order the answers came in ("pauses every further call until the
\* advised retry time"; a pause beyond midnight ends at midnight).
PauseRespected ==
    [][\A f \in Fetchers :
          fetch[f].pc = "reserve" /\ fetch'[f].pc = "wait" => utc >= advised]_clientVars

\* The bucket that is brought up to date on use has, at every moment, the tokens of one
\* that is refilled all the time; no burst of waiters, and no pass of Wait's loop that
\* finds too few tokens, gains or loses any.
BucketIsExact == Refilled(bucket, utc).tokens = eager

\* Budget and bucket meter the requests that are made, retries of concurrent fetches
\* included.
RequestsAreMetered == DayCapped /\ BucketIsExact
=============================================================================
