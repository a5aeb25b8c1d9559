---------------------------- MODULE ClientProofs ----------------------------
(***************************************************************************)
(* The token bucket; the API's rate limit; the fetches of the outbound     *)
(* client, with what a step of one does to the bucket, the budget and the  *)
(* pause, and what the day's requests are covered by; for any number of    *)
(* concurrent fetches and requests.                                        *)
(***************************************************************************)
EXTENDS ProviderClient, RateLimit, TLAPS

-----------------------------------------------------------------------------
(* The token bucket.                                                       *)

\* A refill never fills a bucket beyond its burst.
Capped(n) == IF n > BucketMax THEN BucketMax ELSE n

\* refill keeps a bucket a bucket, up to date, and computes what it has accrued.
LEMMA RefilledTyped ==
    ASSUME NEW b \in Bucket, NEW now \in Nat, b.last <= now
    PROVE  /\ Refilled(b, now) \in Bucket
           /\ Refilled(b, now).last = now
           /\ Refilled(b, now).tokens = Capped(b.tokens + (now - b.last) * Refill)
           /\ Refilled(b, now).tokens \in 0..BucketMax
  <1>1. b.tokens \in 0..BucketMax /\ b.last \in Nat /\ BucketMax \in Nat /\ Refill \in Nat
    BY BucketAssumption DEF Bucket
  <1>2. now - b.last \in Nat
    BY <1>1
  <1>3. (now - b.last) * Refill \in Nat
    BY <1>1, <1>2
  <1>4. CASE now = b.last
    <2>1. now - b.last = 0 /\ 0 * Refill = 0
      BY <1>1, <1>4
    <2>2. b.tokens + (now - b.last) * Refill = b.tokens
      BY <1>1, <2>1
    <2>3. Refilled(b, now) = b
      BY <1>1, <1>4 DEF Refilled
    <2>4. Capped(b.tokens) = b.tokens
      BY <1>1 DEF Capped
    <2>5. QED
      BY <1>1, <1>4, <2>2, <2>3, <2>4
  <1>5. CASE now > b.last
    <2> DEFINE sum == b.tokens + (now - b.last) * Refill
               r == [tokens |-> IF sum > BucketMax THEN BucketMax ELSE sum, last |-> now]
    <2>1. Refilled(b, now) = r
      BY <1>1, <1>5 DEF Refilled
    <2>2. sum \in Nat
      BY <1>1, <1>3
    <2> HIDE DEF sum
    <2>3. Capped(sum) \in 0..BucketMax
      BY <1>1, <2>2 DEF Capped
    <2>4. r \in Bucket /\ r.last = now /\ r.tokens = Capped(sum)
      BY <2>3 DEF Bucket, Capped
    <2>5. QED
      BY <2>1, <2>3, <2>4 DEF sum
  <1>6. QED
    BY <1>1, <1>4, <1>5

\* A unit of time adds Refill, up to the most a bucket holds, however long ago the
\* bucket was brought up to date.
LEMMA RefillPerUnit ==
    ASSUME NEW b \in Bucket, NEW now \in Nat, b.last <= now
    PROVE  Refilled(b, now + 1).tokens = Capped(Refilled(b, now).tokens + Refill)
  <1>1. b.tokens \in 0..BucketMax /\ b.last \in Nat /\ BucketMax \in Nat /\ Refill \in Nat
    BY BucketAssumption DEF Bucket
  <1>2. PICK d \in Nat : d = now - b.last
    BY <1>1
  <1>3. (now + 1) - b.last = d + 1 /\ b.last <= now + 1 /\ now + 1 \in Nat
    BY <1>1, <1>2
  <1>4. (d + 1) * Refill = d * Refill + Refill /\ d * Refill \in Nat
    BY <1>1
  <1>5. Refilled(b, now).tokens = Capped(b.tokens + d * Refill)
    BY <1>2, RefilledTyped
  <1>6. Refilled(b, now + 1).tokens = Capped(b.tokens + (d + 1) * Refill)
    BY <1>3, RefilledTyped
  <1>7. QED
    BY <1>1, <1>4, <1>5, <1>6 DEF Capped

\* A bucket that is up to date does not change by being brought up to date.
LEMMA RefilledNow ==
    ASSUME NEW b \in Bucket, NEW now \in Nat, b.last = now
    PROVE  Refilled(b, now) = b
  BY DEF Refilled, Bucket

\* Allow and the pass of Wait's loop take a whole token or none.
LEMMA TakenTyped ==
    ASSUME NEW b \in Bucket, NEW now \in Nat, b.last <= now
    PROVE  /\ Taken(b, now) \in Bucket
           /\ Taken(b, now).last = now
           /\ Refilled(Taken(b, now), now).tokens =
                IF Available(b, now) THEN Refilled(b, now).tokens - Token
                ELSE Refilled(b, now).tokens
  <1> DEFINE r == Refilled(b, now)
             s == [r EXCEPT !.tokens = r.tokens - Token]
  <1>1. r \in Bucket /\ r.last = now /\ r.tokens \in 0..BucketMax
    BY RefilledTyped
  <1>2. Taken(b, now) = IF r.tokens >= Token THEN s ELSE r
    BY <1>1 DEF Taken
  <1>3. Available(b, now) <=> r.tokens >= Token
    BY DEF Available
  <1> HIDE DEF r
  <1>4. r.tokens >= Token => s \in Bucket /\ s.last = now /\ s.tokens = r.tokens - Token
    <2>1. r.tokens >= Token => r.tokens - Token \in 0..BucketMax
      BY <1>1, BucketAssumption
    <2>2. QED
      BY <1>1, <2>1 DEF Bucket
  <1> HIDE DEF s
  <1>5. Taken(b, now) \in Bucket /\ Taken(b, now).last = now
    BY <1>1, <1>2, <1>4
  <1>6. Refilled(Taken(b, now), now) = Taken(b, now)
    BY <1>5, RefilledNow
  <1>7. QED
    BY <1>2, <1>3, <1>4, <1>5, <1>6 DEF r

-----------------------------------------------------------------------------
(* The rate limit of the API.                                              *)

\* The bucket of an address that has been seen.
Kept(a) ==
    /\ buckets[a] \in Bucket /\ buckets[a].last <= minute
    /\ Refilled(buckets[a], minute).tokens = earned[a]

\* An address without a bucket has earned a full one; whoever has arrived has one.
LimitInv ==
    /\ minute \in 0..MaxTick
    /\ DOMAIN buckets = Addresses
    /\ buckets = [a \in Addresses |-> buckets[a]]
    /\ arrival \in [Arrivals -> Addresses \cup {NoAddress}]
    /\ earned \in [Addresses -> Int]
    /\ \A a \in Addresses : Kept(a) \/ (buckets[a] = <<>> /\ earned[a] = BucketMax)
    /\ \A r \in Arrivals : arrival[r] # NoAddress => Kept(arrival[r])

\* A new bucket is full.
LEMMA NewLimiterKept ==
    ASSUME NEW now \in Nat
    PROVE  /\ NewLimiter(now) \in Bucket /\ NewLimiter(now).last = now
           /\ Refilled(NewLimiter(now), now).tokens = BucketMax
  BY BucketAssumption DEF NewLimiter, Bucket, Refilled

\* It holds of a limiter no address has met.
LEMMA LimitInvInit == LimitInit => LimitInv
  BY RateLimitAssumption, BucketAssumption DEF LimitInit, LimitInv

\* Arrive changes one address's bucket, and only from none to a full one.
LEMMA ArriveKeeps ==
    ASSUME LimitInv, NEW r \in Arrivals, Arrive(r)
    PROVE  LimitInv'
  <1>1. PICK a \in Addresses : /\ arrival' = [arrival EXCEPT ![r] = a]
                               /\ buckets' = [buckets EXCEPT ![a] = BucketFor(a)]
    BY Zenon DEF Arrive
  <1>2. UNCHANGED <<minute, earned>> /\ minute \in Nat
    BY RateLimitAssumption DEF Arrive, LimitInv
  <1>3. \A d \in Addresses \ {a} : buckets'[d] = buckets[d]
    BY <1>1 DEF LimitInv
  <1>4. buckets'[a] = BucketFor(a)
    BY <1>1 DEF LimitInv
  <1>5. Kept(a)'
    <2>1. CASE buckets[a] = <<>> /\ earned[a] = BucketMax
      BY <1>2, <1>4, <2>1, NewLimiterKept DEF BucketFor, Kept
    <2>2. CASE Kept(a) /\ buckets[a] # <<>>
      BY <1>2, <1>4, <2>2 DEF BucketFor, Kept
    <2>3. CASE Kept(a) /\ buckets[a] = <<>>
      <3>1. buckets[a].last <= minute /\ buckets[a] \in Bucket
        BY <2>3 DEF Kept
      <3>2. <<>> \notin Bucket
        BY DEF Bucket
      <3>3. QED
        BY <2>3, <3>1, <3>2
    <2>4. QED
      BY <2>1, <2>2, <2>3 DEF LimitInv
  <1>6. \A d \in Addresses \ {a} : Kept(d)' <=> Kept(d)
    BY <1>2, <1>3 DEF Kept
  <1>7. buckets' = [d \in Addresses |-> buckets'[d]] /\ DOMAIN buckets' = Addresses
    BY <1>1, Zenon DEF LimitInv
  <1>8. arrival' \in [Arrivals -> Addresses \cup {NoAddress}] /\ arrival'[r] = a
        /\ \A q \in Arrivals \ {r} : arrival'[q] = arrival[q]
    BY <1>1 DEF LimitInv
  <1>9. \A q \in Arrivals : arrival'[q] # NoAddress => Kept(arrival[q])'
    BY <1>5, <1>6, <1>8, Zenon DEF LimitInv
  <1>10. QED
    BY <1>2, <1>3, <1>5, <1>6, <1>7, <1>8, <1>9, Zenon DEF LimitInv

\* Allow takes from one address's bucket what it takes from what that address has earned.
LEMMA AllowKeeps ==
    ASSUME LimitInv, NEW r \in Arrivals, Allow(r)
    PROVE  LimitInv'
  <1>1. PICK a \in Addresses : a = arrival[r] /\ Kept(a)
    BY DEF Allow, LimitInv
  <1>2. /\ buckets' = [buckets EXCEPT ![a] = Taken(buckets[a], minute)]
        /\ earned' = IF Available(buckets[a], minute)
                     THEN [earned EXCEPT ![a] = earned[a] - Token] ELSE earned
        /\ arrival' = [arrival EXCEPT ![r] = NoAddress]
        /\ UNCHANGED minute /\ minute \in Nat
    BY <1>1, RateLimitAssumption DEF Allow, LimitInv
  <1>3. /\ \A d \in Addresses \ {a} : buckets'[d] = buckets[d] /\ earned'[d] = earned[d]
        /\ buckets'[a] = Taken(buckets[a], minute)
        /\ buckets' = [d \in Addresses |-> buckets'[d]] /\ DOMAIN buckets' = Addresses
    BY <1>2, Zenon DEF LimitInv
  <1>4. /\ earned' \in [Addresses -> Int]
        /\ earned'[a] = IF Available(buckets[a], minute) THEN earned[a] - Token ELSE earned[a]
    BY <1>2, BucketAssumption DEF LimitInv
  <1>5. Kept(a)'
    <2>1. buckets[a] \in Bucket /\ buckets[a].last <= minute
          /\ Refilled(buckets[a], minute).tokens = earned[a]
      BY <1>1 DEF Kept
    <2>2. /\ Taken(buckets[a], minute) \in Bucket
          /\ Taken(buckets[a], minute).last = minute
          /\ Refilled(Taken(buckets[a], minute), minute).tokens = earned'[a]
      BY <1>2, <1>4, <2>1, TakenTyped
    <2>3. QED
      BY <1>2, <1>3, <2>2 DEF Kept
  <1>6. \A d \in Addresses \ {a} : Kept(d)' <=> Kept(d)
    BY <1>2, <1>3 DEF Kept
  <1>7. arrival' \in [Arrivals -> Addresses \cup {NoAddress}] /\ arrival'[r] = NoAddress
        /\ \A q \in Arrivals \ {r} : arrival'[q] = arrival[q]
    BY <1>2 DEF LimitInv
  <1>8. \A q \in Arrivals : arrival'[q] # NoAddress => Kept(arrival[q])'
    BY <1>5, <1>6, <1>7, Zenon DEF LimitInv
  <1>9. QED
    BY <1>2, <1>3, <1>4, <1>5, <1>6, <1>7, <1>8, Zenon DEF LimitInv

\* Time passes for every bucket alike, brought up to date or not.
LEMMA MinuteKeeps ==
    ASSUME LimitInv, MinutePasses
    PROVE  LimitInv'
  <1>1. /\ minute \in Nat /\ minute' = minute + 1 /\ minute' \in 0..MaxTick
        /\ earned' = [a \in Addresses |-> Capped(earned[a] + Refill)]
        /\ UNCHANGED <<buckets, arrival>>
    BY RateLimitAssumption DEF MinutePasses, LimitInv, Capped
  <1>2. earned' \in [Addresses -> Int]
    BY <1>1, BucketAssumption DEF LimitInv, Capped
  <1>3. ASSUME NEW a \in Addresses, Kept(a)
        PROVE  Kept(a)'
    <2>1. buckets[a] \in Bucket /\ buckets[a].last <= minute
          /\ Refilled(buckets[a], minute).tokens = earned[a]
      BY <1>3 DEF Kept
    <2>2. Refilled(buckets[a], minute + 1).tokens = earned'[a]
      BY <1>1, <2>1, RefillPerUnit, Zenon
    <2>3. buckets[a].last <= minute + 1
      BY <1>1, <2>1 DEF Bucket
    <2>4. QED
      BY <1>1, <2>1, <2>2, <2>3, Zenon DEF Kept
  <1>4. \A a \in Addresses : earned[a] = BucketMax => earned'[a] = BucketMax
    BY <1>1, BucketAssumption DEF Capped
  <1>5. \A r \in Arrivals : arrival'[r] # NoAddress => Kept(arrival[r])'
    BY <1>1, <1>3 DEF LimitInv
  <1>6. QED
    BY <1>1, <1>2, <1>3, <1>4, <1>5 DEF LimitInv

\* Buckets, arrivals and what each address has earned belong together in every behaviour.
THEOREM LimitInvariant == LimitSpec => []LimitInv
<1>1. LimitInv /\ [LimitNext]_limitVars => LimitInv'
  <2>1. ASSUME LimitInv, UNCHANGED limitVars PROVE LimitInv'
    BY <2>1, Zenon DEF LimitInv, Kept, limitVars
  <2> QED
    BY <2>1, ArriveKeeps, AllowKeeps, MinuteKeeps DEF LimitNext
<1> QED
  BY <1>1, LimitInvInit, PTL DEF LimitSpec

\* KeyedLimiter.Allow: each address is limited by its own rate alone, for any set of
\* addresses, any number of concurrent requests, and any bucket.
THEOREM EachAddressItsRate == LimitSpec => []RateIsPerAddress
<1>1. LimitInv => RateIsPerAddress
  BY DEF LimitInv, Kept, RateIsPerAddress
<1> QED
  BY <1>1, LimitInvariant, PTL

-----------------------------------------------------------------------------
(* The outbound client: days, and the budget's methods.                    *)

\* Days only go forward, one at a time.
LEMMA TodayMonotone ==
    ASSUME NEW t \in Nat, NEW u \in Nat, t <= u
    PROVE  Today(t) \in Nat /\ Today(u) \in Nat /\ Today(t) <= Today(u)
  BY ClientAssumption DEF Today

\* A tick ends the day or leaves it.
LEMMA TodayNext ==
    ASSUME NEW t \in Nat
    PROVE  /\ (t + 1) % Day = 0 => Today(t + 1) = Today(t) + 1
           /\ (t + 1) % Day # 0 => Today(t + 1) = Today(t)
  BY ClientAssumption DEF Today

\* The budget of a provider: the day it counts, what that day used, the pause.
Budget == [day : 0..Today(MaxUtc), used : 0..MaxBudget, pausedTil : Nat]

\* rollover starts a later day afresh.
LEMMA RolloverFacts ==
    ASSUME NEW b \in Budget, NEW t \in 0..MaxUtc
    PROVE  /\ Rollover(b, t) \in Budget
           /\ Rollover(b, t) = IF Today(t) > b.day
                               THEN [day |-> Today(t), used |-> 0, pausedTil |-> 0] ELSE b
  <1>1. Today(t) \in 0..Today(MaxUtc) /\ 0 \in 0..MaxBudget
    BY TodayMonotone, ClientAssumption
  <1>2. [day |-> Today(t), used |-> 0, pausedTil |-> 0] \in Budget
    BY <1>1 DEF Budget
  <1>3. QED
    BY <1>2 DEF Rollover

\* reserve counts the call it admits, and clears a pause that is over.
LEMMA ReservedFacts ==
    ASSUME NEW b \in Budget, NEW t \in 0..MaxUtc, NEW r, r = Rollover(b, t)
    PROVE  /\ Reserved(b, t) \in Budget
           /\ Reserved(b, t).day = r.day
           /\ Reserved(b, t).used = IF MayReserve(b, t) THEN r.used + 1 ELSE r.used
           /\ Reserved(b, t).pausedTil = IF r.pausedTil <= t THEN 0 ELSE r.pausedTil
           /\ MayReserve(b, t) <=> r.pausedTil <= t /\ r.used < MaxBudget
  <1> DEFINE c == IF r.pausedTil <= t THEN [r EXCEPT !.pausedTil = 0] ELSE r
             d == [c EXCEPT !.used = c.used + 1]
  <1>1. r \in Budget
    BY RolloverFacts
  <1>2. MayReserve(b, t) <=> r.pausedTil <= t /\ r.used < MaxBudget
    BY DEF MayReserve
  <1>3. /\ c \in Budget /\ c.day = r.day /\ c.used = r.used
        /\ c.pausedTil = IF r.pausedTil <= t THEN 0 ELSE r.pausedTil
    BY <1>1 DEF Budget
  <1>4. Reserved(b, t) = IF MayReserve(b, t) THEN d ELSE c
    BY DEF Reserved
  <1> HIDE DEF c
  <1>5. MayReserve(b, t) => c.used + 1 \in 0..MaxBudget
    BY <1>2, <1>3, ClientAssumption DEF Budget
  <1>6. /\ MayReserve(b, t) => d \in Budget
        /\ d.day = c.day /\ d.used = c.used + 1 /\ d.pausedTil = c.pausedTil
    BY <1>3, <1>5 DEF Budget
  <1> HIDE DEF d
  <1>7. QED
    BY <1>2, <1>3, <1>4, <1>6

\* When a 429 with this advice asks to wait until.
Until(t, d) == IF d > 0 THEN t + d ELSE Midnight(t)

\* A pause ends at a time.
LEMMA UntilTyped ==
    ASSUME NEW t \in Nat, NEW d \in Nat
    PROVE  Until(t, d) \in Nat
  <1>1. Midnight(t) \in Nat
    BY TodayMonotone, ClientAssumption DEF Midnight
  <1>2. QED
    BY <1>1 DEF Until

\* pause never shortens a pause of the day.
LEMMA PausedFacts ==
    ASSUME NEW b \in Budget, NEW t \in 0..MaxUtc, NEW d \in Nat, NEW r, r = Rollover(b, t)
    PROVE  /\ Paused(b, t, d) \in Budget
           /\ Paused(b, t, d).day = r.day /\ Paused(b, t, d).used = r.used
           /\ Paused(b, t, d).pausedTil \in Nat
           /\ r.pausedTil <= Paused(b, t, d).pausedTil
           /\ Until(t, d) <= Paused(b, t, d).pausedTil
  <1> DEFINE u == Until(t, d)
             x == IF u > r.pausedTil THEN u ELSE r.pausedTil
             p == [r EXCEPT !.pausedTil = x]
  <1>1. r \in Budget /\ r.pausedTil \in Nat
    BY RolloverFacts DEF Budget
  <1>2. u \in Nat
    <2>1. t \in Nat
      BY ClientAssumption
    <2>2. QED
      BY <2>1, UntilTyped, Zenon
  <1>3. Paused(b, t, d) = p
    BY DEF Paused, Until
  <1> HIDE DEF u
  <1>4. x \in Nat /\ r.pausedTil <= x /\ u <= x
    BY <1>1, <1>2
  <1> HIDE DEF x
  <1>5. p \in Budget /\ p.day = r.day /\ p.used = r.used /\ p.pausedTil = x
    BY <1>1, <1>4 DEF Budget
  <1>6. QED
    BY <1>3, <1>4, <1>5 DEF u

\* consume debits what it is told, up to the budget.
LEMMA ConsumedFacts ==
    ASSUME NEW b \in Budget, NEW t \in 0..MaxUtc, NEW n \in Int, NEW r, r = Rollover(b, t)
    PROVE  /\ Consumed(b, t, n) \in Budget
           /\ n <= 0 => Consumed(b, t, n) = b
           /\ n > 0 => /\ Consumed(b, t, n).day = r.day
                       /\ Consumed(b, t, n).pausedTil = r.pausedTil
                       /\ Consumed(b, t, n).used = IF r.used + n > MaxBudget THEN MaxBudget
                                                   ELSE r.used + n
  <1> DEFINE x == IF r.used + n > MaxBudget THEN MaxBudget ELSE r.used + n
             c == [r EXCEPT !.used = x]
  <1>1. r \in Budget /\ r.used \in 0..MaxBudget
    BY RolloverFacts DEF Budget
  <1>2. CASE n <= 0
    BY <1>2 DEF Consumed
  <1>3. CASE n > 0
    <2>1. Consumed(b, t, n) = c
      BY <1>3 DEF Consumed
    <2>2. x \in 0..MaxBudget
      BY <1>1, <1>3, ClientAssumption
    <2> HIDE DEF x
    <2>3. c \in Budget /\ c.day = r.day /\ c.pausedTil = r.pausedTil /\ c.used = x
      BY <1>1, <2>2 DEF Budget
    <2>4. QED
      BY <1>3, <2>1, <2>3 DEF x
  <1>4. QED
    BY <1>2, <1>3

-----------------------------------------------------------------------------
(* The outbound client: the fetches, the bucket and the pause.             *)

\* What a fetch w has done by where it is.
FetchOK(w) ==
    /\ w.at <= utc
    /\ w.pc \in {"idle", "reserve"} => w.attempts = 0
    /\ w.pc = "backoff" => w.attempts > 0
    /\ w.pc \in {"backoff", "wait", "send"} => w.attempts < MaxAttempts

\* Every fetch under way is one the client can be in.
FetchesOK ==
    /\ ClientTypeOK
    /\ budget.day <= Today(utc)
    /\ \A f \in Fetchers : FetchOK(fetch[f])

\* What the proofs use of a client in such a state.
LEMMA ClientFacts ==
    FetchesOK => /\ utc \in Nat /\ utc \in 0..MaxUtc /\ Today(utc) \in Nat
                 /\ budget \in Budget
                 /\ \A f \in Fetchers : fetch[f] \in Fetch /\ FetchOK(fetch[f])
  BY TodayMonotone, ClientAssumption DEF FetchesOK, ClientTypeOK, Budget

\* The numbers a fetch carries.
LEMMA FetchFields ==
    ASSUME NEW v \in Fetch
    PROVE  /\ v.at \in 0..MaxUtc /\ v.at \in Nat /\ v.attempts \in 0..MaxAttempts
           /\ v.attempts \in Nat /\ v.attempts - 1 \in Int /\ v.advice \in Nat
  <1>1. v.at \in 0..MaxUtc /\ v.attempts \in 0..MaxAttempts /\ v.advice \in Advice \cup {0}
    BY DEF Fetch
  <1>2. \A x : x \in Advice \cup {0} => x \in Nat
    <2>1. Advice \subseteq Nat
      BY ClientAssumption
    <2>2. QED
      BY <2>1
  <1>3. QED
    BY <1>1, <1>2, ClientAssumption

\* No fetch is a fetch.
LEMMA NoFetchTyped ==
    /\ NoFetch \in Fetch /\ NoFetch.pc = "idle" /\ NoFetch.attempts = 0 /\ NoFetch.at = 0
    /\ NoFetch.limited = FALSE /\ NoFetch.advice = 0
  BY ClientAssumption DEF NoFetch, Fetch, FetchPCs

\* A step of one fetch.
LEMMA FetchMoves ==
    ASSUME FetchesOK, NEW f \in Fetchers, NEW w \in Fetch, FetchOK(w), UNCHANGED utc,
           fetch' = [fetch EXCEPT ![f] = w], budget' \in Budget, budget'.day <= Today(utc),
           UNCHANGED <<guarded, crossed>>, bucket' \in Bucket,
           sent' \in Nat, advised' \in Nat, eager' \in Int
    PROVE  FetchesOK'
  <1>1. fetch' \in [Fetchers -> Fetch] /\ fetch'[f] = w
        /\ \A g \in Fetchers \ {f} : fetch'[g] = fetch[g]
    BY DEF FetchesOK, ClientTypeOK
  <1>2. ClientTypeOK'
    BY <1>1 DEF FetchesOK, ClientTypeOK, Budget
  <1>3. \A g \in Fetchers : FetchOK(fetch[g])'
    BY <1>1 DEF FetchesOK, FetchOK
  <1>4. QED
    BY <1>2, <1>3 DEF FetchesOK

\* Moving on to another phase.
LEMMA FetchGotoMoves ==
    ASSUME FetchesOK, NEW f \in Fetchers, NEW pc \in FetchPCs, FetchGoto(f, pc)
    PROVE  \E w \in Fetch :
             /\ fetch' = [fetch EXCEPT ![f] = w]
             /\ w.pc = pc /\ w.at = fetch[f].at /\ w.attempts = fetch[f].attempts
             /\ w.limited = fetch[f].limited /\ w.advice = fetch[f].advice
  <1> DEFINE w == [fetch[f] EXCEPT !.pc = pc]
  <1>1. fetch' = [fetch EXCEPT ![f] = w]
    BY DEF FetchGoto, FetchesOK, ClientTypeOK
  <1>2. fetch[f] \in Fetch
    BY ClientFacts
  <1>3. /\ w \in Fetch /\ w.pc = pc /\ w.at = fetch[f].at /\ w.attempts = fetch[f].attempts
        /\ w.limited = fetch[f].limited /\ w.advice = fetch[f].advice
    BY <1>2 DEF Fetch
  <1>4. QED
    BY <1>1, <1>3, Zenon

\* What the actions of a fetch f do; w is its new state.
Starts(f, w) ==
    /\ fetch[f].pc = "idle" /\ w.pc = (IF guarded THEN "reserve" ELSE "wait")
    /\ w.at = utc /\ w.attempts = 0
    /\ UNCHANGED <<bucket, budget, sent, advised, eager>>

Reserves(f, w) ==
    /\ fetch[f].pc = "reserve" /\ budget' = Reserved(budget, fetch[f].at)
    /\ w.pc = (IF MayReserve(budget, fetch[f].at) THEN "wait" ELSE "idle")
    /\ w.at <= fetch[f].at /\ w.attempts = 0
    /\ UNCHANGED <<bucket, sent, advised, eager>>

GoesOn(f, w) ==
    /\ fetch[f].pc \in {"backoff", "wait"} /\ w.pc \in {"wait", "account"}
    /\ w.at = fetch[f].at /\ w.attempts = fetch[f].attempts
    /\ UNCHANGED <<bucket, budget, sent, advised, eager>>

Waits(f, w) ==
    /\ fetch[f].pc = "wait" /\ bucket' = Taken(bucket, utc)
    /\ w.pc = (IF Available(bucket, utc) THEN "send" ELSE "wait")
    /\ eager' = (IF Available(bucket, utc) THEN eager - Token ELSE eager)
    /\ w.at = fetch[f].at /\ w.attempts = fetch[f].attempts
    /\ UNCHANGED <<budget, sent, advised>>

Sends(f, w) ==
    /\ fetch[f].pc = "send" /\ sent' = sent + 1
    /\ w.pc \in {"backoff", "account"} /\ (w.pc = "backoff" => w.attempts < MaxAttempts)
    /\ w.at = fetch[f].at /\ w.attempts = fetch[f].attempts + 1
    /\ UNCHANGED <<bucket, budget, advised, eager>>

Accounts(f, w) ==
    /\ fetch[f].pc = "account"
    /\ budget' = IF guarded THEN Consumed(budget, utc, fetch[f].attempts - 1) ELSE budget
    /\ w.pc \in {"pause", "idle"} /\ w.at <= fetch[f].at
    /\ w.attempts = (IF w.pc = "pause" THEN fetch[f].attempts ELSE 0)
    /\ UNCHANGED <<bucket, sent, advised, eager>>

Pauses(f, w) ==
    /\ fetch[f].pc = "pause" /\ budget' = Paused(budget, utc, fetch[f].advice)
    /\ advised' = (IF Until(utc, fetch[f].advice) > advised THEN Until(utc, fetch[f].advice)
                   ELSE advised)
    /\ w.pc = "idle" /\ w.at = 0 /\ w.attempts = 0
    /\ UNCHANGED <<bucket, sent, eager>>

\* All that a step of a fetch does to what the fetches share.
Effect(f, w) ==
    \/ Starts(f, w) \/ Reserves(f, w) \/ GoesOn(f, w) \/ Waits(f, w)
    \/ Sends(f, w) \/ Accounts(f, w) \/ Pauses(f, w)

\* Every step of FetchForecast and Get is one of these, of one fetch.
LEMMA FetchEffect ==
    ASSUME FetchesOK, NEW f \in Fetchers, FetchStep(f), UNCHANGED guarded
    PROVE  /\ UNCHANGED <<utc, guarded, crossed>>
           /\ \E w \in Fetch : fetch' = [fetch EXCEPT ![f] = w] /\ Effect(f, w)
  <1>0. UNCHANGED <<utc, guarded, crossed>>
    BY Zenon DEF FetchStep, StartFetch, Reserve, Backoff, Wait, ContextDone, DoOnce, Account, Pause
  <1>1. /\ fetch[f] \in Fetch /\ FetchOK(fetch[f])
        /\ fetch[f].at \in Nat /\ fetch[f].attempts \in Nat /\ fetch[f].advice \in Nat
        /\ utc \in 0..MaxUtc /\ utc \in Nat
    <2>1. fetch[f] \in Fetch /\ FetchOK(fetch[f]) /\ utc \in 0..MaxUtc /\ utc \in Nat
      BY ClientFacts
    <2>2. QED
      BY <2>1, FetchFields
  <1>2. CASE StartFetch(f)
    <2> DEFINE w == [NoFetch EXCEPT !.pc = IF guarded THEN "reserve" ELSE "wait", !.at = utc]
    <2>1. fetch' = [fetch EXCEPT ![f] = w]
      BY <1>2 DEF StartFetch
    <2>2. w \in Fetch /\ w.at = utc /\ w.attempts = 0
          /\ w.pc = IF guarded THEN "reserve" ELSE "wait"
      BY <1>1, NoFetchTyped, Zenon DEF NoFetch, Fetch, FetchPCs
    <2> HIDE DEF w
    <2>3. Starts(f, w)
      BY <1>2, <2>2 DEF StartFetch, Starts
    <2>4. QED
      BY <1>0, <2>1, <2>2, <2>3, Zenon DEF Effect
  <1>3. CASE Reserve(f)
    <2>1. CASE MayReserve(budget, fetch[f].at)
      <3>1. PICK w \in Fetch : /\ fetch' = [fetch EXCEPT ![f] = w]
                               /\ w.pc = "wait" /\ w.at = fetch[f].at
                               /\ w.attempts = fetch[f].attempts
        BY <1>3, <2>1, FetchGotoMoves DEF Reserve, FetchPCs
      <3>2. Reserves(f, w)
        BY <1>1, <1>3, <2>1, <3>1 DEF Reserve, Reserves, FetchOK
      <3>3. QED
        BY <1>0, <3>1, <3>2, Zenon DEF Effect
    <2>2. CASE ~MayReserve(budget, fetch[f].at)
      <3>1. fetch' = [fetch EXCEPT ![f] = NoFetch]
        BY <1>3, <2>2 DEF Reserve
      <3>2. Reserves(f, NoFetch)
        BY <1>1, <1>3, <2>2, NoFetchTyped DEF Reserve, Reserves
      <3>3. QED
        BY <1>0, <3>1, <3>2, NoFetchTyped, Zenon DEF Effect
    <2>3. QED
      BY <2>1, <2>2
  <1>4. CASE Backoff(f) \/ ContextDone(f)
    <2>1. PICK pc \in {"wait", "account"} : FetchGoto(f, pc)
      BY <1>4 DEF Backoff, ContextDone
    <2>2. PICK w \in Fetch : /\ fetch' = [fetch EXCEPT ![f] = w]
                             /\ w.pc = pc /\ w.at = fetch[f].at
                             /\ w.attempts = fetch[f].attempts
      BY <2>1, FetchGotoMoves DEF FetchPCs
    <2>3. GoesOn(f, w)
      BY <1>4, <2>2 DEF Backoff, ContextDone, GoesOn
    <2>4. QED
      BY <1>0, <2>2, <2>3, Zenon DEF Effect
  <1>5. CASE Wait(f)
    <2>1. CASE Available(bucket, utc)
      <3>1. PICK w \in Fetch : /\ fetch' = [fetch EXCEPT ![f] = w]
                               /\ w.pc = "send" /\ w.at = fetch[f].at
                               /\ w.attempts = fetch[f].attempts
        BY <1>5, <2>1, FetchGotoMoves DEF Wait, FetchPCs
      <3>2. Waits(f, w)
        BY <1>5, <2>1, <3>1 DEF Wait, Waits
      <3>3. QED
        BY <1>0, <3>1, <3>2, Zenon DEF Effect
    <2>2. CASE ~Available(bucket, utc)
      <3>1. fetch' = [fetch EXCEPT ![f] = fetch[f]]
        BY <1>5, <2>2 DEF Wait, FetchesOK, ClientTypeOK
      <3>2. Waits(f, fetch[f])
        BY <1>5, <2>2 DEF Wait, Waits
      <3>3. QED
        BY <1>0, <1>1, <3>1, <3>2, Zenon DEF Effect
    <2>3. QED
      BY <2>1, <2>2
  <1>6. CASE DoOnce(f)
    <2>1. PICK a \in Answers, d \in Advice \cup {0} :
            LET n == fetch[f].attempts + 1
                again == Retryable(a) /\ n < MaxAttempts
            IN  fetch' = [fetch EXCEPT ![f] =
                            [fetch[f] EXCEPT !.attempts = n,
                                      !.limited = a = "limited" /\ ~again,
                                      !.advice = IF again THEN 0 ELSE d,
                                      !.pc = IF again THEN "backoff" ELSE "account"]]
      BY <1>6, Zenon DEF DoOnce, FetchesOK, ClientTypeOK
    <2> DEFINE n == fetch[f].attempts + 1
               again == Retryable(a) /\ n < MaxAttempts
               limited == a = "limited" /\ ~again
               advice == IF again THEN 0 ELSE d
               pc == IF again THEN "backoff" ELSE "account"
               w == [fetch[f] EXCEPT !.attempts = n, !.limited = limited, !.advice = advice,
                                     !.pc = pc]
    <2>2. fetch' = [fetch EXCEPT ![f] = w]
      BY <2>1
    <2>3. /\ n \in 0..MaxAttempts /\ limited \in BOOLEAN /\ advice \in Advice \cup {0}
          /\ pc \in FetchPCs /\ pc \in {"backoff", "account"} /\ (pc = "backoff" => n < MaxAttempts)
      <3>1. n \in 0..MaxAttempts
        BY <1>1, <1>6, ClientAssumption DEF DoOnce, FetchOK
      <3>2. pc \in {"backoff", "account"} /\ (pc = "backoff" => n < MaxAttempts)
        OBVIOUS
      <3>3. QED
        BY <3>1, <3>2 DEF FetchPCs
    <2> HIDE DEF limited, advice, pc
    <2>4. w \in Fetch /\ w.pc = pc /\ w.at = fetch[f].at /\ w.attempts = n
      BY <1>1, <2>3, Zenon DEF Fetch
    <2> HIDE DEF w
    <2>5. Sends(f, w)
      BY <1>6, <2>3, <2>4 DEF DoOnce, Sends
    <2>6. QED
      BY <1>0, <2>2, <2>4, <2>5, Zenon DEF Effect
  <1>7. CASE Account(f)
    <2>1. CASE guarded /\ fetch[f].limited
      <3>1. PICK w \in Fetch : /\ fetch' = [fetch EXCEPT ![f] = w]
                               /\ w.pc = "pause" /\ w.at = fetch[f].at
                               /\ w.attempts = fetch[f].attempts
        BY <1>7, <2>1, FetchGotoMoves DEF Account, FetchPCs
      <3>2. Accounts(f, w)
        BY <1>1, <1>7, <2>1, <3>1 DEF Account, Accounts
      <3>3. QED
        BY <1>0, <3>1, <3>2, Zenon DEF Effect
    <2>2. CASE ~(guarded /\ fetch[f].limited)
      <3>1. fetch' = [fetch EXCEPT ![f] = NoFetch]
        BY <1>7, <2>2 DEF Account
      <3>2. Accounts(f, NoFetch)
        BY <1>1, <1>7, <2>2, NoFetchTyped DEF Account, Accounts
      <3>3. QED
        BY <1>0, <3>1, <3>2, NoFetchTyped, Zenon DEF Effect
    <2>3. QED
      BY <2>1, <2>2
  <1>8. CASE Pause(f)
    <2>1. fetch' = [fetch EXCEPT ![f] = NoFetch]
      BY <1>8 DEF Pause
    <2>2. Pauses(f, NoFetch)
      BY <1>8, NoFetchTyped DEF Pause, Pauses, Until
    <2>3. QED
      BY <1>0, <2>1, <2>2, NoFetchTyped, Zenon DEF Effect
  <1>9. QED
    BY <1>2, <1>3, <1>4, <1>5, <1>6, <1>7, <1>8 DEF FetchStep

\* Midnight comes when the day is over, for the histories too.
LEMMA PassFacts ==
    ASSUME FetchesOK, Pass
    PROVE  /\ utc' = utc + 1 /\ utc' \in 0..MaxUtc
           /\ Today(utc)' = (IF (utc + 1) % Day = 0 THEN Today(utc) + 1 ELSE Today(utc))
           /\ UNCHANGED <<bucket, budget, fetch>>
           /\ eager' = Capped(eager + Refill)
           /\ sent' = (IF (utc + 1) % Day = 0 THEN 0 ELSE sent)
           /\ advised' = (IF (utc + 1) % Day = 0 THEN 0 ELSE advised)
           /\ crossed' = (IF (utc + 1) % Day = 0
                          THEN Cardinality({f \in Fetchers : fetch[f].pc # "idle"}) ELSE crossed)
  <1>1. utc \in Nat /\ utc' = utc + 1 /\ utc' \in 0..MaxUtc
    BY ClientFacts, ClientAssumption DEF Pass
  <1>2. Today(utc)' = Today(utc + 1)
    BY <1>1 DEF Today
  <1>3. Today(utc + 1) = IF (utc + 1) % Day = 0 THEN Today(utc) + 1 ELSE Today(utc)
    BY <1>1, TodayNext
  <1>4. QED
    BY <1>1, <1>2, <1>3, Zenon DEF Pass, Capped

\* The day of the budget after a rollover, and after a method that begins with one.
LEMMA RolloverDay ==
    ASSUME NEW b \in Budget, NEW t \in 0..MaxUtc
    PROVE  Rollover(b, t) = b \/ Rollover(b, t).day = Today(t)
  BY RolloverFacts

LEMMA PausedDay ==
    ASSUME NEW b \in Budget, NEW t \in 0..MaxUtc, NEW d \in Nat
    PROVE  Paused(b, t, d) \in Budget /\ Paused(b, t, d).day = Rollover(b, t).day
  BY PausedFacts

LEMMA ConsumedDay ==
    ASSUME NEW b \in Budget, NEW t \in 0..MaxUtc, NEW n \in Int
    PROVE  /\ Consumed(b, t, n) \in Budget
           /\ Consumed(b, t, n) = b \/ Consumed(b, t, n).day = Rollover(b, t).day
  <1>1. n <= 0 \/ n > 0
    OBVIOUS
  <1>2. QED
    BY <1>1, ConsumedFacts

\* What the budget's methods, called by f, leave is of today or an earlier day.
LEMMA BudgetDays ==
    ASSUME FetchesOK, NEW f \in Fetchers, NEW w, Effect(f, w)
    PROVE  budget' \in Budget /\ budget'.day <= Today(utc)
  <1>0. /\ budget \in Budget /\ budget.day \in Nat /\ budget.day <= Today(utc)
        /\ utc \in 0..MaxUtc /\ utc \in Nat /\ Today(utc) \in Nat
    BY ClientFacts DEF FetchesOK, Budget
  <1>1. fetch[f] \in Fetch /\ fetch[f].at <= utc
    BY ClientFacts DEF FetchOK
  <1>2. /\ fetch[f].at \in 0..MaxUtc /\ fetch[f].at \in Nat
        /\ fetch[f].advice \in Nat /\ fetch[f].attempts - 1 \in Int
    BY <1>1, FetchFields
  <1>3. Today(fetch[f].at) \in Nat /\ Today(fetch[f].at) <= Today(utc)
    BY <1>0, <1>1, <1>2, TodayMonotone
  <1>4. Rollover(budget, fetch[f].at).day <= Today(utc)
    <2>1. CASE Rollover(budget, fetch[f].at) = budget
      BY <1>0, <2>1, Zenon
    <2>2. CASE Rollover(budget, fetch[f].at).day = Today(fetch[f].at)
      BY <1>3, <2>2, Zenon
    <2>3. QED
      BY <1>0, <1>2, <2>1, <2>2, RolloverDay, Zenon
  <1>5. Rollover(budget, utc).day <= Today(utc)
    BY <1>0, RolloverFacts
  <1>6. CASE Reserves(f, w)
    BY <1>0, <1>2, <1>4, <1>6, ReservedFacts, Zenon DEF Reserves
  <1>7. CASE Accounts(f, w)
    <2>1. PICK n \in Int : n = fetch[f].attempts - 1
      BY <1>2
    <2>2. Consumed(budget, utc, n) \in Budget /\ Consumed(budget, utc, n).day <= Today(utc)
      <3>1. /\ Consumed(budget, utc, n) \in Budget
            /\ \/ Consumed(budget, utc, n) = budget
               \/ Consumed(budget, utc, n).day = Rollover(budget, utc).day
        BY <1>0, ConsumedDay, Zenon
      <3>2. QED
        BY <1>0, <1>5, <3>1, Zenon
    <2>3. QED
      BY <1>0, <1>7, <2>1, <2>2, Zenon DEF Accounts
  <1>8. CASE Pauses(f, w)
    <2>1. PICK d \in Nat : d = fetch[f].advice
      BY <1>2
    <2>2. Paused(budget, utc, d) \in Budget /\ Paused(budget, utc, d).day <= Today(utc)
      <3>1. Paused(budget, utc, d) \in Budget
            /\ Paused(budget, utc, d).day = Rollover(budget, utc).day
        BY <1>0, PausedDay, Zenon
      <3>2. QED
        BY <1>5, <3>1, Zenon
    <2>3. QED
      BY <1>8, <2>1, <2>2, Zenon DEF Pauses
  <1>9. QED
    BY <1>0, <1>6, <1>7, <1>8, Zenon DEF Effect, Starts, GoesOn, Waits, Sends

\* The steps of a fetch keep what is said of the fetches.
LEMMA FetchesStep ==
    ASSUME FetchesOK, NEW f \in Fetchers, NEW w \in Fetch, Effect(f, w),
           fetch' = [fetch EXCEPT ![f] = w], UNCHANGED <<utc, guarded, crossed>>,
           bucket' \in Bucket, eager' \in Int
    PROVE  FetchesOK'
  <1>0. budget' \in Budget /\ budget'.day <= Today(utc)
    BY BudgetDays
  <1>1. /\ fetch[f] \in Fetch /\ FetchOK(fetch[f]) /\ utc \in Nat
        /\ fetch[f].at \in Nat /\ fetch[f].attempts \in Nat /\ w.at \in Nat
        /\ fetch[f].advice \in Nat
    <2>1. fetch[f] \in Fetch /\ FetchOK(fetch[f]) /\ utc \in Nat
      BY ClientFacts
    <2>2. QED
      BY <2>1, FetchFields
  <1>2. FetchOK(w)
    BY <1>1, ClientAssumption
    DEF Effect, FetchOK, Starts, Reserves, GoesOn, Waits, Sends,
                                  Accounts, Pauses
  <1>3. sent' \in Nat
    BY DEF Effect, Starts, Reserves, GoesOn, Waits, Sends, Accounts, Pauses, FetchesOK,
           ClientTypeOK
  <1>4. advised' \in Nat
    <2>1. Until(utc, fetch[f].advice) \in Nat
      BY <1>1, UntilTyped, Zenon
    <2>2. QED
      BY <2>1, Zenon DEF Effect, Starts, Reserves, GoesOn, Waits, Sends, Accounts, Pauses, FetchesOK,
                  ClientTypeOK
  <1>5. QED
    BY <1>0, <1>2, <1>3, <1>4, FetchMoves, Zenon

\* The bucket that is brought up to date on use is exact.
BucketOK == bucket.last <= utc /\ BucketIsExact

\* No step of a fetch takes a token the bucket does not have.
LEMMA BucketStep ==
    ASSUME FetchesOK, BucketOK, NEW f \in Fetchers, NEW w, Effect(f, w), UNCHANGED utc
    PROVE  BucketOK' /\ bucket' \in Bucket /\ eager' \in Int
  <1>0. bucket \in Bucket /\ utc \in Nat /\ eager \in Int /\ bucket.last <= utc
        /\ Refilled(bucket, utc).tokens = eager
    BY ClientFacts DEF FetchesOK, ClientTypeOK, BucketOK, BucketIsExact
  <1>1. CASE Waits(f, w)
    <2>1. /\ Taken(bucket, utc) \in Bucket /\ Taken(bucket, utc).last = utc
          /\ Refilled(Taken(bucket, utc), utc).tokens =
               IF Available(bucket, utc) THEN eager - Token ELSE eager
      BY <1>0, TakenTyped
    <2>2. bucket' = Taken(bucket, utc)
          /\ eager' = IF Available(bucket, utc) THEN eager - Token ELSE eager
      BY <1>1 DEF Waits
    <2>3. eager' \in Int
      BY <1>0, <2>2, BucketAssumption
    <2>4. bucket'.last <= utc' /\ Refilled(bucket', utc').tokens = eager'
      BY <1>0, <2>1, <2>2
    <2>5. QED
      BY <2>1, <2>2, <2>3, <2>4 DEF BucketOK, BucketIsExact
  <1>2. CASE UNCHANGED <<bucket, eager>>
    BY <1>0, <1>2 DEF BucketOK, BucketIsExact
  <1>3. QED
    BY <1>1, <1>2, Zenon DEF Effect, Starts, Reserves, GoesOn, Sends, Accounts, Pauses

\* Nor does time.
LEMMA BucketPass ==
    ASSUME FetchesOK, BucketOK, Pass
    PROVE  BucketOK'
  <1>0. bucket \in Bucket /\ utc \in Nat /\ bucket.last <= utc /\ bucket.last \in Nat
        /\ Refilled(bucket, utc).tokens = eager
    BY ClientFacts DEF FetchesOK, ClientTypeOK, BucketOK, BucketIsExact, Bucket
  <1>1. Refilled(bucket, utc + 1).tokens = Capped(eager + Refill)
    BY <1>0, RefillPerUnit
  <1>2. bucket'.last <= utc' /\ Refilled(bucket', utc').tokens = eager'
    BY <1>0, <1>1, PassFacts
  <1>3. QED
    BY <1>2 DEF BucketOK, BucketIsExact

\* As long as some answer of the day asks to wait, the budget of the day is paused.
PauseHolds == advised <= utc \/ (budget.day = Today(utc) /\ advised <= budget.pausedTil)

\* No step of a fetch shortens a pause or sends in one it has seen.
LEMMA PauseStep ==
    ASSUME FetchesOK, PauseHolds, NEW f \in Fetchers, NEW w, Effect(f, w), UNCHANGED utc
    PROVE  PauseHolds' /\ (fetch[f].pc = "reserve" /\ w.pc = "wait" => utc >= advised)
  <1>0. /\ budget \in Budget /\ budget.day \in Nat /\ budget.pausedTil \in Nat
        /\ budget.day <= Today(utc) /\ utc \in 0..MaxUtc /\ utc \in Nat /\ Today(utc) \in Nat
        /\ advised \in Nat
    BY ClientFacts DEF FetchesOK, ClientTypeOK, Budget
  <1>1. fetch[f] \in Fetch /\ fetch[f].at <= utc
    BY ClientFacts DEF FetchOK
  <1>2. /\ fetch[f].at \in 0..MaxUtc /\ fetch[f].at \in Nat
        /\ fetch[f].advice \in Nat /\ fetch[f].attempts - 1 \in Int
    BY <1>1, FetchFields
  <1>3. Today(fetch[f].at) \in Nat /\ Today(fetch[f].at) <= Today(utc)
    BY <1>0, <1>1, <1>2, TodayMonotone
  <1>4. Today(utc)' = Today(utc)
    BY DEF Today
  <1>5. CASE Reserves(f, w)
    <2>1. CASE advised <= utc
      BY <1>5, <2>1 DEF Reserves, PauseHolds
    <2>2. CASE ~(advised <= utc)
      <3>1. budget.day = Today(utc) /\ advised <= budget.pausedTil
        BY <2>2 DEF PauseHolds
      <3>2. Rollover(budget, fetch[f].at) = budget
        BY <1>0, <1>2, <1>3, <3>1, RolloverFacts
      <3>3. ~(budget.pausedTil <= fetch[f].at)
        BY <1>0, <1>1, <1>2, <2>2, <3>1
      <3>4. /\ budget' = Reserved(budget, fetch[f].at)
            /\ Reserved(budget, fetch[f].at).day = budget.day
            /\ Reserved(budget, fetch[f].at).pausedTil = budget.pausedTil
            /\ ~MayReserve(budget, fetch[f].at)
        <4>1. /\ Reserved(budget, fetch[f].at).day = budget.day
              /\ Reserved(budget, fetch[f].at).pausedTil =
                   IF budget.pausedTil <= fetch[f].at THEN 0 ELSE budget.pausedTil
              /\ MayReserve(budget, fetch[f].at) <=>
                   budget.pausedTil <= fetch[f].at /\ budget.used < MaxBudget
          <5>1. budget \in Budget /\ fetch[f].at \in 0..MaxUtc
            BY <1>0, <1>2, Zenon
          <5>2. QED
            BY <3>2, <5>1, ReservedFacts
        <4>2. budget' = Reserved(budget, fetch[f].at)
          BY <1>5, Zenon DEF Reserves
        <4>3. QED
          BY <3>3, <4>1, <4>2, Zenon
      <3>5. PauseHolds' /\ w.pc = "idle"
        BY <1>4, <1>5, <3>1, <3>4, Zenon DEF Reserves, PauseHolds
      <3>6. QED
        BY <3>5
    <2>3. QED
      BY <2>1, <2>2
  <1>6. CASE Accounts(f, w)
    <2>0. fetch[f].pc = "account" /\ UNCHANGED advised
      BY <1>6 DEF Accounts
    <2>1. CASE advised <= utc
      BY <2>0, <2>1 DEF PauseHolds
    <2>2. CASE ~(advised <= utc)
      <3>1. budget.day = Today(utc) /\ advised <= budget.pausedTil
        BY <2>2 DEF PauseHolds
      <3>2. Rollover(budget, utc) = budget
        BY <1>0, <3>1, RolloverFacts
      <3>3. PICK n \in Int : n = fetch[f].attempts - 1
        BY <1>2
      <3>4. /\ Consumed(budget, utc, n).day = budget.day
            /\ Consumed(budget, utc, n).pausedTil = budget.pausedTil
        BY <1>0, <3>2, ConsumedFacts
      <3>5. QED
        BY <1>4, <1>6, <2>0, <3>1, <3>3, <3>4, Zenon DEF Accounts, PauseHolds
    <2>3. QED
      BY <2>1, <2>2
  <1>7. CASE Pauses(f, w)
    <2>1. PICK d \in Nat : d = fetch[f].advice
      BY <1>2
    <2>2. PICK u \in Nat : u = Until(utc, d)
      BY <1>0, UntilTyped
    <2>3. /\ fetch[f].pc = "pause" /\ budget' = Paused(budget, utc, d)
          /\ advised' = IF u > advised THEN u ELSE advised
      BY <1>7, <2>1, <2>2, Zenon DEF Pauses
    <2>4. PICK r \in Budget : r = Rollover(budget, utc)
      BY <1>0, RolloverFacts
    <2>5. r.day = Today(utc) /\ (budget.day = Today(utc) => r = budget)
      BY <1>0, <2>4, RolloverFacts
    <2>6. /\ budget'.day = r.day /\ budget'.pausedTil \in Nat
          /\ r.pausedTil <= budget'.pausedTil /\ u <= budget'.pausedTil
      <3>1. PICK p \in Budget : p = Paused(budget, utc, d)
        BY <1>0, PausedFacts, Zenon
      <3>2. p.day = r.day /\ p.pausedTil \in Nat
        <4>1. Paused(budget, utc, d).day = Rollover(budget, utc).day
          BY <1>0, PausedFacts
        <4>2. p.pausedTil \in Nat
          BY DEF Budget
        <4>3. QED
          BY <2>4, <3>1, <4>1, <4>2
      <3>3. r.pausedTil <= p.pausedTil /\ Until(utc, d) <= p.pausedTil
        BY <1>0, <2>4, <3>1, PausedFacts, Zenon
      <3>4. QED
        BY <2>2, <2>3, <3>1, <3>2, <3>3, Zenon
    <2>7. CASE advised <= utc
      BY <1>0, <1>4, <2>3, <2>5, <2>6, <2>7, Zenon DEF PauseHolds
    <2>8. CASE ~(advised <= utc)
      <3>1. r = budget /\ advised <= budget.pausedTil
        BY <2>5, <2>8 DEF PauseHolds
      <3>2. QED
        BY <1>0, <1>4, <2>3, <2>5, <2>6, <3>1 DEF PauseHolds
    <2>9. QED
      BY <2>7, <2>8
  <1>8. CASE fetch[f].pc # "reserve" /\ UNCHANGED <<budget, advised>>
    BY <1>4, <1>8 DEF PauseHolds
  <1>9. QED
    BY <1>5, <1>6, <1>7, <1>8, Zenon DEF Effect, Starts, GoesOn, Waits, Sends

\* Nor does time.
LEMMA PausePass ==
    ASSUME FetchesOK, PauseHolds, Pass
    PROVE  PauseHolds'
  <1>1. utc \in Nat /\ advised \in Nat
    BY ClientFacts DEF FetchesOK, ClientTypeOK
  <1>2. QED
    BY <1>1, PassFacts DEF PauseHolds

-----------------------------------------------------------------------------
(* The outbound client, counted.                                           *)
INSTANCE FiniteSetTheorems

\* Time and the days leave the fetches as they are.
LEMMA FetchesPass ==
    ASSUME FetchesOK, Pass, UNCHANGED guarded
    PROVE  FetchesOK'
  <1>1. crossed' \in 0..Cardinality(Fetchers)
    <2> DEFINE S == {f \in Fetchers : fetch[f].pc # "idle"}
    <2>1. S \subseteq Fetchers /\ IsFiniteSet(Fetchers)
      BY ClientAssumption, Zenon
    <2> HIDE DEF S
    <2>2. IsFiniteSet(S) /\ Cardinality(S) <= Cardinality(Fetchers)
      BY <2>1, FS_Subset
    <2>3. Cardinality(S) \in Nat /\ Cardinality(Fetchers) \in Nat
      BY <2>1, <2>2, FS_CardinalityType
    <2>4. crossed' = Cardinality(S) \/ crossed' = crossed
      BY PassFacts, Zenon DEF S
    <2>5. QED
      BY <2>2, <2>3, <2>4 DEF FetchesOK, ClientTypeOK
  <1>2. sent' \in Nat /\ advised' \in Nat /\ eager' \in Int
    BY PassFacts, BucketAssumption DEF FetchesOK, ClientTypeOK, Capped
  <1>3. ClientTypeOK'
    BY <1>1, <1>2, PassFacts, Zenon DEF FetchesOK, ClientTypeOK
  <1>4. budget'.day <= Today(utc)'
    <2>1. budget.day \in Nat /\ budget.day <= Today(utc) /\ Today(utc) \in Nat
      BY ClientFacts DEF Budget, FetchesOK
    <2>2. QED
      BY <2>1, PassFacts
  <1>5. ASSUME NEW f \in Fetchers PROVE FetchOK(fetch[f])'
    <2>1. fetch[f].at \in Nat /\ utc \in Nat /\ FetchOK(fetch[f]) /\ fetch[f] \in Fetch
      BY ClientFacts, ClientAssumption DEF Fetch
    <2>2. QED
      BY <2>1, PassFacts DEF FetchOK
  <1>6. QED
    BY <1>3, <1>4, <1>5 DEF FetchesOK

-----------------------------------------------------------------------------
(* What the day's requests are covered by.                                 *)

\* What today's budget has counted.
UsedToday == IF budget.day = Today(utc) THEN budget.used ELSE 0

\* Fetch w may still make its first request, reserved or, when it took the time before
\* midnight, reserved from a budget that is not today's.
MaySpend(w) ==
    \/ w.pc \in {"wait", "send"} /\ w.attempts = 0
    \/ w.pc = "reserve" /\ Today(w.at) < Today(utc)

Unspent == {f \in Fetchers : MaySpend(fetch[f])}

\* The retries of a fetch, by their number.
Retries == Fetchers \X (1..(MaxAttempts - 1))

\* Those that were made and are not debited yet ...
Owes(w, k) == w.pc # "pause" /\ k < w.attempts

Undebited == {r \in Retries : Owes(fetch[r[1]], r[2])}

\* ... and, once the budget is spent and nobody is admitted any more, those that the
\* cap of the counter may have hidden.
MayOwe(w, k) == w.pc \in {"idle", "reserve", "pause"} \/ k < w.attempts

Overrun == {r \in Retries : MayOwe(fetch[r[1]], r[2])}

\* The requests of the day are covered by the budget, by the fetches that were under way
\* at midnight, and by the retries.
Covered(made, unspent, used, crossers, owed, over) ==
    made + unspent <=
      IF used < MaxBudget THEN used + crossers + owed ELSE MaxBudget + crossers + over

Metered ==
    guarded => Covered(sent, Cardinality(Unspent), UsedToday, crossed,
                       Cardinality(Undebited), Cardinality(Overrun))

\* There are finitely many retries under way.
LEMMA RetriesCounted ==
    /\ IsFiniteSet(Retries) /\ Cardinality(Retries) = Cardinality(Fetchers) * (MaxAttempts - 1)
    /\ Cardinality(Retries) \in Nat /\ Cardinality(Fetchers) \in Nat
  <1>1. IsFiniteSet(1..(MaxAttempts - 1)) /\ Cardinality(1..(MaxAttempts - 1)) = MaxAttempts - 1
    <2>1. 1 \in Int /\ MaxAttempts - 1 \in Int /\ MaxAttempts - 1 >= 0
      BY ClientAssumption
    <2> DEFINE m == MaxAttempts - 1
    <2> HIDE DEF m
    <2>2. m \in Int /\ m >= 0
      BY <2>1 DEF m
    <2>3. IsFiniteSet(1..m) /\ Cardinality(1..m) = IF 1 > m THEN 0 ELSE m - 1 + 1
      BY <2>2, FS_Interval
    <2>4. Cardinality(1..m) = m
      BY <2>2, <2>3
    <2>5. QED
      BY <2>3, <2>4, Zenon DEF m
  <1>2. IsFiniteSet(Fetchers)
    BY ClientAssumption, Zenon
  <1>3. /\ IsFiniteSet(Retries)
        /\ Cardinality(Retries) = Cardinality(Fetchers) * Cardinality(1..(MaxAttempts - 1))
    BY <1>1, <1>2, FS_Product, Zenon DEF Retries
  <1>4. QED
    BY <1>1, <1>2, <1>3, FS_CardinalityType

\* The sets are finite, and what is owed may be owed.
LEMMA CountsTyped ==
    /\ IsFiniteSet(Unspent) /\ Cardinality(Unspent) \in Nat
    /\ IsFiniteSet(Undebited) /\ Cardinality(Undebited) \in Nat
    /\ IsFiniteSet(Overrun) /\ Cardinality(Overrun) \in Nat
    /\ Cardinality(Undebited) <= Cardinality(Overrun)
    /\ Cardinality(Overrun) <= Cardinality(Retries)
  <1>1. Unspent \subseteq Fetchers /\ Overrun \subseteq Retries /\ Undebited \subseteq Overrun
    BY Zenon DEF Unspent, Overrun, Undebited, Owes, MayOwe
  <1>2. IsFiniteSet(Fetchers) /\ IsFiniteSet(Retries)
    BY ClientAssumption, RetriesCounted
  <1>3. IsFiniteSet(Unspent)
    BY <1>1, <1>2, FS_Subset, Zenon
  <1>4. IsFiniteSet(Overrun) /\ Cardinality(Overrun) <= Cardinality(Retries)
    BY <1>1, <1>2, FS_Subset, Zenon
  <1>5. IsFiniteSet(Undebited) /\ Cardinality(Undebited) <= Cardinality(Overrun)
    BY <1>1, <1>4, FS_Subset, Zenon
  <1>6. QED
    BY <1>3, <1>4, <1>5, FS_CardinalityType, Zenon

\* How the sets change when a fetch goes from one state to another.
LEMMA UnspentStep ==
    ASSUME FetchesOK, NEW f \in Fetchers, NEW w \in Fetch,
           fetch' = [fetch EXCEPT ![f] = w], UNCHANGED utc
    PROVE  /\ (MaySpend(w) <=> MaySpend(fetch[f])) => Cardinality(Unspent') = Cardinality(Unspent)
           /\ ~MaySpend(w) => Cardinality(Unspent') <= Cardinality(Unspent)
           /\ ~MaySpend(w) /\ MaySpend(fetch[f]) =>
                Cardinality(Unspent') = Cardinality(Unspent) - 1
           /\ Cardinality(Unspent') \in Nat /\ Cardinality(Unspent') <= Cardinality(Unspent) + 1
  <1>1. fetch'[f] = w /\ \A g \in Fetchers \ {f} : fetch'[g] = fetch[g]
    BY Zenon DEF FetchesOK, ClientTypeOK
  <1>2. /\ MaySpend(fetch[f])' <=> MaySpend(w)
        /\ \A g \in Fetchers \ {f} : MaySpend(fetch[g])' <=> MaySpend(fetch[g])
    BY <1>1 DEF MaySpend, Today
  <1>3. \A g : g \in Unspent' <=>
                g \in Fetchers /\ (IF g = f THEN MaySpend(w) ELSE MaySpend(fetch[g]))
    BY <1>2 DEF Unspent
  <1>5. IsFiniteSet(Unspent) /\ Cardinality(Unspent) \in Nat
    BY CountsTyped, Zenon
  <1>6. CASE MaySpend(w) <=> MaySpend(fetch[f])
    <2>1. Unspent' = Unspent
      BY <1>1, <1>3, <1>6, Zenon DEF Unspent
    <2>2. QED
      BY <1>5, <1>6, <2>1
  <1>7. CASE ~MaySpend(w) /\ MaySpend(fetch[f])
    <2>1. Unspent' = Unspent \ {f} /\ f \in Unspent
      BY <1>1, <1>3, <1>7, Zenon DEF Unspent
    <2>2. Cardinality(Unspent \ {f}) = Cardinality(Unspent) - 1
          /\ IsFiniteSet(Unspent \ {f})
      BY <1>5, <2>1, FS_RemoveElement, Zenon
    <2>3. Cardinality(Unspent \ {f}) \in Nat
      BY <2>2, FS_CardinalityType, Zenon
    <2>4. QED
      BY <1>5, <1>7, <2>1, <2>2, <2>3
  <1>8. CASE MaySpend(w) /\ ~MaySpend(fetch[f])
    <2>1. Unspent' = Unspent \cup {f} /\ f \notin Unspent
      BY <1>1, <1>3, <1>8, Zenon DEF Unspent
    <2>2. Cardinality(Unspent \cup {f}) = Cardinality(Unspent) + 1
      BY <1>5, <2>1, FS_AddElement, Zenon
    <2>3. QED
      BY <1>5, <1>8, <2>1, <2>2
  <1>9. QED
    BY <1>6, <1>7, <1>8, Zenon

\* The members of the two sets, one fetch at a time.
LEMMA OwedMembers ==
    ASSUME FetchesOK, NEW f \in Fetchers, NEW w \in Fetch,
           fetch' = [fetch EXCEPT ![f] = w]
    PROVE  /\ \A r : r \in Undebited' <=>
                     r \in Retries /\ (IF r[1] = f THEN Owes(w, r[2]) ELSE Owes(fetch[r[1]], r[2]))
           /\ \A r : r \in Overrun' <=>
                     r \in Retries /\ (IF r[1] = f THEN MayOwe(w, r[2]) ELSE MayOwe(fetch[r[1]], r[2]))
  <1>1. fetch'[f] = w /\ \A g \in Fetchers \ {f} : fetch'[g] = fetch[g]
    BY Zenon DEF FetchesOK, ClientTypeOK
  <1>2. \A r \in Retries : r[1] \in Fetchers
    BY DEF Retries
  <1>3. \A r \in Retries :
          /\ Owes(fetch[r[1]], r[2])' <=>
               (IF r[1] = f THEN Owes(w, r[2]) ELSE Owes(fetch[r[1]], r[2]))
          /\ MayOwe(fetch[r[1]], r[2])' <=>
               (IF r[1] = f THEN MayOwe(w, r[2]) ELSE MayOwe(fetch[r[1]], r[2]))
    BY <1>1, <1>2, Zenon DEF Owes, MayOwe
  <1>4. Retries' = Retries
    BY DEF Retries
  <1>5. QED
    BY <1>3, <1>4, Zenon DEF Undebited, Overrun

\* A step that changes nothing of what a fetch owes; and one after which it may owe more.
LEMMA OwedStays ==
    ASSUME FetchesOK, NEW f \in Fetchers, NEW w \in Fetch,
           fetch' = [fetch EXCEPT ![f] = w]
    PROVE  /\ (\A k \in 1..(MaxAttempts - 1) : Owes(w, k) <=> Owes(fetch[f], k)) =>
                Cardinality(Undebited') = Cardinality(Undebited)
           /\ (\A k \in 1..(MaxAttempts - 1) : MayOwe(fetch[f], k) => MayOwe(w, k)) =>
                Cardinality(Overrun) <= Cardinality(Overrun')
           /\ Cardinality(Overrun') \in Nat /\ Cardinality(Undebited') \in Nat
           /\ Cardinality(Undebited') <= Cardinality(Overrun')
  <1>1. \A r \in Retries : r[2] \in 1..(MaxAttempts - 1)
    BY Zenon DEF Retries
  <1>2. ASSUME \A k \in 1..(MaxAttempts - 1) : Owes(w, k) <=> Owes(fetch[f], k)
        PROVE  Undebited' = Undebited
    <2>1. \A r : r \in Undebited' <=> r \in Undebited
      BY <1>1, <1>2, OwedMembers, Zenon DEF Undebited
    <2>2. QED
      BY <2>1
  <1>3. Overrun' \subseteq Retries /\ Undebited' \subseteq Overrun'
    BY OwedMembers, Zenon DEF Owes, MayOwe
  <1>4. IsFiniteSet(Overrun') /\ IsFiniteSet(Undebited')
        /\ Cardinality(Undebited') <= Cardinality(Overrun')
    <2>1. IsFiniteSet(Overrun')
      BY <1>3, RetriesCounted, FS_Subset, Zenon
    <2>2. QED
      BY <1>3, <2>1, FS_Subset, Zenon
  <1>5. ASSUME \A k \in 1..(MaxAttempts - 1) : MayOwe(fetch[f], k) => MayOwe(w, k)
        PROVE  Cardinality(Overrun) <= Cardinality(Overrun')
    <2>1. Overrun \subseteq Overrun'
      BY <1>1, <1>5, OwedMembers, Zenon DEF Overrun
    <2>2. QED
      BY <1>4, <2>1, FS_Subset, Zenon
  <1>6. QED
    BY <1>2, <1>4, <1>5, FS_CardinalityType

\* A retry is owed when it is made.
LEMMA OwedAdds ==
    ASSUME FetchesOK, NEW f \in Fetchers, NEW w \in Fetch,
           fetch' = [fetch EXCEPT ![f] = w],
           fetch[f].pc = "send", w.pc \in {"backoff", "account"},
           fetch[f].attempts >= 1, w.attempts = fetch[f].attempts + 1
    PROVE  /\ Cardinality(Undebited') = Cardinality(Undebited) + 1
           /\ Cardinality(Overrun') = Cardinality(Overrun) + 1
  <1> DEFINE n == fetch[f].attempts
             new == <<f, n>>
  <1>1. n \in Nat /\ w.attempts \in 0..MaxAttempts
    BY ClientFacts, FetchFields, Zenon
  <1>2. n \in 1..(MaxAttempts - 1)
    BY <1>1, ClientAssumption
  <1> HIDE DEF n
  <1>3. new \in Retries /\ new[1] = f /\ new[2] = n
    BY <1>2, Zenon DEF Retries
  <1>4. \A r \in Retries : r[1] = f /\ r # new => r[2] # n
    BY DEF Retries
  <1>5. \A r \in Retries : r[2] \in Nat
    BY DEF Retries
  <1> HIDE DEF new
  <1>6. \A k \in Nat : /\ Owes(w, k) <=> k = n \/ Owes(fetch[f], k)
                       /\ MayOwe(w, k) <=> k = n \/ MayOwe(fetch[f], k)
    BY <1>1 DEF Owes, MayOwe, n
  <1>7. ~Owes(fetch[f], n) /\ ~MayOwe(fetch[f], n)
    BY <1>1 DEF Owes, MayOwe, n
  <1>8. Undebited' = Undebited \cup {new} /\ new \notin Undebited
    <2>1. \A r : r \in Undebited' <=> r \in Undebited \/ r = new
      BY <1>3, <1>4, <1>5, <1>6, OwedMembers, Zenon DEF Undebited
    <2>2. QED
      BY <1>3, <1>7, <2>1, Zenon DEF Undebited
  <1>9. Overrun' = Overrun \cup {new} /\ new \notin Overrun
    <2>1. \A r : r \in Overrun' <=> r \in Overrun \/ r = new
      BY <1>3, <1>4, <1>5, <1>6, OwedMembers, Zenon DEF Overrun
    <2>2. QED
      BY <1>3, <1>7, <2>1, Zenon DEF Overrun
  <1>10. QED
    BY <1>8, <1>9, CountsTyped, FS_AddElement, Zenon

\* What is debited is no longer owed.
LEMMA OwedPaid ==
    ASSUME FetchesOK, NEW f \in Fetchers, NEW w \in Fetch,
           fetch' = [fetch EXCEPT ![f] = w], NEW n \in Nat,
           fetch[f].pc # "pause", w.pc = "pause" \/ w.attempts = 0,
           fetch[f].attempts = n + 1
    PROVE  Cardinality(Undebited) = Cardinality(Undebited') + n
  <1> DEFINE mine == {f} \X (1..n)
  <1>1. n <= MaxAttempts - 1
    BY ClientFacts, FetchFields, ClientAssumption
  <1>2. /\ IsFiniteSet(1..n) /\ Cardinality(1..n) = n
        /\ IsFiniteSet({f}) /\ Cardinality({f}) = 1
    <2>1. IsFiniteSet(1..n) /\ Cardinality(1..n) = IF 1 > n THEN 0 ELSE n - 1 + 1
      BY FS_Interval
    <2>2. Cardinality(1..n) = n
      BY <2>1
    <2>3. QED
      BY <2>1, <2>2, FS_Singleton, Zenon
  <1>3. IsFiniteSet(mine) /\ Cardinality(mine) = 1 * n
    <2>1. /\ IsFiniteSet({f} \X (1..n))
          /\ Cardinality({f} \X (1..n)) = Cardinality({f}) * Cardinality(1..n)
      BY <1>2, FS_Product, Zenon
    <2>2. QED
      BY <1>2, <2>1, Zenon
  <1>4. \A r : r \in mine <=> r \in Retries /\ r[1] = f /\ Owes(fetch[f], r[2])
    <2>1. \A k \in Nat : k < n + 1 <=> k <= n
      OBVIOUS
    <2>2. \A k : k \in 1..n <=> k \in 1..(MaxAttempts - 1) /\ Owes(fetch[f], k)
      BY <1>1, <2>1, ClientAssumption DEF Owes
    <2>3. QED
      BY <2>2, Zenon DEF Retries
  <1>5. \A k \in 1..(MaxAttempts - 1) : ~Owes(w, k)
    BY ClientAssumption DEF Owes
  <1>6. \A r \in Retries : r[2] \in 1..(MaxAttempts - 1)
    BY Zenon DEF Retries
  <1> HIDE DEF mine
  <1>7. Undebited = Undebited' \cup mine /\ Undebited' \cap mine = {}
    <2>1. \A r : r \in Undebited' <=> r \in Undebited /\ r[1] # f
      BY <1>5, <1>6, OwedMembers, Zenon DEF Undebited
    <2>2. \A r : r \in mine <=> r \in Undebited /\ r[1] = f
      BY <1>4, Zenon DEF Undebited
    <2>3. QED
      BY <2>1, <2>2
  <1>8. IsFiniteSet(Undebited')
    BY <1>7, CountsTyped, FS_Subset
  <1>9. Cardinality(Undebited' \cup mine) =
          Cardinality(Undebited') + Cardinality(mine) - Cardinality(Undebited' \cap mine)
    BY <1>3, <1>8, FS_Union, Zenon
  <1>10. Cardinality(Undebited' \cap mine) = 0 /\ Cardinality(Undebited') \in Nat
    BY <1>7, <1>8, FS_EmptySet, FS_CardinalityType, Zenon
  <1>11. QED
    BY <1>3, <1>7, <1>9, <1>10

\* Bringing the budget to the day of a time that is not over does not change what it has
\* counted today.
LEMMA UsedRolls ==
    ASSUME FetchesOK, NEW t \in 0..MaxUtc, t <= utc, NEW r, r = Rollover(budget, t)
    PROVE  /\ r \in Budget /\ r.used \in 0..MaxBudget
           /\ UsedToday = IF r.day = Today(utc) THEN r.used ELSE 0
           /\ UsedToday \in 0..MaxBudget
           /\ Today(t) = Today(utc) => r.day = Today(utc)
           /\ Today(t) # Today(utc) => Today(t) < Today(utc)
  <1>1. /\ budget \in Budget /\ budget.day \in Nat /\ budget.used \in 0..MaxBudget
        /\ budget.day <= Today(utc) /\ Today(utc) \in Nat /\ utc \in Nat /\ t \in Nat
    <2>1. budget \in Budget /\ budget.day <= Today(utc) /\ Today(utc) \in Nat /\ utc \in Nat
      BY ClientFacts, Zenon DEF FetchesOK
    <2>2. QED
      BY <2>1, ClientAssumption DEF Budget
  <1>2. Today(t) \in Nat /\ Today(t) <= Today(utc)
    BY <1>1, TodayMonotone
  <1>3. r \in Budget /\ r = IF Today(t) > budget.day
                            THEN [day |-> Today(t), used |-> 0, pausedTil |-> 0] ELSE budget
    BY <1>1, RolloverFacts, Zenon
  <1>4. r.used \in 0..MaxBudget
    BY <1>3, Zenon DEF Budget
  <1>5. CASE Today(t) > budget.day
    <2>1. r.day = Today(t) /\ r.used = 0
      BY <1>3, <1>5
    <2>2. UsedToday = 0
      BY <1>1, <1>2, <1>5 DEF UsedToday
    <2>3. UsedToday = IF r.day = Today(utc) THEN r.used ELSE 0
      BY <2>1, <2>2, Zenon
    <2>4. QED
      BY <1>1, <1>2, <1>3, <1>4, <2>1, <2>2, <2>3, ClientAssumption
  <1>6. CASE ~(Today(t) > budget.day)
    <2>1. r = budget
      BY <1>3, <1>6, Zenon
    <2>2. QED
      BY <1>1, <1>2, <1>3, <1>4, <1>6, <2>1, ClientAssumption DEF UsedToday
  <1>7. QED
    BY <1>5, <1>6, Zenon

\* reserve counts the request it admits today, unless the fetch is late and the budget
\* that of an earlier day; then the fetch was counted as one that crossed midnight.
LEMMA MeteredReserve ==
    ASSUME FetchesOK, guarded, Metered, NEW f \in Fetchers, NEW w \in Fetch, Reserves(f, w),
           fetch' = [fetch EXCEPT ![f] = w], UNCHANGED <<utc, guarded, crossed>>
    PROVE  Metered'
  <1> DEFINE at == fetch[f].at
  <1>1. /\ fetch[f] \in Fetch /\ at \in 0..MaxUtc /\ at <= utc /\ fetch[f].attempts = 0
        /\ fetch[f].pc = "reserve" /\ w.attempts = 0 /\ UNCHANGED sent
        /\ budget \in Budget /\ budget' = Reserved(budget, at)
        /\ w.pc = IF MayReserve(budget, at) THEN "wait" ELSE "idle"
    BY ClientFacts, FetchFields, Zenon DEF FetchOK, Reserves
  <1> HIDE DEF at
  <1>2. PICK r : r = Rollover(budget, at)
    BY Zenon
  <1>3. /\ r.used \in 0..MaxBudget /\ UsedToday = (IF r.day = Today(utc) THEN r.used ELSE 0)
        /\ UsedToday \in 0..MaxBudget
        /\ Today(at) = Today(utc) => r.day = Today(utc)
        /\ Today(at) # Today(utc) => Today(at) < Today(utc)
    BY <1>1, <1>2, UsedRolls, Zenon
  <1>4. /\ budget'.day = r.day
        /\ budget'.used = IF MayReserve(budget, at) THEN r.used + 1 ELSE r.used
        /\ MayReserve(budget, at) => r.used < MaxBudget
    BY <1>1, <1>2, ReservedFacts, Zenon
  <1>5. Today(utc)' = Today(utc)
    BY Zenon DEF Today
  <1>6. UsedToday' = IF budget'.day = Today(utc) THEN budget'.used ELSE 0
    BY <1>5, Zenon DEF UsedToday
  <1>7. Cardinality(Undebited') = Cardinality(Undebited)
        /\ Cardinality(Overrun') \in Nat /\ Cardinality(Undebited') <= Cardinality(Overrun')
    <2>1. \A k \in 1..(MaxAttempts - 1) : Owes(w, k) <=> Owes(fetch[f], k)
      BY <1>1, ClientAssumption, Zenon DEF Owes
    <2>2. QED
      BY <2>1, OwedStays, Zenon
  <1>8. sent \in Nat /\ crossed \in Nat
        /\ Covered(sent, Cardinality(Unspent), UsedToday, crossed,
                   Cardinality(Undebited), Cardinality(Overrun))
    BY RetriesCounted DEF FetchesOK, ClientTypeOK, Metered
  <1>9. CASE MayReserve(budget, at)
    <2>1. CASE r.day = Today(utc)
      <3>1. UsedToday < MaxBudget /\ UsedToday' = UsedToday + 1
        BY <1>3, <1>4, <1>6, <1>9, <2>1, Zenon
      <3>2. Cardinality(Unspent') <= Cardinality(Unspent) + 1 /\ Cardinality(Unspent') \in Nat
        BY UnspentStep, Zenon
      <3>3. Covered(sent', Cardinality(Unspent'), UsedToday', crossed',
                    Cardinality(Undebited'), Cardinality(Overrun'))
        BY <1>1, <1>3, <1>7, <1>8, <3>1, <3>2, CountsTyped, ClientAssumption
        DEF Covered
      <3>4. QED
        BY <3>3, Zenon DEF Metered
    <2>2. CASE r.day # Today(utc)
      <3>1. UsedToday = 0 /\ UsedToday' = 0
        BY <1>3, <1>4, <1>6, <2>2, Zenon
      <3>2. MaySpend(fetch[f]) /\ MaySpend(w)
        BY <1>1, <1>3, <1>9, <2>2, Zenon DEF MaySpend, at
      <3>3. Cardinality(Unspent') = Cardinality(Unspent)
        BY <3>2, UnspentStep, Zenon
      <3>4. Covered(sent', Cardinality(Unspent'), UsedToday', crossed',
                    Cardinality(Undebited'), Cardinality(Overrun'))
        BY <1>1, <1>7, <1>8, <3>1, <3>3, CountsTyped, ClientAssumption DEF Covered
      <3>5. QED
        BY <3>4, Zenon DEF Metered
    <2>3. QED
      BY <2>1, <2>2
  <1>10. CASE ~MayReserve(budget, at)
    <2>1. UsedToday' = UsedToday
      BY <1>3, <1>4, <1>6, <1>10, Zenon
    <2>2. ~MaySpend(w)
      BY <1>1, <1>10, Zenon DEF MaySpend
    <2>3. Cardinality(Unspent') <= Cardinality(Unspent) /\ Cardinality(Unspent') \in Nat
      BY <2>2, UnspentStep, Zenon
    <2>4. Cardinality(Overrun) <= Cardinality(Overrun')
      <3>1. \A k \in 1..(MaxAttempts - 1) : MayOwe(fetch[f], k) => MayOwe(w, k)
        BY <1>1, <1>10, Zenon DEF MayOwe
      <3>2. QED
        BY <3>1, OwedStays, Zenon
    <2>5. Covered(sent', Cardinality(Unspent'), UsedToday', crossed',
                  Cardinality(Undebited'), Cardinality(Overrun'))
      BY <1>1, <1>3, <1>7, <1>8, <2>1, <2>3, <2>4, CountsTyped, ClientAssumption
      DEF Covered
    <2>6. QED
      BY <2>5, Zenon DEF Metered
  <1>11. QED
    BY <1>9, <1>10, Zenon

\* A debit moves retries from those owed to those counted, as far as the counter goes.
LEMMA MeteredAccount ==
    ASSUME FetchesOK, guarded, Metered, NEW f \in Fetchers, NEW w \in Fetch, Accounts(f, w),
           fetch' = [fetch EXCEPT ![f] = w], UNCHANGED <<utc, guarded, crossed>>
    PROVE  Metered'
  <1>1. /\ fetch[f] \in Fetch /\ fetch[f].attempts \in Nat /\ fetch[f].pc = "account"
        /\ w.pc \in {"pause", "idle"} /\ (w.pc = "pause" \/ w.attempts = 0) /\ UNCHANGED sent
        /\ budget \in Budget /\ utc \in 0..MaxUtc /\ utc \in Nat
        /\ budget' = Consumed(budget, utc, fetch[f].attempts - 1)
    BY ClientFacts, FetchFields, Zenon DEF Accounts
  <1>2. PICK r : r = Rollover(budget, utc)
    BY Zenon
  <1>3. r.used \in 0..MaxBudget /\ UsedToday = r.used /\ r.day = Today(utc)
    BY <1>1, <1>2, UsedRolls
  <1>4. Today(utc)' = Today(utc)
    BY Zenon DEF Today
  <1>5. Cardinality(Unspent') = Cardinality(Unspent) /\ Cardinality(Unspent') \in Nat
    <2>1. ~MaySpend(fetch[f]) /\ ~MaySpend(w)
      BY <1>1, Zenon DEF MaySpend
    <2>2. QED
      BY <2>1, UnspentStep, Zenon
  <1>6. Cardinality(Overrun) <= Cardinality(Overrun') /\ Cardinality(Overrun') \in Nat
        /\ Cardinality(Undebited') \in Nat
    <2>1. \A k \in 1..(MaxAttempts - 1) : MayOwe(fetch[f], k) => MayOwe(w, k)
      BY <1>1, Zenon DEF MayOwe
    <2>2. QED
      BY <2>1, OwedStays, Zenon
  <1>7. sent \in Nat /\ crossed \in Nat
        /\ Covered(sent, Cardinality(Unspent), UsedToday, crossed,
                   Cardinality(Undebited), Cardinality(Overrun))
    BY RetriesCounted DEF FetchesOK, ClientTypeOK, Metered
  <1>8. CASE fetch[f].attempts <= 1
    <2>1. fetch[f].attempts - 1 \in Int /\ fetch[f].attempts - 1 <= 0
      BY <1>1, <1>8
    <2>2. budget' = budget
      BY <1>1, <1>2, <2>1, ConsumedFacts, Zenon
    <2>3. UsedToday' = UsedToday
      BY <1>4, <2>2, Zenon DEF UsedToday
    <2>4. Cardinality(Undebited') = Cardinality(Undebited)
      <3>1. \A k \in 1..(MaxAttempts - 1) : Owes(w, k) <=> Owes(fetch[f], k)
        BY <1>1, <1>8, ClientAssumption DEF Owes
      <3>2. QED
        BY <3>1, OwedStays, Zenon
    <2>5. Covered(sent', Cardinality(Unspent'), UsedToday', crossed',
                  Cardinality(Undebited'), Cardinality(Overrun'))
      BY <1>1, <1>3, <1>5, <1>6, <1>7, <2>3, <2>4, CountsTyped, ClientAssumption
      DEF Covered
    <2>6. QED
      BY <2>5, Zenon DEF Metered
  <1>9. CASE fetch[f].attempts > 1
    <2>1. PICK n \in Nat : n = fetch[f].attempts - 1 /\ fetch[f].attempts = n + 1 /\ n > 0
      BY <1>1, <1>9
    <2>2. PICK b : b = Consumed(budget, utc, n)
      BY Zenon
    <2>3. b.day = r.day /\ b.used = IF r.used + n > MaxBudget THEN MaxBudget ELSE r.used + n
      <3>1. n \in Int /\ n > 0
        BY <2>1
      <3>2. Consumed(budget, utc, n).day = Rollover(budget, utc).day
        BY <1>1, <3>1, ConsumedFacts
      <3>3. Consumed(budget, utc, n).used =
              IF Rollover(budget, utc).used + n > MaxBudget THEN MaxBudget
              ELSE Rollover(budget, utc).used + n
        BY <1>1, <3>1, ConsumedFacts
      <3>4. QED
        BY <1>2, <2>2, <3>2, <3>3, Zenon
    <2>4. UsedToday' = IF UsedToday + n > MaxBudget THEN MaxBudget ELSE UsedToday + n
      BY <1>1, <1>3, <1>4, <2>1, <2>2, <2>3, Zenon DEF UsedToday
    <2>5. Cardinality(Undebited) = Cardinality(Undebited') + n
      BY <1>1, <2>1, OwedPaid, Zenon
    <2>6. Covered(sent', Cardinality(Unspent'), UsedToday', crossed',
                  Cardinality(Undebited'), Cardinality(Overrun'))
      BY <1>1, <1>3, <1>5, <1>6, <1>7, <2>4, <2>5, CountsTyped, ClientAssumption
      DEF Covered
    <2>7. QED
      BY <2>6, Zenon DEF Metered
  <1>10. QED
    BY <1>1, <1>8, <1>9

\* A first request was reserved; a later one is owed.
LEMMA MeteredSend ==
    ASSUME FetchesOK, guarded, Metered, NEW f \in Fetchers, NEW w \in Fetch, Sends(f, w),
           fetch' = [fetch EXCEPT ![f] = w], UNCHANGED <<utc, guarded, crossed>>
    PROVE  Metered'
  <1>1. /\ fetch[f] \in Fetch /\ fetch[f].attempts \in Nat /\ fetch[f].pc = "send"
        /\ w.pc \in {"backoff", "account"} /\ w.attempts = fetch[f].attempts + 1
        /\ sent' = sent + 1 /\ UNCHANGED budget
        /\ utc \in 0..MaxUtc /\ utc \in Nat
    BY ClientFacts, FetchFields, Zenon DEF Sends
  <1>2. UsedToday' = UsedToday /\ UsedToday \in 0..MaxBudget
    <2>1. UsedToday \in 0..MaxBudget
      BY ClientFacts, ClientAssumption DEF UsedToday, Budget
    <2>2. QED
      BY <1>1, <2>1, Zenon DEF UsedToday, Today
  <1>3. sent \in Nat /\ crossed \in Nat
        /\ Covered(sent, Cardinality(Unspent), UsedToday, crossed,
                   Cardinality(Undebited), Cardinality(Overrun))
    BY RetriesCounted DEF FetchesOK, ClientTypeOK, Metered
  <1>4. ~MaySpend(w)
    BY <1>1, Zenon DEF MaySpend
  <1>5. CASE fetch[f].attempts = 0
    <2>1. MaySpend(fetch[f])
      BY <1>1, <1>5, Zenon DEF MaySpend
    <2>2. Cardinality(Unspent') = Cardinality(Unspent) - 1
      BY <1>4, <2>1, UnspentStep, Zenon
    <2>3. /\ \A k \in 1..(MaxAttempts - 1) : Owes(w, k) <=> Owes(fetch[f], k)
          /\ \A k \in 1..(MaxAttempts - 1) : MayOwe(fetch[f], k) => MayOwe(w, k)
      BY <1>1, <1>5, ClientAssumption DEF Owes, MayOwe
    <2>4. Cardinality(Undebited') = Cardinality(Undebited)
          /\ Cardinality(Overrun) <= Cardinality(Overrun') /\ Cardinality(Overrun') \in Nat
      BY <2>3, OwedStays, Zenon
    <2>5. Covered(sent', Cardinality(Unspent'), UsedToday', crossed',
                  Cardinality(Undebited'), Cardinality(Overrun'))
      BY <1>1, <1>2, <1>3, <2>2, <2>4, CountsTyped, ClientAssumption DEF Covered
    <2>6. QED
      BY <2>5 DEF Metered
  <1>6. CASE fetch[f].attempts >= 1
    <2>1. Cardinality(Unspent') = Cardinality(Unspent)
      <3>1. ~MaySpend(fetch[f])
        BY <1>1, <1>6 DEF MaySpend
      <3>2. QED
        BY <1>4, <3>1, UnspentStep, Zenon
    <2>2. /\ Cardinality(Undebited') = Cardinality(Undebited) + 1
          /\ Cardinality(Overrun') = Cardinality(Overrun) + 1
      BY <1>1, <1>6, OwedAdds, Zenon
    <2>3. Covered(sent', Cardinality(Unspent'), UsedToday', crossed',
                  Cardinality(Undebited'), Cardinality(Overrun'))
      BY <1>1, <1>2, <1>3, <2>1, <2>2, CountsTyped, ClientAssumption DEF Covered
    <2>4. QED
      BY <2>3, Zenon DEF Metered
  <1>7. QED
    BY <1>1, <1>5, <1>6

\* The other steps of a fetch change nothing that is counted.
LEMMA MeteredQuiet ==
    ASSUME FetchesOK, guarded, Metered, NEW f \in Fetchers, NEW w \in Fetch,
           Starts(f, w) \/ GoesOn(f, w) \/ Waits(f, w) \/ Pauses(f, w),
           fetch' = [fetch EXCEPT ![f] = w], UNCHANGED <<utc, guarded, crossed>>
    PROVE  Metered'
  <1>1. /\ fetch[f] \in Fetch /\ FetchOK(fetch[f]) /\ fetch[f].attempts \in Nat
        /\ fetch[f].advice \in Nat /\ budget \in Budget /\ utc \in 0..MaxUtc /\ utc \in Nat
        /\ Today(utc) \in Nat
    BY ClientFacts, FetchFields, Zenon
  <1>2. UNCHANGED sent
    BY Zenon DEF Starts, GoesOn, Waits, Pauses
  <1>3. UsedToday' = UsedToday /\ UsedToday \in 0..MaxBudget
    <2>1. UsedToday \in 0..MaxBudget
      BY ClientFacts, ClientAssumption DEF UsedToday, Budget
    <2>2. CASE UNCHANGED budget
      BY <2>1, <2>2, Zenon DEF UsedToday, Today
    <2>3. CASE Pauses(f, w)
      <3>1. PICK r : r = Rollover(budget, utc)
        BY Zenon
      <3>2. UsedToday = r.used /\ r.day = Today(utc)
        BY <1>1, <3>1, UsedRolls
      <3>3. budget'.day = r.day /\ budget'.used = r.used
        <4>1. PICK d \in Nat : d = fetch[f].advice
          BY <1>1, Zenon
        <4>2. Paused(budget, utc, d).day = r.day /\ Paused(budget, utc, d).used = r.used
          <5>1. budget \in Budget /\ utc \in 0..MaxUtc
            BY <1>1, Zenon
          <5>2. QED
            BY <3>1, <5>1, PausedFacts
        <4>4. QED
          BY <2>3, <4>1, <4>2, Zenon DEF Pauses
      <3>4. Today(utc)' = Today(utc)
        BY Zenon DEF Today
      <3>5. QED
        BY <2>1, <3>2, <3>3, <3>4, Zenon DEF UsedToday
    <2>4. QED
      BY <2>2, <2>3, Zenon DEF Starts, GoesOn, Waits
  <1>4. Cardinality(Unspent') <= Cardinality(Unspent) /\ Cardinality(Unspent') \in Nat
    <2>1. ~MaySpend(w) \/ (MaySpend(w) /\ MaySpend(fetch[f]))
      BY <1>1 DEF MaySpend, Starts, GoesOn, Waits, Pauses, FetchOK
    <2>2. /\ ~MaySpend(w) => Cardinality(Unspent') <= Cardinality(Unspent)
          /\ MaySpend(w) /\ MaySpend(fetch[f]) => Cardinality(Unspent') = Cardinality(Unspent)
          /\ Cardinality(Unspent') \in Nat
      BY UnspentStep, Zenon
    <2>3. QED
      BY <2>1, <2>2, CountsTyped
  <1>5. Cardinality(Undebited') = Cardinality(Undebited)
        /\ Cardinality(Overrun) <= Cardinality(Overrun') /\ Cardinality(Overrun') \in Nat
    <2>1. /\ \A k \in 1..(MaxAttempts - 1) : Owes(w, k) <=> Owes(fetch[f], k)
          /\ \A k \in 1..(MaxAttempts - 1) : MayOwe(fetch[f], k) => MayOwe(w, k)
      BY <1>1, ClientAssumption
      DEF Owes, MayOwe, Starts, GoesOn, Waits, Pauses, FetchOK
    <2>2. QED
      BY <2>1, OwedStays, Zenon
  <1>6. sent \in Nat /\ crossed \in Nat
        /\ Covered(sent, Cardinality(Unspent), UsedToday, crossed,
                   Cardinality(Undebited), Cardinality(Overrun))
    BY RetriesCounted DEF FetchesOK, ClientTypeOK, Metered
  <1>7. Covered(sent', Cardinality(Unspent'), UsedToday', crossed',
                Cardinality(Undebited'), Cardinality(Overrun'))
    BY <1>2, <1>3, <1>4, <1>5, <1>6, CountsTyped, ClientAssumption DEF Covered
  <1>8. QED
    BY <1>7, Zenon DEF Metered

\* At midnight nothing is made yet, and whoever may still spend was under way.
LEMMA MeteredPass ==
    ASSUME FetchesOK, Metered, Pass, UNCHANGED guarded
    PROVE  Metered'
  <1> SUFFICES ASSUME guarded
               PROVE  Covered(sent', Cardinality(Unspent'), UsedToday', crossed',
                              Cardinality(Undebited'), Cardinality(Overrun'))
    BY Zenon DEF Metered
  <1>1. UNCHANGED fetch /\ budget.day \in Nat /\ budget.day <= Today(utc) /\ Today(utc) \in Nat
    BY ClientFacts, PassFacts DEF FetchesOK, Budget
  <1>2. Undebited' = Undebited /\ Overrun' = Overrun
    BY <1>1, Zenon DEF Undebited, Overrun, Owes, MayOwe, Retries
  <1>3. CASE (utc + 1) % Day = 0
    <2> DEFINE busy == {f \in Fetchers : fetch[f].pc # "idle"}
    <2>1. sent' = 0 /\ crossed' = Cardinality(busy) /\ Today(utc)' = Today(utc) + 1
          /\ UNCHANGED budget
      BY <1>3, PassFacts, Zenon
    <2>2. UsedToday' = 0
      BY <1>1, <2>1 DEF UsedToday
    <2>3. Unspent' \subseteq busy
      BY <1>1, Zenon DEF Unspent, MaySpend
    <2>4. busy \subseteq Fetchers /\ IsFiniteSet(Fetchers)
      BY ClientAssumption, Zenon
    <2> HIDE DEF busy
    <2>5. IsFiniteSet(busy)
      BY <2>4, FS_Subset, Zenon
    <2>6. IsFiniteSet(Unspent') /\ Cardinality(Unspent') <= Cardinality(busy)
      BY <2>3, <2>5, FS_Subset, Zenon
    <2>7. Cardinality(Unspent') \in Nat /\ Cardinality(busy) \in Nat
      BY <2>5, <2>6, FS_CardinalityType, Zenon
    <2>8. QED
      BY <1>2, <2>1, <2>2, <2>6, <2>7, CountsTyped, ClientAssumption DEF Covered
  <1>4. CASE (utc + 1) % Day # 0
    <2>1. UNCHANGED <<sent, crossed, budget>> /\ Today(utc)' = Today(utc)
      BY <1>4, PassFacts, Zenon
    <2>2. UsedToday' = UsedToday /\ Unspent' = Unspent
      BY <1>1, <2>1, Zenon DEF UsedToday, Unspent, MaySpend
    <2>3. QED
      BY <1>2, <2>1, <2>2, Zenon DEF Metered
  <1>5. QED
    BY <1>3, <1>4, Zenon

-----------------------------------------------------------------------------
\* The inductive invariant of the client.
ClientInv == FetchesOK /\ BucketOK /\ PauseHolds /\ Metered

\* It holds before the first fetch.
LEMMA ClientInvInit == ClientInit => ClientInv
  <1> SUFFICES ASSUME ClientInit PROVE ClientInv
    BY Zenon
  <1>1. 0 \in 0..MaxUtc /\ Today(0) = 0 /\ Today(MaxUtc) \in Nat
    BY ClientAssumption DEF Today
  <1>2. bucket \in Bucket /\ BucketOK
    BY BucketAssumption DEF ClientInit, NewLimiter, Bucket, BucketOK, BucketIsExact, Refilled
  <1>3. \A f \in Fetchers : fetch[f] = NoFetch
    BY Zenon DEF ClientInit
  <1>4. FetchesOK
    <2>1. fetch \in [Fetchers -> Fetch] /\ budget \in Budget
      BY <1>1, NoFetchTyped, ClientAssumption DEF ClientInit, Budget
    <2>2. \A f \in Fetchers : FetchOK(fetch[f])
      BY <1>3, NoFetchTyped DEF FetchOK, ClientInit
    <2>3. crossed \in 0..Cardinality(Fetchers)
      BY RetriesCounted DEF ClientInit
    <2>4. ClientTypeOK
      BY <1>1, <1>2, <2>1, <2>3, BucketAssumption DEF ClientInit, ClientTypeOK, Budget
    <2>5. QED
      BY <1>1, <2>2, <2>4 DEF FetchesOK, ClientInit
  <1>5. PauseHolds
    BY DEF ClientInit, PauseHolds
  <1>6. Metered
    <2>1. Unspent = {}
      BY <1>3, NoFetchTyped, Zenon DEF Unspent, MaySpend
    <2>2. Cardinality(Unspent) = 0
      BY <2>1, FS_EmptySet, Zenon
    <2>3. UsedToday = 0
      BY Zenon DEF UsedToday, ClientInit
    <2>4. QED
      BY <2>2, <2>3, CountsTyped, ClientAssumption DEF Metered, Covered, ClientInit
  <1>7. QED
    BY <1>2, <1>4, <1>5, <1>6, Zenon DEF ClientInv

\* Every step keeps it.
LEMMA ClientInvNext == ClientInv /\ [ClientNext]_clientVars => ClientInv'
  <1> SUFFICES ASSUME ClientInv, [ClientNext]_clientVars PROVE ClientInv'
    BY Zenon
  <1>1. FetchesOK /\ BucketOK /\ PauseHolds /\ Metered
    BY DEF ClientInv
  <1>2. ASSUME Pass, UNCHANGED guarded PROVE ClientInv'
    BY <1>1, <1>2, FetchesPass, BucketPass, PausePass, MeteredPass DEF ClientInv
  <1>3. ASSUME NEW f \in Fetchers, FetchStep(f), UNCHANGED guarded PROVE ClientInv'
    <2>1. UNCHANGED <<utc, guarded, crossed>>
      BY <1>1, <1>3, FetchEffect, Zenon
    <2>2. PICK w \in Fetch : fetch' = [fetch EXCEPT ![f] = w] /\ Effect(f, w)
      BY <1>1, <1>3, FetchEffect, Zenon
    <2>3. BucketOK' /\ bucket' \in Bucket /\ eager' \in Int
      BY <1>1, <2>1, <2>2, BucketStep, Zenon
    <2>4. FetchesOK'
      BY <1>1, <2>1, <2>2, <2>3, FetchesStep, Zenon
    <2>5. PauseHolds'
      BY <1>1, <2>1, <2>2, PauseStep, Zenon
    <2>6. CASE guarded
      BY <1>1, <2>1, <2>2, <2>3, <2>4, <2>5, <2>6, MeteredReserve, MeteredAccount, MeteredSend,
         MeteredQuiet, Zenon DEF ClientInv, Effect
    <2>7. CASE ~guarded
      BY <2>1, <2>3, <2>4, <2>5, <2>7, Zenon DEF ClientInv, Metered
    <2>8. QED
      BY <2>6, <2>7, Zenon
  <1>4. CASE UNCHANGED clientVars
    <2>1. FetchesOK'
      BY <1>1, <1>4, Zenon DEF clientVars, FetchesOK, ClientTypeOK, FetchOK, Today
    <2>2. BucketOK' /\ PauseHolds'
      BY <1>1, <1>4, Zenon DEF clientVars, BucketOK, BucketIsExact, PauseHolds, Today
    <2>3. UsedToday' = UsedToday /\ Unspent' = Unspent /\ Undebited' = Undebited
          /\ Overrun' = Overrun /\ UNCHANGED <<sent, crossed, guarded>>
      BY <1>4, Zenon DEF clientVars, UsedToday, Unspent, MaySpend, Undebited, Owes, Overrun, MayOwe,
                  Retries, Today
    <2>4. Metered'
      BY <1>1, <2>3, Zenon DEF Metered
    <2>5. QED
      BY <2>1, <2>2, <2>4, Zenon DEF ClientInv
  <1>5. QED
    BY <1>2, <1>3, <1>4 DEF ClientNext

\* The bucket, the budget, its pause and the fetches under way, in every behaviour.
THEOREM ClientInvariant == ClientSpec => []ClientInv
<1> QED
  BY ClientInvInit, ClientInvNext, PTL DEF ClientSpec

\* Get, reserve, consume and Limiter.Wait: budget and bucket meter the requests of a day,
\* for any number of concurrent fetches, retries, budget, rate and length of the day.
THEOREM RequestsStayMetered == ClientSpec => []RequestsAreMetered
<1>1. ClientInv => RequestsAreMetered
  <2> SUFFICES ASSUME ClientInv PROVE RequestsAreMetered
    BY Zenon
  <2>1. BucketIsExact
    BY DEF ClientInv, BucketOK
  <2>2. ASSUME guarded
        PROVE  sent <= MaxBudget + crossed + Cardinality(Fetchers) * (MaxAttempts - 1)
    <3>1. Covered(sent, Cardinality(Unspent), UsedToday, crossed,
                  Cardinality(Undebited), Cardinality(Overrun))
      BY <2>2, Zenon DEF ClientInv, Metered
    <3>2. sent \in Nat /\ crossed \in Nat /\ UsedToday \in 0..MaxBudget
      <4>1. FetchesOK
        BY Zenon DEF ClientInv
      <4>2. UsedToday \in 0..MaxBudget
        BY <4>1, ClientFacts, ClientAssumption DEF UsedToday, Budget
      <4>3. QED
        BY <4>1, <4>2, RetriesCounted DEF FetchesOK, ClientTypeOK
    <3>3. sent <= MaxBudget + crossed + Cardinality(Retries)
      BY <3>1, <3>2, CountsTyped, RetriesCounted, ClientAssumption DEF Covered
    <3>4. QED
      BY <3>3, RetriesCounted, Zenon
  <2>3. QED
    BY <2>1, <2>2, Zenon DEF RequestsAreMetered, DayCapped
<1> QED
  BY <1>1, ClientInvariant, PTL

\* pause and reserve: no fetch is admitted before the latest time that an answer of the
\* day asked to wait for, in whatever order concurrent answers engage the pause.
THEOREM PauseIsRespected == ClientSpec => PauseRespected
<1>1. ClientInv /\ [ClientNext]_clientVars =>
        [\A f \in Fetchers :
            fetch[f].pc = "reserve" /\ fetch'[f].pc = "wait" => utc >= advised]_clientVars
  <2> SUFFICES ASSUME ClientInv, ClientNext, NEW f \in Fetchers,
                      fetch[f].pc = "reserve", fetch'[f].pc = "wait"
               PROVE  utc >= advised
    BY Zenon
  <2>1. FetchesOK /\ PauseHolds /\ UNCHANGED guarded
    BY Zenon DEF ClientInv, ClientNext
  <2>2. CASE Pass
    BY <2>2, Zenon DEF Pass
  <2>3. ASSUME NEW g \in Fetchers, FetchStep(g) PROVE utc >= advised
    <3>1. PICK w \in Fetch : fetch' = [fetch EXCEPT ![g] = w] /\ Effect(g, w)
      BY <2>1, <2>3, FetchEffect, Zenon
    <3>2. UNCHANGED utc
      BY <2>1, <2>3, FetchEffect, Zenon
    <3>3. g = f /\ w.pc = "wait"
      BY <2>1, <3>1, Zenon DEF FetchesOK, ClientTypeOK
    <3>4. QED
      BY <2>1, <3>1, <3>2, <3>3, PauseStep, Zenon
  <2>4. QED
    BY <2>2, <2>3, Zenon DEF ClientNext
<1> QED
  BY <1>1, ClientInvariant, PTL DEF ClientSpec, PauseRespected
=============================================================================
