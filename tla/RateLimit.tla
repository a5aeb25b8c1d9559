----------------------------- MODULE RateLimit -----------------------------
(***************************************************************************)
(* The rate limit of the API (RateLimit in internal/api/middleware.go): a  *)
(* bucket for each client address, created when it is first seen.  The     *)
(* map's mutex is released before the bucket's is taken.                   *)
(***************************************************************************)
EXTENDS TokenBucket

CONSTANTS
    Addresses,  \* client addresses
    Arrivals,   \* requests that may be in the limiter at once
    NoAddress,
    MaxTick     \* bound: time

ASSUME RateLimitAssumption == NoAddress \notin Addresses /\ MaxTick \in Nat

VARIABLES
    minute,     \* the time
    buckets,    \* KeyedLimiter.buckets
    arrival,    \* the address whose bucket an arrival is about to use
    earned      \* history: the tokens of a bucket that is always full or being refilled

limitVars == <<minute, buckets, arrival, earned>>

\* Every variable has its type.
LimitTypeOK ==
    /\ minute \in 0..MaxTick
    /\ \A a \in Addresses : buckets[a] = <<>> \/ buckets[a] \in Bucket
    /\ arrival \in [Arrivals -> Addresses \cup {NoAddress}]
    /\ earned \in [Addresses -> Int]

-----------------------------------------------------------------------------
\* Mutant of BucketFor: a bucket is made for every request.
BucketForAnew(a) == NewLimiter(minute)

\* The bucket of an address, made on first use.
BucketFor(a) == IF buckets[a] = <<>> THEN NewLimiter(minute) ELSE buckets[a]

Arrive(r) ==
    /\ arrival[r] = NoAddress
    /\ \E a \in Addresses : /\ arrival' = [arrival EXCEPT ![r] = a]
                            /\ buckets' = [buckets EXCEPT ![a] = BucketFor(a)]
    /\ UNCHANGED <<minute, earned>>

\* Limiter.Allow; without a token, 429.
Allow(r) ==
    LET a == arrival[r]
    IN  /\ a # NoAddress
        /\ buckets' = [buckets EXCEPT ![a] = Taken(@, minute)]
        /\ earned' = IF Available(buckets[a], minute)
                     THEN [earned EXCEPT ![a] = @ - Token] ELSE earned
        /\ arrival' = [arrival EXCEPT ![r] = NoAddress]
        /\ UNCHANGED minute

MinutePasses ==
    /\ minute < MaxTick
    /\ minute' = minute + 1
    /\ earned' = [a \in Addresses |-> IF earned[a] + Refill > BucketMax THEN BucketMax
                                      ELSE earned[a] + Refill]
    /\ UNCHANGED <<buckets, arrival>>

LimitInit ==
    /\ minute = 0
    /\ buckets = [a \in Addresses |-> <<>>]
    /\ arrival = [r \in Arrivals |-> NoAddress]
    /\ earned = [a \in Addresses |-> BucketMax]

LimitNext == MinutePasses \/ \E r \in Arrivals : Arrive(r) \/ Allow(r)

LimitSpec == LimitInit /\ [][LimitNext]_limitVars

-----------------------------------------------------------------------------
\* Every address passes as many requests as its rate allows and no more, whatever other
\* addresses do, from its first request on: its bucket, brought up to date, has what a
\* bucket of its own that is refilled all the time would have.
RateIsPerAddress ==
    \A a \in Addresses :
        buckets[a] # <<>> => Refilled(buckets[a], minute).tokens = earned[a]
=============================================================================
