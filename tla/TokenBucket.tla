---------------------------- MODULE TokenBucket ----------------------------
(***************************************************************************)
(* The token bucket of internal/platform/ratelimit.  Tokens are counted in *)
(* fractions, Token of them to a whole one, and Refill of them accrue in a *)
(* unit of time.  The bucket is brought up to date only when it is used.   *)
(***************************************************************************)
EXTENDS Integers

CONSTANTS
    Token,      \* fractions of a whole token
    BucketMax,  \* the most a bucket holds
    Refill      \* what a unit of time adds

ASSUME BucketAssumption == Token \in Nat \ {0} /\ BucketMax \in Nat /\ Refill \in Nat \ {0}

Bucket == [tokens : 0..BucketMax, last : Nat]

\* NewLimiter: it starts full.
NewLimiter(now) == [tokens |-> BucketMax, last |-> now]

\* refill.
Refilled(b, now) ==
    IF now <= b.last THEN b
    ELSE LET sum == b.tokens + (now - b.last) * Refill
         IN  [tokens |-> IF sum > BucketMax THEN BucketMax ELSE sum, last |-> now]

\* Whether Allow and the pass of Wait's loop take a token.
Available(b, now) == Refilled(b, now).tokens >= Token

\* What they leave: without a token, the bucket is brought up to date all the same.
Taken(b, now) ==
    LET r == Refilled(b, now)
    IN  IF r.tokens >= Token THEN [r EXCEPT !.tokens = @ - Token] ELSE r
=============================================================================
