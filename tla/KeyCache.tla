------------------------------ MODULE KeyCache ------------------------------
(***************************************************************************)
(* Verification of bearer tokens (adapters/auth/jwks): the cache of the    *)
(* auth provider's signing keys and its refresh when a key id is unknown.  *)
(*                                                                         *)
(* Verifiers are requests.  The cache is read, the interval since the last *)
(* refresh is looked at, the keys are fetched, installed, and read again   *)
(* in separate steps; only the first two and the last two hold the mutex.  *)
(* A token is its key id; what else Verify checks needs no state.          *)
(***************************************************************************)
EXTENDS Naturals, FiniteSets

CONSTANTS
    Verifiers,      \* concurrent verifications
    Kids,           \* key ids
    MinRefresh,     \* MinRefreshInterval
    MaxFetch,       \* the timeout of the HTTP client
    Never,          \* no time
    MaxRotations,   \* bound: rotations of the keys
    MaxHour         \* bound: time

ASSUME KeyAssumption ==
    /\ IsFiniteSet(Kids) /\ Kids # {}
    /\ MinRefresh \in Nat \ {0} /\ MaxFetch \in Nat /\ MaxRotations \in Nat /\ MaxHour \in Nat
    /\ Never \notin Nat

VARIABLES
    hour,           \* the time
    published,      \* the keys the auth provider publishes
    since,          \* history: since when each of them has been published
    rotations,      \* the rotations so far
    keys,           \* Verifier.keys
    lastRefresh,    \* Verifier.lastRefresh
    verify          \* where each verification is

keyVars == <<hour, published, since, rotations, keys, lastRefresh, verify>>

VerifyPCs == {"idle", "fetch", "install", "again", "accepted", "refused", "failed"}

\* began is when the fetch began, set what it brought.
Verification == [pc : VerifyPCs, kid : Kids \cup {Never}, began : 0..MaxHour, set : SUBSET Kids]

NoVerification == [pc |-> "idle", kid |-> Never, began |-> 0, set |-> {}]

\* Every variable has its type.
KeyTypeOK ==
    /\ hour \in 0..MaxHour
    /\ published \in SUBSET Kids /\ published # {}
    /\ since \in [Kids -> 0..MaxHour]
    /\ rotations \in 0..MaxRotations
    /\ keys \in SUBSET Kids
    /\ lastRefresh \in 0..MaxHour \cup {Never}
    /\ verify \in [Verifiers -> Verification]

-----------------------------------------------------------------------------
Enter(v, pc) == verify' = [verify EXCEPT ![v].pc = pc]

\* The interval between refreshes, which the last successful one starts.
TooSoon == lastRefresh # Never /\ hour < lastRefresh + MinRefresh

\* Verify and keyForKID up to the fetch: a known key is accepted; for an unknown one the
\* keys are fetched, or looked up again when it is too soon for that.
LookupKey(v) ==
    /\ verify[v].pc \in {"idle", "accepted", "refused", "failed"}
    /\ \E kid \in Kids :
         verify' = [verify EXCEPT ![v] =
                      [NoVerification EXCEPT !.kid = kid, !.began = hour,
                         !.pc = IF kid \in keys THEN "accepted"
                                ELSE IF TooSoon THEN "again" ELSE "fetch"]]
    /\ UNCHANGED <<hour, published, since, rotations, keys, lastRefresh>>

\* Mutant of FetchFails: a failed fetch counts as a refresh.
FetchFailsCounts(v) ==
    /\ verify[v].pc = "fetch"
    /\ Enter(v, "failed")
    /\ lastRefresh' = hour
    /\ UNCHANGED <<hour, published, since, rotations, keys>>

\* The response: the keys published at that moment.
FetchKeys(v) ==
    /\ verify[v].pc = "fetch"
    /\ verify' = [verify EXCEPT ![v].pc = "install", ![v].set = published]
    /\ UNCHANGED <<hour, published, since, rotations, keys, lastRefresh>>

\* No response, a status other than 200, no usable key.
FetchFails(v) ==
    /\ verify[v].pc = "fetch"
    /\ Enter(v, "failed")
    /\ UNCHANGED <<hour, published, since, rotations, keys, lastRefresh>>

\* The fetched keys replace the cached ones, in the order the fetches end.
InstallKeys(v) ==
    /\ verify[v].pc = "install"
    /\ keys' = verify[v].set
    /\ lastRefresh' = hour
    /\ Enter(v, "again")
    /\ UNCHANGED <<hour, published, since, rotations>>

\* The second look.
LookupAgain(v) ==
    /\ verify[v].pc = "again"
    /\ Enter(v, IF verify[v].kid \in keys THEN "accepted" ELSE "refused")
    /\ UNCHANGED <<hour, published, since, rotations, keys, lastRefresh>>

\* External: the auth provider publishes other keys.
Rotate ==
    /\ rotations < MaxRotations
    /\ rotations' = rotations + 1
    /\ \E new \in (SUBSET Kids) \ {{}, published} :
         /\ published' = new
         /\ since' = [k \in Kids |-> IF k \in new \ published THEN hour ELSE since[k]]
    /\ UNCHANGED <<hour, keys, lastRefresh, verify>>

\* Time passes; a verification takes at most MaxFetch.
HourPasses ==
    /\ hour < MaxHour
    /\ \A v \in Verifiers :
         verify[v].pc \in {"fetch", "install", "again"} => hour < verify[v].began + MaxFetch
    /\ hour' = hour + 1
    /\ verify' = [v \in Verifiers |->
                    IF verify[v].pc \in {"accepted", "refused", "failed"}
                    THEN NoVerification ELSE verify[v]]
    /\ UNCHANGED <<published, since, rotations, keys, lastRefresh>>

KeyInit ==
    /\ hour = 0 /\ rotations = 0
    /\ published \in (SUBSET Kids) \ {{}}
    /\ since = [k \in Kids |-> 0]
    /\ keys = {} /\ lastRefresh = Never
    /\ verify = [v \in Verifiers |-> NoVerification]

KeyNext ==
    \/ Rotate \/ HourPasses
    \/ \E v \in Verifiers : \/ LookupKey(v) \/ FetchKeys(v) \/ FetchFails(v)
                            \/ InstallKeys(v) \/ LookupAgain(v)

KeySpec == KeyInit /\ [][KeyNext]_keyVars

-----------------------------------------------------------------------------
\* Rotation is tolerated: a token signed with a published key is refused, other than for
\* a failed fetch of its own, only if the key was published less than MinRefresh and two
\* fetches ago: one whose older keys are installed late, and its own.
RotationTolerated ==
    \A v \in Verifiers :
        verify[v].pc = "refused" /\ verify[v].kid \in published
        => hour < since[verify[v].kid] + MinRefresh + 2 * MaxFetch
=============================================================================
