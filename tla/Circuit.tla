------------------------------ MODULE Circuit ------------------------------
(***************************************************************************)
(* The provider circuit breaker: internal/catalog/domain/circuit.go.  A    *)
(* circuit is one row of provider_circuits; these are the pure transitions *)
(* the circuit service applies to the copy of the row it has read.         *)
(* OpenedAt, LastFailureAt and UpdatedAt decide nothing and are left out.  *)
(***************************************************************************)
EXTENDS Naturals

CONSTANTS
    FailureThreshold,   \* consecutive failures that open the breaker
    ProbeDelay,         \* time from opening to the first probe
    NoTime              \* a nil NextProbeAt

ASSUME CircuitAssumption ==
    /\ FailureThreshold \in Nat \ {0} /\ ProbeDelay \in Nat
    /\ NoTime \notin Nat

Circuits == [state : {"closed", "half_open", "open"}, failures : Nat,
             nextProbeAt : Nat \cup {NoTime}]

NewProviderCircuit == [state |-> "closed", failures |-> 0, nextProbeAt |-> NoTime]

ProbeDue(c, now) == c.nextProbeAt # NoTime /\ now >= c.nextProbeAt

\* Evaluate, as the decision ...
Allowed(c, now) == c.state = "open" => ProbeDue(c, now)

\* ... and as the circuit it leaves behind.
Evaluated(c, now) ==
    IF c.state = "open" /\ ProbeDue(c, now)
    THEN [c EXCEPT !.state = "half_open"] ELSE c

ApplySuccess(c) == NewProviderCircuit

\* Mutant of ApplyFailure: opens one failure late.
ApplyFailureLate(c, now) ==
    LET n == c.failures + 1 IN
    IF n > FailureThreshold
    THEN [state |-> "open", failures |-> n, nextProbeAt |-> now + ProbeDelay]
    ELSE [c EXCEPT !.failures = n]

ApplyFailure(c, now) ==
    LET n == c.failures + 1 IN
    IF n >= FailureThreshold
    THEN [state |-> "open", failures |-> n, nextProbeAt |-> now + ProbeDelay]
    ELSE [c EXCEPT !.failures = n]
=============================================================================
