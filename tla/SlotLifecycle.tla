--------------------------- MODULE SlotLifecycle ---------------------------
(***************************************************************************)
(* What the slot store promises its clients (internal/scheduler/ports.go,  *)
(* SlotRepository, and the status machine of slot.go): a slot is generated *)
(* once, is executed under a claim, and is settled from a claim only.  A   *)
(* settled slot is never touched again and no recorded failure is lost.    *)
(***************************************************************************)
EXTENDS Naturals

CONSTANTS Slots, MaxAttempts

VARIABLES status, attempts

Init ==
    /\ status = [s \in Slots |-> "absent"]
    /\ attempts = [s \in Slots |-> 0]

\* Generate inserts the slots that do not exist yet.
Generate(S) ==
    /\ \A s \in S : status[s] = "absent"
    /\ status' = [s \in Slots |-> IF s \in S THEN "due" ELSE status[s]]
    /\ UNCHANGED attempts

\* ClaimDue takes slots that are due, or claimed under a lease that has expired.
Claim(S) ==
    /\ \A s \in S : status[s] \in {"due", "claimed"}
    /\ status' = [s \in Slots |-> IF s \in S THEN "claimed" ELSE status[s]]
    /\ UNCHANGED attempts

\* Complete settles a claimed slot.
Complete(s) ==
    /\ status[s] = "claimed"
    /\ status' = [status EXCEPT ![s] = "completed"]
    /\ UNCHANGED attempts

\* Fail counts one failure and gives the slot back until the ceiling is reached.
Fail(s) ==
    /\ status[s] = "claimed"
    /\ attempts' = [attempts EXCEPT ![s] = @ + 1]
    /\ status' = [status EXCEPT ![s] = IF attempts[s] + 1 < MaxAttempts
                                       THEN "due" ELSE "failed"]

Next ==
    \/ \E S \in SUBSET Slots : Generate(S) \/ Claim(S)
    \/ \E s \in Slots : Complete(s) \/ Fail(s)

Spec == Init /\ [][Next]_<<status, attempts>>
=============================================================================
