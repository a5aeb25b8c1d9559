---------------------------- MODULE MCScheduler ----------------------------
(* Instances of SchedulerLease for TLC. *)
EXTENDS SchedulerLease, TLC

CONSTANTS s1, s2, i1, i2, w1, w2

TwoSlots == {s1, s2}
SlotOrder == s1 :> 1 @@ s2 :> 2
OneSlotOrder == s1 :> 1
Processes == Permutations({i1, i2})
=============================================================================
