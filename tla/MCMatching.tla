---------------------------- MODULE MCMatching ----------------------------
(* Instances of Matching for TLC. *)
EXTENDS Matching, TLC

CONSTANTS o1, o2, o3, m1, m2

OneHour == {1}
SameWindow == [c \in Observers |-> {1}]
SameTarget == [s \in Snapshots |-> 1]
TwoHours == {1, 2}
OverlapWindows == [c \in Observers |-> IF c = o1 THEN {1, 2} ELSE {2}]
OwnTarget == [s \in Snapshots |-> s]
Processes == Permutations({o1, o2, o3}) \cup Permutations({m1, m2})
=============================================================================
