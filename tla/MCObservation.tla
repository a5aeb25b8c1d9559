--------------------------- MODULE MCObservation ---------------------------
(* Instances of Observation for TLC: three calls whose windows overlap. *)
EXTENDS Observation, TLC

CONSTANTS o1, o2, o3

TwoHours == {1, 2}
LaterFirst == o1 :> {2} @@ o2 :> {1, 2} @@ o3 :> {1, 2}
=============================================================================
