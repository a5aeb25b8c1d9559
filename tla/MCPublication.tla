--------------------------- MODULE MCPublication ---------------------------
(* Publication for TLC: a cohort of two and three batches. *)
EXTENDS Publication, TLC

CONSTANTS b1, b2, b3

Runs == Permutations({b1, b2, b3})
EvidenceBound == [o \in BOOLEAN |-> 1]
=============================================================================
