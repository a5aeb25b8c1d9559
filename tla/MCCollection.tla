---------------------------- MODULE MCCollection ----------------------------
(***************************************************************************)
(* Two instances of Collection for TLC in one: what competes for a key     *)
(* (two attempts at one location, a replay, damaged files, any answer),    *)
(* and what competes for the breaker (three attempts at locations of their *)
(* own, one answer for each thing that can happen to it).                  *)
(***************************************************************************)
EXTENDS Collection, TLC

CONSTANTS c1, c2, c3, k1, k2, l1, l2, l3, l4

VARIABLE about

LocationMap ==
    [c \in Collects |-> CASE c = c1 -> l1 [] c = c2 -> l2 [] c = c3 -> l3 [] OTHER -> l4]

Breaking == {c1, c2, c3}

AnswerMap ==
    [c \in Collects |->
       IF c \notin Breaking THEN FetchResults
       ELSE {r \in FetchResults : /\ r.outcome \in {"success", "timeout", "rate_limited"}
                                  /\ r.outcome = "success" => r.valid = Targets
                                  /\ r.body <=> r.outcome = "success"}]

MCInit == Init /\ about \in {"key", "breaker"}

MCNext ==
    /\ Next
    /\ \A c \in Calls : (c \in Breaking <=> about = "key") => call'[c] = NoCall
    /\ about = "breaker" => \A c \in Calls : payload'[c] # "corrupt"
    /\ UNCHANGED about

MCSpec == MCInit /\ [][MCNext]_<<vars, about>>

Symmetric == Permutations({k1, k2})
=============================================================================
