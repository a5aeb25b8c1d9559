----------------------------- MODULE Matching -----------------------------
(***************************************************************************)
(* Matching forecasts with observations: MatchService.MatchBatch           *)
(* (internal/analysis) over forecast_snapshots and matched_evaluations,    *)
(* running against Observation, which inserts and corrects the             *)
(* observations meanwhile.                                                 *)
(*                                                                         *)
(* Matchers are the processes that run batches: the scheduler's analysis   *)
(* job and the admin's Recompute, each batch after batch.  A batch scans   *)
(* the unmatched snapshots in chunks, looks up the candidate of each       *)
(* snapshot, inserts the chunk's pairs in one transaction, and at the end  *)
(* re-pairs what was matched with a row that has been superseded.          *)
(* Everything but the inserts is read from the pool.                       *)
(*                                                                         *)
(* The program wires one source (cmd/forecastiq/app.go), so an hour has at most one live candidate and      *)
(* SelectCandidate has no choice to make.                                  *)
(***************************************************************************)
EXTENDS Observation

CONSTANTS
    Snapshots,      \* forecast_snapshots, as integers: the order of their ids
    TargetOf,       \* the hour each one predicts
    Matchers,
    Scheduled,      \* the matchers whose batches the scheduler starts
    ChunkSize,      \* snapshots per chunk
    RematchLimit    \* pairs re-paired per batch

ASSUME MatchingAssumption ==
    /\ Snapshots \subseteq Nat \ {0} /\ IsFiniteSet(Snapshots)
    /\ TargetOf \in [Snapshots -> Hours]
    /\ Scheduled \subseteq Matchers
    /\ ChunkSize \in Nat \ {0} /\ RematchLimit \in Nat \ {0}

VARIABLES
    window,     \* where a snapshot is: not yet, inside or past the window
    pairs,      \* matched_evaluations: <<snapshot, observation id>>
    matcher     \* where each matcher is, and its local variables

matchVars == <<window, pairs, matcher>>
vars == <<obs, call, window, pairs, matcher>>

\* range are the snapshots between the batch's from and to; after is the scan's
\* cursor; chunk are the snapshots to look up, full whether
\* another chunk follows; found are the pairs about to be inserted.
Matcher == [pc : {"idle", "failed", "scanning", "looking", "inserting", "relisting", "rematching"},
            range : SUBSET Snapshots, after : Snapshots \cup {0}, chunk : SUBSET Snapshots,
            full : BOOLEAN, found : SUBSET (Snapshots \X Ids)]

NoMatcher == [pc |-> "idle", range |-> {}, after |-> 0, chunk |-> {}, full |-> FALSE,
              found |-> {}]

\* Every variable has its type.
MatchTypeOK ==
    /\ ObsTypeOK
    /\ window \in [Snapshots -> {"before", "inside", "past"}]
    /\ pairs \subseteq Snapshots \X Ids
    /\ matcher \in [Matchers -> Matcher]

Init ==
    /\ ObsInit
    /\ window = [s \in Snapshots |-> "before"]
    /\ pairs = {}
    /\ matcher = [m \in Matchers |-> NoMatcher]

-----------------------------------------------------------------------------
(* MatchBatch *)

\* Time passes: a snapshot's target_time enters [now - 30 d, now - 2 h) ...
Enters(s) ==
    /\ window[s] = "before"
    /\ window' = [window EXCEPT ![s] = "inside"]
    /\ UNCHANGED <<obs, call, pairs, matcher>>

\* ... and leaves it.
Leaves(s) ==
    /\ window[s] = "inside"
    /\ window' = [window EXCEPT ![s] = "past"]
    /\ UNCHANGED <<obs, call, pairs, matcher>>

Paired(s) == {i \in Ids : <<s, i>> \in pairs}

\* now is read once: the window of a batch does not move while it runs.
BeginBatch(m) ==
    /\ matcher[m].pc \in {"idle", "failed"}
    /\ matcher' = [matcher EXCEPT ![m].pc = "scanning",
                                  ![m].range = {s \in Snapshots : window[s] = "inside"}]
    /\ UNCHANGED <<obs, call, window, pairs>>

\* S are the first n members of T, in ascending order.
IsFirst(S, T, n) ==
    /\ S \subseteq T
    /\ Cardinality(S) <= n
    /\ S # T => Cardinality(S) = n
    /\ \A s \in S, t \in T \ S : s <= t

\* A batch that returns when there is nothing to match, before rematch.
ListUnmatchedReturning(m, S) ==
    /\ matcher[m].pc = "scanning"
    /\ IsFirst(S, {s \in matcher[m].range : s > matcher[m].after /\ Paired(s) = {}},
               ChunkSize)
    /\ matcher' = [matcher EXCEPT ![m] =
                     IF S = {} THEN NoMatcher
                     ELSE [@ EXCEPT !.pc = "looking", !.chunk = S,
                                    !.full = Cardinality(S) = ChunkSize,
                                    !.after = CHOOSE s \in S : \A t \in S : t <= s]]
    /\ UNCHANGED <<obs, call, window, pairs>>

\* ListUnmatchedSnapshots: the next chunk of the window's snapshots that have
\* no pair at all.
ListUnmatched(m, S) ==
    /\ matcher[m].pc = "scanning"
    /\ IsFirst(S, {s \in matcher[m].range : s > matcher[m].after /\ Paired(s) = {}},
               ChunkSize)
    /\ matcher' = [matcher EXCEPT ![m] =
                     [@ EXCEPT !.pc = IF S = {} THEN "relisting" ELSE "looking",
                               !.chunk = S, !.found = {},
                               !.full = Cardinality(S) = ChunkSize,
                               !.range = IF S = {} THEN {} ELSE matcher[m].range,
                               !.after = IF S = {} THEN 0
                                         ELSE CHOOSE s \in S : \A t \in S : t <= s]]
    /\ UNCHANGED <<obs, call, window, pairs>>

\* FindCandidates and SelectCandidate, for the next snapshot of the chunk: the
\* live row of its hour, unless that is suspect.
FindCandidate(m, s) ==
    LET candidates == {i \in LiveAt(TargetOf[s]) : obs[i].flag # "suspect"} IN
    /\ matcher[m].pc = "looking"
    /\ s \in matcher[m].chunk /\ \A t \in matcher[m].chunk : s <= t
    /\ matcher' = [matcher EXCEPT
                     ![m].chunk = @ \ {s},
                     ![m].pc = IF matcher[m].chunk = {s} THEN "inserting" ELSE @,
                     ![m].found = @ \cup ({s} \X candidates)]
    /\ UNCHANGED <<obs, call, window, pairs>>

\* A scan that takes a full chunk for the last one.
InsertMatchesFirstChunk(m) ==
    /\ matcher[m].pc = "inserting"
    /\ pairs' = pairs \cup matcher[m].found
    /\ matcher' = [matcher EXCEPT ![m] = [NoMatcher EXCEPT !.pc = "relisting"]]
    /\ UNCHANGED <<obs, call, window>>

\* The chunk's pairs are inserted, ON CONFLICT DO NOTHING, and the scan goes on
\* behind the chunk if it was a full one.
InsertMatches(m) ==
    /\ matcher[m].pc = "inserting"
    /\ pairs' = pairs \cup matcher[m].found
    /\ matcher' = [matcher EXCEPT
                     ![m].pc = IF matcher[m].full THEN "scanning" ELSE "relisting",
                     ![m].after = IF matcher[m].full THEN @ ELSE 0,
                     ![m].range = IF matcher[m].full THEN @ ELSE {},
                     ![m].found = {}, ![m].full = FALSE]
    /\ UNCHANGED <<obs, call, window>>

\* Mutant of RematchTargets: without the test that the row is superseded.
RematchTargetsUnlinked == {<<p[1], obs[p[2]].next>> : p \in pairs} \ pairs

\* Mutant of RematchTargets: leaves out corrections, as a candidate must be valid.
RematchTargetsValid ==
    {<<p[1], obs[p[2]].next>> : p \in {q \in pairs : /\ obs[q[2]].next \in Ids
                                                     /\ obs[obs[q[2]].next].flag = "valid"}}
      \ pairs

\* Pairs with a superseded row, and the row that corrects it, unless the
\* snapshot is paired with that one already.
RematchTargets ==
    {<<p[1], obs[p[2]].next>> : p \in {q \in pairs : /\ obs[q[2]].next \in Ids
                                                     /\ Stored(obs[q[2]].next)}} \ pairs

\* ListRematchTargets: up to RematchLimit of them, by snapshot.
ListRematchTargets(m, T) ==
    /\ matcher[m].pc = "relisting"
    /\ T \subseteq RematchTargets
    /\ Cardinality(T) <= RematchLimit
    /\ T # RematchTargets => Cardinality(T) = RematchLimit
    /\ \A t \in T, u \in RematchTargets \ T : t[1] <= u[1]
    /\ matcher' = [matcher EXCEPT ![m] =
                     IF T = {} THEN NoMatcher
                     ELSE [NoMatcher EXCEPT !.pc = "rematching", !.found = T]]
    /\ UNCHANGED <<obs, call, window, pairs>>

\* rematch inserts the new pairs; the old ones stay.
Rematch(m) ==
    /\ matcher[m].pc = "rematching"
    /\ pairs' = pairs \cup matcher[m].found
    /\ matcher' = [matcher EXCEPT ![m] = NoMatcher]
    /\ UNCHANGED <<obs, call, window>>

\* A statement fails, the context expires or the process dies; the chunks that
\* were committed stay.  A step of its own kind: no other ends in "failed".
AbortBatch(m) ==
    /\ matcher[m].pc \notin {"idle", "failed"}
    /\ matcher' = [matcher EXCEPT ![m] = [NoMatcher EXCEPT !.pc = "failed"]]
    /\ UNCHANGED <<obs, call, window, pairs>>

\* ReadPairs without its test for superseded rows.
EvidenceAny(s) == {i \in Paired(s) : obs[i].flag # "suspect"}

\* The pairs the metrics are computed from (ReadPairs): those with a live row
\* that is not suspect.
Evidence(s) == {i \in Paired(s) : Live(i) /\ obs[i].flag # "suspect"}

MatchStep(m) ==
    \/ BeginBatch(m)
    \/ \E S \in SUBSET Snapshots : ListUnmatched(m, S)
    \/ \E s \in Snapshots : FindCandidate(m, s)
    \/ InsertMatches(m)
    \/ \E T \in SUBSET RematchTargets : ListRematchTargets(m, T)
    \/ Rematch(m)

Next ==
    \/ ObsNext /\ UNCHANGED matchVars
    \/ \E s \in Snapshots : Enters(s) \/ Leaves(s)
    \/ \E m \in Matchers : MatchStep(m) \/ AbortBatch(m)

Spec == Init /\ [][Next]_vars

\* The scheduler runs batch after batch, each goes on, and failures end some
\* day; nobody has to call Recompute.
FairSpec ==
    /\ Spec
    /\ \A m \in Scheduled : WF_vars(MatchStep(m))
    /\ <>[][\A m \in Scheduled : ~AbortBatch(m)]_vars

-----------------------------------------------------------------------------
(* Properties *)

\* Candidates are looked up outside the transaction that inserts the pair, so
\* a pair may be stale when it is inserted, and batches overlap: still no
\* forecast is evaluated twice.
EvaluatedOnce ==
    \A s \in Snapshots : Cardinality(Evidence(s)) <= 1

\* A pair that turns stale is not stranded: until the snapshot is paired with
\* the live row of its hour, rematch has something to do for it.
NeverStranded ==
    \A s \in Snapshots :
      Paired(s) # {} => Evidence(s) # {} \/ \E t \in RematchTargets : t[1] = s

\* Once matched, a snapshot is evaluated against the latest correction,
\* although a batch follows one link of the chain and has a limit.
CorrectionsReachPairs ==
    \A s \in Snapshots : Paired(s) # {} ~> Evidence(s) # {}

\* A snapshot whose hour has a usable observation is matched, unless it leaves
\* the window first.
UsableIsMatched ==
    \A s \in Snapshots :
      (window[s] = "inside" /\ \E i \in LiveAt(TargetOf[s]) : obs[i].flag # "suspect")
        ~> (Paired(s) # {} \/ window[s] = "past")
=============================================================================
