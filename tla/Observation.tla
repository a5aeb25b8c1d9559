---------------------------- MODULE Observation ----------------------------
(***************************************************************************)
(* Observation ingestion: ObserveService.Observe (internal/collection)     *)
(* over the observations table, for one source and one location.           *)
(*                                                                         *)
(* Each member of Observers is one call of Observe: a scheduled slot, its  *)
(* retry, or the slot of another hour, whose windows overlap; calls run    *)
(* concurrently.  The transaction is READ COMMITTED: it reads the live     *)
(* rows (TxRead), supersedes the rows it corrects one by one, inserts its  *)
(* own one by one, and commits.  Row locks and entries of the partial      *)
(* unique index are held until then and are waited for.                    *)
(*                                                                         *)
(* A row's id is <<call, hour>>.  A reading stands for the six measured    *)
(* values of a row.  Metrics and events are left out: nothing here reads   *)
(* them.                                                                   *)
(***************************************************************************)
EXTENDS Integers, FiniteSets

CONSTANTS
    Observers,      \* the calls
    Hours,          \* observed hours, as integers
    WindowOf,       \* the hours a call asks for
    Readings,       \* bound: present readings of the source
    Null,           \* an absent reading
    Epsilon,        \* differences up to it are noise
    MinValid, MaxValid,   \* the physical range
    NoRow           \* no row

ASSUME ObservationAssumption ==
    /\ IsFiniteSet(Observers)
    /\ Hours \subseteq Int /\ Readings \subseteq Int
    /\ Null \notin Int
    /\ WindowOf \in [Observers -> SUBSET Hours]
    /\ Epsilon \in Nat /\ {MinValid, MaxValid} \subseteq Int
    /\ NoRow \notin Observers \X Hours

VARIABLES
    obs,    \* observations: the committed row of each id
    call    \* where each call is, and its local variables

obsVars == <<obs, call>>

Ids    == Observers \X Hours
Values == Readings \cup {Null}

\* flag "absent": no such row.  next is superseded_observation_id.
Row == [flag : {"absent", "valid", "suspect", "corrected"}, value : Values,
        next : Ids \cup {NoRow}]

Absent == [flag |-> "absent", value |-> Null, next |-> NoRow]

Phases == {"idle", "fetched", "superseding", "inserting", "done"}

\* read maps the hours of the response to readings.  fix maps the hours to be
\* corrected to the live row found there; add is what is still to be inserted.
\* held and put are the hours superseded and inserted so far.
Call == [pc : Phases, hours : SUBSET Hours, read : [Hours -> Values],
         fix : [Hours -> Ids \cup {NoRow}], add : SUBSET Hours,
         held : SUBSET Hours, put : SUBSET Hours]

NoCall == [pc |-> "idle", hours |-> {}, read |-> [h \in Hours |-> Null],
           fix |-> [h \in Hours |-> NoRow], add |-> {}, held |-> {}, put |-> {}]

Stored(i) == obs[i].flag # "absent"
Live(i)   == Stored(i) /\ obs[i].next = NoRow

LiveAt(h) == {i \in Ids : i[2] = h /\ Live(i)}

\* Every variable has its type.
ObsTypeOK ==
    /\ obs \in [Ids -> Row]
    /\ call \in [Observers -> Call]

ObsInit ==
    /\ obs = [i \in Ids |-> Absent]
    /\ call = [c \in Observers |-> NoCall]

-----------------------------------------------------------------------------
(* Observe *)

Abs(x) == IF x < 0 THEN -x ELSE x

\* floatDiffers: a presence mismatch, or more than the noise.
Differs(a, b) ==
    IF a = Null \/ b = Null THEN a # b ELSE Abs(a - b) > Epsilon

\* RangeReasons, on the values that are present.
OutOfRange(v) == v # Null /\ (v < MinValid \/ v > MaxValid)

\* decompose: the flag a row comes with.
SourceFlag(v) == IF OutOfRange(v) THEN "suspect" ELSE "valid"

\* The call returns, or its error does, and the slot's retry is another call.
Ends(c) == call' = [call EXCEPT ![c] = [NoCall EXCEPT !.pc = "done"]]

\* FetchObservations answers with rows for some hours of the window.  (Any
\* other outcome is an error and changes nothing.)
FetchObservations(c, H, read) ==
    /\ call[c].pc = "idle"
    /\ H # {} /\ H \subseteq WindowOf[c]
    /\ call' = [call EXCEPT ![c].pc = "fetched", ![c].hours = H,
                  ![c].read = [h \in Hours |-> IF h \in H THEN read[h] ELSE Null]]
    /\ UNCHANGED obs

\* ListCurrentByWindow, and the partition of the response into new hours,
\* corrections and duplicates.
TxRead(c) ==
    LET prev(h) == IF LiveAt(h) = {} THEN NoRow ELSE CHOOSE i \in LiveAt(h) : TRUE
        new == {h \in call[c].hours : prev(h) = NoRow}
        fixed == {h \in call[c].hours \ new :
                    Differs(call[c].read[h], obs[prev(h)].value)}
    IN
    /\ call[c].pc = "fetched"
    /\ call' = [call EXCEPT
                  ![c].pc = "superseding",
                  ![c].fix = [h \in Hours |-> IF h \in fixed THEN prev(h) ELSE NoRow],
                  ![c].add = new \cup fixed]
    /\ UNCHANGED obs

\* The rows a call corrects, and what is left of them.
Fixes(c) == {h \in Hours : call[c].fix[h] # NoRow}
ToSupersede(c) == Fixes(c) \ call[c].held

\* Both loops go through the response in its order, which is that of time.
Earliest(H, h) == h \in H /\ \A g \in H : h <= g

\* Another transaction has changed or inserted a row of that hour.
LockedBy(c, h) == {d \in Observers \ {c} : h \in call[d].held \cup call[d].put}

\* Mutants of Supersede: without "superseded_observation_id IS NULL"; trying
\* again where the code returns an error.
SupersedeBlind(c, h) ==
    /\ call[c].pc = "superseding"
    /\ Earliest(ToSupersede(c), h)
    /\ LockedBy(c, h) = {}
    /\ call' = [call EXCEPT ![c].held = @ \cup {h}]
    /\ UNCHANGED obs

SupersedeRetrying(c, h) ==
    /\ call[c].pc = "superseding"
    /\ Earliest(ToSupersede(c), h)
    /\ LockedBy(c, h) = {}
    /\ Live(call[c].fix[h])
    /\ call' = [call EXCEPT ![c].held = @ \cup {h}]
    /\ UNCHANGED obs

\* Supersede: it waits for a lock, then looks at the row again; if someone has
\* superseded it meanwhile no row is updated, and that is an error.
Supersede(c, h) ==
    /\ call[c].pc = "superseding"
    /\ Earliest(ToSupersede(c), h)
    /\ LockedBy(c, h) = {}
    /\ IF Live(call[c].fix[h])
       THEN call' = [call EXCEPT ![c].held = @ \cup {h}]
       ELSE Ends(c)
    /\ UNCHANGED obs

\* The corrections are done and InsertBatch begins.
BeginInsert(c) ==
    /\ call[c].pc = "superseding" /\ ToSupersede(c) = {}
    /\ call' = [call EXCEPT ![c].pc = "inserting"]
    /\ UNCHANGED obs

\* InsertBatch, one row: it waits for a transaction that has an entry of that
\* hour in hand.  ON CONFLICT DO NOTHING: an hour that has a live row by now,
\* other than the one this transaction superseded, is skipped.
Insert(c, h) ==
    /\ call[c].pc = "inserting"
    /\ Earliest(call[c].add, h)
    /\ LockedBy(c, h) = {}
    /\ call' = [call EXCEPT
                  ![c].add = @ \ {h},
                  ![c].put = IF LiveAt(h) \subseteq {call[c].fix[h]}
                             THEN @ \cup {h} ELSE @]
    /\ UNCHANGED obs

\* A correction is flagged corrected whatever the adapter flagged it.
FlagOf(c, h) ==
    IF call[c].fix[h] # NoRow THEN "corrected"
    ELSE SourceFlag(call[c].read[h])

Commit(c) ==
    /\ call[c].pc = "inserting" /\ call[c].add = {}
    /\ obs' = [i \in Ids |->
                 IF i[1] = c /\ i[2] \in call[c].put
                 THEN [flag |-> FlagOf(c, i[2]), value |-> call[c].read[i[2]],
                       next |-> NoRow]
                 ELSE IF i[2] \in call[c].held /\ i = call[c].fix[i[2]]
                 THEN [obs[i] EXCEPT !.next = <<c, i[2]>>]
                 ELSE obs[i]]
    /\ Ends(c)

\* A statement fails, the context expires or the process dies: rolled back.
Abort(c) ==
    /\ call[c].pc \notin {"idle", "done"}
    /\ Ends(c)
    /\ UNCHANGED obs

-----------------------------------------------------------------------------
(* Waiting *)

\* The calls a call is waiting for.
WaitsFor(c) ==
    UNION {LockedBy(c, h) : h \in {g \in Hours :
             \/ call[c].pc = "superseding" /\ Earliest(ToSupersede(c), g)
             \/ call[c].pc = "inserting" /\ Earliest(call[c].add, g)}}

\* A set of calls each of which waits for another one of them.
Deadlocked(D) == D # {} /\ \A c \in D : WaitsFor(c) \cap D # {}

\* PostgreSQL aborts a transaction of a cycle.
DeadlockVictim(c) ==
    /\ \E D \in SUBSET Observers : c \in D /\ Deadlocked(D)
    /\ Abort(c)

ObserveStep(c) ==
    \/ TxRead(c)
    \/ \E h \in Hours : Supersede(c, h)
    \/ BeginInsert(c)
    \/ \E h \in Hours : Insert(c, h)
    \/ Commit(c)

ObsNext ==
    \E c \in Observers :
      \/ \E H \in SUBSET Hours, read \in [Hours -> Values] :
           FetchObservations(c, H, read)
      \/ ObserveStep(c)
      \/ Abort(c)

ObsSpec == ObsInit /\ [][ObsNext]_obsVars

\* Statements return, and the database finds deadlocks.
ObsFairness ==
    \A c \in Observers : /\ WF_obsVars(ObserveStep(c))
                         /\ WF_obsVars(DeadlockVictim(c))

ObsFairSpec == ObsSpec /\ ObsFairness

-----------------------------------------------------------------------------
(* Properties *)

\* The migration's promise: however calls overlap, fail and correct each other,
\* an hour that was ever observed has exactly one live row.
OneLiveRow ==
    \A h \in Hours :
      (\E i \in Ids : i[2] = h /\ Stored(i)) => Cardinality(LiveAt(h)) = 1

\* Supersede names its successor before the successor is inserted, with a
\* DO NOTHING in between: still no link dangles, each leads to a stored row of
\* the same hour, flagged corrected, that corrects that row alone.
LinksLand ==
    \A i \in Ids : obs[i].next # NoRow =>
      /\ Stored(obs[i].next) /\ obs[i].next[2] = i[2]
      /\ obs[obs[i].next].flag = "corrected"
      /\ \A j \in Ids : obs[j].next = obs[i].next => j = i

\* Waiting for rows and index entries ends: calls do not wait for ever on each
\* other.
ObserveEnds ==
    \A c \in Observers : call[c].pc \notin {"idle", "done"} ~> call[c].pc = "done"

\* domain/observation.go, RangeReasons: an out-of-range row "must be flagged
\* suspect (workflow §5) -- stored, not rejected, and excluded from metrics".
OutOfRangeIsSuspect ==
    \A i \in Ids : Stored(i) /\ OutOfRange(obs[i].value) => obs[i].flag = "suspect"

\* The corrections of an hour form chains that end in its one live row.
ChainsAreSound == OneLiveRow /\ LinksLand
=============================================================================
