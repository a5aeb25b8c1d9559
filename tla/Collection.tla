----------------------------- MODULE Collection -----------------------------
(***************************************************************************)
(* Forecast collection: CollectService.Collect and Replay                  *)
(* (internal/collection) over forecast_collections, forecast_snapshots and *)
(* provider_circuits, for one provider.                                    *)
(*                                                                         *)
(* Each member of Collects is one call of Collect (a scheduled slot or a   *)
(* manual trigger, in any process), each member of Replays one call of     *)
(* Replay; the call's name is the id of the row it writes.  Calls run      *)
(* concurrently.  A statement outside a transaction sees and changes       *)
(* committed rows.  Collect's transaction is READ COMMITTED: it claims its *)
(* unique-index entries (TxStore), reads the circuit (RecordCircuit), and  *)
(* writes the circuit as it commits (Commit).  Until then its rows are     *)
(* invisible, and whoever wants an equal index entry waits.                *)
(*                                                                         *)
(* Counters, events, log lines and audit records are left out: nothing     *)
(* here reads them.                                                        *)
(***************************************************************************)
EXTENDS Circuit, Integers, FiniteSets

CONSTANTS
    Collects, Replays,  \* the calls
    Locations,
    LocationOf,         \* the location each Collect is for
    Targets,            \* hours a provider's response may predict
    Nobody,             \* no call
    Hour,               \* time units in an hour
    MaxClock,           \* bound: the last instant
    MaxInvalid,         \* bound: rejected rows in one response
    Answers,            \* bound: the provider's answers to the fetch of each Collect
    MaxCorrupt          \* bound: payload files damaged in one behaviour

Calls == Collects \cup Replays

ASSUME CollectionAssumption ==
    /\ IsFiniteSet(Targets) /\ Locations # {}
    /\ Collects \cap Replays = {} /\ Nobody \notin Calls
    /\ LocationOf \in [Collects -> Locations]
    /\ Hour \in Nat \ {0}
    /\ {MaxClock, MaxInvalid, MaxCorrupt} \subseteq Nat

VARIABLES
    clock,
    circuit,    \* the provider's row of provider_circuits
    coll,       \* forecast_collections: the committed row of each call
    snap,       \* forecast_snapshots: (location, issued, target) -> owner
    payload,    \* the payload file written under a call's object key
    call        \* where each call is, and its local variables

vars == <<clock, circuit, coll, snap, payload, call>>

Usable   == {"success", "partial"}
Outcomes == Usable \cup {"failed", "timeout", "rate_limited", "auth_failed"}
Statuses == Outcomes \cup {"absent", "deduplicated"}

\* A provider's answer: valid rows, rejected rows, and whether it has a body.
Result == [outcome : Outcomes, valid : SUBSET Targets,
           invalid : 0..MaxInvalid, body : BOOLEAN]

NoResult == [outcome |-> "failed", valid |-> {}, invalid |-> 0, body |-> FALSE]

\* decompose: more than half invalid, or nothing, is schema drift.
Decomposed(valid, invalid) ==
    [outcome |-> IF valid = {} \/ invalid > Cardinality(valid) THEN "failed"
                 ELSE IF invalid > 0 THEN "partial" ELSE "success",
     valid |-> valid, invalid |-> invalid, body |-> TRUE]

DecodeResults == {Decomposed(v, n) : v \in SUBSET Targets, n \in 0..MaxInvalid}

\* FetchForecast: a decoded body, or a classified failure with or without one.
Failure(o, b) == [NoResult EXCEPT !.outcome = o, !.body = b]

FetchResults ==
    DecodeResults \cup {Failure(o, b) : o \in Outcomes \ Usable, b \in BOOLEAN}

ASSUME AnswersAssumption == Answers \in [Collects -> SUBSET FetchResults]

\* classify: the status a result is recorded with.
Classify(res) == IF res.outcome = "auth_failed" THEN "failed" ELSE res.outcome

\* issuedAt: the hour before the one that contains now (hours count from 1).
IssuedAt(now) == (now \div Hour)

Issues == 0..(MaxClock \div Hour)

\* key is the call under whose object key the payload was written.
Coll == [status : Statuses, loc : Locations, issued : Issues, received : Nat,
         stored : Nat, dedup : Nat, invalid : Nat, key : Calls \cup {Nobody}]

NoColl == [status |-> "absent", loc |-> CHOOSE l \in Locations : TRUE,
           issued |-> 0, received |-> 0, stored |-> 0, dedup |-> 0,
           invalid |-> 0, key |-> Nobody]

Phases == {"idle", "begun", "probing", "fetching", "fetched", "writing",
           "storing", "recording", "committing", "deduplicating",
           "decoded", "done"}

\* read is the copy of the circuit about to be written;
\* store the snapshot targets its open transaction has inserted.
Call == [pc : Phases, now : 0..MaxClock, res : Result,
         saved : BOOLEAN, at : 0..MaxClock, read : Circuits,
         store : SUBSET Targets, orig : Calls \cup {Nobody}]

NoCall == [pc |-> "idle", now |-> 0, res |-> NoResult,
           saved |-> FALSE, at |-> 0, read |-> NewProviderCircuit,
           store |-> {}, orig |-> Nobody]

SnapKeys == Locations \X Issues \X Targets

\* Every variable has its type.
TypeOK ==
    /\ clock \in 0..MaxClock
    /\ circuit \in Circuits
    /\ coll \in [Calls -> Coll]
    /\ snap \in [SnapKeys -> Calls \cup {Nobody}]
    /\ payload \in [Calls -> {"none", "intact", "corrupt", "quarantined"}]
    /\ call \in [Calls -> Call]

Init ==
    /\ clock = 0
    /\ circuit = NewProviderCircuit
    /\ coll = [c \in Calls |-> NoColl]
    /\ snap = [k \in SnapKeys |-> Nobody]
    /\ payload = [c \in Calls |-> "none"]
    /\ call = [c \in Calls |-> NoCall]

-----------------------------------------------------------------------------
(* Collect *)

To(c, pc) == call' = [call EXCEPT ![c].pc = pc]

\* The call returns; its locals are gone.
Returns(c) == call' = [call EXCEPT ![c] = [NoCall EXCEPT !.pc = "done"]]

\* Collect reads the clock.  (An inactive provider, location or configuration
\* makes it return at once, with nothing changed.)
Begin(c) ==
    /\ call[c].pc = "idle"
    /\ call' = [call EXCEPT ![c].pc = "begun", ![c].now = clock]
    /\ UNCHANGED <<clock, circuit, coll, snap, payload>>

\* CircuitService.Evaluate reads the row and decides.  If the breaker moves to
\* half_open the row is written back by ProbeUpsert.
EvaluateCircuit(c) ==
    LET now == call[c].now IN
    /\ call[c].pc = "begun"
    /\ IF ~Allowed(circuit, now)
       THEN Returns(c)
       ELSE call' = [call EXCEPT
                       ![c].pc = IF Evaluated(circuit, now) # circuit
                                 THEN "probing" ELSE "fetching",
                       ![c].read = Evaluated(circuit, now)]
    /\ UNCHANGED <<clock, circuit, coll, snap, payload>>

\* The transaction of Evaluate writes its copy over whatever the row is now.
ProbeUpsert(c) ==
    /\ call[c].pc = "probing"
    /\ circuit' = call[c].read
    /\ To(c, "fetching")
    /\ UNCHANGED <<clock, coll, snap, payload>>

Fetch(c, res) ==
    /\ call[c].pc = "fetching"
    /\ call' = [call EXCEPT ![c].pc = "fetched", ![c].res = res,
                            ![c].read = NewProviderCircuit]
    /\ UNCHANGED <<clock, circuit, coll, snap, payload>>

\* The index entries a Collect competes for: forecast_collections_dedup.
SameKey(c, loc, issued) ==
    c \in Collects /\ LocationOf[c] = loc /\ IssuedAt(call[c].now) = issued

UsableExists(loc, issued) ==
    \E d \in Calls : coll[d].status \in Usable /\ coll[d].loc = loc
                                               /\ coll[d].issued = issued

\* FindDedup, outside any transaction, for a usable answer.
Lookup(c) ==
    /\ call[c].pc = "fetched"
    /\ To(c, IF /\ call[c].res.outcome \in Usable
                /\ UsableExists(LocationOf[c], IssuedAt(call[c].now))
             THEN "deduplicating" ELSE "writing")
    /\ UNCHANGED <<clock, circuit, coll, snap, payload>>

\* The payload is written before the transaction; a failed write is tolerated.
\* completedAt is read after it.
WritePayload(c, ok) ==
    LET saved == call[c].res.body /\ ok IN
    /\ call[c].pc = "writing"
    /\ payload' = [payload EXCEPT ![c] = IF saved THEN "intact" ELSE @]
    /\ call' = [call EXCEPT ![c].pc = "storing", ![c].saved = saved,
                            ![c].at = clock]
    /\ UNCHANGED <<clock, circuit, coll, snap>>

\* Open transactions that hold the index entries of a location and issuance.
Holders(loc, issued) ==
    {d \in Collects : /\ call[d].pc \in {"recording", "committing"}
                      /\ call[d].res.outcome \in Usable
                      /\ SameKey(d, loc, issued)}

\* Mutants of Fresh: conflicting rows are written and counted; the conflict
\* target leaves out issued_at.
FreshAll(loc, issued, valid) == valid

FreshAnyIssue(loc, issued, valid) ==
    {t \in valid : \A i \in Issues : snap[<<loc, i, t>>] = Nobody}

\* Targets not stored yet: ON CONFLICT DO NOTHING skips the others.
Fresh(loc, issued, valid) ==
    {t \in valid : snap[<<loc, issued, t>>] = Nobody}

\* Mutant of TxStore: no unique index; the lookup is trusted.
TxStoreTrusting(c) ==
    LET res == call[c].res
        loc == LocationOf[c]
        issued == IssuedAt(call[c].now)
    IN
    /\ call[c].pc = "storing"
    /\ \/ /\ res.outcome \in Usable
          /\ Holders(loc, issued) = {}
          /\ call' = [call EXCEPT ![c].pc = "recording",
                                  ![c].store = Fresh(loc, issued, res.valid)]
       \/ res.outcome \in {"failed", "timeout"} /\ To(c, "recording")
       \/ res.outcome \in {"rate_limited", "auth_failed"} /\ To(c, "committing")
    /\ UNCHANGED <<clock, circuit, coll, snap, payload>>

\* The transaction inserts the pending row and the snapshots and completes the
\* row.  It waits for a transaction that holds an equal entry; if a usable row
\* with its key is committed, Complete fails, all is rolled back, and the call
\* goes on to storeDeduplicated.
TxStore(c) ==
    LET res == call[c].res
        loc == LocationOf[c]
        issued == IssuedAt(call[c].now)
    IN
    /\ call[c].pc = "storing"
    /\ \/ /\ res.outcome \in Usable
          /\ Holders(loc, issued) = {}
          /\ IF UsableExists(loc, issued)
             THEN To(c, "deduplicating")
             ELSE call' = [call EXCEPT ![c].pc = "recording",
                                       ![c].store = Fresh(loc, issued, res.valid)]
       \/ res.outcome \in {"failed", "timeout"} /\ To(c, "recording")
       \/ res.outcome \in {"rate_limited", "auth_failed"} /\ To(c, "committing")
    /\ UNCHANGED <<clock, circuit, coll, snap, payload>>

\* RecordSuccess or RecordFailure reads the circuit, without a lock.
RecordCircuit(c) ==
    /\ call[c].pc = "recording"
    /\ call' = [call EXCEPT
                  ![c].pc = "committing",
                  ![c].read = IF call[c].res.outcome \in Usable
                              THEN ApplySuccess(circuit)
                              ELSE ApplyFailure(circuit, call[c].at)]
    /\ UNCHANGED <<clock, circuit, coll, snap, payload>>

\* Mutant of CollRow: the deduplicated count is subtracted the wrong way round.
CollRowSwapped(status, loc, issued, res, store, key) ==
    [status |-> status, loc |-> loc, issued |-> issued,
     received |-> Cardinality(res.valid) + res.invalid,
     stored |-> Cardinality(store),
     dedup |-> Cardinality(store) - Cardinality(res.valid),
     invalid |-> res.invalid, key |-> key]

\* A collection row: received = valid + invalid, of which store were inserted.
CollRow(status, loc, issued, res, store, key) ==
    [status |-> status, loc |-> loc, issued |-> issued,
     received |-> Cardinality(res.valid) + res.invalid,
     stored |-> Cardinality(store),
     dedup |-> Cardinality(res.valid) - Cardinality(store),
     invalid |-> res.invalid, key |-> key]

Owned(c, loc, issued, store) ==
    snap' = [k \in SnapKeys |->
               IF k[1] = loc /\ k[2] = issued /\ k[3] \in store THEN c ELSE snap[k]]

\* The circuit is written, over whatever it is by now, and all is committed.
Commit(c) ==
    LET res == call[c].res IN
    /\ call[c].pc = "committing"
    /\ coll' = [coll EXCEPT ![c] =
                  CollRow(Classify(res), LocationOf[c], IssuedAt(call[c].now), res,
                          call[c].store, IF call[c].saved THEN c ELSE Nobody)]
    /\ Owned(c, LocationOf[c], IssuedAt(call[c].now), call[c].store)
    /\ circuit' = IF res.outcome \in {"rate_limited", "auth_failed"}
                  THEN circuit ELSE call[c].read
    /\ Returns(c)
    /\ UNCHANGED <<clock, payload>>

\* storeDeduplicated records the attempt; the circuit is not told.
StoreDeduplicated(c) ==
    LET res == call[c].res IN
    /\ call[c].pc = "deduplicating"
    /\ coll' = [coll EXCEPT ![c] =
                  [CollRow("deduplicated", LocationOf[c], IssuedAt(call[c].now),
                           res, {}, Nobody)
                     EXCEPT !.dedup = Cardinality(res.valid) + res.invalid, !.invalid = 0]]
    /\ Returns(c)
    /\ UNCHANGED <<clock, circuit, snap, payload>>

-----------------------------------------------------------------------------
(* Replay *)

\* Replay reads the original's payload, checks it, and decodes it with the
\* adapter of the day.  A damaged file is quarantined, or unreadable.
ReplayRead(r, o, res) ==
    /\ call[r].pc = "idle"
    /\ coll[o].key # Nobody
    /\ \/ /\ payload[coll[o].key] = "intact"
          /\ call' = [call EXCEPT ![r].pc = "decoded", ![r].res = res, ![r].orig = o]
          /\ UNCHANGED payload
       \/ /\ payload[coll[o].key] # "intact"
          /\ payload' \in {payload, [payload EXCEPT ![coll[o].key] = "quarantined"]}
          /\ Returns(r)
    /\ UNCHANGED <<clock, circuit, coll, snap>>

\* One transaction stores what is new under a row that is never usable.
ReplayStore(r) ==
    LET res == call[r].res
        o == coll[call[r].orig]
        usable == res.outcome \in Usable
        store == IF usable THEN Fresh(o.loc, o.issued, res.valid) ELSE {}
    IN
    /\ call[r].pc = "decoded"
    /\ usable => Holders(o.loc, o.issued) = {}
    /\ coll' = [coll EXCEPT ![r] =
                  CollRow(IF usable THEN "deduplicated" ELSE res.outcome,
                          o.loc, o.issued, res, store, o.key)]
    /\ Owned(r, o.loc, o.issued, store)
    /\ Returns(r)
    /\ UNCHANGED <<clock, circuit, payload>>

-----------------------------------------------------------------------------
(* Failures and time *)

\* A statement fails, the context expires or the process dies: an open
\* transaction is rolled back, what was committed or written stays.
Abort(c) ==
    /\ call[c].pc \notin {"idle", "done"}
    /\ Returns(c)
    /\ UNCHANGED <<clock, circuit, coll, snap, payload>>

\* A payload file is damaged on its volume.
Damage(c) ==
    /\ payload[c] = "intact"
    /\ Cardinality({d \in Calls : payload[d] \in {"corrupt", "quarantined"}}) < MaxCorrupt
    /\ payload' = [payload EXCEPT ![c] = "corrupt"]
    /\ UNCHANGED <<clock, circuit, coll, snap, call>>

Tick ==
    /\ clock < MaxClock
    /\ clock' = clock + 1
    /\ UNCHANGED <<circuit, coll, snap, payload, call>>

CollectStep(c) ==
    \/ EvaluateCircuit(c)
    \/ ProbeUpsert(c)
    \/ \E res \in Answers[c] : Fetch(c, res)
    \/ Lookup(c)
    \/ \E ok \in BOOLEAN : WritePayload(c, ok)
    \/ TxStore(c)
    \/ RecordCircuit(c)
    \/ Commit(c)
    \/ StoreDeduplicated(c)

Next ==
    \/ \E c \in Collects : Begin(c) \/ CollectStep(c)
    \/ \E r \in Replays : \/ \E o \in Calls, res \in DecodeResults : ReplayRead(r, o, res)
                          \/ ReplayStore(r)
    \/ \E c \in Calls : Abort(c) \/ Damage(c)
    \/ Tick

Spec == Init /\ [][Next]_vars

-----------------------------------------------------------------------------
(* Properties *)

\* However lookups, payload writes and transactions of concurrent attempts
\* interleave, one usable collection is kept per location and issuance.
OneUsablePerKey ==
    \A c, d \in Calls :
      /\ {coll[c].status, coll[d].status} \subseteq Usable
      /\ coll[c].loc = coll[d].loc /\ coll[c].issued = coll[d].issued
      => c = d

\* An attempt is recorded as deduplicated only when the data it duplicates is
\* committed: an attempt whose rival rolls back stores its own, and the second
\* lookup of the unique-violation path always finds the row it lost to.
DedupHasOriginal ==
    /\ \A c \in Collects : coll[c].status = "deduplicated" =>
                             UsableExists(coll[c].loc, coll[c].issued)
    /\ \A c \in Collects : call[c].pc = "deduplicating" =>
                             UsableExists(LocationOf[c], IssuedAt(call[c].now))

\* A snapshot belongs to the committed collection that inserted it, which
\* counts it: a rolled-back attempt leaves no snapshot and a conflict is not
\* counted as stored.
SnapshotLineage ==
    \A c \in Calls :
      LET own == {k \in SnapKeys : snap[k] = c} IN
      /\ coll[c].stored = Cardinality(own)
      /\ \A k \in own : k[1] = coll[c].loc /\ k[2] = coll[c].issued
      /\ own # {} => coll[c].status \in Usable \cup {"deduplicated"}

\* A usable collection owns every valid row it received, so LatestForecast
\* serves it whole -- unless a replay of an earlier attempt of that hour, which
\* had failed, stored those rows first.
UsableOwnsItsForecast ==
    \A c \in Calls :
      coll[c].status \in Usable /\ coll[c].stored + coll[c].invalid < coll[c].received =>
        \E r \in Replays : /\ coll[r].stored > 0
                           /\ coll[r].loc = coll[c].loc
                           /\ coll[r].issued = coll[c].issued

\* A committed row names a payload only if the file was written.
PayloadBeforeRow ==
    \A c \in Calls : coll[c].key # Nobody => payload[coll[c].key] # "none"

\* Blind write-backs of stale copies never leave a row the breaker could not
\* get out of: closed exactly below the threshold, a probe time otherwise.
CircuitConsistent ==
    /\ circuit.state = "closed" <=> circuit.failures < FailureThreshold
    /\ circuit.state = "closed" <=> circuit.nextProbeAt = NoTime

\* The breaker counts only failures whose collection is committed: counting is
\* part of the collection's transaction and is rolled back with it.
CountedFailuresCommitted ==
    circuit.failures <=
      Cardinality({c \in Collects : coll[c].status \in {"failed", "timeout"}})

\* Deduplication keeps one usable collection per key, and loses none to an attempt
\* that was rolled back.
DedupIsSound == OneUsablePerKey /\ DedupHasOriginal

\* From payload to collection to snapshots, every link of the lineage is there and is
\* whole.
LineageIsWhole == SnapshotLineage /\ UsableOwnsItsForecast /\ PayloadBeforeRow

\* The breaker's row is one it can get out of, and counts what was committed, although
\* attempts write it back from stale copies.
BreakerIsSound == CircuitConsistent /\ CountedFailuresCommitted
=============================================================================
