-------------------------- MODULE CollectionProofs --------------------------
(***************************************************************************)
(* What Collection promises, for any number of calls, locations, targets   *)
(* and instants: deduplication, lineage and the breaker stay sound.        *)
(***************************************************************************)
EXTENDS Collection, TLAPS

-----------------------------------------------------------------------------
(* The inductive invariant.                                                *)

\* The snapshots of a call.
Own(c) == {k \in SnapKeys : snap[k] = c}

\* A snapshot's owner is a usable collection, or a replay, of its location and issuance.
SnapOK(k) ==
    snap[k] # Nobody =>
      /\ coll[snap[k]].loc = k[1] /\ coll[snap[k]].issued = k[2]
      /\ snap[k] \in Collects => coll[snap[k]].status \in Usable
      /\ snap[k] \in Replays => coll[snap[k]].status = "deduplicated"

\* The failures that are committed; the breaker counts no others.
Failures == {c \in Collects : coll[c].status \in {"failed", "timeout"}}

\* A row of the breaker that it can get out of.
Consistent(x) ==
    /\ x.state = "closed" <=> x.failures < FailureThreshold
    /\ x.state = "closed" <=> x.nextProbeAt = NoTime

\* A replay has stored snapshots of a location and issuance.
Replayed(loc, issued) ==
    \E r \in Replays : coll[r].stored > 0 /\ coll[r].loc = loc /\ coll[r].issued = issued

\* A transaction that holds the index entries of its location and issuance.
Holding(w) == w.pc \in {"recording", "committing"} /\ w.res.outcome \in Usable

\* What the local variables w of a call say about the tables.
RowOK(c, w) ==
    /\ w.pc # "done" => coll[c] = NoColl
    /\ c \in Collects => w.pc # "decoded"
    /\ c \in Replays => w.pc \in {"idle", "decoded", "done"}
    /\ w.pc = "decoded" => w.orig \in Calls
    /\ w.pc = "recording" => w.res.outcome \in Usable \cup {"failed", "timeout"}
    /\ c \in Collects /\ w.pc = "deduplicating" =>
         UsableExists(LocationOf[c], IssuedAt(w.now))

\* The snapshots a transaction is about to insert are new and nobody else inserts them;
\* what is missing from them a replay has stored.
StoreOK(c, w) ==
    /\ w.store \subseteq w.res.valid
    /\ ~Holding(w) => w.store = {}
    /\ c \in Collects /\ Holding(w) =>
         /\ ~UsableExists(LocationOf[c], IssuedAt(w.now))
         /\ \A t \in w.store : snap[<<LocationOf[c], IssuedAt(w.now), t>>] = Nobody
         /\ w.store # w.res.valid => Replayed(LocationOf[c], IssuedAt(w.now))

\* The copy of the breaker's row that a call may write back.
ReadOK(w) ==
    /\ Consistent(w.read)
    /\ w.pc \in {"probing", "fetching"} => w.read.failures <= Cardinality(Failures)
    /\ w.pc = "committing" /\ w.res.outcome \in Usable => w.read.failures = 0
    /\ w.pc = "committing" /\ w.res.outcome \in {"failed", "timeout"} =>
         w.read.failures <= Cardinality(Failures) + 1

\* Two transactions never hold the same entries.
Exclusive ==
    \A c, d \in Collects :
      Holding(call[c]) /\ SameKey(d, LocationOf[c], IssuedAt(call[c].now))
        /\ Holding(call[d]) => c = d

TablesInv ==
    /\ \A k \in SnapKeys : SnapOK(k)
    /\ \A c \in Calls : IsFiniteSet(Own(c)) /\ coll[c].stored = Cardinality(Own(c))
    /\ OneUsablePerKey
    /\ \A c \in Collects : coll[c].status = "deduplicated" =>
                             UsableExists(coll[c].loc, coll[c].issued)
    /\ UsableOwnsItsForecast
    /\ PayloadBeforeRow

BreakerInv ==
    /\ Consistent(circuit)
    /\ IsFiniteSet(Failures) /\ circuit.failures <= Cardinality(Failures)

CollectionInv ==
    /\ TypeOK /\ TablesInv /\ BreakerInv /\ Exclusive
    /\ \A c \in Calls : RowOK(c, call[c]) /\ StoreOK(c, call[c]) /\ ReadOK(call[c])
    /\ \A c \in Calls : call[c].saved => payload[c] # "none"

-----------------------------------------------------------------------------
(* What the proofs use of counting; it is established at the end.          *)

\* The snapshot keys of a location and issuance.
KeysOf(loc, issued, store) == {<<loc, issued, t>> : t \in store}

Counting ==
    /\ IsFiniteSet({}) /\ Cardinality({}) = 0
    /\ \A S : IsFiniteSet(S) =>
         /\ Cardinality(S) \in Nat /\ (Cardinality(S) = 0 <=> S = {})
         /\ \A T \in SUBSET S : IsFiniteSet(T) /\ Cardinality(T) <= Cardinality(S)
         /\ \A x : x \notin S => /\ IsFiniteSet(S \cup {x})
                                 /\ Cardinality(S \cup {x}) = Cardinality(S) + 1
         /\ \A loc, issued : /\ IsFiniteSet(KeysOf(loc, issued, S))
                             /\ Cardinality(KeysOf(loc, issued, S)) = Cardinality(S)

\* One set at a time.
LEMMA Counts ==
    ASSUME Counting, NEW S, IsFiniteSet(S)
    PROVE  /\ Cardinality(S) \in Nat /\ (Cardinality(S) = 0 <=> S = {})
           /\ \A T \in SUBSET S : IsFiniteSet(T) /\ Cardinality(T) <= Cardinality(S)
           /\ \A x : x \notin S => /\ IsFiniteSet(S \cup {x})
                                   /\ Cardinality(S \cup {x}) = Cardinality(S) + 1
           /\ \A loc, issued : /\ IsFiniteSet(KeysOf(loc, issued, S))
                               /\ Cardinality(KeysOf(loc, issued, S)) = Cardinality(S)
  BY Zenon DEF Counting

-----------------------------------------------------------------------------
(* Facts about the operators.                                              *)

\* issuedAt yields an issuance of the model.
LEMMA IssuedTyped == \A now \in 0..MaxClock : IssuedAt(now) \in Issues
  BY CollectionAssumption DEF IssuedAt, Issues

\* No row is a row that is absent and owns nothing.
LEMMA NoCollTyped == NoColl \in Coll /\ NoColl.status = "absent" /\ NoColl.stored = 0
                     /\ NoColl.key = Nobody
  <1>1. (CHOOSE l \in Locations : TRUE) \in Locations
    BY CollectionAssumption
  <1>2. 0 \in Issues
    BY CollectionAssumption DEF Issues
  <1>3. QED
    BY <1>1, <1>2 DEF NoColl, Coll, Statuses

\* A new breaker is closed.
LEMMA NewCircuitTyped ==
    /\ NewProviderCircuit \in Circuits /\ Consistent(NewProviderCircuit)
    /\ NewProviderCircuit.failures = 0
  BY CircuitAssumption DEF NewProviderCircuit, Circuits, Consistent

\* No result is a result without rows.
LEMMA NoResultTyped == NoResult \in Result /\ NoResult.outcome = "failed" /\ NoResult.valid = {}
  BY CollectionAssumption DEF NoResult, Result, Outcomes

\* The locals of a call that has not begun or has returned.
LEMMA NoCallTyped ==
    ASSUME NEW pc \in {"idle", "done"}
    PROVE  LET w == [NoCall EXCEPT !.pc = pc]
           IN  /\ w \in Call /\ w.pc = pc /\ w.saved = FALSE /\ w.store = {}
               /\ w.res = NoResult /\ w.read = NewProviderCircuit
  <1> DEFINE w == [NoCall EXCEPT !.pc = pc]
  <1>1. 0 \in 0..MaxClock
    BY CollectionAssumption
  <1>2. NoResult \in Result /\ NewProviderCircuit \in Circuits
    BY NoResultTyped, NewCircuitTyped
  <1>3. w \in Call
    BY <1>1, <1>2, Zenon DEF NoCall, Call, Phases
  <1>4. w.pc = pc /\ w.saved = FALSE /\ w.store = {} /\ w.res = NoResult
        /\ w.read = NewProviderCircuit
    BY DEF NoCall
  <1>5. QED
    BY <1>3, <1>4

\* The transitions of the breaker keep its row consistent.
LEMMA CircuitSteps ==
    ASSUME NEW x \in Circuits, Consistent(x), NEW now \in Nat
    PROVE  /\ Evaluated(x, now) \in Circuits /\ Consistent(Evaluated(x, now))
           /\ Evaluated(x, now).failures = x.failures
           /\ ApplyFailure(x, now) \in Circuits /\ Consistent(ApplyFailure(x, now))
           /\ ApplyFailure(x, now).failures = x.failures + 1
           /\ ApplySuccess(x) \in Circuits /\ Consistent(ApplySuccess(x))
           /\ ApplySuccess(x).failures = 0
  <1>1. /\ Evaluated(x, now) \in Circuits /\ Consistent(Evaluated(x, now))
        /\ Evaluated(x, now).failures = x.failures
    BY DEF Evaluated, Circuits, Consistent
  <1>2. /\ ApplyFailure(x, now) \in Circuits /\ Consistent(ApplyFailure(x, now))
        /\ ApplyFailure(x, now).failures = x.failures + 1
    <2>1. CASE x.failures + 1 >= FailureThreshold
      <3>1. ApplyFailure(x, now) = [state |-> "open", failures |-> x.failures + 1,
                                    nextProbeAt |-> now + ProbeDelay]
        BY <2>1 DEF ApplyFailure
      <3>2. QED
        BY <2>1, <3>1, CircuitAssumption DEF Circuits, Consistent
    <2>2. CASE ~(x.failures + 1 >= FailureThreshold)
      <3>1. ApplyFailure(x, now) = [x EXCEPT !.failures = x.failures + 1]
        BY <2>2 DEF ApplyFailure
      <3>2. QED
        BY <2>2, <3>1, CircuitAssumption DEF Circuits, Consistent
    <2>3. QED
      BY <2>1, <2>2
  <1>3. QED
    BY <1>1, <1>2, NewCircuitTyped DEF ApplySuccess

\* What the provider's answers are, decoded from a body or not.
LEMMA ResultsTyped ==
    /\ \A res \in DecodeResults : res \in Result
    /\ \A c \in Collects : \A res \in Answers[c] : res \in Result
  <1>1. ASSUME NEW v \in SUBSET Targets, NEW n \in 0..MaxInvalid
        PROVE  Decomposed(v, n) \in Result
    BY <1>1 DEF Decomposed, Result, Outcomes, Usable
  <1>2. \A res \in DecodeResults : res \in Result
    BY <1>1 DEF DecodeResults
  <1>3. ASSUME NEW o \in Outcomes \ Usable, NEW b \in BOOLEAN
        PROVE  Failure(o, b) \in Result
    BY NoResultTyped, Zenon DEF Failure, Result
  <1>4. \A res \in FetchResults : res \in Result
    BY <1>2, <1>3 DEF FetchResults
  <1>5. QED
    BY <1>2, <1>4, AnswersAssumption

-----------------------------------------------------------------------------
(* Steps that leave the tables alone.                                      *)

\* What a call knows about the tables stays true while they do not change.
LEMMA KnownStays ==
    ASSUME UNCHANGED <<coll, snap>>
    PROVE  /\ Failures' = Failures
           /\ \A loc, issued : UsableExists(loc, issued)' <=> UsableExists(loc, issued)
           /\ \A loc, issued : Replayed(loc, issued)' <=> Replayed(loc, issued)
  BY DEF Failures, UsableExists, Replayed

\* What is said of the tables stays while they do and no payload goes away.
LEMMA TablesStay ==
    ASSUME CollectionInv, UNCHANGED <<coll, snap>>,
           \A d \in Calls : payload[d] # "none" => payload'[d] # "none"
    PROVE  TablesInv'
  <1>1. (\A k \in SnapKeys : SnapOK(k))'
    BY DEF CollectionInv, TablesInv, SnapOK
  <1>2. (\A c \in Calls : IsFiniteSet(Own(c)) /\ coll[c].stored = Cardinality(Own(c)))'
    BY DEF CollectionInv, TablesInv, Own
  <1>3. OneUsablePerKey'
    BY DEF CollectionInv, TablesInv, OneUsablePerKey
  <1>4. (\A c \in Collects : coll[c].status = "deduplicated" =>
                             UsableExists(coll[c].loc, coll[c].issued))'
    BY DEF CollectionInv, TablesInv, UsableExists
  <1>5. UsableOwnsItsForecast'
    BY DEF CollectionInv, TablesInv, UsableOwnsItsForecast
  <1>6. \A c \in Calls : coll[c].key # Nobody => coll[c].key \in Calls
    BY DEF CollectionInv, TypeOK, Coll
  <1>7. PayloadBeforeRow'
    BY <1>6 DEF CollectionInv, TablesInv, PayloadBeforeRow
  <1>8. QED
    BY <1>1, <1>2, <1>3, <1>4, <1>5, <1>7 DEF TablesInv

\* A step of a call that leaves the tables alone keeps the invariant if what the
\* call knows afterwards is right and it holds no entries of another.
LEMMA LocalStep ==
    ASSUME CollectionInv, UNCHANGED <<clock, coll, snap>>,
           circuit' \in Circuits, Consistent(circuit'),
           circuit'.failures <= Cardinality(Failures),
           payload' \in [Calls -> {"none", "intact", "corrupt", "quarantined"}],
           \A d \in Calls : payload[d] # "none" => payload'[d] # "none",
           NEW c \in Calls, NEW w \in Call,
           call' = [call EXCEPT ![c] = w],
           RowOK(c, w), StoreOK(c, w), ReadOK(w),
           w.saved => payload'[c] # "none",
           c \in Collects /\ Holding(w) =>
             \A d \in Collects \ {c} :
               ~(Holding(call[d]) /\ SameKey(d, LocationOf[c], IssuedAt(w.now)))
    PROVE  CollectionInv'
  <1>1. TypeOK'
    BY DEF CollectionInv, TypeOK
  <1>2. TablesInv'
    BY TablesStay
  <1>3. BreakerInv'
    BY KnownStays DEF CollectionInv, BreakerInv, Consistent
  <1>4. \A d \in Calls : call'[d] = IF d = c THEN w ELSE call[d]
    BY DEF CollectionInv, TypeOK
  <1>5. \A d \in Calls : RowOK(d, call'[d]) /\ StoreOK(d, call'[d]) /\ ReadOK(call'[d])
    BY <1>4 DEF CollectionInv
  <1>6. \A d \in Calls : RowOK(d, call[d])'
    BY <1>5, KnownStays DEF RowOK
  <1>7. \A d \in Calls : StoreOK(d, call[d])'
    BY <1>5, KnownStays, Zenon DEF StoreOK, Holding
  <1>8. \A d \in Calls : ReadOK(call[d])'
    BY <1>5, KnownStays, Zenon DEF ReadOK, Consistent
  <1>9. (\A d \in Calls : call[d].saved => payload[d] # "none")'
    BY <1>4 DEF CollectionInv
  <1>10. Exclusive'
    <2> SUFFICES ASSUME NEW d \in Collects, NEW e \in Collects,
                        Holding(call'[d]), Holding(call'[e]), 
                        LocationOf[e] = LocationOf[d],
                        IssuedAt(call'[e].now) = IssuedAt(call'[d].now)
                 PROVE  d = e
      BY DEF Exclusive, SameKey, Holding, IssuedAt
    <2>1. d \in Calls /\ e \in Calls
      BY DEF Calls
    <2>2. CASE d # c /\ e # c
      BY <1>4, <2>1, <2>2 DEF CollectionInv, Exclusive, SameKey
    <2>3. CASE d = c /\ e # c
      BY <1>4, <2>1, <2>3 DEF SameKey
    <2>4. CASE d # c /\ e = c
      BY <1>4, <2>1, <2>4 DEF SameKey
    <2>5. QED
      BY <2>2, <2>3, <2>4
  <1>11. QED
    BY <1>1, <1>2, <1>3, <1>6, <1>7, <1>8, <1>9, <1>10 DEF CollectionInv

\* Time passes, or a file is damaged.
LEMMA WorldStep ==
    ASSUME CollectionInv, Tick \/ \E c \in Calls : Damage(c)
    PROVE  CollectionInv'
  <1>0. clock \in 0..MaxClock /\ MaxClock \in Nat
    BY CollectionAssumption DEF CollectionInv, TypeOK
  <1>1. UNCHANGED <<coll, snap, circuit, call>> /\ clock' \in 0..MaxClock
    <2>1. CASE Tick
      BY <1>0, <2>1 DEF Tick
    <2>2. CASE \E c \in Calls : Damage(c)
      BY <1>0, <2>2, Zenon DEF Damage
    <2>3. QED
      BY <2>1, <2>2
  <1>2. /\ payload' \in [Calls -> {"none", "intact", "corrupt", "quarantined"}]
        /\ \A d \in Calls : payload[d] # "none" => payload'[d] # "none"
    BY Zenon DEF Tick, Damage, CollectionInv, TypeOK
  <1>3. TypeOK'
    BY <1>1, <1>2 DEF CollectionInv, TypeOK
  <1>4. TablesInv'
    BY <1>1, <1>2, TablesStay
  <1>5. BreakerInv'
    BY <1>1, KnownStays, Zenon DEF CollectionInv, BreakerInv, Consistent
  <1>6. \A d \in Calls : RowOK(d, call[d])'
    BY <1>1, KnownStays DEF CollectionInv, RowOK
  <1>7. \A d \in Calls : StoreOK(d, call[d])'
    BY <1>1, KnownStays, Zenon DEF CollectionInv, StoreOK, Holding
  <1>8. \A d \in Calls : ReadOK(call[d])'
    BY <1>1, KnownStays DEF CollectionInv, ReadOK, Consistent
  <1>9. (\A d \in Calls : call[d].saved => payload[d] # "none")'
    BY <1>1, <1>2 DEF CollectionInv
  <1>10. Exclusive'
    BY <1>1 DEF CollectionInv, Exclusive, Holding, SameKey
  <1>11. QED
    BY <1>3, <1>4, <1>5, <1>6, <1>7, <1>8, <1>9, <1>10 DEF CollectionInv

\* What the invariant says of one call.
LEMMA CallFacts ==
    ASSUME CollectionInv, NEW c \in Calls
    PROVE  /\ call \in [Calls -> Call] /\ call[c] \in Call
           /\ RowOK(c, call[c]) /\ StoreOK(c, call[c]) /\ ReadOK(call[c])
           /\ call[c].saved => payload[c] # "none"
           /\ circuit \in Circuits /\ Consistent(circuit)
           /\ circuit.failures <= Cardinality(Failures)
           /\ payload \in [Calls -> {"none", "intact", "corrupt", "quarantined"}]
  BY DEF CollectionInv, TypeOK, BreakerInv

\* A call takes a step of its own that writes nothing, and holds no entries after it
\* that it did not hold before.
LEMMA QuietStep ==
    ASSUME CollectionInv, UNCHANGED <<clock, circuit, coll, snap, payload>>,
           NEW c \in Calls, NEW w \in Call,
           call' = [call EXCEPT ![c] = w],
           RowOK(c, w), StoreOK(c, w), ReadOK(w),
           w.saved => payload[c] # "none",
           Holding(w) => Holding(call[c]) /\ w.now = call[c].now
    PROVE  CollectionInv'
  <1>1. c \in Collects /\ Holding(w) =>
          \A d \in Collects \ {c} :
            ~(Holding(call[d]) /\ SameKey(d, LocationOf[c], IssuedAt(w.now)))
    BY Zenon DEF CollectionInv, Exclusive
  <1>2. QED
    BY <1>1, LocalStep, CallFacts, Zenon

\* A call that returns, done or rolled back, holds nothing.
LEMMA ReturnsStep ==
    ASSUME CollectionInv, UNCHANGED <<clock, coll, snap, circuit>>,
           payload' \in [Calls -> {"none", "intact", "corrupt", "quarantined"}],
           \A d \in Calls : payload[d] # "none" => payload'[d] # "none",
           NEW c \in Calls, Returns(c)
    PROVE  CollectionInv'
  <1> DEFINE w == [NoCall EXCEPT !.pc = "done"]
  <1>1. call' = [call EXCEPT ![c] = w]
    BY DEF Returns
  <1>2. /\ w \in Call /\ w.pc = "done" /\ w.saved = FALSE /\ w.store = {}
        /\ w.res = NoResult /\ w.read = NewProviderCircuit
    BY NoCallTyped, Zenon
  <1> HIDE DEF w
  <1>3. RowOK(c, w) /\ ~Holding(w) /\ StoreOK(c, w)
    BY <1>2 DEF RowOK, Holding, StoreOK
  <1>4. ReadOK(w)
    BY <1>2, NewCircuitTyped DEF ReadOK
  <1>5. QED
    BY <1>1, <1>2, <1>3, <1>4, LocalStep, CallFacts, Zenon

\* A call begins knowing nothing.
LEMMA BeginStep ==
    ASSUME CollectionInv, NEW c \in Collects, Begin(c)
    PROVE  CollectionInv'
  <1> DEFINE w == [call[c] EXCEPT !.pc = "begun", !.now = clock]
  <1>0. c \in Calls /\ clock \in 0..MaxClock /\ call[c].pc = "idle"
        /\ UNCHANGED <<clock, circuit, coll, snap, payload>>
    BY DEF Calls, CollectionInv, TypeOK, Begin
  <1>1. call' = [call EXCEPT ![c] = w]
    BY <1>0, CallFacts, Zenon DEF Begin
  <1>2. w \in Call /\ w.pc = "begun" /\ w.saved = call[c].saved /\ w.store = call[c].store
        /\ w.read = call[c].read
    BY <1>0, CallFacts, ZenonT(60) DEF Call, Phases
  <1> HIDE DEF w
  <1>3. ~Holding(w) /\ RowOK(c, w)
    BY <1>0, <1>2, CallFacts, CollectionAssumption, Zenon DEF RowOK, Holding, Calls
  <1>4. call[c].store = {}
    BY <1>0, CallFacts, Zenon DEF StoreOK, Holding
  <1>5. StoreOK(c, w) /\ ReadOK(w)
    BY <1>0, <1>2, <1>3, <1>4, CallFacts, Zenon DEF StoreOK, ReadOK
  <1>6. QED
    BY <1>0, <1>1, <1>2, <1>3, <1>5, QuietStep, CallFacts, Zenon

\* Evaluate reads the breaker; an open one that is not due ends the call.
LEMMA EvaluateCircuitStep ==
    ASSUME CollectionInv, NEW c \in Collects, EvaluateCircuit(c)
    PROVE  CollectionInv'
  <1> DEFINE x == Evaluated(circuit, call[c].now)
             pc == IF x # circuit THEN "probing" ELSE "fetching"
             w == [call[c] EXCEPT !.pc = pc, !.read = x]
  <1>0. c \in Calls /\ call[c].pc = "begun"
        /\ UNCHANGED <<clock, circuit, coll, snap, payload>>
    BY DEF Calls, EvaluateCircuit
  <1>1. CASE Returns(c)
    BY <1>0, <1>1, ReturnsStep, CallFacts
  <1>2. CASE ~Returns(c)
    <2>1. call[c].now \in Nat
      BY <1>0, CallFacts, CollectionAssumption DEF Call
    <2>2. x \in Circuits /\ Consistent(x) /\ x.failures = circuit.failures
      BY <1>0, <2>1, CallFacts, CircuitSteps
    <2>3. call' = [call EXCEPT ![c] = w]
      BY <1>0, <1>2, CallFacts, Zenon DEF EvaluateCircuit
    <2> HIDE DEF x
    <2>4. pc \in {"probing", "fetching"}
      OBVIOUS
    <2> HIDE DEF pc
    <2>5. w \in Call /\ w.pc = pc /\ w.saved = call[c].saved /\ w.store = call[c].store
          /\ w.read = x
      BY <1>0, <2>2, <2>4, CallFacts, ZenonT(60) DEF Call, Phases
    <2> HIDE DEF w
    <2>6. ~Holding(w) /\ RowOK(c, w)
      BY <1>0, <2>4, <2>5, CallFacts, CollectionAssumption, Zenon DEF RowOK, Holding, Calls
    <2>7. call[c].store = {}
      BY <1>0, CallFacts, Zenon DEF StoreOK, Holding
    <2>8. StoreOK(c, w) /\ ReadOK(w)
      BY <1>0, <2>2, <2>4, <2>5, <2>6, <2>7, CallFacts, Zenon DEF StoreOK, ReadOK
    <2>9. QED
      BY <1>0, <2>3, <2>5, <2>6, <2>8, QuietStep, CallFacts, Zenon
  <1>3. QED
    BY <1>1, <1>2

\* The copy written back counts no failure that is not committed.
LEMMA ProbeUpsertStep ==
    ASSUME CollectionInv, NEW c \in Collects, ProbeUpsert(c)
    PROVE  CollectionInv'
  <1> DEFINE w == [call[c] EXCEPT !.pc = "fetching"]
  <1>0. c \in Calls /\ call[c].pc = "probing" /\ circuit' = call[c].read
        /\ UNCHANGED <<clock, coll, snap, payload>>
    BY DEF Calls, ProbeUpsert
  <1>1. call' = [call EXCEPT ![c] = w]
    BY <1>0, CallFacts DEF ProbeUpsert, To
  <1>2. w \in Call /\ w.pc = "fetching" /\ w.saved = call[c].saved
        /\ w.store = call[c].store /\ w.read = call[c].read
    BY <1>0, CallFacts DEF Call, Phases
  <1> HIDE DEF w
  <1>3. ~Holding(w) /\ RowOK(c, w)
    BY <1>0, <1>2, CallFacts, CollectionAssumption, Zenon DEF RowOK, Holding, Calls
  <1>4. call[c].store = {}
    BY <1>0, CallFacts, Zenon DEF StoreOK, Holding
  <1>5. StoreOK(c, w) /\ ReadOK(w)
    BY <1>0, <1>2, <1>3, <1>4, CallFacts, Zenon DEF StoreOK, ReadOK
  <1>6. circuit' \in Circuits /\ Consistent(circuit')
        /\ circuit'.failures <= Cardinality(Failures)
    BY <1>0, CallFacts DEF ReadOK, Call
  <1>7. QED
    BY <1>0, <1>1, <1>2, <1>3, <1>5, <1>6, LocalStep, CallFacts, Zenon

\* The provider answers.
LEMMA FetchStep ==
    ASSUME CollectionInv, NEW c \in Collects, NEW res \in Answers[c], Fetch(c, res)
    PROVE  CollectionInv'
  <1> DEFINE w == [call[c] EXCEPT !.pc = "fetched", !.res = res,
                                  !.read = NewProviderCircuit]
  <1>0. c \in Calls /\ call[c].pc = "fetching" /\ res \in Result
        /\ UNCHANGED <<clock, circuit, coll, snap, payload>>
    BY ResultsTyped DEF Calls, Fetch
  <1>1. call' = [call EXCEPT ![c] = w]
    BY <1>0, CallFacts, Zenon DEF Fetch
  <1>2. w \in Call /\ w.pc = "fetched" /\ w.saved = call[c].saved
        /\ w.store = call[c].store /\ w.read = NewProviderCircuit
    <2>1. call[c] \in Call /\ NewProviderCircuit \in Circuits /\ "fetched" \in Phases
      BY <1>0, CallFacts, NewCircuitTyped, Zenon DEF Phases
    <2>2. QED
      BY <1>0, <2>1, Zenon DEF Call
  <1> HIDE DEF w
  <1>3. ~Holding(w) /\ RowOK(c, w)
    BY <1>0, <1>2, CallFacts, CollectionAssumption, Zenon DEF RowOK, Holding, Calls
  <1>4. call[c].store = {}
    BY <1>0, CallFacts, Zenon DEF StoreOK, Holding
  <1>5. StoreOK(c, w) /\ ReadOK(w)
    BY <1>0, <1>2, <1>3, <1>4, NewCircuitTyped, Zenon DEF StoreOK, ReadOK
  <1>6. QED
    BY <1>0, <1>1, <1>2, <1>3, <1>5, QuietStep, CallFacts, Zenon

\* FindDedup: the call goes on to storeDeduplicated only if the row is there.
LEMMA LookupStep ==
    ASSUME CollectionInv, NEW c \in Collects, Lookup(c)
    PROVE  CollectionInv'
  <1> DEFINE pc == IF /\ call[c].res.outcome \in Usable
                      /\ UsableExists(LocationOf[c], IssuedAt(call[c].now))
                   THEN "deduplicating" ELSE "writing"
             w == [call[c] EXCEPT !.pc = pc]
  <1>0. c \in Calls /\ call[c].pc = "fetched"
        /\ UNCHANGED <<clock, circuit, coll, snap, payload>>
    BY DEF Calls, Lookup
  <1>1. call' = [call EXCEPT ![c] = w]
    BY <1>0, CallFacts DEF Lookup, To
  <1>2. /\ pc \in {"deduplicating", "writing"}
        /\ pc = "deduplicating" => UsableExists(LocationOf[c], IssuedAt(call[c].now))
    OBVIOUS
  <1> HIDE DEF pc
  <1>3. w \in Call /\ w.pc = pc /\ w.saved = call[c].saved /\ w.now = call[c].now
        /\ w.store = call[c].store /\ w.read = call[c].read
    BY <1>0, <1>2, CallFacts DEF Call, Phases
  <1> HIDE DEF w
  <1>4. ~Holding(w) /\ RowOK(c, w)
    BY <1>0, <1>2, <1>3, CallFacts, CollectionAssumption, Zenon DEF RowOK, Holding, Calls
  <1>5. call[c].store = {}
    BY <1>0, CallFacts, Zenon DEF StoreOK, Holding
  <1>6. StoreOK(c, w) /\ ReadOK(w)
    BY <1>0, <1>2, <1>3, <1>4, <1>5, CallFacts, Zenon DEF StoreOK, ReadOK
  <1>7. QED
    BY <1>0, <1>1, <1>3, <1>4, <1>6, QuietStep, CallFacts, Zenon

\* The row of the payload is named only once the file is there.
LEMMA WritePayloadStep ==
    ASSUME CollectionInv, NEW c \in Collects, NEW ok \in BOOLEAN, WritePayload(c, ok)
    PROVE  CollectionInv'
  <1> DEFINE saved == call[c].res.body /\ ok
             w == [call[c] EXCEPT !.pc = "storing", !.saved = saved, !.at = clock]
  <1>0. c \in Calls /\ call[c].pc = "writing" /\ clock \in 0..MaxClock
        /\ UNCHANGED <<clock, circuit, coll, snap>>
    BY DEF Calls, WritePayload, CollectionInv, TypeOK
  <1>1. call' = [call EXCEPT ![c] = w]
    BY <1>0, CallFacts, Zenon DEF WritePayload
  <1>2. /\ payload' \in [Calls -> {"none", "intact", "corrupt", "quarantined"}]
        /\ \A d \in Calls : payload[d] # "none" => payload'[d] # "none"
        /\ saved => payload'[c] # "none"
    <2>1. payload' = [payload EXCEPT ![c] = IF saved THEN "intact" ELSE payload[c]]
      BY DEF WritePayload
    <2> HIDE DEF saved
    <2>2. QED
      BY <1>0, <2>1, CallFacts
  <1>3. saved \in BOOLEAN
    BY <1>0, CallFacts DEF Call, Result
  <1> HIDE DEF saved
  <1>4. w \in Call /\ w.pc = "storing" /\ w.saved = saved
        /\ w.store = call[c].store /\ w.read = call[c].read
    BY <1>0, <1>3, CallFacts, ZenonT(60) DEF Call, Phases
  <1> HIDE DEF w
  <1>5. ~Holding(w) /\ RowOK(c, w)
    BY <1>0, <1>4, CallFacts, CollectionAssumption, Zenon DEF RowOK, Holding, Calls
  <1>6. call[c].store = {}
    BY <1>0, CallFacts, Zenon DEF StoreOK, Holding
  <1>7. StoreOK(c, w) /\ ReadOK(w)
    BY <1>0, <1>4, <1>5, <1>6, CallFacts, Zenon DEF StoreOK, ReadOK
  <1>8. QED
    BY <1>0, <1>1, <1>2, <1>4, <1>5, <1>7, LocalStep, CallFacts, Zenon

\* What a transaction finds stored already, where no collection is usable, a replay
\* has stored.
LEMMA MissingWasReplayed ==
    ASSUME Counting, CollectionInv, NEW loc \in Locations, NEW issued \in Issues,
           ~UsableExists(loc, issued), NEW t \in Targets,
           snap[<<loc, issued, t>>] # Nobody
    PROVE  Replayed(loc, issued)
  <1> DEFINE k == <<loc, issued, t>>
             r == snap[k]
  <1>1. k \in SnapKeys /\ k[1] = loc /\ k[2] = issued
    BY DEF SnapKeys
  <1>2. r \in Calls /\ SnapOK(k) /\ r # Nobody
    BY <1>1, CollectionAssumption, Zenon DEF CollectionInv, TypeOK, TablesInv
  <1>3. coll[r].loc = loc /\ coll[r].issued = issued
    BY <1>1, <1>2, Zenon DEF SnapOK
  <1>4. r \in Replays
    BY <1>2, <1>3 DEF SnapOK, UsableExists, Calls
  <1>5. k \in Own(r) /\ IsFiniteSet(Own(r)) /\ coll[r].stored = Cardinality(Own(r))
    BY <1>1, <1>2, Zenon DEF Own, CollectionInv, TablesInv
  <1>6. Cardinality(Own(r)) \in Nat /\ Cardinality(Own(r)) # 0
    BY <1>5, Counts, Zenon
  <1>7. coll[r].stored > 0
    BY <1>5, <1>6
  <1> HIDE DEF r
  <1>8. QED
    BY <1>3, <1>4, <1>7 DEF Replayed

\* A usable answer takes its entries: no other transaction holds them, no usable row
\* is committed, and it will insert exactly what is new.
LEMMA TxStoreUsable ==
    ASSUME Counting, CollectionInv, NEW c \in Collects, TxStore(c),
           call[c].res.outcome \in Usable,
           ~UsableExists(LocationOf[c], IssuedAt(call[c].now))
    PROVE  CollectionInv'
  <1> DEFINE loc == LocationOf[c]
             issued == IssuedAt(call[c].now)
             fresh == Fresh(loc, issued, call[c].res.valid)
             w == [call[c] EXCEPT !.pc = "recording", !.store = fresh]
  <1>0. c \in Calls /\ call[c].pc = "storing" /\ Holders(loc, issued) = {}
        /\ UNCHANGED <<clock, circuit, coll, snap, payload>>
    BY DEF Calls, TxStore, Usable
  <1>1. call' = [call EXCEPT ![c] = w]
    BY <1>0, CallFacts, Zenon DEF TxStore, Usable
  <1>2. /\ fresh \subseteq call[c].res.valid /\ call[c].res.valid \subseteq Targets
        /\ \A t \in fresh : snap[<<loc, issued, t>>] = Nobody
        /\ \A t \in call[c].res.valid \ fresh : snap[<<loc, issued, t>>] # Nobody
    BY <1>0, CallFacts, Zenon DEF Fresh, Call, Result
  <1> HIDE DEF fresh
  <1>3. w \in Call /\ w.pc = "recording" /\ w.saved = call[c].saved /\ w.now = call[c].now
        /\ w.store = fresh /\ w.read = call[c].read /\ w.res = call[c].res
    BY <1>0, <1>2, CallFacts, ZenonT(60) DEF Call, Phases
  <1> HIDE DEF w
  <1>4. RowOK(c, w)
    BY <1>0, <1>3, CallFacts, CollectionAssumption, Zenon DEF RowOK, Calls
  <1>5. loc \in Locations /\ issued \in Issues
    BY <1>0, CallFacts, IssuedTyped, CollectionAssumption, Zenon DEF Call
  <1>6. fresh # call[c].res.valid => Replayed(loc, issued)
    BY <1>2, <1>5, MissingWasReplayed, Zenon
  <1>7. StoreOK(c, w)
    BY <1>2, <1>3, <1>6, Zenon DEF StoreOK, Holding
  <1>8. ReadOK(w)
    BY <1>0, <1>3, CallFacts, Zenon DEF ReadOK
  <1>9. \A d \in Collects \ {c} : ~(Holding(call[d]) /\ SameKey(d, loc, issued))
    BY <1>0, Zenon DEF Holders, Holding
  <1>10. QED
    BY <1>0, <1>1, <1>3, <1>4, <1>7, <1>8, <1>9, LocalStep, CallFacts, Zenon

\* The transaction of a failed answer holds nothing; one that loses finds the row it lost to.
LEMMA TxStoreStep ==
    ASSUME Counting, CollectionInv, NEW c \in Collects, TxStore(c)
    PROVE  CollectionInv'
  <1>0. c \in Calls /\ call[c].pc = "storing"
        /\ UNCHANGED <<clock, circuit, coll, snap, payload>>
    BY DEF Calls, TxStore
  <1>1. ASSUME NEW pc \in {"deduplicating", "recording", "committing"}, To(c, pc),
               pc = "deduplicating" => UsableExists(LocationOf[c], IssuedAt(call[c].now)),
               pc # "deduplicating" => call[c].res.outcome \notin Usable,
               pc = "recording" => call[c].res.outcome \in {"failed", "timeout"},
               pc = "committing" => call[c].res.outcome \in {"rate_limited", "auth_failed"}
        PROVE  CollectionInv'
    <2> DEFINE w == [call[c] EXCEPT !.pc = pc]
    <2>1. call' = [call EXCEPT ![c] = w]
      BY <1>0, <1>1, CallFacts DEF To
    <2>2. w \in Call /\ w.pc = pc /\ w.saved = call[c].saved /\ w.now = call[c].now
          /\ w.store = call[c].store /\ w.read = call[c].read /\ w.res = call[c].res
      BY <1>0, <1>1, CallFacts DEF Call, Phases
    <2> HIDE DEF w
    <2>3. ~Holding(w) /\ RowOK(c, w)
      BY <1>0, <1>1, <2>2, CallFacts, CollectionAssumption, Zenon DEF RowOK, Holding, Calls
    <2>4. call[c].store = {}
      BY <1>0, CallFacts, Zenon DEF StoreOK, Holding
    <2>5. StoreOK(c, w)
      BY <2>2, <2>3, <2>4, Zenon DEF StoreOK
    <2>6. ReadOK(w)
      BY <1>0, <1>1, <2>2, CallFacts, Zenon DEF ReadOK, Usable
    <2>7. QED
      BY <1>0, <2>1, <2>2, <2>3, <2>5, <2>6, QuietStep, CallFacts, Zenon
  <1>2. CASE /\ call[c].res.outcome \in Usable
             /\ ~UsableExists(LocationOf[c], IssuedAt(call[c].now))
    BY <1>2, TxStoreUsable
  <1>3. CASE /\ call[c].res.outcome \in Usable
             /\ UsableExists(LocationOf[c], IssuedAt(call[c].now))
    <2>1. To(c, "deduplicating")
      BY <1>3 DEF TxStore, Usable
    <2>2. QED
      BY <1>1, <1>3, <2>1
  <1>4. CASE call[c].res.outcome \notin Usable
    <2>1. \/ call[c].res.outcome \in {"failed", "timeout"} /\ To(c, "recording")
          \/ call[c].res.outcome \in {"rate_limited", "auth_failed"} /\ To(c, "committing")
      BY <1>4 DEF TxStore
    <2>2. QED
      BY <1>1, <1>4, <2>1
  <1>5. QED
    BY <1>2, <1>3, <1>4

\* The copy read in the transaction counts at most one failure that is not committed:
\* the call's own.
LEMMA RecordCircuitStep ==
    ASSUME Counting, CollectionInv, NEW c \in Collects, RecordCircuit(c)
    PROVE  CollectionInv'
  <1> DEFINE x == IF call[c].res.outcome \in Usable
                  THEN ApplySuccess(circuit) ELSE ApplyFailure(circuit, call[c].at)
             w == [call[c] EXCEPT !.pc = "committing", !.read = x]
  <1>0. c \in Calls /\ call[c].pc = "recording"
        /\ UNCHANGED <<clock, circuit, coll, snap, payload>>
    BY DEF Calls, RecordCircuit
  <1>1. call[c].at \in Nat
    BY <1>0, CallFacts, CollectionAssumption DEF Call
  <1>2. /\ x \in Circuits /\ Consistent(x)
        /\ call[c].res.outcome \in Usable => x.failures = 0
        /\ x.failures <= circuit.failures + 1
    <2>1. circuit \in Circuits /\ Consistent(circuit) /\ circuit.failures \in Nat
      BY <1>0, CallFacts DEF Circuits
    <2>2. CASE call[c].res.outcome \in Usable
      BY <1>1, <2>1, <2>2, CircuitSteps
    <2>3. CASE call[c].res.outcome \notin Usable
      BY <1>1, <2>1, <2>3, CircuitSteps
    <2>4. QED
      BY <2>2, <2>3, Zenon
  <1>3. call' = [call EXCEPT ![c] = w]
    BY <1>0, CallFacts, Zenon DEF RecordCircuit
  <1> HIDE DEF x
  <1>4. w \in Call /\ w.pc = "committing" /\ w.saved = call[c].saved /\ w.now = call[c].now
        /\ w.store = call[c].store /\ w.read = x /\ w.res = call[c].res
    BY <1>0, <1>2, CallFacts, ZenonT(60) DEF Call, Phases
  <1> HIDE DEF w
  <1>5. RowOK(c, w)
    BY <1>0, <1>4, CallFacts, CollectionAssumption, Zenon DEF RowOK, Calls
  <1>6. Holding(w) <=> Holding(call[c])
    BY <1>0, <1>4, Zenon DEF Holding
  <1>7. StoreOK(c, w)
    BY <1>0, <1>4, <1>6, CallFacts, Zenon DEF StoreOK
  <1>8. Cardinality(Failures) \in Nat
    BY Counts, Zenon DEF CollectionInv, BreakerInv
  <1>9. x.failures <= Cardinality(Failures) + 1
    BY <1>0, <1>2, <1>8, CallFacts DEF Circuits
  <1>10. ReadOK(w)
    BY <1>2, <1>4, <1>9, Zenon DEF ReadOK
  <1>11. QED
    BY <1>0, <1>3, <1>4, <1>5, <1>6, <1>7, <1>10, QuietStep, CallFacts, Zenon

\* A replay reads a payload that a stored collection names, or quarantines a damaged one.
LEMMA ReplayReadStep ==
    ASSUME CollectionInv, NEW r \in Replays, NEW o \in Calls, NEW res \in DecodeResults,
           ReplayRead(r, o, res)
    PROVE  CollectionInv'
  <1> DEFINE w == [call[r] EXCEPT !.pc = "decoded", !.res = res, !.orig = o]
  <1>0. r \in Calls /\ call[r].pc = "idle" /\ res \in Result
        /\ UNCHANGED <<clock, circuit, coll, snap>>
    BY ResultsTyped DEF Calls, ReplayRead
  <1>1. CASE Returns(r)
    <2>1. coll[o].key \in Calls
      BY DEF ReplayRead, CollectionInv, TypeOK, Coll
    <2>2. payload' = payload \/ payload' = [payload EXCEPT ![coll[o].key] = "quarantined"]
      BY DEF ReplayRead
    <2>3. /\ payload' \in [Calls -> {"none", "intact", "corrupt", "quarantined"}]
          /\ \A d \in Calls : payload[d] # "none" => payload'[d] # "none"
      BY <1>0, <2>1, <2>2, CallFacts, Zenon
    <2>4. QED
      BY <1>0, <1>1, <2>3, ReturnsStep
  <1>2. CASE ~Returns(r)
    <2>1. call' = [call EXCEPT ![r] = w] /\ UNCHANGED payload
      BY <1>0, <1>2, CallFacts, Zenon DEF ReplayRead
    <2>2. w \in Call /\ w.pc = "decoded" /\ w.saved = call[r].saved /\ w.orig = o
          /\ w.store = call[r].store /\ w.read = call[r].read
      BY <1>0, CallFacts, ZenonT(60) DEF Call, Phases
    <2> HIDE DEF w
    <2>3. ~Holding(w) /\ RowOK(r, w)
      BY <1>0, <2>2, CallFacts, CollectionAssumption, Zenon DEF RowOK, Holding
    <2>4. call[r].store = {}
      BY <1>0, CallFacts, Zenon DEF StoreOK, Holding
    <2>5. StoreOK(r, w) /\ ReadOK(w)
      BY <1>0, <2>2, <2>3, <2>4, CallFacts, Zenon DEF StoreOK, ReadOK
    <2>6. QED
      BY <1>0, <2>1, <2>2, <2>3, <2>5, QuietStep, CallFacts, Zenon
  <1>3. QED
    BY <1>1, <1>2

\* A transaction that is rolled back leaves the tables as they were.
LEMMA AbortStep ==
    ASSUME CollectionInv, NEW c \in Calls, Abort(c)
    PROVE  CollectionInv'
  BY ReturnsStep, CallFacts DEF Abort

-----------------------------------------------------------------------------
(* Steps that commit a row.                                                *)

\* A call commits its row, and inserts the snapshots it counts: they are new, the row
\* is what its status says, and no open transaction is in the way.
Commits(c, row, loc, issued, store) ==
    /\ row.loc = loc /\ row.issued = issued /\ row.stored = Cardinality(store)
    /\ \A t \in store : snap[<<loc, issued, t>>] = Nobody
    /\ row.status # "absent"
    /\ c \in Replays => row.status \notin Usable
    /\ c \in Replays /\ store # {} => row.status = "deduplicated"
    /\ c \in Collects /\ store # {} => row.status \in Usable
    /\ row.status \in Usable => ~UsableExists(loc, issued)
    /\ row.status \in Usable /\ row.stored + row.invalid < row.received =>
         Replayed(loc, issued)
    /\ c \in Collects /\ row.status = "deduplicated" => UsableExists(loc, issued)
    /\ row.key # Nobody => payload[row.key] # "none"
    /\ row.status \in Usable \/ store # {} =>
         \A d \in Collects \ {c} : ~(Holding(call[d]) /\ SameKey(d, loc, issued))

Writes(c, row, loc, issued, store) ==
    /\ coll[c] = NoColl
    /\ c \in Calls /\ row \in Coll /\ loc \in Locations /\ issued \in Issues
    /\ store \in SUBSET Targets
    /\ Commits(c, row, loc, issued, store)
    /\ coll' = [coll EXCEPT ![c] = row]
    /\ Owned(c, loc, issued, store)

\* The rows of the other calls stay, and the call that commits had none and owned
\* no snapshot.
LEMMA RowFrame ==
    ASSUME CollectionInv, NEW c, NEW row, NEW loc, NEW issued, NEW store,
           Writes(c, row, loc, issued, store)
    PROVE  /\ coll' \in [Calls -> Coll] /\ coll'[c] = row
           /\ \A d \in Calls \ {c} : coll'[d] = coll[d]
           /\ coll[c].status = "absent" /\ coll[c].stored = 0
           /\ \A k \in SnapKeys : snap[k] # c
           /\ snap' \in [SnapKeys -> Calls \cup {Nobody}]
           /\ \A k \in SnapKeys :
                snap'[k] = IF k[1] = loc /\ k[2] = issued /\ k[3] \in store
                           THEN c ELSE snap[k]
  <1> /\ c \in Calls /\ row \in Coll /\ loc \in Locations /\ issued \in Issues
      /\ store \in SUBSET Targets
    BY DEF Writes
  <1>1. /\ coll' \in [Calls -> Coll] /\ coll'[c] = row
        /\ \A d \in Calls \ {c} : coll'[d] = coll[d]
    BY DEF Writes, CollectionInv, TypeOK
  <1>2. coll[c].status = "absent" /\ coll[c].stored = 0
    BY NoCollTyped DEF Writes
  <1>3. ASSUME NEW k \in SnapKeys, snap[k] = c
        PROVE  FALSE
    <2>1. c # Nobody
      BY CollectionAssumption
    <2>2. coll[c].status \in Usable \cup {"deduplicated"}
      BY <1>3, <2>1, Zenon DEF CollectionInv, TablesInv, SnapOK, Calls
    <2>3. QED
      BY <1>2, <2>2, Zenon DEF Usable
  <1>4. /\ snap' \in [SnapKeys -> Calls \cup {Nobody}]
        /\ \A k \in SnapKeys :
             snap'[k] = IF k[1] = loc /\ k[2] = issued /\ k[3] \in store
                        THEN c ELSE snap[k]
    BY Zenon DEF Writes, Owned, CollectionInv, TypeOK
  <1>5. QED
    BY <1>1, <1>2, <1>3, <1>4

\* Every snapshot has its owner, and every owner counts its snapshots.
LEMMA RowSnaps ==
    ASSUME Counting, CollectionInv, NEW c, NEW row, NEW loc, NEW issued, NEW store,
           Writes(c, row, loc, issued, store)
    PROVE  /\ (\A k \in SnapKeys : SnapOK(k))'
           /\ (\A d \in Calls : IsFiniteSet(Own(d)) /\ coll[d].stored = Cardinality(Own(d)))'
  <1> /\ c \in Calls /\ row \in Coll /\ loc \in Locations /\ issued \in Issues
      /\ store \in SUBSET Targets
    BY DEF Writes
  <1>0. /\ coll'[c] = row /\ \A d \in Calls \ {c} : coll'[d] = coll[d]
        /\ \A k \in SnapKeys : snap[k] # c
        /\ snap \in [SnapKeys -> Calls \cup {Nobody}]
        /\ \A k \in SnapKeys :
             snap'[k] = IF k[1] = loc /\ k[2] = issued /\ k[3] \in store
                        THEN c ELSE snap[k]
    BY RowFrame DEF CollectionInv, TypeOK
  <1>1. ASSUME NEW k \in SnapKeys
        PROVE  SnapOK(k)'
    <2>1. CASE k[1] = loc /\ k[2] = issued /\ k[3] \in store
      <3>1. snap'[k] = c
        BY <1>0, <2>1
      <3>2. row.loc = k[1] /\ row.issued = k[2]
        BY <2>1, Zenon DEF Writes, Commits
      <3>3. /\ c \in Collects => row.status \in Usable
            /\ c \in Replays => row.status = "deduplicated"
        BY <2>1, Zenon DEF Writes, Commits
      <3>4. QED
        BY <1>0, <3>1, <3>2, <3>3, Zenon DEF SnapOK
    <2>2. CASE ~(k[1] = loc /\ k[2] = issued /\ k[3] \in store)
      <3>1. snap'[k] = snap[k] /\ snap[k] # c /\ snap[k] \in Calls \cup {Nobody}
        BY <1>0, <2>2, Zenon
      <3>2. SnapOK(k)
        BY Zenon DEF CollectionInv, TablesInv
      <3>3. QED
        BY <1>0, <3>1, <3>2, ZenonT(60) DEF SnapOK
    <2>3. QED
      BY <2>1, <2>2, Zenon
  <1>2. \A k \in SnapKeys : k = <<k[1], k[2], k[3]>>
    BY DEF SnapKeys
  <1>3. IsFiniteSet(store)
    BY Counts, CollectionAssumption
  <1>4. IsFiniteSet(Own(c)') /\ row.stored = Cardinality(Own(c)')
    <2> DEFINE keys == KeysOf(loc, issued, store)
    <2>1. \A k \in SnapKeys : snap'[k] = c <=> k[1] = loc /\ k[2] = issued /\ k[3] \in store
      BY <1>0, Zenon
    <2>2. keys \subseteq SnapKeys
      BY DEF SnapKeys, KeysOf
    <2>3. \A k \in SnapKeys : k \in keys <=> k[1] = loc /\ k[2] = issued /\ k[3] \in store
      BY <1>2 DEF KeysOf
    <2>4. Own(c)' = keys
      BY <2>1, <2>2, <2>3 DEF Own
    <2>5. IsFiniteSet(keys) /\ Cardinality(keys) = Cardinality(store)
      BY <1>3, Counts
    <2> HIDE DEF keys
    <2>6. QED
      BY <2>4, <2>5, Zenon DEF Writes, Commits
  <1>5. ASSUME NEW d \in Calls \ {c}
        PROVE  Own(d)' = Own(d)
    <2>1. ASSUME NEW k \in SnapKeys
          PROVE  snap'[k] = d <=> snap[k] = d
      <3>1. CASE k[1] = loc /\ k[2] = issued /\ k[3] \in store
        <4>1. k = <<loc, issued, k[3]>>
          BY <1>2, <3>1
        <4>2. snap[k] = Nobody
          BY <3>1, <4>1, Zenon DEF Writes, Commits
        <4>3. QED
          BY <1>0, <3>1, <4>2, CollectionAssumption, Zenon
      <3>2. CASE ~(k[1] = loc /\ k[2] = issued /\ k[3] \in store)
        BY <1>0, <3>2, Zenon
      <3>3. QED
        BY <3>1, <3>2
    <2>2. QED
      BY <2>1, Zenon DEF Own
  <1>6. (\A d \in Calls : IsFiniteSet(Own(d)) /\ coll[d].stored = Cardinality(Own(d)))'
    BY <1>0, <1>4, <1>5, Zenon DEF CollectionInv, TablesInv
  <1>7. QED
    BY <1>1, <1>6

\* What was committed stays; what is usable now was, or is the new row.
LEMMA RowKnown ==
    ASSUME CollectionInv, NEW c, NEW row, NEW loc, NEW issued, NEW store,
           Writes(c, row, loc, issued, store)
    PROVE  /\ \A l, i : UsableExists(l, i) => UsableExists(l, i)'
           /\ \A l, i : UsableExists(l, i)' =>
                UsableExists(l, i) \/ (row.status \in Usable /\ l = loc /\ i = issued)
           /\ \A l, i : Replayed(l, i) => Replayed(l, i)'
           /\ Failures' = IF c \in Collects /\ row.status \in {"failed", "timeout"}
                          THEN Failures \cup {c} ELSE Failures
           /\ c \notin Failures
  <1> /\ c \in Calls /\ row \in Coll /\ loc \in Locations /\ issued \in Issues
      /\ store \in SUBSET Targets
    BY DEF Writes
  <1>0. /\ coll'[c] = row /\ \A d \in Calls \ {c} : coll'[d] = coll[d]
        /\ coll[c].status = "absent" /\ coll[c].stored = 0
    BY RowFrame
  <1>5a. row.loc = loc /\ row.issued = issued
    BY Zenon DEF Writes, Commits
  <1>1. \A l, i : UsableExists(l, i) => UsableExists(l, i)'
    BY <1>0, Zenon DEF UsableExists, Usable
  <1>2. \A l, i : UsableExists(l, i)' =>
          UsableExists(l, i) \/ (row.status \in Usable /\ l = loc /\ i = issued)
    BY <1>0, <1>5a DEF UsableExists
  <1>3. \A l, i : Replayed(l, i) => Replayed(l, i)'
    BY <1>0 DEF Replayed, Calls
  <1>4. c \notin Failures
    BY <1>0, Zenon DEF Failures
  <1>5. Failures' = IF c \in Collects /\ row.status \in {"failed", "timeout"}
                    THEN Failures \cup {c} ELSE Failures
    BY <1>0, Zenon DEF Failures, Calls
  <1>6. QED
    BY <1>1, <1>2, <1>3, <1>4, <1>5

\* The tables stay sound: one usable row per key, whose missing snapshots were replayed.
LEMMA RowTables ==
    ASSUME Counting, CollectionInv, NEW c, NEW row, NEW loc, NEW issued, NEW store,
           Writes(c, row, loc, issued, store), UNCHANGED payload
    PROVE  TablesInv'
  <1> /\ c \in Calls /\ row \in Coll /\ loc \in Locations /\ issued \in Issues
      /\ store \in SUBSET Targets
    BY DEF Writes
  <1>0. coll'[c] = row /\ \A d \in Calls \ {c} : coll'[d] = coll[d]
    BY RowFrame, Zenon
  <1>1. Commits(c, row, loc, issued, store)
    BY DEF Writes
  <1>2. OneUsablePerKey'
    <2> SUFFICES ASSUME NEW d \in Calls, NEW e \in Calls, d # e,
                        coll'[d].status \in Usable, coll'[e].status \in Usable,
                        coll'[d].loc = coll'[e].loc, coll'[d].issued = coll'[e].issued
                 PROVE  FALSE
      BY DEF OneUsablePerKey
    <2>1. CASE d # c /\ e # c
      <3>1. coll'[d] = coll[d] /\ coll'[e] = coll[e]
        BY <1>0, <2>1, Zenon
      <3>2. OneUsablePerKey
        BY Zenon DEF CollectionInv, TablesInv
      <3>3. QED
        BY <3>1, <3>2, Zenon DEF OneUsablePerKey
    <2>2. CASE d = c
      BY <1>0, <1>1, <2>2, Zenon DEF Commits, UsableExists
    <2>3. CASE e = c
      BY <1>0, <1>1, <2>3, Zenon DEF Commits, UsableExists
    <2>4. QED
      BY <2>1, <2>2, <2>3
  <1>3. (\A d \in Collects : coll[d].status = "deduplicated" =>
                             UsableExists(coll[d].loc, coll[d].issued))'
    <2> SUFFICES ASSUME NEW d \in Collects, coll'[d].status = "deduplicated",
                        NEW l, NEW i, l = coll'[d].loc, i = coll'[d].issued
                 PROVE  UsableExists(l, i)'
      BY DEF UsableExists
    <2>1. CASE d = c
      BY <1>0, <1>1, <2>1, RowKnown, Zenon DEF Commits
    <2>2. CASE d # c
      <3>1. d \in Calls /\ coll'[d] = coll[d]
        BY <1>0, <2>2, Zenon DEF Calls
      <3>2. UsableExists(l, i)
        BY <3>1, Zenon DEF CollectionInv, TablesInv
      <3>3. QED
        BY <3>1, <3>2, RowKnown, Zenon
    <2>3. QED
      BY <2>1, <2>2, Zenon
  <1>4. UsableOwnsItsForecast'
    <2> SUFFICES ASSUME NEW d \in Calls, coll'[d].status \in Usable,
                        coll'[d].stored + coll'[d].invalid < coll'[d].received,
                        NEW l, NEW i, l = coll'[d].loc, i = coll'[d].issued
                 PROVE  Replayed(l, i)'
      BY DEF UsableOwnsItsForecast, Replayed
    <2>1. CASE d = c
      BY <1>0, <1>1, <2>1, RowKnown, Zenon DEF Commits
    <2>2. CASE d # c
      <3>1. coll'[d] = coll[d]
        BY <1>0, <2>2, Zenon
      <3>2. Replayed(l, i)
        BY <3>1, ZenonT(60) DEF CollectionInv, TablesInv, UsableOwnsItsForecast, Replayed
      <3>3. QED
        BY <3>1, <3>2, RowKnown, Zenon
    <2>3. QED
      BY <2>1, <2>2, Zenon
  <1>5. PayloadBeforeRow'
    BY <1>0, <1>1, Zenon DEF Commits, CollectionInv, TablesInv, PayloadBeforeRow
  <1>6. QED
    BY <1>2, <1>3, <1>4, <1>5, RowSnaps, Zenon DEF TablesInv

\* The breaker counts the new row if it is a failure.
LEMMA RowFailures ==
    ASSUME Counting, CollectionInv, NEW c, NEW row, NEW loc, NEW issued, NEW store,
           Writes(c, row, loc, issued, store)
    PROVE  /\ IsFiniteSet(Failures')
           /\ Cardinality(Failures) \in Nat /\ Cardinality(Failures') \in Nat
           /\ Cardinality(Failures) <= Cardinality(Failures')
           /\ Cardinality(Failures') =
                IF c \in Collects /\ row.status \in {"failed", "timeout"}
                THEN Cardinality(Failures) + 1 ELSE Cardinality(Failures)
  <1> /\ c \in Calls /\ row \in Coll /\ loc \in Locations /\ issued \in Issues
      /\ store \in SUBSET Targets
    BY DEF Writes
  <1>1. IsFiniteSet(Failures)
    BY Zenon DEF CollectionInv, BreakerInv
  <1>2. c \notin Failures
        /\ Failures' = IF c \in Collects /\ row.status \in {"failed", "timeout"}
                       THEN Failures \cup {c} ELSE Failures
    BY RowKnown
  <1>3. IsFiniteSet(Failures \cup {c})
        /\ Cardinality(Failures \cup {c}) = Cardinality(Failures) + 1
    BY <1>1, <1>2, Counts
  <1>4. Cardinality(Failures) \in Nat
    BY <1>1, Counts
  <1>5. QED
    BY <1>1, <1>2, <1>3, <1>4

\* What another call knows stays true: a transaction that holds entries sees to it that
\* nobody commits under them.
LEMMA RowOthers ==
    ASSUME Counting, CollectionInv, NEW c, NEW row, NEW loc, NEW issued, NEW store,
           Writes(c, row, loc, issued, store), NEW d \in Calls \ {c},
           call'[d] = call[d]
    PROVE  (RowOK(d, call[d]) /\ StoreOK(d, call[d]) /\ ReadOK(call[d]))'
  <1> /\ c \in Calls /\ row \in Coll /\ loc \in Locations /\ issued \in Issues
      /\ store \in SUBSET Targets
    BY Zenon DEF Writes
  <1>0. /\ coll'[d] = coll[d]
        /\ call[d] \in Call /\ RowOK(d, call[d]) /\ StoreOK(d, call[d]) /\ ReadOK(call[d])
    BY RowFrame, CallFacts, Zenon
  <1>1. RowOK(d, call[d])'
    BY <1>0, RowKnown, Zenon DEF RowOK
  <1>2. ReadOK(call[d])'
    <2>0. /\ Cardinality(Failures) \in Nat /\ Cardinality(Failures') \in Nat
          /\ Cardinality(Failures) <= Cardinality(Failures')
      BY RowFailures, Zenon
    <2>1. \A n \in Nat : n <= Cardinality(Failures) => n <= Cardinality(Failures')
      BY <2>0
    <2>2. \A n \in Nat : n <= Cardinality(Failures) + 1 => n <= Cardinality(Failures') + 1
      BY <2>0
    <2>3. call[d].read.failures \in Nat
      BY <1>0, Zenon DEF Call, Circuits
    <2>4. QED
      BY <1>0, <2>1, <2>2, <2>3, Zenon DEF ReadOK, Consistent
  <1>3. StoreOK(d, call[d])'
    <2>1. CASE ~(d \in Collects /\ Holding(call[d]))
      BY <1>0, <2>1, Zenon DEF StoreOK, Holding
    <2>2. CASE d \in Collects /\ Holding(call[d])
      <3> DEFINE l == LocationOf[d]
                 i == IssuedAt(call[d].now)
      <3>1. l = loc /\ i = issued => row.status \notin Usable /\ store = {}
        BY <2>2, Zenon DEF Writes, Commits, SameKey
      <3>2. ~UsableExists(l, i)'
        <4>1. ~UsableExists(l, i)
          BY <1>0, <2>2, Zenon DEF StoreOK
        <4>2. UsableExists(l, i)' =>
                UsableExists(l, i) \/ (row.status \in Usable /\ l = loc /\ i = issued)
          BY RowKnown
        <4>3. QED
          BY <3>1, <4>1, <4>2, Zenon
      <3>3. l \in Locations /\ i \in Issues /\ call[d].store \subseteq Targets
        BY <1>0, <2>2, IssuedTyped, CollectionAssumption, Zenon DEF Call
      <3>4. ASSUME NEW t \in call[d].store
            PROVE  snap'[<<l, i, t>>] = Nobody
        <4> DEFINE k == <<l, i, t>>
        <4>1. k \in SnapKeys /\ k[1] = l /\ k[2] = i /\ k[3] = t
          BY <3>3, Zenon DEF SnapKeys
        <4>2. snap[k] = Nobody
          BY <1>0, <2>2, Zenon DEF StoreOK
        <4>3. ~(k[1] = loc /\ k[2] = issued /\ k[3] \in store)
          BY <3>1, <4>1, Zenon
        <4>4. snap'[k] = IF k[1] = loc /\ k[2] = issued /\ k[3] \in store
                         THEN c ELSE snap[k]
          BY <4>1, RowFrame
        <4>5. QED
          BY <4>2, <4>3, <4>4, Zenon
      <3>5. call[d].store # call[d].res.valid => Replayed(l, i)'
        BY <1>0, <2>2, RowKnown, Zenon DEF StoreOK
      <3>6. call[d].store \subseteq call[d].res.valid
        BY <1>0, Zenon DEF StoreOK
      <3>7. QED
        BY <2>2, <3>2, <3>4, <3>5, <3>6, Zenon DEF StoreOK, Holding
    <2>3. QED
      BY <2>1, <2>2, Zenon
  <1>4. QED
    BY <1>1, <1>2, <1>3, Zenon

\* A call that commits its row and returns keeps the invariant.
LEMMA RowStep ==
    ASSUME Counting, CollectionInv, NEW c, NEW row, NEW loc, NEW issued, NEW store,
           Writes(c, row, loc, issued, store), Returns(c), UNCHANGED <<clock, payload>>,
           circuit' \in Circuits, Consistent(circuit'),
           circuit'.failures <= Cardinality(Failures')
    PROVE  CollectionInv'
  <1> /\ c \in Calls /\ row \in Coll /\ loc \in Locations /\ issued \in Issues
      /\ store \in SUBSET Targets
    BY DEF Writes
  <1> DEFINE w == [NoCall EXCEPT !.pc = "done"]
  <1>1. call' = [call EXCEPT ![c] = w]
    BY DEF Returns
  <1>2. /\ w \in Call /\ w.pc = "done" /\ w.saved = FALSE /\ w.store = {}
        /\ w.res = NoResult /\ w.read = NewProviderCircuit
    BY NoCallTyped, Zenon
  <1> HIDE DEF w
  <1>3. call'[c] = w /\ \A d \in Calls \ {c} : call'[d] = call[d]
    BY <1>1, CallFacts
  <1>4. TypeOK'
    BY <1>1, <1>2, RowFrame, Zenon DEF CollectionInv, TypeOK
  <1>5. TablesInv'
    BY RowTables
  <1>6. BreakerInv'
    BY RowFailures DEF BreakerInv, Consistent
  <1>7. (RowOK(c, call[c]) /\ StoreOK(c, call[c]))'
    BY <1>2, <1>3, Zenon DEF RowOK, Holding, StoreOK
  <1>8. ReadOK(call[c])'
    BY <1>2, <1>3, NewCircuitTyped, Zenon DEF ReadOK, Consistent
  <1>9. \A d \in Calls \ {c} : (RowOK(d, call[d]) /\ StoreOK(d, call[d]) /\ ReadOK(call[d]))'
    BY <1>3, RowOthers, Zenon
  <1>10. (\A d \in Calls : call[d].saved => payload[d] # "none")'
    BY <1>2, <1>3, Zenon DEF CollectionInv
  <1>11. Exclusive'
    <2>1. ~Holding(w)
      BY <1>2, Zenon DEF Holding
    <2>2. QED
      BY <1>3, <2>1, Zenon DEF CollectionInv, Exclusive, Holding, SameKey, Calls
  <1>12. QED
    BY <1>4, <1>5, <1>6, <1>7, <1>8, <1>9, <1>10, <1>11, Zenon DEF CollectionInv

\* What a collection row says: it has its type, and counts as stored all it received
\* that was valid only if it stored all of it.
RowSays(row, status, loc, issued, res, store, key) ==
    /\ row \in Coll
    /\ row.status = status /\ row.loc = loc /\ row.issued = issued
    /\ row.stored = Cardinality(store) /\ row.key = key
    /\ row.stored + row.invalid < row.received => store # res.valid
    /\ Cardinality(res.valid) + res.invalid \in Nat
    /\ store \subseteq Targets

\* CollRow builds such a row.
LEMMA CollRowTyped ==
    ASSUME Counting, NEW status, NEW loc, NEW issued, NEW res, NEW store, NEW key,
           status \in Statuses, loc \in Locations, issued \in Issues,
           res \in Result, store \subseteq res.valid, key \in Calls \cup {Nobody}
    PROVE  RowSays(CollRow(status, loc, issued, res, store, key),
                   status, loc, issued, res, store, key)
  <1> DEFINE row == CollRow(status, loc, issued, res, store, key)
  <1>1. res.valid \subseteq Targets /\ res.invalid \in Nat
    BY CollectionAssumption DEF Result
  <1>2. IsFiniteSet(res.valid)
    BY <1>1, Counts, CollectionAssumption, Zenon
  <1>3. IsFiniteSet(store) /\ Cardinality(store) <= Cardinality(res.valid)
    BY <1>2, Counts, Zenon
  <1>4. Cardinality(store) \in Nat /\ Cardinality(res.valid) \in Nat
    BY <1>2, <1>3, Counts, Zenon
  <1>5. /\ Cardinality(res.valid) + res.invalid \in Nat
        /\ Cardinality(res.valid) - Cardinality(store) \in Nat
    BY <1>1, <1>3, <1>4
  <1>6. row \in Coll
    BY <1>1, <1>4, <1>5, Zenon DEF CollRow, Coll
  <1>7. /\ row.status = status /\ row.loc = loc /\ row.issued = issued
        /\ row.stored = Cardinality(store) /\ row.key = key
        /\ row.received = Cardinality(res.valid) + res.invalid
        /\ row.invalid = res.invalid
    BY Zenon DEF CollRow
  <1> HIDE DEF row
  <1>8. row.stored + row.invalid < row.received => store # res.valid
    BY <1>1, <1>4, <1>7
  <1>9. store \subseteq Targets
    BY <1>1
  <1>10. RowSays(row, status, loc, issued, res, store, key)
    BY <1>5, <1>6, <1>7, <1>8, <1>9, Zenon DEF RowSays
  <1>11. QED
    BY <1>10, Zenon DEF row

\* Commit: a usable row's transaction held its entries, so it is the only one; the
\* failure its copy of the breaker counts is committed with it.
LEMMA CommitStep ==
    ASSUME Counting, CollectionInv, NEW c \in Collects, Commit(c)
    PROVE  CollectionInv'
  <1> DEFINE res == call[c].res
             loc == LocationOf[c]
             issued == IssuedAt(call[c].now)
             store == call[c].store
             key == IF call[c].saved THEN c ELSE Nobody
             status == Classify(res)
             row == CollRow(status, loc, issued, res, store, key)
  <1>0. /\ c \in Calls /\ c \notin Replays /\ call[c].pc = "committing"
        /\ UNCHANGED <<clock, payload>> /\ Returns(c)
    BY CollectionAssumption, Zenon DEF Calls, Commit
  <1>1. /\ call[c] \in Call /\ RowOK(c, call[c]) /\ StoreOK(c, call[c]) /\ ReadOK(call[c])
        /\ call[c].saved => payload[c] # "none"
    BY <1>0, CallFacts, Zenon
  <1>2. loc \in Locations /\ issued \in Issues /\ res \in Result /\ res.outcome \in Outcomes
        /\ store \subseteq res.valid /\ res.valid \subseteq Targets
    BY <1>1, IssuedTyped, CollectionAssumption, Zenon DEF Call, StoreOK, Result
  <1>3. /\ status \in Statuses /\ status \notin {"absent", "deduplicated"}
        /\ status \in Usable <=> res.outcome \in Usable
        /\ status \in Usable <=> Holding(call[c])
        /\ res.outcome \in {"failed", "timeout"} => status \in {"failed", "timeout"}
    BY <1>0, <1>2, Zenon DEF Classify, Statuses, Outcomes, Usable, Holding
  <1>4. key \in Calls \cup {Nobody} /\ (key # Nobody => payload[key] # "none")
    BY <1>0, <1>1, Zenon
  <1>5. coll' = [coll EXCEPT ![c] = row] /\ Owned(c, loc, issued, store)
    BY Zenon DEF Commit
  <1> HIDE DEF key, status
  <1>5a. RowSays(row, status, loc, issued, res, store, key)
    BY <1>2, <1>3, <1>4, CollRowTyped, Zenon
  <1> HIDE DEF row
  <1>6. /\ row \in Coll /\ store \subseteq Targets
        /\ row.status = status /\ row.loc = loc /\ row.issued = issued
        /\ row.stored = Cardinality(store) /\ row.key = key
        /\ row.stored + row.invalid < row.received => store # res.valid
    BY <1>5a, Zenon DEF RowSays
  <1>7. Holding(call[c]) =>
          \A d \in Collects \ {c} : ~(Holding(call[d]) /\ SameKey(d, loc, issued))
    BY Zenon DEF CollectionInv, Exclusive
  <1>8. Commits(c, row, loc, issued, store)
    BY <1>0, <1>1, <1>3, <1>4, <1>6, <1>7, Zenon DEF Commits, StoreOK
  <1>9. Writes(c, row, loc, issued, store)
    BY <1>0, <1>1, <1>2, <1>5, <1>6, <1>8, Zenon DEF Writes, RowOK
  <1>10. /\ circuit' = IF res.outcome \in {"rate_limited", "auth_failed"}
                       THEN circuit ELSE call[c].read
         /\ circuit \in Circuits /\ Consistent(circuit)
         /\ circuit.failures <= Cardinality(Failures)
    BY <1>0, CallFacts, Zenon DEF Commit
  <1>11. circuit' \in Circuits /\ Consistent(circuit')
    BY <1>1, <1>10, Zenon DEF Call, ReadOK
  <1>12. /\ Cardinality(Failures) \in Nat /\ Cardinality(Failures') \in Nat
         /\ Cardinality(Failures') =
              IF c \in Collects /\ row.status \in {"failed", "timeout"}
              THEN Cardinality(Failures) + 1 ELSE Cardinality(Failures)
    BY <1>9, RowFailures, Zenon
  <1>13. circuit'.failures <= Cardinality(Failures')
    <2>1. circuit.failures \in Nat /\ call[c].read.failures \in Nat
      BY <1>1, <1>10, Zenon DEF Call, Circuits
    <2>2. CASE res.outcome \in {"rate_limited", "auth_failed"}
      BY <1>10, <1>12, <2>1, <2>2
    <2>3. CASE res.outcome \in Usable
      <3>1. circuit'.failures = 0
        BY <1>0, <1>1, <1>10, <2>3, Zenon DEF ReadOK, Usable
      <3>2. QED
        BY <1>12, <3>1
    <2>4. CASE res.outcome \in {"failed", "timeout"}
      <3>1. circuit'.failures <= Cardinality(Failures) + 1
        BY <1>0, <1>1, <1>10, <2>4, Zenon DEF ReadOK
      <3>2. QED
        BY <1>3, <1>6, <1>12, <2>4, <3>1, Zenon
    <2>5. QED
      BY <1>2, <2>2, <2>3, <2>4, Zenon DEF Outcomes
  <1>14. QED
    BY <1>0, <1>9, <1>11, <1>13, RowStep, Zenon

\* storeDeduplicated stores nothing, and the usable row is there.
LEMMA StoreDeduplicatedStep ==
    ASSUME Counting, CollectionInv, NEW c \in Collects, StoreDeduplicated(c)
    PROVE  CollectionInv'
  <1> DEFINE res == call[c].res
             loc == LocationOf[c]
             issued == IssuedAt(call[c].now)
             store == {}
             old == CollRow("deduplicated", loc, issued, res, store, Nobody)
             row == [old EXCEPT !.dedup = Cardinality(res.valid) + res.invalid, !.invalid = 0]
  <1>0. /\ c \in Calls /\ c \notin Replays /\ call[c].pc = "deduplicating"
        /\ UNCHANGED <<clock, circuit, snap, payload>> /\ Returns(c)
    BY CollectionAssumption DEF Calls, StoreDeduplicated
  <1>1. call[c] \in Call /\ RowOK(c, call[c])
    BY <1>0, CallFacts
  <1>2. loc \in Locations /\ issued \in Issues /\ res \in Result /\ store \subseteq res.valid
    BY <1>1, IssuedTyped, CollectionAssumption, Zenon DEF Call
  <1>3. coll' = [coll EXCEPT ![c] = row]
    BY DEF StoreDeduplicated
  <1>4. Owned(c, loc, issued, store)
    BY <1>0, Zenon DEF Owned, CollectionInv, TypeOK
  <1>5. "deduplicated" \in Statuses
    BY DEF Statuses
  <1> HIDE DEF store
  <1>5a. RowSays(old, "deduplicated", loc, issued, res, store, Nobody)
    BY <1>2, <1>5, CollRowTyped, Zenon
  <1> HIDE DEF old
  <1>6. /\ old \in Coll /\ store \subseteq Targets
        /\ old.status = "deduplicated" /\ old.loc = loc /\ old.issued = issued
        /\ old.stored = Cardinality(store) /\ old.key = Nobody
        /\ Cardinality(res.valid) + res.invalid \in Nat
    BY <1>5a, Zenon DEF RowSays
  <1>7. /\ row \in Coll /\ row.status = "deduplicated" /\ row.loc = loc /\ row.issued = issued
        /\ row.stored = Cardinality(store) /\ row.key = Nobody
    BY <1>6, Zenon DEF Coll
  <1> HIDE DEF row
  <1>8. UsableExists(loc, issued)
    BY <1>0, <1>1, Zenon DEF RowOK
  <1>9. Commits(c, row, loc, issued, store)
    BY <1>0, <1>7, <1>8, Zenon DEF Commits, Usable, store
  <1>10. Writes(c, row, loc, issued, store)
    BY <1>0, <1>1, <1>2, <1>3, <1>4, <1>6, <1>7, <1>9, Zenon DEF Writes, RowOK
  <1>11. circuit' \in Circuits /\ Consistent(circuit')
         /\ circuit'.failures <= Cardinality(Failures')
    <2>1. /\ Cardinality(Failures) \in Nat /\ Cardinality(Failures') \in Nat
          /\ Cardinality(Failures) <= Cardinality(Failures')
      BY <1>10, RowFailures, Zenon
    <2>2. circuit.failures \in Nat
      BY <1>0, CallFacts DEF Circuits
    <2>3. QED
      BY <1>0, <2>1, <2>2, CallFacts
  <1>12. QED
    BY <1>0, <1>10, <1>11, RowStep, Zenon

\* Replay: its row is never usable; what it stores is new, and no open transaction is
\* about to store it.
LEMMA ReplayStoreStep ==
    ASSUME Counting, CollectionInv, NEW c \in Replays, ReplayStore(c)
    PROVE  CollectionInv'
  <1> DEFINE res == call[c].res
             o == coll[call[c].orig]
             usable == res.outcome \in Usable
             store == IF usable THEN Fresh(o.loc, o.issued, res.valid) ELSE {}
             status == IF usable THEN "deduplicated" ELSE res.outcome
             row == CollRow(status, o.loc, o.issued, res, store, o.key)
  <1>0. /\ c \in Calls /\ c \notin Collects /\ call[c].pc = "decoded"
        /\ UNCHANGED <<clock, circuit, payload>> /\ Returns(c)
        /\ usable => Holders(o.loc, o.issued) = {}
        /\ coll' = [coll EXCEPT ![c] = row] /\ Owned(c, o.loc, o.issued, store)
    BY CollectionAssumption, Zenon DEF Calls, ReplayStore
  <1>1. call[c] \in Call /\ RowOK(c, call[c])
    BY <1>0, CallFacts, Zenon
  <1>2. call[c].orig \in Calls
    BY <1>0, <1>1, Zenon DEF RowOK
  <1>3. o \in Coll /\ (o.key # Nobody => payload[o.key] # "none")
    BY <1>2, Zenon DEF CollectionInv, TypeOK, TablesInv, PayloadBeforeRow
  <1>4. o.loc \in Locations /\ o.issued \in Issues /\ o.key \in Calls \cup {Nobody}
    BY <1>3, Zenon DEF Coll
  <1>5. res \in Result /\ res.outcome \in Outcomes
    BY <1>1, Zenon DEF Call, Result
  <1>6. /\ status \in Statuses /\ status # "absent" /\ status \notin Usable
        /\ usable => status = "deduplicated"
    BY <1>5, Zenon DEF Statuses, Outcomes, Usable
  <1>7. /\ store \subseteq res.valid /\ (store # {} => usable)
        /\ \A t \in store : snap[<<o.loc, o.issued, t>>] = Nobody
    BY Zenon DEF Fresh
  <1> HIDE DEF o, status, store
  <1>8. RowSays(row, status, o.loc, o.issued, res, store, o.key)
    BY <1>4, <1>5, <1>6, <1>7, CollRowTyped, Zenon
  <1> HIDE DEF row
  <1>9. /\ row \in Coll /\ store \subseteq Targets
        /\ row.status = status /\ row.loc = o.loc /\ row.issued = o.issued
        /\ row.stored = Cardinality(store) /\ row.key = o.key
    BY <1>8, Zenon DEF RowSays
  <1>10. store # {} =>
           \A d \in Collects \ {c} : ~(Holding(call[d]) /\ SameKey(d, o.loc, o.issued))
    BY <1>0, <1>7, Zenon DEF Holders, Holding
  <1>11. Commits(c, row, o.loc, o.issued, store)
    BY <1>0, <1>3, <1>6, <1>7, <1>9, <1>10, Zenon DEF Commits
  <1>12. Writes(c, row, o.loc, o.issued, store)
    BY <1>0, <1>1, <1>4, <1>9, <1>11, Zenon DEF Writes, RowOK
  <1>13. circuit' \in Circuits /\ Consistent(circuit')
         /\ circuit'.failures <= Cardinality(Failures')
    <2>1. /\ Cardinality(Failures) \in Nat /\ Cardinality(Failures') \in Nat
          /\ Cardinality(Failures) <= Cardinality(Failures')
      BY <1>12, RowFailures, Zenon
    <2>2. circuit.failures \in Nat
      BY <1>0, CallFacts, Zenon DEF Circuits
    <2>3. QED
      BY <1>0, <2>1, <2>2, CallFacts
  <1>14. QED
    BY <1>0, <1>12, <1>13, RowStep, Zenon

-----------------------------------------------------------------------------
(* The invariant is inductive.                                             *)

\* Empty tables and a closed breaker satisfy the invariant.
LEMMA Initially ==
    ASSUME Counting, Init
    PROVE  CollectionInv
  <1>1. NoCall \in Call /\ NoCall.pc = "idle" /\ NoCall.saved = FALSE /\ NoCall.store = {}
        /\ NoCall.res = NoResult /\ NoCall.read = NewProviderCircuit
    <2>1. 0 \in 0..MaxClock
      BY CollectionAssumption
    <2>2. QED
      BY <2>1, NoResultTyped, NewCircuitTyped, Zenon DEF NoCall, Call, Phases
  <1>2. \A c \in Calls : coll[c] = NoColl /\ call[c] = NoCall
    BY DEF Init
  <1>3. \A k \in SnapKeys : snap[k] = Nobody
    BY DEF Init
  <1>4. TypeOK
    <2>1. coll \in [Calls -> Coll] /\ call \in [Calls -> Call]
      BY <1>1, NoCollTyped, Zenon DEF Init
    <2>2. /\ circuit \in Circuits
          /\ snap \in [SnapKeys -> Calls \cup {Nobody}]
      BY NewCircuitTyped DEF Init
    <2>3. QED
      BY <2>1, <2>2, CollectionAssumption DEF Init, TypeOK
  <1>5. \A c \in Calls : Own(c) = {}
    BY <1>3, CollectionAssumption DEF Own
  <1>6. \A c \in Calls : IsFiniteSet(Own(c)) /\ coll[c].stored = Cardinality(Own(c))
    BY <1>2, <1>5, NoCollTyped, Zenon DEF Counting
  <1>7. \A c \in Calls : coll[c].status = "absent" /\ coll[c].key = Nobody
    BY <1>2, NoCollTyped
  <1>8. TablesInv
    BY <1>3, <1>6, <1>7, Zenon DEF TablesInv, SnapOK, OneUsablePerKey, UsableOwnsItsForecast,
                            PayloadBeforeRow, Usable, Calls
  <1>9. Failures = {}
    BY <1>7 DEF Failures, Calls
  <1>10. IsFiniteSet(Failures) /\ Cardinality(Failures) = 0
    BY <1>9 DEF Counting
  <1>11. BreakerInv
    BY <1>10, NewCircuitTyped DEF BreakerInv, Init
  <1>12. ~Holding(NoCall)
    BY <1>1 DEF Holding
  <1>13. Exclusive
    BY <1>2, <1>12, Zenon DEF Exclusive, Calls
  <1>14. \A c \in Calls : RowOK(c, NoCall) /\ StoreOK(c, NoCall)
    BY <1>1, <1>2, <1>12, Zenon DEF RowOK, StoreOK
  <1>15. ReadOK(NoCall)
    BY <1>1, NewCircuitTyped, Zenon DEF ReadOK
  <1>16. \A c \in Calls : call[c].saved => payload[c] # "none"
    BY <1>1, <1>2
  <1>17. QED
    BY <1>2, <1>4, <1>8, <1>11, <1>13, <1>14, <1>15, <1>16, Zenon DEF CollectionInv

\* Every step of Collect and Replay, of the clock and of the disk preserves it.
LEMMA Inductive ==
    ASSUME Counting, CollectionInv, [Next]_vars
    PROVE  CollectionInv'
  <1>1. ASSUME NEW c \in Collects, Begin(c) \/ CollectStep(c)
        PROVE  CollectionInv'
    <2>1. CASE Begin(c)
      BY <2>1, BeginStep, Zenon
    <2>2. CASE EvaluateCircuit(c)
      BY <2>2, EvaluateCircuitStep
    <2>3. CASE ProbeUpsert(c)
      BY <2>3, ProbeUpsertStep
    <2>4. CASE \E res \in Answers[c] : Fetch(c, res)
      BY <2>4, FetchStep, Zenon
    <2>5. CASE Lookup(c)
      BY <2>5, LookupStep
    <2>6. CASE \E ok \in BOOLEAN : WritePayload(c, ok)
      BY <2>6, WritePayloadStep
    <2>7. CASE TxStore(c)
      BY <2>7, TxStoreStep
    <2>8. CASE RecordCircuit(c)
      BY <2>8, RecordCircuitStep
    <2>9. CASE Commit(c)
      BY <2>9, CommitStep
    <2>10. CASE StoreDeduplicated(c)
      BY <2>10, StoreDeduplicatedStep
    <2>11. QED
      BY <1>1, <2>1, <2>2, <2>3, <2>4, <2>5, <2>6, <2>7, <2>8, <2>9, <2>10, Zenon DEF CollectStep
  <1>2. ASSUME NEW r \in Replays,
               \/ \E o \in Calls, res \in DecodeResults : ReplayRead(r, o, res)
               \/ ReplayStore(r)
        PROVE  CollectionInv'
    BY <1>2, ReplayReadStep, ReplayStoreStep
  <1>3. ASSUME NEW c \in Calls, Abort(c) \/ Damage(c)
        PROVE  CollectionInv'
    BY <1>3, AbortStep, WorldStep
  <1>4. CASE Tick
    BY <1>4, WorldStep
  <1>5. CASE UNCHANGED vars
    <2>1. UNCHANGED <<coll, snap, circuit, call, payload, clock>>
      BY <1>5 DEF vars
    <2>2. TypeOK' /\ TablesInv' /\ Exclusive'
      BY <2>1, TablesStay, Zenon DEF CollectionInv, TypeOK, Exclusive, Holding, SameKey
    <2>3. BreakerInv'
      BY <2>1, KnownStays, Zenon DEF CollectionInv, BreakerInv, Consistent
    <2>4. \A d \in Calls : RowOK(d, call[d])'
      BY <2>1, KnownStays, Zenon DEF CollectionInv, RowOK
    <2>5. \A d \in Calls : StoreOK(d, call[d])'
      BY <2>1, KnownStays, Zenon DEF CollectionInv, StoreOK, Holding
    <2>6. \A d \in Calls : ReadOK(call[d])'
      BY <2>1, KnownStays, Zenon DEF CollectionInv, ReadOK, Consistent
    <2>7. (\A d \in Calls : call[d].saved => payload[d] # "none")'
      BY <2>1, Zenon DEF CollectionInv
    <2>8. QED
      BY <2>2, <2>3, <2>4, <2>5, <2>6, <2>7, Zenon DEF CollectionInv
  <1>6. QED
    BY <1>1, <1>2, <1>3, <1>4, <1>5 DEF Next

\* The invariant gives what the runs check.
LEMMA InvLineage == CollectionInv => LineageIsWhole
  <1> SUFFICES ASSUME CollectionInv PROVE LineageIsWhole
    OBVIOUS
  <1>1. ASSUME NEW c \in Calls
        PROVE  /\ coll[c].stored = Cardinality({k \in SnapKeys : snap[k] = c})
               /\ \A k \in {j \in SnapKeys : snap[j] = c} :
                    /\ k[1] = coll[c].loc /\ k[2] = coll[c].issued
                    /\ coll[c].status \in Usable \cup {"deduplicated"}
    <2>1. coll[c].stored = Cardinality({k \in SnapKeys : snap[k] = c})
      BY Zenon DEF CollectionInv, TablesInv, Own
    <2>2. c # Nobody
      BY CollectionAssumption
    <2>3. QED
      BY <2>1, <2>2, Zenon DEF CollectionInv, TablesInv, SnapOK, Calls
  <1>2. SnapshotLineage
    BY <1>1, Zenon DEF SnapshotLineage
  <1>3. QED
    BY <1>2, Zenon DEF LineageIsWhole, CollectionInv, TablesInv

-----------------------------------------------------------------------------
(* The counting, and the theorems.                                         *)
INSTANCE FiniteSetTheorems
INSTANCE FunctionTheorems

\* Snapshot keys are as many as their targets.
LEMMA KeysOfTargets ==
    ASSUME NEW loc, NEW issued, NEW store, IsFiniteSet(store)
    PROVE  /\ IsFiniteSet(KeysOf(loc, issued, store))
           /\ Cardinality(KeysOf(loc, issued, store)) = Cardinality(store)
  <1> DEFINE keys == {<<loc, issued, t>> : t \in store}
             f == [t \in store |-> <<loc, issued, t>>]
  <1>1. f \in [store -> keys]
    BY Zenon
  <1>2. \A s, t \in store : f[s] = f[t] => s = t
    OBVIOUS
  <1>3. \A k \in keys : \E t \in store : f[t] = k
    OBVIOUS
  <1> HIDE DEF f, keys
  <1>4. f \in Bijection(store, keys)
    BY <1>1, <1>2, <1>3, Fun_IsBij, Zenon
  <1>5. ExistsBijection(store, keys)
    BY <1>4, Fun_ExistsBij, Zenon
  <1>6. IsFiniteSet(keys) /\ Cardinality(keys) = Cardinality(store)
    BY <1>5, FS_Bijection, Zenon
  <1>7. QED
    BY <1>6, Zenon DEF keys, KeysOf

\* Finite sets are counted so.
LEMMA Counted == Counting
  <1>1. ASSUME NEW S, IsFiniteSet(S)
        PROVE  /\ Cardinality(S) \in Nat /\ (Cardinality(S) = 0 <=> S = {})
               /\ \A T \in SUBSET S : IsFiniteSet(T) /\ Cardinality(T) <= Cardinality(S)
    BY <1>1, FS_CardinalityType, FS_EmptySet, FS_Subset, Zenon
  <1>2. ASSUME NEW S, IsFiniteSet(S), NEW x, x \notin S
        PROVE  IsFiniteSet(S \cup {x}) /\ Cardinality(S \cup {x}) = Cardinality(S) + 1
    BY <1>2, FS_AddElement, Zenon
  <1>3. QED
    BY <1>1, <1>2, KeysOfTargets, FS_EmptySet DEF Counting

\* Collect and Replay: the inductive invariant holds whatever the calls, and however
\* their statements interleave.
THEOREM CollectionInvariant == Spec => []CollectionInv
  <1>1. Init => CollectionInv
    BY Counted, Initially, Zenon
  <1>2. CollectionInv /\ [Next]_vars => CollectionInv'
    BY Counted, Inductive, Zenon
  <1>3. QED
    BY <1>1, <1>2, PTL DEF Spec

\* Collect and Replay: every row and every local variable keeps its type.
THEOREM CollectionTypeCorrect == Spec => []TypeOK
  <1>1. CollectionInv => TypeOK
    BY Zenon DEF CollectionInv
  <1>2. QED
    BY <1>1, CollectionInvariant, PTL

\* FindDedup, the partial unique index and storeDeduplicated together keep one usable
\* collection per location and issuance, and an attempt is recorded as deduplicated only
\* where that collection is committed.
THEOREM DeduplicationSound == Spec => []DedupIsSound
  <1>1. CollectionInv => DedupIsSound
    BY Zenon DEF CollectionInv, TablesInv, DedupIsSound, DedupHasOriginal, RowOK, Calls
  <1>2. QED
    BY <1>1, CollectionInvariant, PTL

\* Complete, InsertSnapshots and the payload write: a collection's row counts and owns
\* exactly its snapshots, a usable one has all it received unless a replay came first,
\* and a payload it names was written.
THEOREM LineageWhole == Spec => []LineageIsWhole
  BY InvLineage, CollectionInvariant, PTL

\* CircuitService writes the breaker's row back from copies that may be stale: it stays a
\* row the breaker gets out of, and counts no failure that is not committed.
THEOREM BreakerSound == Spec => []BreakerIsSound
  <1>1. CollectionInv => BreakerIsSound
    BY Zenon DEF CollectionInv, BreakerInv, BreakerIsSound, CircuitConsistent, Consistent,
           CountedFailuresCommitted, Failures
  <1>2. QED
    BY <1>1, CollectionInvariant, PTL
=============================================================================
