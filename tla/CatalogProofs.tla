---------------------------- MODULE CatalogProofs ----------------------------
(***************************************************************************)
(* The catalog under concurrent commands and seeds, for any number of      *)
(* calls, any sites, names, offsets and settings.                          *)
(***************************************************************************)
EXTENDS Catalog, Integers, TLAPS

KnownLocations == {l \in LocationIds : Known(l)}

\* A call carries the input of its operation.
CallOK(w) ==
    /\ w.pc \in {"lock", "check", "insert"} => w.site \in Sites /\ w.name \in Names
    /\ w.pc \in {"read", "write"} =>
         \/ w.op = "UpdateLocation" /\ w.id \in LocationIds /\ w.name \in Names
         \/ w.op = "SetLocationStatus" /\ w.id \in LocationIds /\ w.status \in Statuses
         \/ w.op = "SetProviderStatus" /\ w.pc = "write" /\ w.status \in Statuses
         \/ w.op = "UpdateConfiguration" /\ w.id = None /\ w.row \in Config

\* Types, and calls.
Typed == CatalogTypeOK /\ \A c \in Commands : CallOK(call[c])

\* Locations are numbered in the order of their creation; a call creates its location
\* as its last step; and no location a call has found goes away.
RowsOK ==
    /\ \A l \in LocationIds : Known(l) => locations[l].nth < Cardinality(KnownLocations)
    /\ \A c \in Commands :
         /\ Known(c) => call[c].pc = "done"
         /\ call[c].pc = "write" /\ call[c].op \in {"UpdateLocation", "SetLocationStatus"}
              => Known(call[c].id)

\* Seeded, or enabled again: such a location never went through the check.
Unchecked(l) == locations[l].how = "seeded" \/ locations[l].again

\* A creation has the lock from the check to the insert, so what it checked still holds,
\* but for locations that came without a check.
DedupOK ==
    \A c \in Commands :
        /\ call[c].pc \in {"check", "insert"} => lock = c
        /\ call[c].pc = "insert" /\ ~call[c].override =>
             \A l \in ActiveLocations : IsNearDuplicate(call[c].site, l) => Unchecked(l)

\* An update that has read the configuration holds the values of the fields it does not
\* send, as long as no other was written meanwhile.
ConfigOK ==
    /\ config = None => last = SeededConfig
    /\ \A c \in Commands :
         call[c].pc = "write" /\ call[c].op = "UpdateConfiguration" =>
            /\ config # None
            /\ ~tangled => \A f \in Fields \ call[c].sent : call[c].row[f] = config[f]

CatalogInv ==
    Typed /\ RowsOK /\ DedupOK /\ NearPairsExcused /\ ConfigOK /\ LastValueStands

\* What the proofs use of the constants.
LEMMA CatalogFacts ==
    /\ Demo \in LocationIds /\ Commands \subseteq LocationIds /\ Demo \notin Commands
    /\ None \notin LocationIds /\ None \notin Names
    /\ None \notin Location /\ None \notin Config
  BY CatalogAssumption, NoRowAssumption DEF LocationIds

\* What the proofs use of counting locations; it is established at the end.
Counting ==
    LET N == Cardinality(LocationIds)
    IN  /\ N \in Nat
        /\ \A S \in SUBSET LocationIds :
             /\ Cardinality(S) \in 0..N
             /\ S # {} => Cardinality(S) > 0
             /\ \A l \in LocationIds \ S : Cardinality(S \cup {l}) = Cardinality(S) + 1

\* The rows there are, are finitely many.
LEMMA KnownCounted ==
    ASSUME Counting
    PROVE  /\ Cardinality(KnownLocations) \in 0..Cardinality(LocationIds)
           /\ Cardinality(KnownLocations) \in Nat /\ Cardinality(LocationIds) \in Nat
           /\ KnownLocations # {} => Cardinality(KnownLocations) > 0
           /\ \A l \in LocationIds \ KnownLocations :
                Cardinality(KnownLocations \cup {l}) = Cardinality(KnownLocations) + 1
  BY DEF Counting, KnownLocations

\* A configuration is a value of each field.
LEMMA ConfigFields ==
    /\ SeededConfig \in Config
    /\ \A r \in Config : r["status"] \in Statuses /\ r["offset"] \in Offsets
    /\ \A r \in Config, s \in Config :
         (\A f \in Fields : r[f] = s[f]) => r = s
    /\ \A r \in Config, s \in Config, T \in SUBSET Fields :
         [f \in Fields |-> IF f \in T THEN s[f] ELSE r[f]] \in Config
  <1>1. SeededConfig \in Config
    BY CatalogAssumption DEF SeededConfig, Config, Statuses
  <1>2. \A r \in Config : r["status"] \in Statuses /\ r["offset"] \in Offsets
    BY DEF Config
  <1>3. \A r \in Config, s \in Config : (\A f \in Fields : r[f] = s[f]) => r = s
    BY DEF Config, Fields
  <1>4. ASSUME NEW r \in Config, NEW s \in Config, NEW T \in SUBSET Fields
        PROVE  [f \in Fields |-> IF f \in T THEN s[f] ELSE r[f]] \in Config
    <2> DEFINE v == [f \in Fields |-> IF f \in T THEN s[f] ELSE r[f]]
    <2>1. v["status"] \in Statuses /\ v["offset"] \in Offsets
      BY <1>2 DEF Fields
    <2>2. v = [status |-> v["status"], offset |-> v["offset"]]
      BY DEF Fields
    <2>3. QED
      BY <2>1, <2>2 DEF Config
  <1>5. QED
    BY <1>1, <1>2, <1>3, <1>4

\* A configuration with some of its fields taken from another.
LEMMA MixedConfig ==
    ASSUME NEW r \in Config, NEW s \in Config, NEW T \in SUBSET Fields, NEW m,
           m = [f \in Fields |-> IF f \in T THEN s[f] ELSE r[f]]
    PROVE  m \in Config
  BY ConfigFields

\* No call is a call.
LEMMA NoCommandTyped ==
    /\ NoCommand \in Command /\ CallOK(NoCommand)
    /\ [NoCommand EXCEPT !.pc = "done"] \in Command /\ CallOK([NoCommand EXCEPT !.pc = "done"])
    /\ [NoCommand EXCEPT !.pc = "done"].pc = "done"
  BY Zenon DEF NoCommand, Command, CallOK, PCs

\* What may be called is typed.
LEMMA InputsTyped ==
    ASSUME NEW c \in Commands, BeginCommand(c)
    PROVE  \E i \in Command :
             /\ call' = [call EXCEPT ![c] = i] /\ CallOK(i)
             /\ i.pc \in {"lock", "read", "write", "seedProvider"}
             /\ i.pc = "write" => i.op = "SetProviderStatus"
  <1> DEFINE Fits(i) == /\ i \in Command /\ CallOK(i)
                        /\ i.pc \in {"lock", "read", "write", "seedProvider"}
                        /\ i.pc = "write" => i.op = "SetProviderStatus"
  <1>1. ASSUME NEW s \in Sites, NEW n \in Names, NEW o \in BOOLEAN
        PROVE  Fits([Input("CreateLocation", "lock") EXCEPT !.site = s, !.name = n, !.override = o])
    BY Zenon DEF Input, NoCommand, Command, CallOK, PCs, Operations
  <1>2. ASSUME NEW l \in LocationIds, NEW n \in Names
        PROVE  Fits([Input("UpdateLocation", "read") EXCEPT !.id = l, !.name = n])
    BY Zenon DEF Input, NoCommand, Command, CallOK, PCs, Operations
  <1>3. ASSUME NEW l \in LocationIds, NEW s \in Statuses
        PROVE  Fits([Input("SetLocationStatus", "read") EXCEPT !.id = l, !.status = s])
    BY Zenon DEF Input, NoCommand, Command, CallOK, PCs, Operations
  <1>4. ASSUME NEW s \in Statuses
        PROVE  Fits([Input("SetProviderStatus", "write") EXCEPT !.status = s])
    BY Zenon DEF Input, NoCommand, Command, CallOK, PCs, Operations
  <1>5. ASSUME NEW T \in SUBSET Fields, NEW r \in Config
        PROVE  Fits([Input("UpdateConfiguration", "read") EXCEPT !.sent = T, !.row = r])
    BY Zenon DEF Input, NoCommand, Command, CallOK, PCs, Operations
  <1>6. Fits(Input("Seed", "seedProvider"))
    BY Zenon DEF Input, NoCommand, Command, CallOK, PCs, Operations
  <1>7. PICK i : Fits(i) /\ call' = [call EXCEPT ![c] = i]
    <2> HIDE DEF Fits
    <2>1. QED
      BY <1>1, <1>2, <1>3, <1>4, <1>5, <1>6, Zenon DEF BeginCommand, Start
  <1>8. QED
    BY <1>7, Zenon

-----------------------------------------------------------------------------
(* What a step of a call does, w being the call after it.                  *)

\* Nothing to the rows; the lock is kept, or given back at the end.
Goes(c, w) ==
    /\ w.pc \notin {"check", "insert"} /\ (w.pc = "write" => w.op = "SetProviderStatus")
    /\ lock' = lock \/ (w.pc = "done" /\ Release(c))
    /\ UNCHANGED <<locations, config, last, tangled>>

\* It takes the lock.
Locks(c, w) ==
    /\ w.pc = "check" /\ lock = None /\ lock' = c
    /\ UNCHANGED <<locations, config, last, tangled>>

\* It has checked.
Checks(c, w) ==
    /\ call[c].pc = "check" /\ w.pc = "insert"
    /\ w.override \/ \A l \in ActiveLocations : ~IsNearDuplicate(w.site, l)
    /\ UNCHANGED <<locations, config, lock, last, tangled>>

\* It creates its location.
Inserts(c, w) ==
    /\ call[c].pc = "insert" /\ w.pc = "done"
    /\ locations' = [locations EXCEPT ![c] =
                       NewLocation(call[c].site, call[c].name,
                                   IF call[c].override THEN "override" ELSE "checked")]
    /\ Release(c)
    /\ UNCHANGED <<config, last, tangled>>

\* It has found the location it is to change.
Finds(c, w) ==
    /\ w.pc = "write" /\ w.op \in {"UpdateLocation", "SetLocationStatus"} /\ Known(w.id)
    /\ UNCHANGED <<locations, config, lock, last, tangled>>

\* It changes a location: neither where it is nor how it came to be, and one that comes
\* to be active was enabled again.
Altered(v, u) ==
    /\ v \in Location /\ v.site = u.site /\ v.how = u.how /\ v.nth = u.nth
    /\ u.again => v.again
    /\ v.status = "active" => u.status = "active" \/ v.again

Alters(c, w) ==
    /\ w.pc = "done"
    /\ \E l \in LocationIds, v \in Location :
         /\ Known(l) /\ Altered(v, locations[l]) /\ locations' = [locations EXCEPT ![l] = v]
    /\ UNCHANGED <<config, lock, last, tangled>>

\* It has read the configuration, and holds what it does not send.
Reads(c, w) ==
    /\ w.pc = "write" /\ w.op = "UpdateConfiguration" /\ config # None
    /\ \A f \in Fields \ w.sent : w.row[f] = config[f]
    /\ UNCHANGED <<locations, config, lock, last, tangled>>

\* It writes the configuration.
Writes(c, w) ==
    /\ w.pc = "done"
    /\ UpdateConfiguration(c)

\* It seeds the configuration, or the location.
SeedsConfig(c, w) ==
    /\ w.pc = "seedLookup"
    /\ config' = IF config = None THEN SeededConfig ELSE config
    /\ UNCHANGED <<locations, lock, last, tangled>>

SeedsDemo(c, w) ==
    /\ w.pc = "done" /\ ~Known(Demo)
    /\ locations' = [locations EXCEPT ![Demo] = NewLocation(DemoSite, DemoName, "seeded")]
    /\ UNCHANGED <<config, lock, last, tangled>>

Effect(c, w) ==
    \/ Goes(c, w) \/ Locks(c, w) \/ Checks(c, w) \/ Inserts(c, w) \/ Finds(c, w)
    \/ Alters(c, w) \/ Reads(c, w) \/ Writes(c, w) \/ SeedsConfig(c, w) \/ SeedsDemo(c, w)

\* The call c becomes w.
Becomes(c, w) ==
    /\ w \in Command /\ CallOK(w) /\ call[c].pc # "done"
    /\ call' = [call EXCEPT ![c] = w]
    /\ provider' \in Statuses \cup {None}

\* A call that goes on keeps its input.
LEMMA GoOnEffect ==
    ASSUME Typed, NEW c \in Commands, NEW pc \in PCs, GoOn(c, pc)
    PROVE  \E w \in Command :
             /\ call' = [call EXCEPT ![c] = w]
             /\ w.pc = pc /\ w.op = call[c].op /\ w.id = call[c].id /\ w.site = call[c].site
             /\ w.name = call[c].name /\ w.status = call[c].status
             /\ w.override = call[c].override /\ w.sent = call[c].sent /\ w.row = call[c].row
  <1> DEFINE w == [call[c] EXCEPT !.pc = pc]
  <1>1. call[c] \in Command
    BY DEF Typed, CatalogTypeOK
  <1>2. /\ w \in Command
        /\ w.pc = pc /\ w.op = call[c].op /\ w.id = call[c].id /\ w.site = call[c].site
        /\ w.name = call[c].name /\ w.status = call[c].status
        /\ w.override = call[c].override /\ w.sent = call[c].sent /\ w.row = call[c].row
    BY <1>1 DEF Command
  <1>3. call' = [call EXCEPT ![c] = w]
    BY DEF GoOn, Typed, CatalogTypeOK
  <1>4. QED
    BY <1>2, <1>3, Zenon

\* A call that ends carries nothing.
LEMMA FinishEffect ==
    ASSUME NEW c \in Commands, Finish(c), call[c].pc # "done", provider' \in Statuses \cup {None}
    PROVE  \E w : Becomes(c, w) /\ w.pc = "done"
  BY NoCommandTyped, Zenon DEF Finish, Becomes

\* Every step of a command, a seed or an end of one has one of these effects.
LEMMA StepEffect ==
    ASSUME Typed, RowsOK, NEW c \in Commands, CommandStep(c)
    PROVE  \E w : Becomes(c, w) /\ Effect(c, w)
  <1>0. /\ call[c] \in Command /\ CallOK(call[c]) /\ provider \in Statuses \cup {None}
        /\ \A l \in LocationIds : Known(l) => locations[l] \in Location
    BY DEF Typed, CatalogTypeOK, Known
  <1>1. CASE BeginCommand(c)
    <2>1. PICK i \in Command : /\ call' = [call EXCEPT ![c] = i] /\ CallOK(i)
                               /\ i.pc \in {"lock", "read", "write", "seedProvider"}
                               /\ i.pc = "write" => i.op = "SetProviderStatus"
      BY <1>1, InputsTyped
    <2>2. Becomes(c, i) /\ Goes(c, i)
      BY <1>0, <1>1, <2>1, Zenon DEF Becomes, Goes, BeginCommand
    <2>3. QED
      BY <2>2 DEF Effect
  <1>2. CASE Abandon(c)
    <2>1. PICK w : Becomes(c, w) /\ w.pc = "done"
      BY <1>0, <1>2, FinishEffect DEF Abandon
    <2>2. QED
      BY <1>2, <2>1 DEF Abandon, Goes, Effect
  <1>3. CASE AcquireDedupLock(c)
    <2>1. PICK w \in Command : /\ call' = [call EXCEPT ![c] = w] /\ w.pc = "check"
                               /\ w.site = call[c].site /\ w.name = call[c].name
      BY <1>3, GoOnEffect DEF AcquireDedupLock, PCs
    <2>2. Becomes(c, w) /\ Locks(c, w)
      BY <1>0, <1>3, <2>1 DEF AcquireDedupLock, Becomes, CallOK, Locks
    <2>3. QED
      BY <2>2 DEF Effect
  <1>4. CASE CheckDuplicates(c)
    <2>1. CASE Finish(c) /\ Release(c)
      <3>1. PICK w : Becomes(c, w) /\ w.pc = "done"
        BY <1>0, <1>4, <2>1, FinishEffect DEF CheckDuplicates
      <3>2. QED
        BY <1>4, <2>1, <3>1 DEF CheckDuplicates, Goes, Effect
    <2>2. CASE GoOn(c, "insert") /\ UNCHANGED lock
               /\ (call[c].override \/ \A l \in ActiveLocations : ~IsNearDuplicate(call[c].site, l))
      <3>1. PICK w \in Command : /\ call' = [call EXCEPT ![c] = w] /\ w.pc = "insert"
                                 /\ w.site = call[c].site /\ w.name = call[c].name
                                 /\ w.override = call[c].override
        BY <2>2, GoOnEffect DEF PCs
      <3>2. Becomes(c, w)
        BY <1>0, <1>4, <3>1 DEF CheckDuplicates, Becomes, CallOK
      <3>3. Checks(c, w)
        BY <1>4, <2>2, <3>1 DEF CheckDuplicates, Checks
      <3>4. QED
        BY <3>2, <3>3 DEF Effect
    <2>3. QED
      BY <1>4, <2>1, <2>2 DEF CheckDuplicates
  <1>5. CASE InsertLocation(c)
    <2>1. PICK w : Becomes(c, w) /\ w.pc = "done"
      BY <1>0, <1>5, FinishEffect DEF InsertLocation
    <2>2. Goes(c, w) \/ Inserts(c, w)
      BY <1>5, <2>1 DEF InsertLocation, Goes, Inserts
    <2>3. QED
      BY <2>1, <2>2 DEF Effect
  <1>6. CASE ReadLocation(c)
    <2>1. CASE Finish(c)
      <3>1. PICK w : Becomes(c, w) /\ w.pc = "done"
        BY <1>0, <1>6, <2>1, FinishEffect DEF ReadLocation
      <3>2. QED
        BY <1>6, <3>1 DEF ReadLocation, Goes, Effect
    <2>2. CASE GoOn(c, "write") /\ Known(call[c].id)
      <3>1. PICK w \in Command : /\ call' = [call EXCEPT ![c] = w] /\ w.pc = "write"
                                 /\ w.op = call[c].op /\ w.id = call[c].id
                                 /\ w.name = call[c].name /\ w.status = call[c].status
        BY <2>2, GoOnEffect DEF PCs
      <3>2. \/ call[c].op = "UpdateLocation" /\ call[c].id \in LocationIds /\ call[c].name \in Names
            \/ call[c].op = "SetLocationStatus" /\ call[c].id \in LocationIds
                 /\ call[c].status \in Statuses
        BY <1>0, <1>6 DEF ReadLocation, CallOK
      <3>3. Becomes(c, w)
        BY <1>0, <1>6, <3>1, <3>2, Zenon DEF ReadLocation, Becomes, CallOK
      <3>4. Finds(c, w)
        BY <1>6, <2>2, <3>1, <3>2 DEF ReadLocation, Finds
      <3>5. QED
        BY <3>3, <3>4 DEF Effect
    <2>3. QED
      BY <1>6, <2>1, <2>2 DEF ReadLocation
  <1>7. CASE UpdateLocation(c)
    <2>1. PICK w : Becomes(c, w) /\ w.pc = "done"
      BY <1>0, <1>7, FinishEffect DEF UpdateLocation
    <2>2. call[c].id \in LocationIds /\ call[c].name \in Names /\ Known(call[c].id)
      BY <1>0, <1>7 DEF UpdateLocation, CallOK, RowsOK
    <2> DEFINE l == call[c].id
               v == [locations[l] EXCEPT !.name = call[c].name]
    <2>3. CASE locations' = locations
      BY <1>7, <2>1, <2>3 DEF UpdateLocation, Goes, Effect
    <2>4. CASE locations' = [locations EXCEPT ![l].name = call[c].name]
      <3>1. locations[l] \in Location
        BY <1>0, <2>2
      <3>2. v \in Location /\ Altered(v, locations[l])
        BY <2>2, <3>1 DEF Location, Altered
      <3>3. locations' = [locations EXCEPT ![l] = v]
        BY <2>4
      <3> HIDE DEF v, l
      <3>4. Alters(c, w)
        BY <1>7, <2>1, <2>2, <3>2, <3>3, Zenon DEF UpdateLocation, Alters, l
      <3>5. QED
        BY <2>1, <3>4 DEF Effect
    <2>5. QED
      BY <1>7, <2>3, <2>4 DEF UpdateLocation
  <1>8. CASE SetLocationStatus(c)
    <2>1. PICK w : Becomes(c, w) /\ w.pc = "done"
      BY <1>0, <1>8, FinishEffect DEF SetLocationStatus
    <2>2. call[c].id \in LocationIds /\ call[c].status \in Statuses /\ Known(call[c].id)
      BY <1>0, <1>8 DEF SetLocationStatus, CallOK, RowsOK
    <2> DEFINE l == call[c].id
               again == locations[l].again \/ call[c].status = "active"
               v == [locations[l] EXCEPT !.status = call[c].status, !.again = again]
    <2>3. CASE locations' = locations
      BY <1>8, <2>1, <2>3, Zenon DEF SetLocationStatus, Goes, Effect
    <2>4. CASE locations' = [locations EXCEPT ![l].status = call[c].status, ![l].again = again]
      <3>1. locations[l] \in Location /\ locations \in [LocationIds -> Location \cup {None}]
        BY <1>0, <2>2 DEF Typed, CatalogTypeOK
      <3>2. v \in Location /\ Altered(v, locations[l])
        BY <2>2, <3>1, Zenon DEF Location, Altered
      <3>3. locations' = [locations EXCEPT ![l] = v]
        BY <2>2, <2>4, <3>1, Zenon
      <3> HIDE DEF v, l
      <3>4. Alters(c, w)
        BY <1>8, <2>1, <2>2, <3>2, <3>3, Zenon DEF SetLocationStatus, Alters, l
      <3>5. QED
        BY <2>1, <3>4 DEF Effect
    <2>5. QED
      BY <1>8, <2>3, <2>4, Zenon DEF SetLocationStatus
  <1>9. CASE SetProviderStatus(c)
    <2>1. call[c].status \in Statuses
      BY <1>0, <1>9 DEF SetProviderStatus, CallOK
    <2>2. PICK w : Becomes(c, w) /\ w.pc = "done"
      BY <1>0, <1>9, <2>1, FinishEffect DEF SetProviderStatus
    <2>3. QED
      BY <1>9, <2>2 DEF SetProviderStatus, Goes, Effect
  <1>10. CASE ReadConfiguration(c)
    <2>1. CASE Finish(c)
      <3>1. PICK w : Becomes(c, w) /\ w.pc = "done"
        BY <1>0, <1>10, <2>1, FinishEffect DEF ReadConfiguration
      <3>2. QED
        BY <1>10, <3>1 DEF ReadConfiguration, Goes, Effect
    <2>2. CASE config # None /\ call' = [call EXCEPT ![c].pc = "write",
                     ![c].row = Overwritten(config, call[c].sent, call[c].row)]
      <3> DEFINE r == Overwritten(config, call[c].sent, call[c].row)
                 w == [call[c] EXCEPT !.pc = "write", !.row = r]
      <3>1. call[c].row \in Config /\ call[c].sent \in SUBSET Fields /\ config \in Config
            /\ call[c].id = None
        BY <1>0, <1>10, <2>2 DEF ReadConfiguration, CallOK, Command, Typed, CatalogTypeOK
      <3>2. r \in Config
        BY <3>1, MixedConfig, Zenon DEF Overwritten
      <3>3. \A f \in Fields \ call[c].sent : r[f] = config[f]
        BY DEF Overwritten
      <3> HIDE DEF r
      <3>4. /\ w \in Command /\ w.pc = "write" /\ w.row = r /\ w.op = call[c].op
            /\ w.id = call[c].id /\ w.sent = call[c].sent
        BY <1>0, <3>2, Zenon DEF Command, PCs
      <3>5. call' = [call EXCEPT ![c] = w]
        BY <2>2, Zenon DEF Typed, CatalogTypeOK, r
      <3> HIDE DEF w
      <3>6. Becomes(c, w)
        BY <1>0, <1>10, <3>1, <3>2, <3>4, <3>5 DEF ReadConfiguration, Becomes, CallOK
      <3>7. Reads(c, w)
        BY <1>10, <2>2, <3>3, <3>4 DEF ReadConfiguration, Reads
      <3>8. QED
        BY <3>6, <3>7 DEF Effect
    <2>3. QED
      BY <1>10, <2>1, <2>2 DEF ReadConfiguration
  <1>11. CASE UpdateConfiguration(c)
    <2>1. PICK w : Becomes(c, w) /\ w.pc = "done"
      BY <1>0, <1>11, FinishEffect DEF UpdateConfiguration
    <2>2. QED
      BY <1>11, <2>1 DEF Writes, Effect
  <1>12. CASE SeedProvider(c)
    <2>1. PICK w \in Command : call' = [call EXCEPT ![c] = w] /\ w.pc = "seedConfig"
      BY <1>12, GoOnEffect DEF SeedProvider, PCs
    <2>2. Becomes(c, w) /\ Goes(c, w)
      BY <1>12, <2>1 DEF SeedProvider, Becomes, CallOK, Goes, Statuses
    <2>3. QED
      BY <2>2 DEF Effect
  <1>13. CASE SeedConfiguration(c)
    <2>1. PICK w \in Command : call' = [call EXCEPT ![c] = w] /\ w.pc = "seedLookup"
      BY <1>13, GoOnEffect DEF SeedConfiguration, PCs
    <2>2. Becomes(c, w) /\ SeedsConfig(c, w)
      BY <1>0, <1>13, <2>1 DEF SeedConfiguration, Becomes, CallOK, SeedsConfig
    <2>3. QED
      BY <2>2 DEF Effect
  <1>14. CASE SeedLookup(c)
    <2>1. CASE Finish(c)
      <3>1. PICK w : Becomes(c, w) /\ w.pc = "done"
        BY <1>0, <1>14, <2>1, FinishEffect DEF SeedLookup
      <3>2. QED
        BY <1>14, <3>1 DEF SeedLookup, Goes, Effect
    <2>2. CASE GoOn(c, "seedLocation")
      <3>1. PICK w \in Command : call' = [call EXCEPT ![c] = w] /\ w.pc = "seedLocation"
        BY <2>2, GoOnEffect DEF PCs
      <3>2. Becomes(c, w) /\ Goes(c, w)
        BY <1>0, <1>14, <3>1, Zenon DEF SeedLookup, Becomes, CallOK, Goes
      <3>3. QED
        BY <3>2 DEF Effect
    <2>3. QED
      BY <1>14, <2>1, <2>2 DEF SeedLookup
  <1>15. CASE SeedLocation(c)
    <2>1. PICK w : Becomes(c, w) /\ w.pc = "done"
      BY <1>0, <1>15, FinishEffect DEF SeedLocation
    <2>2. Goes(c, w) \/ SeedsDemo(c, w)
      BY <1>15, <2>1 DEF SeedLocation, Goes, SeedsDemo
    <2>3. QED
      BY <2>1, <2>2 DEF Effect
  <1>16. QED
    BY <1>1, <1>2, <1>3, <1>4, <1>5, <1>6, <1>7, <1>8, <1>9, <1>10, <1>11, <1>12, <1>13,
       <1>14, <1>15 DEF CommandStep

\* A new row is a row, active, never enabled again, and the last one.
LEMMA NewLocationTyped ==
    ASSUME Counting, NEW s \in Sites, NEW n \in Names,
           NEW how \in {"checked", "override", "seeded"}
    PROVE  /\ NewLocation(s, n, how) \in Location
           /\ NewLocation(s, n, how).site = s /\ NewLocation(s, n, how).how = how
           /\ NewLocation(s, n, how).nth = Cardinality(KnownLocations)
           /\ NewLocation(s, n, how).again = FALSE
  <1>1. Cardinality(KnownLocations) \in 0..Cardinality(LocationIds)
    BY KnownCounted
  <1>2. QED
    BY <1>1 DEF NewLocation, Location, Statuses, KnownLocations

\* The other calls are as they were.
LEMMA BecomesFrame ==
    ASSUME Typed, NEW c \in Commands, NEW w, Becomes(c, w)
    PROVE  call'[c] = w /\ \A d \in Commands \ {c} : call'[d] = call[d]
  BY DEF Typed, CatalogTypeOK, Becomes

\* A step leaves rows, values and calls of their types.
LEMMA TypedStep ==
    ASSUME Counting, Typed, NEW c \in Commands, NEW w, Becomes(c, w), Effect(c, w), UNCHANGED mix
    PROVE  Typed'
  <1>1. call' \in [Commands -> Command] /\ \A d \in Commands : CallOK(call'[d])
    BY DEF Typed, CatalogTypeOK, Becomes
  <1>2. (\A d \in Commands : CallOK(call[d]))'
    BY <1>1 DEF CallOK
  <1>3. locations' \in [LocationIds -> Location \cup {None}]
    <2>1. ASSUME NEW l \in LocationIds, NEW v \in Location, locations' = [locations EXCEPT ![l] = v]
          PROVE  locations' \in [LocationIds -> Location \cup {None}]
      BY <2>1 DEF Typed, CatalogTypeOK
    <2>2. CASE Inserts(c, w)
      <3>1. call[c].site \in Sites /\ call[c].name \in Names
        BY <2>2, Zenon DEF Inserts, Typed, CallOK
      <3>2. PICK how \in {"checked", "override", "seeded"} :
              locations' = [locations EXCEPT ![c] = NewLocation(call[c].site, call[c].name, how)]
        BY <2>2, Zenon DEF Inserts
      <3>3. NewLocation(call[c].site, call[c].name, how) \in Location
        BY <3>1, NewLocationTyped, Zenon
      <3>4. QED
        BY <2>1, <3>2, <3>3, CatalogFacts, Zenon
    <2>3. CASE SeedsDemo(c, w)
      <3>1. NewLocation(DemoSite, DemoName, "seeded") \in Location
        BY CatalogAssumption, NewLocationTyped, Zenon
      <3>2. QED
        BY <2>1, <2>3, <3>1, CatalogFacts, Zenon DEF SeedsDemo
    <2>4. CASE Alters(c, w)
      BY <2>1, <2>4, Zenon DEF Alters
    <2>5. CASE UNCHANGED locations
      BY <2>5 DEF Typed, CatalogTypeOK
    <2>6. QED
      BY <2>2, <2>3, <2>4, <2>5, Zenon
         DEF Effect, Goes, Locks, Checks, Finds, Reads, Writes, SeedsConfig, UpdateConfiguration
  <1>4. config' \in Config \cup {None} /\ last' \in Config /\ tangled' \in BOOLEAN
    <2>1. config \in Config \cup {None} /\ last \in Config /\ tangled \in BOOLEAN
      BY DEF Typed, CatalogTypeOK
    <2>2. CASE Writes(c, w)
      <3>1. call[c].row \in Config /\ call[c].sent \in SUBSET Fields
        BY <2>2 DEF Writes, UpdateConfiguration, Typed, CallOK, CatalogTypeOK, Command
      <3>2. last' = [f \in Fields |-> IF f \in call[c].sent THEN call[c].row[f] ELSE last[f]]
            /\ config' = call[c].row
        BY <2>2, Zenon DEF Writes, UpdateConfiguration
      <3>3. last' \in Config
        BY <2>1, <3>1, <3>2, MixedConfig, Zenon
      <3>4. tangled' \in BOOLEAN
        BY <2>1, <2>2 DEF Writes, UpdateConfiguration
      <3>5. QED
        BY <3>1, <3>2, <3>3, <3>4
    <2>3. CASE SeedsConfig(c, w)
      BY <2>1, <2>3, ConfigFields DEF SeedsConfig
    <2>4. CASE UNCHANGED <<config, last, tangled>>
      BY <2>1, <2>4
    <2>5. QED
      BY <2>2, <2>3, <2>4, Zenon DEF Effect, Goes, Locks, Checks, Inserts, Finds, Alters, Reads, SeedsDemo
  <1>5. lock' \in Commands \cup {None}
    BY Zenon DEF Typed, CatalogTypeOK, Effect, Goes, Locks, Checks, Inserts, Finds, Alters, Reads,
           Writes, UpdateConfiguration, SeedsConfig, SeedsDemo, Release
  <1>6. provider' \in Statuses \cup {None} /\ mix' \in Mixes
    BY DEF Becomes, Typed, CatalogTypeOK
  <1>7. QED
    BY <1>1, <1>2, <1>3, <1>4, <1>5, <1>6 DEF Typed, CatalogTypeOK

\* A row that is added is the last; the others keep their numbers.
LEMMA RowAdded ==
    ASSUME Counting, Typed, RowsOK, NEW l \in LocationIds, ~Known(l), NEW v \in Location,
           v.nth = Cardinality(KnownLocations), locations' = [locations EXCEPT ![l] = v]
    PROVE  /\ Known(l)' /\ locations'[l] = v
           /\ \A k \in LocationIds \ {l} : /\ Known(k)' <=> Known(k)
                                           /\ locations'[k] = locations[k]
           /\ \A k \in LocationIds : Known(k)' => locations'[k].nth < Cardinality(KnownLocations')
  <1>1. locations \in [LocationIds -> Location \cup {None}] /\ v # None
    BY CatalogFacts DEF Typed, CatalogTypeOK
  <1>2. locations'[l] = v /\ \A k \in LocationIds \ {l} : locations'[k] = locations[k]
    BY <1>1
  <1>3. Known(l)' /\ \A k \in LocationIds \ {l} : Known(k)' <=> Known(k)
    BY <1>1, <1>2 DEF Known
  <1>4. KnownLocations' = KnownLocations \cup {l} /\ l \notin KnownLocations
    BY <1>3 DEF KnownLocations
  <1>5. Cardinality(KnownLocations') = Cardinality(KnownLocations) + 1
    BY <1>4, KnownCounted
  <1>6. ASSUME NEW k \in LocationIds, Known(k)'
        PROVE  locations'[k].nth < Cardinality(KnownLocations')
    <2>1. CASE k = l
      BY <1>2, <1>5, <2>1, KnownCounted
    <2>2. CASE k # l
      <3>1. Known(k) /\ locations'[k] = locations[k] /\ locations[k] \in Location
        BY <1>1, <1>2, <1>3, <1>6, <2>2 DEF Known
      <3>2. locations[k].nth < Cardinality(KnownLocations) /\ locations[k].nth \in Nat
        BY <3>1, KnownCounted DEF RowsOK, Location
      <3>3. QED
        BY <1>5, <3>1, <3>2, KnownCounted
    <2>3. QED
      BY <2>1, <2>2
  <1>7. QED
    BY <1>2, <1>3, <1>6

\* A row that changes stays known, with its number.
LEMMA RowChanged ==
    ASSUME Typed, RowsOK, NEW l \in LocationIds, Known(l), NEW v \in Location,
           v.nth = locations[l].nth, locations' = [locations EXCEPT ![l] = v]
    PROVE  /\ locations'[l] = v
           /\ \A k \in LocationIds \ {l} : locations'[k] = locations[k]
           /\ \A k \in LocationIds : Known(k)' <=> Known(k)
           /\ \A k \in LocationIds : Known(k)' => locations'[k].nth < Cardinality(KnownLocations')
  <1>1. locations \in [LocationIds -> Location \cup {None}] /\ v # None
    BY CatalogFacts DEF Typed, CatalogTypeOK
  <1>2. locations'[l] = v /\ \A k \in LocationIds \ {l} : locations'[k] = locations[k]
    BY <1>1
  <1>3. \A k \in LocationIds : Known(k)' <=> Known(k)
    BY <1>1, <1>2 DEF Known
  <1>4. KnownLocations' = KnownLocations
    BY <1>3 DEF KnownLocations
  <1>5. \A k \in LocationIds : locations'[k].nth = locations[k].nth
    BY <1>2
  <1>6. QED
    BY <1>2, <1>3, <1>4, <1>5 DEF RowsOK

\* The numbers, and what calls have found, survive every step.
LEMMA RowsStep ==
    ASSUME Counting, Typed, RowsOK, NEW c \in Commands, NEW w, Becomes(c, w), Effect(c, w)
    PROVE  RowsOK'
  <1>0. call'[c] = w /\ \A d \in Commands \ {c} : call'[d] = call[d]
    BY BecomesFrame
  <1>1. ~Known(c) /\ c \in LocationIds
    BY CatalogFacts, Zenon DEF RowsOK, Becomes
  <1> DEFINE Numbered == \A k \in LocationIds : Known(k) => locations[k].nth < Cardinality(KnownLocations)
             Found(v) == v.pc = "write" /\ v.op \in {"UpdateLocation", "SetLocationStatus"}
  <1>2. ASSUME Numbered', \A k \in LocationIds : Known(k) => Known(k)',
               \A d \in Commands : Known(d)' => Known(d) \/ (d = c /\ w.pc = "done"),
               Found(w) => Known(w.id)
        PROVE  RowsOK'
    <2>1. ASSUME NEW d \in Commands PROVE Known(d)' => call'[d].pc = "done"
      BY <1>0, <1>1, <1>2 DEF RowsOK
    <2>2. ASSUME NEW d \in Commands, Found(call'[d]) PROVE locations'[call'[d].id] # None
      <3>1. call'[d].id \in LocationIds /\ locations[call'[d].id] # None
        <4>1. CASE d = c
          BY <1>0, <1>2, <2>2, <4>1 DEF Becomes, CallOK, Known
        <4>2. CASE d # c
          BY <1>0, <2>2, <4>2, Zenon DEF Typed, CallOK, RowsOK, Known
        <4>3. QED
          BY <4>1, <4>2
      <3>2. QED
        BY <1>2, <3>1 DEF Known
    <2>3. QED
      BY <1>2, <2>1, <2>2, Zenon DEF RowsOK, Known
  <1>3. CASE Inserts(c, w)
    <2>1. call[c].site \in Sites /\ call[c].name \in Names
      BY <1>3, Zenon DEF Inserts, Typed, CallOK
    <2>2. PICK how \in {"checked", "override", "seeded"} :
            locations' = [locations EXCEPT ![c] = NewLocation(call[c].site, call[c].name, how)]
      BY <1>3, Zenon DEF Inserts
    <2> DEFINE v == NewLocation(call[c].site, call[c].name, how)
    <2>3. v \in Location /\ v.nth = Cardinality(KnownLocations)
      <3>1. NewLocation(call[c].site, call[c].name, how) \in Location
        BY <2>1, NewLocationTyped, Zenon
      <3>2. NewLocation(call[c].site, call[c].name, how).nth = Cardinality(KnownLocations)
        BY DEF NewLocation, KnownLocations
      <3>3. QED
        BY <3>1, <3>2
    <2> HIDE DEF v
    <2>4. locations' = [locations EXCEPT ![c] = v]
      BY <2>2 DEF v
    <2>5. Numbered' /\ Known(c)' /\ \A k \in LocationIds \ {c} : Known(k)' <=> Known(k)
      BY <1>1, <2>3, <2>4, RowAdded, Zenon
    <2>6. /\ \A k \in LocationIds : Known(k) => Known(k)'
          /\ \A d \in Commands : Known(d)' => Known(d) \/ (d = c /\ w.pc = "done")
          /\ w.pc = "done"
      BY <1>1, <1>3, <2>5, CatalogFacts, Zenon DEF Inserts
    <2>7. QED
      BY <1>2, <2>5, <2>6, Zenon
  <1>4. CASE SeedsDemo(c, w)
    <2> DEFINE v == NewLocation(DemoSite, DemoName, "seeded")
    <2>1. v \in Location /\ v.nth = Cardinality(KnownLocations)
      BY CatalogAssumption, NewLocationTyped, Zenon
    <2> HIDE DEF v
    <2>2. locations' = [locations EXCEPT ![Demo] = v] /\ ~Known(Demo) /\ Demo \in LocationIds
      BY <1>4, CatalogFacts DEF v, SeedsDemo
    <2>3. Numbered' /\ Known(Demo)' /\ \A k \in LocationIds \ {Demo} : Known(k)' <=> Known(k)
      BY <2>1, <2>2, RowAdded, Zenon
    <2>4. /\ \A k \in LocationIds : Known(k) => Known(k)'
          /\ \A d \in Commands : Known(d)' => Known(d) \/ (d = c /\ w.pc = "done")
          /\ w.pc = "done"
      BY <1>4, <2>3, CatalogFacts DEF SeedsDemo
    <2>5. QED
      BY <1>2, <2>3, <2>4, Zenon
  <1>5. CASE Alters(c, w)
    <2>1. PICK l \in LocationIds, v \in Location :
            Known(l) /\ v.nth = locations[l].nth /\ locations' = [locations EXCEPT ![l] = v]
      BY <1>5, Zenon DEF Alters, Altered
    <2>2. Numbered' /\ \A k \in LocationIds : Known(k)' <=> Known(k)
      BY <2>1, RowChanged, Zenon
    <2>3. /\ \A k \in LocationIds : Known(k) => Known(k)'
          /\ \A d \in Commands : Known(d)' => Known(d) \/ (d = c /\ w.pc = "done")
          /\ w.pc = "done"
      BY <1>5, <2>2, CatalogFacts DEF Alters
    <2>4. QED
      BY <1>2, <2>2, <2>3
  <1>6. CASE UNCHANGED locations
    <2>1. Numbered' /\ \A k \in LocationIds : Known(k)' <=> Known(k)
      BY <1>6, Zenon DEF RowsOK, Known, KnownLocations
    <2>2. Found(w) => Known(w.id)
      BY <1>6, <1>3, <1>4, <1>5, Zenon
         DEF Effect, Goes, Locks, Checks, Inserts, Alters, SeedsDemo, Finds, Reads, Writes, SeedsConfig
    <2>3. QED
      BY <1>2, <2>1, <2>2, CatalogFacts, Zenon
  <1>7. QED
    BY <1>3, <1>4, <1>5, <1>6, Zenon
       DEF Effect, Goes, Locks, Checks, Finds, Reads, Writes, SeedsConfig, UpdateConfiguration

\* Whether two rows may both be active and near, u being the earlier one.
Apart(u, v) ==
    u # None /\ v # None /\ u.status = "active" /\ v.status = "active"
      /\ <<u.site, v.site>> \in Near /\ u.nth < v.nth
    => v.how = "override" \/ u.how = "seeded" \/ u.again \/ v.how = "seeded" \/ v.again

\* Whether a site was checked against a row.
Cleared(s, u) ==
    u # None /\ u.status = "active" /\ <<s, u.site>> \in Near => u.how = "seeded" \/ u.again

\* The two, of the rows there are.
LEMMA ApartMeans ==
    /\ NearPairsExcused <=> \A a, b \in LocationIds : Apart(locations[a], locations[b])
    /\ DedupOK <=> \A d \in Commands :
         /\ call[d].pc \in {"check", "insert"} => lock = d
         /\ call[d].pc = "insert" /\ ~call[d].override =>
              \A l \in LocationIds : Cleared(call[d].site, locations[l])
  <1>1. NearPairsExcused <=> \A a, b \in LocationIds : Apart(locations[a], locations[b])
    BY Zenon DEF NearPairsExcused, Apart, ActiveLocations, ActiveLocation, Known
  <1>2. ASSUME NEW s
        PROVE  (\A l \in ActiveLocations : IsNearDuplicate(s, l) => Unchecked(l))
                 <=> \A l \in LocationIds : Cleared(s, locations[l])
    BY DEF Cleared, ActiveLocations, ActiveLocation, Known, IsNearDuplicate, Unchecked
  <1>3. QED
    BY <1>1, <1>2, Zenon DEF DedupOK

\* A row that is altered is as far apart, and as checked, as before.
LEMMA AlteredApart ==
    ASSUME NEW u \in Location, NEW v \in Location, Altered(v, u)
    PROVE  /\ \A r \in Location \cup {None} : (Apart(u, r) => Apart(v, r)) /\ (Apart(r, u) => Apart(r, v))
           /\ \A s : Cleared(s, u) => Cleared(s, v)
           /\ Apart(v, v)
  <1>0. u # None /\ v # None /\ v.nth \in Nat
    BY CatalogFacts DEF Location
  <1>1. \A s : Cleared(s, u) => Cleared(s, v)
    BY <1>0 DEF Altered, Cleared
  <1>2. ASSUME NEW r \in Location \cup {None}
        PROVE (Apart(u, r) => Apart(v, r)) /\ (Apart(r, u) => Apart(r, v))
    BY <1>0 DEF Altered, Apart
  <1>3. QED
    BY <1>0, <1>1, <1>2 DEF Apart

\* The lock goes from a creation to nobody else before its insert.
LEMMA LockStep ==
    ASSUME Typed, DedupOK, NEW c \in Commands, NEW w, Becomes(c, w), Effect(c, w),
           NEW d \in Commands, call'[d].pc \in {"check", "insert"}
    PROVE  lock' = d
  <1>0. call'[c] = w /\ \A e \in Commands \ {c} : call'[e] = call[e]
    BY BecomesFrame
  <1>1. CASE d = c
    BY <1>0, <1>1, Zenon DEF DedupOK, Effect, Goes, Locks, Checks, Inserts, Finds, Alters, Reads, Writes,
                      SeedsConfig, SeedsDemo
  <1>2. CASE d # c
    <2>1. lock = d /\ lock # None /\ lock # c
      BY <1>0, <1>2, CatalogAssumption, Zenon DEF DedupOK
    <2>2. QED
      BY <2>1, Zenon DEF Effect, Goes, Locks, Checks, Inserts, Finds, Alters, Reads, Writes,
                  UpdateConfiguration, SeedsConfig, SeedsDemo, Release
  <1>3. QED
    BY <1>1, <1>2

\* A new row is apart from the others, because of the check or the override.
LEMMA InsertsApart ==
    ASSUME Counting, Typed, RowsOK, DedupOK, NEW c \in Commands, NEW w, Inserts(c, w), ~Known(c),
           NEW v, v = NewLocation(call[c].site, call[c].name,
                                  IF call[c].override THEN "override" ELSE "checked")
    PROVE  \A k \in LocationIds : Apart(locations[k], v) /\ Apart(v, locations[k]) /\ Apart(v, v)
  <1>1. call[c].pc = "insert" /\ call[c].site \in Sites /\ call[c].name \in Names
    BY Zenon DEF Inserts, Typed, CallOK
  <1>2. /\ v.site = call[c].site /\ v.nth = Cardinality(KnownLocations)
        /\ v.how = IF call[c].override THEN "override" ELSE "checked"
    BY DEF NewLocation, KnownLocations
  <1>3. ASSUME NEW k \in LocationIds, locations[k] # None
        PROVE  locations[k] \in Location /\ locations[k].nth \in Nat /\ locations[k].nth < v.nth
               /\ locations[k].site \in Sites
    BY <1>2, <1>3 DEF Typed, CatalogTypeOK, RowsOK, Known, Location
  <1>4. ASSUME NEW k \in LocationIds PROVE Apart(v, locations[k])
    BY <1>2, <1>3, <1>4, KnownCounted DEF Apart
  <1>5. ASSUME NEW k \in LocationIds PROVE Apart(locations[k], v)
    <2>1. CASE call[c].override
      BY <1>2, <2>1, Zenon DEF Apart
    <2>2. CASE ~call[c].override
      <3>1. Cleared(call[c].site, locations[k])
        BY <1>1, <2>2, ApartMeans, Zenon
      <3>2. locations[k] # None /\ <<locations[k].site, v.site>> \in Near
              => <<call[c].site, locations[k].site>> \in Near
        BY <1>1, <1>2, <1>3, CatalogAssumption, Zenon
      <3>3. QED
        BY <3>1, <3>2, Zenon DEF Cleared, Apart
    <2>3. QED
      BY <2>1, <2>2
  <1>6. Apart(v, v)
    BY <1>2, KnownCounted DEF Apart
  <1>7. QED
    BY <1>4, <1>5, <1>6

\* The same, after a step.
LEMMA ApartMeansNext ==
    ASSUME \A a, b \in LocationIds : Apart(locations'[a], locations'[b]),
           \A d \in Commands :
             /\ call'[d].pc \in {"check", "insert"} => lock' = d
             /\ call'[d].pc = "insert" /\ ~call'[d].override =>
                  \A l \in LocationIds : Cleared(call'[d].site, locations'[l])
    PROVE  NearPairsExcused' /\ DedupOK'
  <1>1. NearPairsExcused'
    BY Zenon DEF NearPairsExcused, Apart, ActiveLocations, ActiveLocation, Known
  <1>2. ASSUME NEW d \in Commands, call'[d].pc = "insert", ~call'[d].override,
               NEW l \in ActiveLocations', IsNearDuplicate(call[d].site, l)'
        PROVE  Unchecked(l)'
    BY <1>2 DEF Cleared, ActiveLocations, ActiveLocation, Known, IsNearDuplicate, Unchecked
  <1>3. QED
    BY <1>1, <1>2, Zenon DEF DedupOK

\* Locations that were checked stay apart.
LEMMA DedupStep ==
    ASSUME Counting, Typed, RowsOK, DedupOK, NearPairsExcused, NEW c \in Commands, NEW w,
           Becomes(c, w), Effect(c, w)
    PROVE  DedupOK' /\ NearPairsExcused'
  <1>0. call'[c] = w /\ \A d \in Commands \ {c} : call'[d] = call[d]
    BY BecomesFrame
  <1>1. \A d \in Commands : call'[d].pc \in {"check", "insert"} => lock' = d
    BY LockStep
  <1>2. /\ \A a, b \in LocationIds : Apart(locations[a], locations[b])
        /\ \A d \in Commands : call[d].pc = "insert" /\ ~call[d].override =>
              \A l \in LocationIds : Cleared(call[d].site, locations[l])
    BY ApartMeans
  <1>3. /\ locations \in [LocationIds -> Location \cup {None}] /\ ~Known(c) /\ c \in LocationIds
        /\ Demo \in LocationIds
    BY CatalogFacts, Zenon DEF Typed, CatalogTypeOK, RowsOK, Becomes
  <1> DEFINE PairsNext == \A a, b \in LocationIds : Apart(locations'[a], locations'[b])
             ClearNext == \A d \in Commands : call'[d].pc = "insert" /\ ~call'[d].override =>
                              \A l \in LocationIds : Cleared(call'[d].site, locations'[l])
  <1>4. CASE Inserts(c, w)
    <2>1. PICK v : /\ v = NewLocation(call[c].site, call[c].name,
                                      IF call[c].override THEN "override" ELSE "checked")
                   /\ locations' = [locations EXCEPT ![c] = v]
      BY <1>4, Zenon DEF Inserts
    <2>2. \A k \in LocationIds : Apart(locations[k], v) /\ Apart(v, locations[k]) /\ Apart(v, v)
      BY <1>3, <1>4, <2>1, InsertsApart
    <2>3. PairsNext
      BY <1>2, <1>3, <2>1, <2>2, Zenon
    <2>4. ASSUME NEW d \in Commands, call'[d].pc = "insert" PROVE FALSE
      <3>1. d # c /\ call[d].pc = "insert" /\ call[c].pc = "insert"
        BY <1>0, <1>4, <2>4, Zenon DEF Inserts
      <3>2. QED
        BY <3>1 DEF DedupOK
    <2>5. QED
      BY <1>1, <2>3, <2>4, ApartMeansNext, Zenon
  <1>5. CASE SeedsDemo(c, w)
    <2>1. PICK v : /\ v = NewLocation(DemoSite, DemoName, "seeded")
                   /\ locations' = [locations EXCEPT ![Demo] = v]
      BY <1>5, Zenon DEF SeedsDemo
    <2>2. v.how = "seeded"
      BY <2>1 DEF NewLocation
    <2>3. \A r : Apart(r, v) /\ Apart(v, r) /\ Cleared(r, v)
      BY <2>2 DEF Apart, Cleared
    <2>4. PairsNext
      BY <1>2, <1>3, <2>1, <2>3, Zenon
    <2>5. ClearNext
      <3>1. w.pc = "done"
        BY <1>5 DEF SeedsDemo
      <3>2. ASSUME NEW d \in Commands, call'[d].pc = "insert", ~call'[d].override,
                   NEW l \in LocationIds
            PROVE  Cleared(call'[d].site, locations'[l])
        <4>1. Cleared(call[d].site, locations[l]) /\ call'[d] = call[d]
          BY <1>0, <1>2, <3>1, <3>2, Zenon
        <4>2. QED
          BY <1>3, <2>1, <2>3, <4>1, Zenon
      <3>3. QED
        BY <3>2, Zenon
    <2>6. QED
      BY <1>1, <2>4, <2>5, ApartMeansNext
  <1>6. CASE Alters(c, w)
    <2>1. PICK m \in LocationIds, v \in Location :
            Known(m) /\ Altered(v, locations[m]) /\ locations' = [locations EXCEPT ![m] = v]
      BY <1>6, Zenon DEF Alters
    <2>2. locations[m] \in Location
      BY <1>3, <2>1 DEF Known
    <2>3. /\ \A r \in Location \cup {None} : /\ Apart(locations[m], r) => Apart(v, r)
                                             /\ Apart(r, locations[m]) => Apart(r, v)
          /\ \A s : Cleared(s, locations[m]) => Cleared(s, v)
          /\ Apart(v, v)
      BY <2>1, <2>2, AlteredApart
    <2>4. PairsNext
      BY <1>2, <1>3, <2>1, <2>3, Zenon
    <2>5. ClearNext
      <3>1. w.pc = "done"
        BY <1>6 DEF Alters
      <3>2. ASSUME NEW d \in Commands, call'[d].pc = "insert", ~call'[d].override,
                   NEW l \in LocationIds
            PROVE  Cleared(call'[d].site, locations'[l])
        <4>1. Cleared(call[d].site, locations[l]) /\ call'[d] = call[d]
          BY <1>0, <1>2, <3>1, <3>2, Zenon
        <4>2. QED
          BY <1>3, <2>1, <2>3, <4>1, Zenon
      <3>3. QED
        BY <3>2, Zenon
    <2>6. QED
      BY <1>1, <2>4, <2>5, ApartMeansNext, Zenon
  <1>7. CASE UNCHANGED locations
    <2>1. PairsNext
      BY <1>2, <1>7, Zenon
    <2>2. ASSUME NEW d \in Commands, call'[d].pc = "insert", ~call'[d].override, NEW l \in LocationIds
          PROVE  Cleared(call'[d].site, locations'[l])
      <3>1. CASE d # c
        BY <1>0, <1>2, <1>7, <2>2, <3>1
      <3>2. CASE d = c
        <4>1. \A k \in ActiveLocations : ~IsNearDuplicate(w.site, k)
          BY <1>0, <2>2, <3>2, Zenon DEF Effect, Goes, Locks, Checks, Inserts, Finds, Alters, Reads,
                                  Writes, SeedsConfig, SeedsDemo
        <4>2. Cleared(w.site, locations[l])
          BY <4>1 DEF Cleared, ActiveLocations, ActiveLocation, Known, IsNearDuplicate
        <4>3. QED
          BY <1>0, <1>7, <3>2, <4>2, Zenon
      <3>3. QED
        BY <3>1, <3>2
    <2>3. QED
      BY <1>1, <2>1, <2>2, ApartMeansNext, Zenon
  <1>8. QED
    BY <1>4, <1>5, <1>6, <1>7, Zenon
       DEF Effect, Goes, Locks, Checks, Finds, Reads, Writes, SeedsConfig, UpdateConfiguration

\* An update that nobody overlapped writes what the operator sent and keeps the rest.
LEMMA ConfigStep ==
    ASSUME Typed, ConfigOK, LastValueStands, NEW c \in Commands, NEW w,
           Becomes(c, w), Effect(c, w)
    PROVE  ConfigOK' /\ LastValueStands'
  <1>0. call'[c] = w /\ \A d \in Commands \ {c} : call'[d] = call[d]
    BY BecomesFrame
  <1> DEFINE Updates(v) == v.pc = "write" /\ v.op = "UpdateConfiguration"
  <1>1. CASE Writes(c, w)
    <2>1. /\ Updates(call[c]) /\ w.pc = "done" /\ config' = call[c].row
          /\ last' = [f \in Fields |-> IF f \in call[c].sent THEN call[c].row[f] ELSE last[f]]
          /\ tangled' = (tangled \/ \E d \in Commands \ {c} : Updates(call[d]))
      BY <1>1, Zenon DEF Writes, UpdateConfiguration
    <2>2. /\ call[c].row \in Config /\ call[c].sent \in SUBSET Fields /\ last \in Config
          /\ config # None /\ config' # None /\ call[c].row # None
      BY <2>1, CatalogFacts, Zenon DEF Typed, CallOK, CatalogTypeOK, Command, ConfigOK
    <2>3. ASSUME ~tangled' PROVE config' = last'
      <3>1. ~tangled /\ config = last
        BY <2>1, <2>2, <2>3, Zenon DEF LastValueStands
      <3>2. \A f \in Fields \ call[c].sent : call[c].row[f] = last[f]
        BY <2>1, <3>1, Zenon DEF ConfigOK
      <3>3. \A f \in Fields : call[c].row[f] = last'[f]
        BY <2>1, <3>2, Zenon
      <3>4. last' \in Config
        BY <2>1, <2>2, MixedConfig, Zenon
      <3>5. QED
        BY <2>1, <2>2, <3>3, <3>4, ConfigFields, Zenon
    <2>4. ASSUME NEW d \in Commands, Updates(call'[d]) PROVE tangled'
      BY <1>0, <2>1, <2>4, Zenon
    <2>5. QED
      BY <2>2, <2>3, <2>4, Zenon DEF ConfigOK, LastValueStands
  <1>2. CASE SeedsConfig(c, w) /\ config = None
    <2>1. config' = SeededConfig /\ UNCHANGED <<last, tangled>> /\ w.pc = "seedLookup"
      BY <1>2 DEF SeedsConfig
    <2>2. last = SeededConfig /\ SeededConfig # None
      BY <1>2, ConfigFields, CatalogFacts DEF ConfigOK
    <2>3. ASSUME NEW d \in Commands, Updates(call'[d]) PROVE FALSE
      BY <1>0, <1>2, <2>1, <2>3, Zenon DEF ConfigOK
    <2>4. QED
      BY <2>1, <2>2, <2>3, Zenon DEF ConfigOK, LastValueStands
  <1>3. CASE UNCHANGED <<config, last, tangled>>
    <2>1. ASSUME NEW d \in Commands, Updates(call'[d])
          PROVE  /\ config # None
                 /\ ~tangled => \A f \in Fields \ call'[d].sent : call'[d].row[f] = config[f]
      <3>1. CASE d = c
        <4>1. Reads(c, w) \/ Writes(c, w)
          BY <1>0, <2>1, <3>1, Zenon DEF Effect, Goes, Locks, Checks, Inserts, Finds, Alters,
                                  SeedsConfig, SeedsDemo
        <4>2. QED
          BY <1>0, <2>1, <3>1, <4>1, Zenon DEF Reads, Writes
      <3>2. CASE d # c
        BY <1>0, <2>1, <3>2 DEF ConfigOK
      <3>3. QED
        BY <3>1, <3>2, Zenon
    <2>2. QED
      BY <1>3, <2>1, Zenon DEF ConfigOK, LastValueStands
  <1>4. QED
    BY <1>1, <1>2, <1>3, Zenon DEF Effect, Goes, Locks, Checks, Inserts, Finds, Alters, Reads,
                            SeedsConfig, SeedsDemo

-----------------------------------------------------------------------------
\* The invariant holds before the first start of the program and after it.
LEMMA CatalogInvInit ==
    ASSUME Counting, CatalogInit
    PROVE  CatalogInv
  <1> DEFINE demo == [site |-> DemoSite, name |-> DemoName, status |-> "active",
                      how |-> "seeded", nth |-> 0, again |-> FALSE]
  <1>1. demo \in Location
    BY CatalogAssumption, KnownCounted DEF Location, Statuses
  <1>2. \A c \in Commands : call[c] = NoCommand
    BY Zenon DEF CatalogInit
  <1>3. NoCommand.pc = "idle"
    BY Zenon DEF NoCommand
  <1>4. PICK seeded \in BOOLEAN :
          /\ provider = IF seeded THEN "active" ELSE None
          /\ config = IF seeded THEN SeededConfig ELSE None
          /\ locations = [l \in LocationIds |-> IF seeded /\ l = Demo THEN demo ELSE None]
    BY Zenon DEF CatalogInit
  <1>5. Typed
    BY <1>1, <1>4, NoCommandTyped, ConfigFields, Zenon DEF CatalogInit, Typed, CatalogTypeOK, Statuses
  <1>6. RowsOK
    <2>1. \A l \in LocationIds : Known(l) => l = Demo /\ locations[l].nth = 0
      BY <1>4, Zenon DEF Known
    <2>2. ASSUME NEW l \in LocationIds, Known(l) PROVE 0 < Cardinality(KnownLocations)
      <3>1. KnownLocations # {}
        BY <2>2 DEF KnownLocations
      <3>2. QED
        BY <3>1, KnownCounted
    <2>3. QED
      BY <1>2, <1>3, <2>1, <2>2, CatalogFacts, Zenon DEF RowsOK
  <1>7. DedupOK
    BY <1>2, <1>3 DEF DedupOK
  <1>8. NearPairsExcused
    BY <1>4, Zenon DEF NearPairsExcused, ActiveLocations, ActiveLocation, Known
  <1>9. ConfigOK /\ LastValueStands
    <2>1. last = SeededConfig
      BY Zenon DEF CatalogInit
    <2>2. config # None => config = SeededConfig
      BY <1>4, Zenon
    <2>3. QED
      BY <1>2, <1>3, <2>1, <2>2 DEF ConfigOK, LastValueStands
  <1>10. QED
    BY <1>5, <1>6, <1>7, <1>8, <1>9 DEF CatalogInv

\* Every step keeps it.
LEMMA CatalogInvNext ==
    ASSUME Counting, CatalogInv, [CatalogNext]_catalogVars
    PROVE  CatalogInv'
  <1>1. ASSUME NEW c \in Commands, CommandStep(c), UNCHANGED mix PROVE CatalogInv'
    <2>1. PICK w : Becomes(c, w) /\ Effect(c, w)
      BY <1>1, StepEffect DEF CatalogInv
    <2>2. Typed'
      BY <1>1, <2>1, TypedStep DEF CatalogInv
    <2>3. RowsOK' /\ DedupOK' /\ NearPairsExcused'
      BY <2>1, RowsStep, DedupStep DEF CatalogInv
    <2>4. ConfigOK' /\ LastValueStands'
      BY <2>1, ConfigStep DEF CatalogInv
    <2>5. QED
      BY <2>2, <2>3, <2>4 DEF CatalogInv
  <1>2. CASE UNCHANGED catalogVars
    <2>1. UNCHANGED <<call, locations, lock, config, last, tangled>> /\ UNCHANGED catalogVars
      BY <1>2 DEF catalogVars
    <2>2. Typed'
      BY <1>2, Zenon DEF CatalogInv, catalogVars, Typed, CatalogTypeOK, CallOK, Known
    <2>3. RowsOK'
      BY <2>1, Zenon DEF CatalogInv, RowsOK, KnownLocations, Known
    <2>4. DedupOK'
      BY <2>1, Zenon DEF CatalogInv, DedupOK, ActiveLocations, ActiveLocation, Known, IsNearDuplicate, Unchecked
    <2>5. NearPairsExcused'
      BY <2>1 DEF CatalogInv, NearPairsExcused, ActiveLocations, ActiveLocation, Known, IsNearDuplicate
    <2>6. ConfigOK' /\ LastValueStands'
      BY <2>1, Zenon DEF CatalogInv, ConfigOK, LastValueStands
    <2>7. QED
      BY <2>2, <2>3, <2>4, <2>5, <2>6 DEF CatalogInv
  <1>3. QED
    BY <1>1, <1>2 DEF CatalogNext

-----------------------------------------------------------------------------
(* The counting, and what follows.                                         *)
INSTANCE FiniteSetTheorems

\* There are finitely many calls, so locations can be counted.
LEMMA Counted == Counting
  <1>1. IsFiniteSet(LocationIds)
    BY CatalogAssumption, FS_AddElement, Zenon DEF LocationIds
  <1>2. Cardinality(LocationIds) \in Nat
    BY <1>1, FS_CardinalityType, Zenon
  <1>3. ASSUME NEW S \in SUBSET LocationIds
        PROVE  /\ IsFiniteSet(S) /\ Cardinality(S) \in 0..Cardinality(LocationIds)
               /\ S # {} => Cardinality(S) > 0
    <2>1. IsFiniteSet(S) /\ Cardinality(S) <= Cardinality(LocationIds)
      BY <1>1, FS_Subset, Zenon
    <2>2. Cardinality(S) \in Nat /\ (Cardinality(S) = 0 <=> S = {})
      BY <2>1, FS_CardinalityType, FS_EmptySet, Zenon
    <2>3. QED
      BY <1>2, <2>1, <2>2
  <1>4. ASSUME NEW S \in SUBSET LocationIds, NEW l \in LocationIds \ S
        PROVE  Cardinality(S \cup {l}) = Cardinality(S) + 1
    BY <1>3, FS_AddElement, Zenon
  <1>5. QED
    BY <1>2, <1>3, <1>4, Zenon DEF Counting

\* The inductive invariant of the catalog: a creation holds the advisory lock from its
\* check to its insert, an update holds what it does not send.
THEOREM CatalogInvariant == CatalogSpec => []CatalogInv
<1>1. CatalogInit => CatalogInv
  BY Counted, CatalogInvInit, Zenon
<1>2. CatalogInv /\ [CatalogNext]_catalogVars => CatalogInv'
  BY Counted, CatalogInvNext
<1> QED
  BY <1>1, <1>2, PTL DEF CatalogSpec

\* Commands and seeds that overlap keep locations apart and the operator's settings
\* (LocationService.CreateLocation, ConfigurationService.UpdateConfiguration, seed).
THEOREM CatalogStaysSound == CatalogSpec => []CatalogIsSound
<1>1. CatalogInv => CatalogIsSound
  BY Zenon DEF CatalogInv, CatalogIsSound
<1> QED
  BY <1>1, CatalogInvariant, PTL
=============================================================================
