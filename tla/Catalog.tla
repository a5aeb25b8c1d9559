------------------------------ MODULE Catalog ------------------------------
(***************************************************************************)
(* The catalog (internal/catalog): locations, a provider and its           *)
(* configuration, the admin's commands on them, and the seed that runs at  *)
(* every start of the program (cmd/forecastiq/seed.go).                    *)
(*                                                                         *)
(* A command is one READ COMMITTED transaction that reads and then writes; *)
(* other transactions commit between the two.  Only the creation of a      *)
(* location takes a lock, the advisory one.  The seed runs its statements  *)
(* one by one.  Coordinates are sites, and what counts is which sites are  *)
(* near each other.  Each call is made once; the location it creates is    *)
(* named after it.                                                         *)
(***************************************************************************)
EXTENDS Naturals, FiniteSets

CONSTANTS
    Commands,       \* the calls
    Sites, Near,    \* coordinates; which pairs are closer than the threshold
    Names,          \* names of locations
    Offsets,        \* minute offsets of a schedule
    Demo,           \* the seeded location
    DemoSite,       \* where it is
    DemoName,       \* its name
    Mixes,          \* sets of operations to be called together
    None            \* no row, no value

Operations == {"CreateLocation", "UpdateLocation", "SetLocationStatus",
               "SetProviderStatus", "UpdateConfiguration", "Seed", "Tick"}

Fields == {"status", "offset"}

ASSUME CatalogAssumption ==
    /\ IsFiniteSet(Commands) /\ Demo \notin Commands
    /\ None \notin Commands \cup {Demo} \cup Names
    /\ Near \subseteq Sites \X Sites
    /\ \A a, b \in Sites : <<a, b>> \in Near => <<b, a>> \in Near
    /\ DemoSite \in Sites /\ DemoName \in Names /\ 0 \in Offsets
    /\ Mixes \subseteq SUBSET Operations

VARIABLES
    locations,  \* locations: id -> row
    provider,   \* providers: the status of the provider
    config,     \* provider_configurations: the row of its configuration
    lock,       \* the call that holds the advisory lock, or None
    call,       \* where each call is, its input, the row it read
    last,       \* history: the value last given to each field of the configuration
    tangled,    \* history: whether two updates of the configuration overlapped
    mix         \* the operations called in this behaviour

catalogVars == <<locations, provider, config, lock, call, last, tangled, mix>>

Statuses    == {"active", "disabled"}
LocationIds == Commands \cup {Demo}

\* how the location came to be, with how many there were before (nth), and whether
\* it has been enabled again (again) is kept for the properties.
Location == [site : Sites, name : Names, status : Statuses,
             how : {"checked", "override", "seeded"},
             nth : 0..Cardinality(LocationIds), again : BOOLEAN]

\* The offset stands for the schedule, and for the adapter's version and the validation
\* state, which are stored as given too.
Config == [status : Statuses, offset : Offsets]

PCs == {"idle", "lock", "check", "insert", "read", "write", "seedProvider",
        "seedConfig", "seedLookup", "seedLocation", "done"}

\* id is the location asked about; site, name, status and override are the input.
\* sent are the fields of the configuration that the input has, row what they are set
\* in: first the input, then the row as read and overwritten.
Command == [pc : PCs, op : Operations \cup {None}, id : LocationIds \cup {None},
            site : Sites \cup {None}, name : Names \cup {None},
            status : Statuses \cup {None}, override : BOOLEAN,
            sent : SUBSET Fields, row : Config \cup {None}]

\* None is no row.
ASSUME NoRowAssumption == None \notin Location /\ None \notin Config

NoCommand == [pc |-> "idle", op |-> None, id |-> None, site |-> None, name |-> None,
              status |-> None, override |-> FALSE, sent |-> {}, row |-> None]

\* Every variable has its type.
CatalogTypeOK ==
    /\ locations \in [LocationIds -> Location \cup {None}]
    /\ provider \in Statuses \cup {None}
    /\ config \in Config \cup {None}
    /\ lock \in Commands \cup {None}
    /\ call \in [Commands -> Command]
    /\ last \in Config
    /\ tangled \in BOOLEAN
    /\ mix \in Mixes

-----------------------------------------------------------------------------
Known(l) == locations[l] # None

ActiveLocation(l) == Known(l) /\ locations[l].status = "active"

\* ListActive.
ActiveLocations == {l \in LocationIds : ActiveLocation(l)}

\* The unique index on the names of active locations, against a write to l.
NameTaken(l, name) == \E k \in ActiveLocations \ {l} : locations[k].name = name

NewLocation(site, name, how) ==
    [site |-> site, name |-> name, status |-> "active", how |-> how,
     nth |-> Cardinality({l \in LocationIds : Known(l)}), again |-> FALSE]

\* Schedule.Valid and Status.Settable hold for every input that is let through.
SeededConfig == [status |-> "active", offset |-> 0]

Finish(c) == call' = [call EXCEPT ![c] = [NoCommand EXCEPT !.pc = "done"]]

GoOn(c, pc) == call' = [call EXCEPT ![c].pc = pc]

Input(op, pc) == [NoCommand EXCEPT !.op = op, !.pc = pc]

Start(c, input) == input.op \in mix /\ call' = [call EXCEPT ![c] = input]

\* What may be called.  Invalid input, and an override without a reason, are refused
\* before any transaction starts.  A field that is not sent has no value of its own.
BeginCommand(c) ==
    /\ call[c].pc = "idle"
    /\ \/ \E s \in Sites, n \in Names, o \in BOOLEAN :
             Start(c, [Input("CreateLocation", "lock") EXCEPT
                         !.site = s, !.name = n, !.override = o])
       \/ \E l \in LocationIds, n \in Names :
             Start(c, [Input("UpdateLocation", "read") EXCEPT !.id = l, !.name = n])
       \/ \E l \in LocationIds, s \in Statuses :
             Start(c, [Input("SetLocationStatus", "read") EXCEPT !.id = l, !.status = s])
       \/ \E s \in Statuses :
             Start(c, [Input("SetProviderStatus", "write") EXCEPT !.status = s])
       \/ \E T \in SUBSET Fields, r \in Config :
             /\ \A f \in Fields \ T : r[f] = SeededConfig[f]
             /\ Start(c, [Input("UpdateConfiguration", "read") EXCEPT !.sent = T, !.row = r])
       \/ Start(c, Input("Seed", "seedProvider"))
    /\ UNCHANGED <<locations, provider, config, lock, last, tangled>>

-----------------------------------------------------------------------------
(* LocationService.                                                        *)

\* Mutant of AcquireDedupLock: the check runs without the lock.
NoDedupLock(c) ==
    /\ call[c].pc = "lock"
    /\ GoOn(c, "check")
    /\ UNCHANGED <<locations, provider, config, lock, last, tangled>>

AcquireDedupLock(c) ==
    /\ call[c].pc = "lock"
    /\ lock = None
    /\ lock' = c
    /\ GoOn(c, "check")
    /\ UNCHANGED <<locations, provider, config, last, tangled>>

\* The end of c's transaction gives the lock back.
Release(c) == lock' = IF lock = c THEN None ELSE lock

IsNearDuplicate(s, l) == <<s, locations[l].site>> \in Near

\* ListActive and the proximity check, skipped when the caller overrides it.
CheckDuplicates(c) ==
    /\ call[c].pc = "check"
    /\ IF ~call[c].override
          /\ \E l \in ActiveLocations : IsNearDuplicate(call[c].site, l)
       THEN Finish(c) /\ Release(c)
       ELSE GoOn(c, "insert") /\ UNCHANGED lock
    /\ UNCHANGED <<locations, provider, config, last, tangled>>

\* The insert, with the audit event, and the commit; or NameConflictError.
InsertLocation(c) ==
    LET how == IF call[c].override THEN "override" ELSE "checked"
    IN  /\ call[c].pc = "insert"
        /\ locations' = IF NameTaken(c, call[c].name) THEN locations
                        ELSE [locations EXCEPT ![c] =
                                NewLocation(call[c].site, call[c].name, how)]
        /\ Release(c)
        /\ Finish(c)
        /\ UNCHANGED <<provider, config, last, tangled>>

\* GetByID of UpdateLocation and SetLocationStatus; the latter refuses a change to
\* the status the location has.
ReadLocation(c) ==
    LET l == call[c].id
    IN  /\ call[c].pc = "read" /\ l # None
        /\ IF Known(l) /\ locations[l].status # call[c].status
           THEN GoOn(c, "write") ELSE Finish(c)
        /\ UNCHANGED <<locations, provider, config, lock, last, tangled>>

\* UPDATE of the name; the index speaks of active locations only.
UpdateLocation(c) ==
    LET l == call[c].id
        free == ActiveLocation(l) => ~NameTaken(l, call[c].name)
    IN  /\ call[c].pc = "write" /\ call[c].op = "UpdateLocation"
        /\ locations' = IF free THEN [locations EXCEPT ![l].name = call[c].name]
                        ELSE locations
        /\ Finish(c)
        /\ UNCHANGED <<provider, config, lock, last, tangled>>

\* UPDATE of the status.  Enabling makes no proximity check and takes no lock.
SetLocationStatus(c) ==
    LET l == call[c].id
        on == call[c].status = "active"
    IN  /\ call[c].pc = "write" /\ call[c].op = "SetLocationStatus"
        /\ locations' = IF on /\ NameTaken(l, locations[l].name) THEN locations
                        ELSE [locations EXCEPT ![l].status = call[c].status,
                                               ![l].again = locations[l].again \/ on]
        /\ Finish(c)
        /\ UNCHANGED <<provider, config, lock, last, tangled>>

-----------------------------------------------------------------------------
(* ProviderService and ConfigurationService.                               *)

\* One UPDATE between two reads that only report.
SetProviderStatus(c) ==
    /\ call[c].pc = "write" /\ call[c].op = "SetProviderStatus"
    /\ provider' = IF provider = None THEN None ELSE call[c].status
    /\ Finish(c)
    /\ UNCHANGED <<locations, config, lock, last, tangled>>

\* Nil fields are left unchanged.
Overwritten(read, sent, given) ==
    [f \in Fields |-> IF f \in sent THEN given[f] ELSE read[f]]

\* GetByID, and the input set in the copy.
ReadConfiguration(c) ==
    /\ call[c].pc = "read" /\ call[c].op = "UpdateConfiguration"
    /\ IF config = None
       THEN Finish(c)
       ELSE call' = [call EXCEPT ![c].pc = "write",
                                 ![c].row = Overwritten(config, call[c].sent, call[c].row)]
    /\ UNCHANGED <<locations, provider, config, lock, last, tangled>>

\* Update writes every mutable column of the copy.
UpdateConfiguration(c) ==
    /\ call[c].pc = "write" /\ call[c].op = "UpdateConfiguration"
    /\ config' = call[c].row
    /\ last' = [f \in Fields |-> IF f \in call[c].sent THEN call[c].row[f] ELSE last[f]]
    /\ tangled' = (tangled \/ \E d \in Commands \ {c} :
                       call[d].pc = "write" /\ call[d].op = "UpdateConfiguration")
    /\ Finish(c)
    /\ UNCHANGED <<locations, provider, lock>>

-----------------------------------------------------------------------------
(* The seed.                                                               *)

\* Upsert of the provider: its status is set to active again.
SeedProvider(c) ==
    /\ call[c].pc = "seedProvider"
    /\ provider' = "active"
    /\ GoOn(c, "seedConfig")
    /\ UNCHANGED <<locations, config, lock, last, tangled>>

\* Insert of the configuration: an existing row is never touched.
SeedConfiguration(c) ==
    /\ call[c].pc = "seedConfig"
    /\ config' = IF config = None THEN SeededConfig ELSE config
    /\ GoOn(c, "seedLookup")
    /\ UNCHANGED <<locations, provider, lock, last, tangled>>

\* The existence check for the demo location ...
SeedLookup(c) ==
    /\ call[c].pc = "seedLookup"
    /\ IF Known(Demo) THEN Finish(c) ELSE GoOn(c, "seedLocation")
    /\ UNCHANGED <<locations, provider, config, lock, last, tangled>>

\* ... and its insert, without the proximity check.  A row of another start, or an
\* active location of that name, makes it fail.
SeedLocation(c) ==
    /\ call[c].pc = "seedLocation"
    /\ locations' = IF Known(Demo) \/ NameTaken(Demo, DemoName) THEN locations
                    ELSE [locations EXCEPT ![Demo] = NewLocation(DemoSite, DemoName, "seeded")]
    /\ Finish(c)
    /\ UNCHANGED <<provider, config, lock, last, tangled>>

-----------------------------------------------------------------------------
\* Before the first start of the program, or after it.
CatalogInit ==
    /\ \E seeded \in BOOLEAN :
         /\ provider = IF seeded THEN "active" ELSE None
         /\ config = IF seeded THEN SeededConfig ELSE None
         /\ locations = [l \in LocationIds |->
                           IF seeded /\ l = Demo
                           THEN [site |-> DemoSite, name |-> DemoName, status |-> "active",
                                 how |-> "seeded", nth |-> 0, again |-> FALSE]
                           ELSE None]
    /\ lock = None
    /\ call = [c \in Commands |-> NoCommand]
    /\ last = SeededConfig
    /\ tangled = FALSE
    /\ mix \in Mixes

\* A command is cut short: its transaction is rolled back, its lock released.
Abandon(c) ==
    /\ call[c].pc \notin {"idle", "done"}
    /\ Release(c)
    /\ Finish(c)
    /\ UNCHANGED <<locations, provider, config, last, tangled>>

CommandStep(c) ==
    \/ BeginCommand(c) \/ Abandon(c)
    \/ AcquireDedupLock(c) \/ CheckDuplicates(c) \/ InsertLocation(c)
    \/ ReadLocation(c) \/ UpdateLocation(c) \/ SetLocationStatus(c)
    \/ SetProviderStatus(c) \/ ReadConfiguration(c) \/ UpdateConfiguration(c)
    \/ SeedProvider(c) \/ SeedConfiguration(c) \/ SeedLookup(c) \/ SeedLocation(c)

CatalogNext == (\E c \in Commands : CommandStep(c)) /\ UNCHANGED mix

CatalogSpec == CatalogInit /\ [][CatalogNext]_catalogVars

-----------------------------------------------------------------------------
\* Two active locations are near each other only when the later one was created with
\* the override, or when one of them was seeded or enabled again: two creations never
\* both pass the check (the advisory lock, "prevents concurrent creates from both
\* passing the proximity check before either commits").
NearPairsExcused ==
    \A a, b \in ActiveLocations :
        <<locations[a].site, locations[b].site>> \in Near
          /\ locations[a].nth < locations[b].nth
        => \/ locations[b].how = "override"
           \/ \E l \in {a, b} : locations[l].how = "seeded" \/ locations[l].again

\* Each field of the configuration has the value the operator gave it last, or the
\* seeded one: an update keeps what it does not send, and no start of the program, at
\* whatever moment, undoes what an operator changed.  Two updates that overlap may
\* lose one another's fields.
LastValueStands == config # None /\ ~tangled => config = last

\* Commands and seeds that overlap keep locations apart and the operator's settings.
CatalogIsSound == NearPairsExcused /\ LastValueStands
=============================================================================
