--------------------------- MODULE SlotGeneration ---------------------------
(***************************************************************************)
(* Which slots the scheduler's tick generates (Scheduler.generateSlots),   *)
(* beside the commands that change the catalog it reads.                   *)
(*                                                                         *)
(* A tick takes the time, lists the active configurations, lists the       *)
(* active locations, and inserts slots in one transaction.  Each is a step *)
(* of its own.  Time is counted in units, Hour of them to the hour.        *)
(***************************************************************************)
EXTENDS Catalog, TLC

CONSTANTS
    Tickers,        \* the processes that run a scheduler
    Hour,           \* units of time in an hour
    ObsOffset,      \* the offset of observation slots
    AnalysisOffsets,\* the offsets of analysis slots
    MaxOutage,      \* how long it may take from one generation to the next
    MaxNow          \* bound: time

ASSUME GenerationAssumption ==
    /\ Hour \in Nat \ {0} /\ MaxNow \in Nat /\ MaxOutage \in 1..Hour
    /\ Offsets \cup AnalysisOffsets \cup {ObsOffset} \subseteq 0..(Hour - 1)
    /\ None \notin Offsets /\ None # ObsOffset

VARIABLES
    now,        \* the time
    slots,      \* collection_schedules: the keys of the rows
    tick,       \* where each scheduler's tick is, and what it has read
    generated,  \* history: the time of the latest tick that inserted its slots
    changed     \* history: when a location, or the schedule of its slots, last changed

genVars == <<now, slots, tick, generated, changed>>
slotVars == <<catalogVars, genVars>>

Kinds == {"forecast", "observation"}

\* A slot's key: its kind, the location (None for the global job), the time.
Slot == [kind : Kinds \cup {"analysis"}, loc : LocationIds \cup {None}, at : Nat]

\* The offset of the active configuration, or None when there is none.
ActiveOffset == IF config = None THEN None
                ELSE IF config.status = "active" THEN config.offset ELSE None

\* The schedule of a kind of slot, and that of a location's slots, None when it has none.
Schedule(kind) == IF kind = "observation" THEN ObsOffset ELSE ActiveOffset

Cadence(kind, l) == IF ActiveLocation(l) THEN Schedule(kind) ELSE None

NoTick == [pc |-> "idle", at |-> 0, cadence |-> None, locs |-> {}]

\* Every variable has its type.
SlotTypeOK ==
    /\ now \in 0..MaxNow
    /\ slots \subseteq Slot
    /\ \A t \in Tickers : /\ tick[t].pc \in {"idle", "configs", "locations", "write"}
                          /\ tick[t].at \in 0..now
                          /\ tick[t].cadence \in Offsets \cup {None}
                          /\ tick[t].locs \subseteq LocationIds
    /\ generated \in 0..now
    /\ changed \in [Kinds \X LocationIds -> 0..now]

-----------------------------------------------------------------------------
Truncate(t) == (t \div Hour) * Hour

\* Mutant of From: no catch-up.
FromThisHour(t) == Truncate(t)

\* The window, half-open: the hour before, to catch up, and this one.
From(t) == Truncate(t) - Hour
To(t)   == Truncate(t) + Hour

\* Schedule.SlotTimes, and analysisSlotTimes for each of its offsets: the instants of
\* [from, to) at an offset past the hour.
SlotTimes(offset, from, to) == {t \in from..(to - 1) : t % Hour = offset}

\* time.Now(), at the start of a tick.
StartTick(t) ==
    /\ tick[t].pc = "idle" /\ "Tick" \in mix
    /\ tick' = [tick EXCEPT ![t].pc = "configs", ![t].at = now]
    /\ UNCHANGED <<now, slots, generated>>

\* ListActiveConfigurations.
ListConfigurations(t) ==
    /\ tick[t].pc = "configs"
    /\ tick' = [tick EXCEPT ![t].pc = "locations", ![t].cadence = ActiveOffset]
    /\ UNCHANGED <<now, slots, generated>>

LatestIs(t) == generated' = IF tick[t].at > generated THEN tick[t].at ELSE generated

\* ListActiveLocations.  Without any, nothing is generated, the analysis included.
ListLocations(t) ==
    /\ tick[t].pc = "locations"
    /\ IF ActiveLocations = {}
       THEN tick' = [tick EXCEPT ![t] = NoTick] /\ LatestIs(t)
       ELSE tick' = [tick EXCEPT ![t].pc = "write", ![t].locs = ActiveLocations]
            /\ UNCHANGED generated
    /\ UNCHANGED <<now, slots>>

\* The slots of a tick.
Wanted(t) ==
    LET from == From(tick[t].at)
        to   == To(tick[t].at)
        Of(kind, offset) == {[kind |-> kind, loc |-> x[1], at |-> x[2]] :
                                x \in tick[t].locs \X SlotTimes(offset, from, to)}
    IN  (IF tick[t].cadence = None THEN {} ELSE Of("forecast", tick[t].cadence))
        \cup Of("observation", ObsOffset)
        \cup {[kind |-> "analysis", loc |-> None, at |-> i] :
                i \in UNION {SlotTimes(o, from, to) : o \in AnalysisOffsets}}

\* The transaction: rows that exist are left alone.
Generate(t) ==
    /\ tick[t].pc = "write"
    /\ slots' = slots \cup Wanted(t)
    /\ LatestIs(t)
    /\ tick' = [tick EXCEPT ![t] = NoTick]
    /\ UNCHANGED now

\* A tick fails at any point; the next one starts anew.
TickFails(t) ==
    /\ tick[t].pc # "idle"
    /\ tick' = [tick EXCEPT ![t] = NoTick]
    /\ UNCHANGED <<now, slots, generated>>

\* Time passes; the schedulers do not stop for longer than MaxOutage.
Advance ==
    /\ "Tick" \in mix
    /\ now < MaxNow /\ now < generated + MaxOutage
    /\ now' = now + 1
    /\ UNCHANGED <<slots, tick, generated>>

TickStep(t) ==
    StartTick(t) \/ ListConfigurations(t) \/ ListLocations(t) \/ Generate(t) \/ TickFails(t)

\* Keeps the history of what changed when.
NoteChanges ==
    changed' = [x \in Kinds \X LocationIds |->
                  IF UNCHANGED <<ActiveLocation(x[2]), Schedule(x[1])>>
                  THEN changed[x] ELSE now]

SlotInit ==
    /\ CatalogInit
    /\ now = Hour /\ generated = Hour
    /\ slots = {}
    /\ tick = [t \in Tickers |-> NoTick]
    /\ changed = [x \in Kinds \X LocationIds |-> Hour]

SlotNext ==
    /\ \/ CatalogNext /\ UNCHANGED <<now, slots, tick, generated>>
       \/ ((\E t \in Tickers : TickStep(t)) \/ Advance) /\ UNCHANGED catalogVars
    /\ NoteChanges

SlotSpec == SlotInit /\ [][SlotNext]_slotVars

-----------------------------------------------------------------------------
\* No instant is skipped: once a tick at time g has generated, every instant of the
\* current schedule of an active location, from the last change of that schedule up to
\* the end of g's hour, has its slot, however the ticks fell and whichever failed, as
\* long as the schedulers were never out for more than MaxOutage.
NoInstantSkipped ==
    \A kind \in Kinds, l \in LocationIds :
        Cadence(kind, l) # None =>
            \A i \in SlotTimes(Cadence(kind, l), changed[<<kind, l>>] + 1, generated + 1) :
                [kind |-> kind, loc |-> l, at |-> i] \in slots

\* What is disabled stays without new slots: a location or configuration that is off
\* has no slot after the hour in which it went off, not even from a tick that had read
\* it before ("Disabling stops future collection").
NothingAfterDisable ==
    \A s \in slots :
        (s.kind \in Kinds /\ Cadence(s.kind, s.loc) = None) =>
            s.at < To(changed[<<s.kind, s.loc>>])

\* Slots follow the catalog: each instant of an active schedule has one, and what is
\* disabled gets no more.
SlotsFollowCatalog == NoInstantSkipped /\ NothingAfterDisable
=============================================================================
