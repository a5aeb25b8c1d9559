--------------------------- MODULE ServicesProofs ---------------------------
(***************************************************************************)
(* Three services that share no state.  The slots that ticks generate from *)
(* the catalog, for any number of schedulers, any offsets and lengths of   *)
(* the hour, and whatever the commands do to the catalog: a change of it   *)
(* is known to the proof only by what NoteChanges keeps of it.  The cache  *)
(* of signing keys, and the end of the process, for any number of          *)
(* concurrent verifications and jobs.                                      *)
(***************************************************************************)
EXTENDS SlotGeneration, KeyCache, Serve, Integers, TLAPS

-----------------------------------------------------------------------------
(* The slots.                                                              *)

\* A tick holds a cadence, whichever the catalog had, and locations.
Ticks(cadences) == [pc : {"idle", "configs", "locations", "write"}, at : Nat,
                    cadence : cadences, locs : SUBSET LocationIds]

Tick(w) == \E cadences : w \in Ticks(cadences)

\* Time, and the latest generation at most an hour ago.
ClockOK ==
    /\ now \in Nat /\ generated \in Nat /\ generated <= now /\ now <= generated + Hour
    /\ tick = [t \in Tickers |-> tick[t]]
    /\ \A t \in Tickers : Tick(tick[t]) /\ tick[t].at <= now
    /\ changed \in [Kinds \X LocationIds -> Nat]
    /\ \A x \in Kinds \X LocationIds : changed[x] <= now

\* What a tick has read is what is, unless that changed since the tick began.
TickOK(w) ==
    /\ w.pc \in {"locations", "write"} =>
         \A l \in LocationIds : changed[<<"forecast", l>>] < w.at => w.cadence = ActiveOffset
    /\ w.pc = "write" =>
         \A kind \in Kinds, l \in LocationIds :
             changed[<<kind, l>>] < w.at => (l \in w.locs <=> ActiveLocation(l))

\* No slot lies beyond the hour.
SlotsOK ==
    \A s \in slots : /\ s.at \in Int /\ s.at < To(now)
                     /\ s.kind \in Kinds => s.loc \in LocationIds

SlotInv ==
    /\ ClockOK /\ SlotsOK
    /\ \A t \in Tickers : TickOK(tick[t])
    /\ NoInstantSkipped /\ NothingAfterDisable

\* The instants after c, up to g.
LEMMA InstantsBetween ==
    \A c, g \in Nat : \A i \in (c + 1)..((g + 1) - 1) : i \in Int /\ c + 1 <= i /\ i <= g
  OBVIOUS

\* An hour begins at most an hour before any of its instants.
LEMMA HourFacts ==
    ASSUME NEW t \in Nat
    PROVE  Truncate(t) \in Nat /\ Truncate(t) <= t /\ t < Truncate(t) + Hour
  <1>1. Hour \in Nat \ {0}
    BY GenerationAssumption
  <1>2. t \div Hour \in Nat /\ t % Hour \in 0..(Hour - 1) /\ t = Hour * (t \div Hour) + (t % Hour)
    BY <1>1
  <1>3. (t \div Hour) * Hour \in Nat /\ (t \div Hour) * Hour = Hour * (t \div Hour)
    BY <1>1, <1>2
  <1>4. QED
    BY <1>1, <1>2, <1>3 DEF Truncate

\* Later instants have later hours.
LEMMA HourMonotone ==
    ASSUME NEW t \in Nat, NEW u \in Nat, t <= u
    PROVE  Truncate(t) <= Truncate(u) /\ To(t) <= To(u) /\ To(t) \in Int /\ To(u) \in Int
  <1>1. Hour \in Nat \ {0}
    BY GenerationAssumption
  <1>2. t \div Hour \in Nat /\ u \div Hour \in Nat
    BY <1>1
  <1>3. t \div Hour <= u \div Hour
    <2>1. t = Hour * (t \div Hour) + (t % Hour) /\ t % Hour \in 0..(Hour - 1)
      BY <1>1
    <2>2. u = Hour * (u \div Hour) + (u % Hour) /\ u % Hour \in 0..(Hour - 1)
      BY <1>1
    <2> DEFINE p == t \div Hour
               q == u \div Hour
    <2>3. ASSUME q + 1 <= p PROVE FALSE
      <3>1. Hour * (q + 1) <= Hour * p
        BY <1>1, <1>2, <2>3
      <3>2. Hour * (q + 1) = Hour * q + Hour
        BY <1>1, <1>2
      <3>3. QED
        BY <1>1, <1>2, <2>1, <2>2, <3>1, <3>2
    <2>4. QED
      BY <1>2, <2>3
  <1>4. (t \div Hour) * Hour <= (u \div Hour) * Hour
    BY <1>1, <1>2, <1>3
  <1>5. Truncate(t) \in Nat /\ Truncate(u) \in Nat
    BY HourFacts
  <1>6. QED
    BY <1>1, <1>4, <1>5 DEF Truncate, To

\* The slots a tick wants: in its window, of the locations and the schedule it has read.
LEMMA WantedOnly ==
    ASSUME ClockOK, NEW t \in Tickers, NEW s \in Wanted(t)
    PROVE  /\ s.at \in Int /\ s.at < To(tick[t].at)
           /\ s.kind \in Kinds => s.loc \in tick[t].locs
           /\ s.kind = "forecast" => tick[t].cadence # None
  <1>0. Tick(tick[t]) /\ tick[t].at \in Nat
    BY DEF ClockOK, Tick, Ticks
  <1>1. Hour \in Nat \ {0} /\ Truncate(tick[t].at) \in Nat
    BY <1>0, HourFacts, GenerationAssumption
  <1>2. ASSUME NEW o, NEW i \in SlotTimes(o, From(tick[t].at), To(tick[t].at))
        PROVE  i \in Int /\ i < To(tick[t].at)
    BY <1>1 DEF SlotTimes, From, To
  <1>3. ASSUME NEW kind, NEW o,
               NEW x \in tick[t].locs \X SlotTimes(o, From(tick[t].at), To(tick[t].at)),
               s = [kind |-> kind, loc |-> x[1], at |-> x[2]]
        PROVE  s.at \in Int /\ s.at < To(tick[t].at) /\ s.loc \in tick[t].locs /\ s.kind = kind
    <2>1. x[1] \in tick[t].locs /\ x[2] \in SlotTimes(o, From(tick[t].at), To(tick[t].at))
      OBVIOUS
    <2>2. s.kind = kind /\ s.loc = x[1] /\ s.at = x[2]
      BY <1>3
    <2>3. QED
      BY <1>2, <2>1, <2>2
  <1> DEFINE Of(kind, o) == {[kind |-> kind, loc |-> x[1], at |-> x[2]] :
                  x \in tick[t].locs \X SlotTimes(o, From(tick[t].at), To(tick[t].at))}
             Jobs == {[kind |-> "analysis", loc |-> None, at |-> i] :
                  i \in UNION {SlotTimes(o, From(tick[t].at), To(tick[t].at)) : o \in AnalysisOffsets}}
  <1>4. \/ s \in Of("forecast", tick[t].cadence) /\ tick[t].cadence # None
        \/ s \in Of("observation", ObsOffset)
        \/ s \in Jobs
    BY Zenon DEF Wanted
  <1>5. CASE s \in Of("forecast", tick[t].cadence) /\ tick[t].cadence # None
    <2>1. PICK x \in tick[t].locs \X SlotTimes(tick[t].cadence, From(tick[t].at), To(tick[t].at)) :
            s = [kind |-> "forecast", loc |-> x[1], at |-> x[2]]
      BY <1>5
    <2>2. QED
      BY <1>3, <1>5, <2>1
  <1>6. CASE s \in Of("observation", ObsOffset)
    <2>1. PICK x \in tick[t].locs \X SlotTimes(ObsOffset, From(tick[t].at), To(tick[t].at)) :
            s = [kind |-> "observation", loc |-> x[1], at |-> x[2]]
      BY <1>6
    <2>2. s.at \in Int /\ s.at < To(tick[t].at) /\ s.loc \in tick[t].locs /\ s.kind = "observation"
      BY <1>3, <2>1
    <2>3. QED
      BY <2>2
  <1>7. CASE s \in Jobs
    <2>1. PICK i \in UNION {SlotTimes(o, From(tick[t].at), To(tick[t].at)) : o \in AnalysisOffsets} :
            s = [kind |-> "analysis", loc |-> None, at |-> i]
      BY <1>7
    <2>2. i \in Int /\ i < To(tick[t].at)
      BY <1>2
    <2>3. s.kind = "analysis" /\ s.at = i
      BY <2>1
    <2>4. QED
      BY <2>2, <2>3 DEF Kinds
  <1>8. QED
    BY <1>4, <1>5, <1>6, <1>7, Zenon

\* And all of them.
LEMMA WantedAll ==
    ASSUME NEW t \in Tickers, NEW kind \in Kinds, NEW l \in tick[t].locs, NEW o, o # None,
           o = (IF kind = "observation" THEN ObsOffset ELSE tick[t].cadence),
           NEW i \in SlotTimes(o, From(tick[t].at), To(tick[t].at))
    PROVE  [kind |-> kind, loc |-> l, at |-> i] \in Wanted(t)
  <1> DEFINE X == tick[t].locs \X SlotTimes(o, From(tick[t].at), To(tick[t].at))
             Of(k) == {[kind |-> k, loc |-> x[1], at |-> x[2]] : x \in X}
  <1>1. <<l, i>> \in X /\ <<l, i>>[1] = l /\ <<l, i>>[2] = i
    OBVIOUS
  <1>2. [kind |-> kind, loc |-> l, at |-> i] \in Of(kind)
    BY <1>1, Zenon
  <1>3. CASE kind = "observation"
    BY <1>2, <1>3, Zenon DEF Wanted
  <1>4. CASE kind = "forecast"
    BY <1>2, <1>4, Zenon DEF Wanted
  <1>5. QED
    BY <1>3, <1>4 DEF Kinds

\* What NoteChanges notes: a change of the location or of the schedule, at its time.
LEMMA NotedChanges ==
    ASSUME ClockOK, NoteChanges, NEW kind \in Kinds, NEW l \in LocationIds
    PROVE  \/ /\ changed'[<<kind, l>>] = changed[<<kind, l>>]
              /\ ActiveLocation(l)' <=> ActiveLocation(l)
              /\ Schedule(kind)' = Schedule(kind)
           \/ changed'[<<kind, l>>] = now
  <1>1. <<kind, l>> \in Kinds \X LocationIds /\ <<kind, l>>[1] = kind /\ <<kind, l>>[2] = l
    OBVIOUS
  <1>2. changed'[<<kind, l>>] = IF UNCHANGED <<ActiveLocation(l), Schedule(kind)>>
                                THEN changed[<<kind, l>>] ELSE now
    BY <1>1 DEF NoteChanges
  <1>3. UNCHANGED <<ActiveLocation(l), Schedule(kind)>> =>
          (ActiveLocation(l)' <=> ActiveLocation(l)) /\ Schedule(kind)' = Schedule(kind)
    BY Zenon
  <1>4. QED
    BY <1>2, <1>3, Zenon

\* A change of the catalog is noted, so that nothing is said of what it changed.
LEMMA ChangesKeep ==
    ASSUME SlotInv, NoteChanges, UNCHANGED <<now, slots, tick, generated>>
    PROVE  /\ ClockOK' /\ SlotsOK' /\ \A t \in Tickers : TickOK(tick[t])'
           /\ NoInstantSkipped' /\ NothingAfterDisable'
  <1>0. /\ ClockOK /\ SlotsOK /\ NoInstantSkipped /\ NothingAfterDisable
        /\ now \in Nat /\ generated \in Nat /\ generated <= now
        /\ \A t \in Tickers : TickOK(tick[t]) /\ tick[t].at <= now /\ tick[t].at \in Nat
        /\ \A kind \in Kinds, l \in LocationIds : changed[<<kind, l>>] \in Nat
    BY Zenon DEF SlotInv, ClockOK, Tick, Ticks
  <1>1. ClockOK'
    <2>1. changed' = [x \in Kinds \X LocationIds |->
                        IF UNCHANGED <<ActiveLocation(x[2]), Schedule(x[1])>>
                        THEN changed[x] ELSE now]
      BY DEF NoteChanges
    <2>2. \A x \in Kinds \X LocationIds : changed'[x] \in Nat /\ changed'[x] <= now
      BY <1>0, <2>1 DEF ClockOK
    <2>3. changed' \in [Kinds \X LocationIds -> Nat]
      BY <2>1, <2>2
    <2>4. QED
      BY <1>0, <2>2, <2>3 DEF ClockOK
  <1>2. SlotsOK'
    BY <1>0 DEF SlotsOK, To, Truncate
  <1>3. ASSUME NEW t \in Tickers PROVE TickOK(tick[t])'
    <2>1. ASSUME tick[t].pc \in {"locations", "write"}, NEW l \in LocationIds,
                 changed'[<<"forecast", l>>] < tick[t].at
          PROVE  tick[t].cadence = ActiveOffset'
      <3>1. changed'[<<"forecast", l>>] # now
        BY <1>0, <2>1
      <3>2. changed'[<<"forecast", l>>] = changed[<<"forecast", l>>] /\ Schedule("forecast")' = Schedule("forecast")
        BY <1>0, <3>1, NotedChanges, Zenon DEF Kinds
      <3>3. ActiveOffset' = ActiveOffset
        BY <3>2 DEF Schedule
      <3>4. QED
        BY <1>0, <2>1, <3>2, <3>3, Zenon DEF TickOK
    <2>2. ASSUME tick[t].pc = "write", NEW kind \in Kinds, NEW l \in LocationIds,
                 changed'[<<kind, l>>] < tick[t].at
          PROVE  l \in tick[t].locs <=> ActiveLocation(l)'
      <3>1. changed'[<<kind, l>>] # now
        BY <1>0, <2>2
      <3>2. changed'[<<kind, l>>] = changed[<<kind, l>>] /\ (ActiveLocation(l)' <=> ActiveLocation(l))
        BY <1>0, <3>1, NotedChanges, Zenon
      <3>3. QED
        BY <1>0, <2>2, <3>2, Zenon DEF TickOK
    <2>3. QED
      BY <2>1, <2>2 DEF TickOK
  <1>4. NoInstantSkipped'
    <2>1. ASSUME NEW kind \in Kinds, NEW l \in LocationIds, Cadence(kind, l)' # None,
                 NEW i \in SlotTimes(Cadence(kind, l)', changed'[<<kind, l>>] + 1, generated + 1)
          PROVE  [kind |-> kind, loc |-> l, at |-> i] \in slots
      <3>1. changed'[<<kind, l>>] # now
        BY <1>0 DEF SlotTimes
      <3>2. changed'[<<kind, l>>] = changed[<<kind, l>>] /\ (ActiveLocation(l)' <=> ActiveLocation(l))
            /\ Schedule(kind)' = Schedule(kind)
        BY <1>0, <3>1, NotedChanges, Zenon
      <3>3. Cadence(kind, l)' = Cadence(kind, l)
        BY <3>2, Zenon DEF Cadence
      <3>4. QED
        BY <1>0, <2>1, <3>2, <3>3, Zenon DEF NoInstantSkipped
    <2>2. QED
      BY <2>1, Zenon DEF NoInstantSkipped, SlotTimes
  <1>5. NothingAfterDisable'
    <2>1. ASSUME NEW s \in slots, s.kind \in Kinds, Cadence(s.kind, s.loc)' = None
          PROVE  s.at < To(changed'[<<s.kind, s.loc>>])
      <3>0. s.loc \in LocationIds /\ s.at < To(now)
        BY <1>0, <2>1, Zenon DEF SlotsOK
      <3>1. CASE changed'[<<s.kind, s.loc>>] = now
        BY <3>0, <3>1, Zenon
      <3>2. CASE changed'[<<s.kind, s.loc>>] # now
        <4>1. changed'[<<s.kind, s.loc>>] = changed[<<s.kind, s.loc>>]
              /\ (ActiveLocation(s.loc)' <=> ActiveLocation(s.loc))
              /\ Schedule(s.kind)' = Schedule(s.kind)
          BY <1>0, <2>1, <3>0, <3>2, NotedChanges, Zenon
        <4>2. Cadence(s.kind, s.loc) = None
          BY <2>1, <4>1, Zenon DEF Cadence
        <4>3. QED
          BY <1>0, <2>1, <4>1, <4>2, Zenon DEF NothingAfterDisable
      <3>3. QED
        BY <3>1, <3>2
    <2>2. QED
      BY <2>1, Zenon DEF NothingAfterDisable, To, Truncate
  <1>6. QED
    BY <1>1, <1>2, <1>3, <1>4, <1>5

\* Without a change of the catalog nothing is noted.
LEMMA NoChanges ==
    ASSUME ClockOK, NoteChanges, UNCHANGED catalogVars
    PROVE  /\ changed' = changed /\ ActiveOffset' = ActiveOffset
           /\ ActiveLocations' = ActiveLocations
           /\ \A l : ActiveLocation(l)' <=> ActiveLocation(l)
           /\ \A kind, l : Cadence(kind, l)' = Cadence(kind, l)
  <1>1. ActiveOffset' = ActiveOffset /\ \A l : ActiveLocation(l)' <=> ActiveLocation(l)
    BY Zenon DEF catalogVars, ActiveOffset, ActiveLocation, Known
  <1>2. \A kind : Schedule(kind)' = Schedule(kind)
    BY <1>1 DEF Schedule
  <1>3. \A kind, l : Cadence(kind, l)' = Cadence(kind, l)
    BY <1>1, <1>2 DEF Cadence
  <1>4. ASSUME NEW x \in Kinds \X LocationIds
        PROVE  UNCHANGED <<ActiveLocation(x[2]), Schedule(x[1])>>
    BY Zenon DEF catalogVars, ActiveLocation, Known, Schedule, ActiveOffset
  <1>5. changed' = changed
    <2>1. changed' = [x \in Kinds \X LocationIds |->
                        IF UNCHANGED <<ActiveLocation(x[2]), Schedule(x[1])>>
                        THEN changed[x] ELSE now]
      BY Zenon DEF NoteChanges
    <2>2. \A x \in Kinds \X LocationIds : changed'[x] = changed[x]
      BY <1>4, <2>1, Zenon
    <2>3. changed' = [x \in Kinds \X LocationIds |-> changed'[x]]
      BY <2>1, Zenon
    <2>4. changed = [x \in Kinds \X LocationIds |-> changed[x]]
      BY DEF ClockOK
    <2>5. QED
      BY <2>2, <2>3, <2>4
  <1>6. ActiveLocations' = ActiveLocations
    BY <1>1 DEF ActiveLocations
  <1>7. QED
    BY <1>1, <1>3, <1>5, <1>6

\* A step of one tick, that leaves the tick right, leaves all of them right.
LEMMA TickMoves ==
    ASSUME ClockOK, \A t \in Tickers : TickOK(tick[t]), NoteChanges, UNCHANGED catalogVars,
           UNCHANGED now, NEW t \in Tickers, NEW w, Tick(w), w.at <= now, TickOK(w),
           tick' = [tick EXCEPT ![t] = w],
           generated' \in Nat, generated <= generated', generated' <= now
    PROVE  ClockOK' /\ \A u \in Tickers : TickOK(tick[u])'
  <1>1. tick' = [u \in Tickers |-> tick'[u]] /\ tick'[t] = w
        /\ \A u \in Tickers \ {t} : tick'[u] = tick[u]
    BY DEF ClockOK
  <1>2. changed' = changed /\ ActiveOffset' = ActiveOffset
        /\ \A l : ActiveLocation(l)' <=> ActiveLocation(l)
    BY NoChanges
  <1>3. ClockOK'
    <2>1. now \in Nat /\ generated \in Nat /\ Hour \in Nat /\ now <= generated + Hour
      BY GenerationAssumption, Zenon DEF ClockOK
    <2>2. now <= generated' + Hour
      <3>1. \A n, g, h, k \in Nat : n <= g + k /\ g <= h => n <= h + k
        OBVIOUS
      <3>2. QED
        BY <2>1, <3>1, Zenon
    <2>3. \A u \in Tickers : tick'[u].at <= now
      BY <1>1 DEF ClockOK
    <2>4. QED
      BY <1>1, <1>2, <2>1, <2>2, <2>3, Zenon DEF ClockOK
  <1>4. ASSUME NEW u \in Tickers PROVE TickOK(tick[u])'
    <2>1. TickOK(tick'[u])
      BY <1>1
    <2>2. QED
      BY <1>2, <2>1, Zenon DEF TickOK
  <1>5. QED
    BY <1>3, <1>4

\* NoTick is a tick with nothing read.
LEMMA NoTickTyped == Tick(NoTick) /\ NoTick.at = 0 /\ TickOK(NoTick)
  <1>1. NoTick \in Ticks({None})
    BY Zenon DEF NoTick, Ticks
  <1>2. QED
    BY <1>1, Zenon DEF NoTick, Tick, TickOK

\* While slots and generated stay, what is said of them stays.
LEMMA SlotsStay ==
    ASSUME SlotInv, NoteChanges, UNCHANGED catalogVars, UNCHANGED <<slots, generated>>,
           now' \in Nat, now <= now'
    PROVE  SlotsOK' /\ NoInstantSkipped' /\ NothingAfterDisable'
  <1>0. ClockOK /\ SlotsOK /\ NoInstantSkipped /\ NothingAfterDisable /\ now \in Nat
    BY Zenon DEF SlotInv, ClockOK
  <1>1. changed' = changed /\ \A kind, l : Cadence(kind, l)' = Cadence(kind, l)
    BY <1>0, NoChanges
  <1>2. NoInstantSkipped'
    BY <1>0, <1>1, Zenon DEF NoInstantSkipped, SlotTimes
  <1>3. NothingAfterDisable'
    BY <1>0, <1>1, Zenon DEF NothingAfterDisable, To, Truncate
  <1>4. SlotsOK'
    <2>1. To(now) <= To(now') /\ To(now) \in Int /\ To(now') \in Int
      BY <1>0, HourMonotone
    <2>2. \A s \in slots : s.at \in Int /\ s.at < To(now')
      BY <1>0, <2>1 DEF SlotsOK
    <2>3. \A s \in slots' : s.at < To(now)'
      BY <2>2 DEF To, Truncate
    <2>4. QED
      BY <1>0, <2>2, <2>3 DEF SlotsOK
  <1>5. QED
    BY <1>2, <1>3, <1>4

\* The latest generation moves on, to no later than now.
LEMMA LatestMoves ==
    ASSUME ClockOK, NEW t \in Tickers, LatestIs(t)
    PROVE  /\ generated' \in Nat /\ generated <= generated' /\ generated' <= now
           /\ tick[t].at \in Nat /\ tick[t].at <= now /\ generated \in Nat /\ now \in Nat
           /\ generated' = generated \/ (generated' = tick[t].at /\ generated < tick[t].at)
  <1>1. tick[t].at \in Nat /\ tick[t].at <= now /\ generated \in Nat /\ generated <= now
        /\ now \in Nat
    BY DEF ClockOK, Tick, Ticks
  <1>2. QED
    BY <1>1 DEF LatestIs

\* The window of a tick reaches back to the generation before: no instant is skipped.
LEMMA NothingSkipped ==
    ASSUME SlotInv, NoteChanges, UNCHANGED catalogVars, NEW t \in Tickers,
           tick[t].pc = "write", LatestIs(t), slots' = slots \cup Wanted(t)
    PROVE  NoInstantSkipped'
  <1>0. ClockOK /\ NoInstantSkipped /\ TickOK(tick[t])
        /\ now <= generated + Hour /\ Hour \in Nat
    BY GenerationAssumption, Zenon DEF SlotInv, ClockOK
  <1>1. changed' = changed /\ \A kind, l : Cadence(kind, l)' = Cadence(kind, l)
    BY <1>0, NoChanges, Zenon
  <1>2. ASSUME NEW kind \in Kinds, NEW l \in LocationIds, Cadence(kind, l) # None,
               NEW i \in SlotTimes(Cadence(kind, l), changed[<<kind, l>>] + 1, generated' + 1)
        PROVE  [kind |-> kind, loc |-> l, at |-> i] \in slots \cup Wanted(t)
    <2> DEFINE ch == changed[<<kind, l>>]
               o == Cadence(kind, l)
               at == tick[t].at
    <2>0. ch \in Nat /\ at \in Nat /\ generated \in Nat /\ generated' \in Nat /\ now \in Nat
          /\ at <= now
      BY <1>0, LatestMoves, Zenon DEF ClockOK
    <2>1. i \in Int /\ ch + 1 <= i /\ i <= generated' /\ i % Hour = o
      <3>1. i \in (ch + 1)..((generated' + 1) - 1)
        BY Zenon DEF SlotTimes
      <3>2. i % Hour = o
        BY Zenon DEF SlotTimes
      <3>3. i \in Int /\ ch + 1 <= i /\ i <= generated'
        BY <2>0, <3>1, InstantsBetween, Zenon
      <3>4. QED
        BY <3>2, <3>3, Zenon
    <2>2. CASE i <= generated
      <3>1. i \in SlotTimes(o, ch + 1, generated + 1)
        BY <2>0, <2>1, <2>2 DEF SlotTimes
      <3>2. QED
        BY <1>0, <1>2, <3>1, Zenon DEF NoInstantSkipped
    <2>3. CASE i > generated
      <3>1. generated' = at /\ generated < at
        BY <1>0, <2>0, <2>1, <2>3, LatestMoves
      <3>2. ch < at /\ i <= at /\ at <= generated + Hour
        BY <1>0, <2>0, <2>1, <3>1
      <3>3. Truncate(at) \in Nat /\ Truncate(at) <= at /\ at < Truncate(at) + Hour
        BY <2>0, HourFacts, Zenon
      <3>4. From(at) <= i /\ i <= To(at) - 1 /\ From(at) \in Int /\ To(at) - 1 \in Int
        BY <1>0, <2>0, <2>1, <2>3, <3>2, <3>3 DEF From, To
      <3>5. i \in SlotTimes(o, From(at), To(at))
        BY <2>1, <3>4 DEF SlotTimes
      <3>6. ActiveLocation(l) /\ o = Schedule(kind)
        BY <1>2, Zenon DEF Cadence
      <3>7. l \in tick[t].locs
        BY <1>0, <3>2, <3>6, Zenon DEF TickOK
      <3>8. o = IF kind = "observation" THEN ObsOffset ELSE tick[t].cadence
        BY <1>0, <3>2, <3>6, Zenon DEF TickOK, Schedule, Kinds
      <3> HIDE DEF o, at
      <3>9. QED
        BY <1>2, <3>5, <3>7, <3>8, WantedAll, Zenon DEF o, at
    <2>4. QED
      BY <2>0, <2>1, <2>2, <2>3
  <1>3. ASSUME NEW kind \in Kinds, NEW l \in LocationIds, Cadence(kind, l)' # None,
               NEW i \in SlotTimes(Cadence(kind, l)', changed'[<<kind, l>>] + 1, generated' + 1)
        PROVE  [kind |-> kind, loc |-> l, at |-> i] \in slots'
    BY <1>1, <1>2, <1>3, Zenon
  <1>4. QED
    BY <1>3, Zenon DEF NoInstantSkipped, SlotTimes

\* A tick that read what is off now had begun before it went off.
LEMMA NothingLate ==
    ASSUME SlotInv, NoteChanges, UNCHANGED catalogVars, UNCHANGED now, NEW t \in Tickers,
           tick[t].pc = "write", slots' = slots \cup Wanted(t)
    PROVE  SlotsOK' /\ NothingAfterDisable'
  <1>0. /\ ClockOK /\ SlotsOK /\ NothingAfterDisable /\ TickOK(tick[t]) /\ now \in Nat
        /\ Tick(tick[t]) /\ tick[t].at \in Nat /\ tick[t].at <= now
    BY Zenon DEF SlotInv, ClockOK, Tick, Ticks
  <1>1. changed' = changed /\ \A kind, l : Cadence(kind, l)' = Cadence(kind, l)
    BY <1>0, NoChanges, Zenon
  <1>2. ASSUME NEW s \in Wanted(t)
        PROVE  /\ s.at \in Int /\ s.at < To(tick[t].at)
               /\ s.kind \in Kinds => s.loc \in tick[t].locs /\ s.loc \in LocationIds
               /\ s.kind = "forecast" => tick[t].cadence # None
    BY <1>0, WantedOnly, Zenon DEF Tick, Ticks
  <1>3. SlotsOK'
    <2>1. To(tick[t].at) <= To(now) /\ To(tick[t].at) \in Int /\ To(now) \in Int
      BY <1>0, HourMonotone, Zenon
    <2>2. To(now)' = To(now)
      BY Zenon DEF To, Truncate
    <2>3. ASSUME NEW s \in slots'
          PROVE  s.at \in Int /\ s.at < To(now) /\ (s.kind \in Kinds => s.loc \in LocationIds)
      <3>1. CASE s \in slots
        BY <1>0, <3>1, Zenon DEF SlotsOK
      <3>2. CASE s \in Wanted(t)
        BY <1>2, <2>1, <3>2
      <3>3. QED
        BY <3>1, <3>2, Zenon
    <2>4. QED
      BY <2>2, <2>3, Zenon DEF SlotsOK
  <1>4. ASSUME NEW s \in Wanted(t), s.kind \in Kinds, Cadence(s.kind, s.loc) = None
        PROVE  s.at < To(changed[<<s.kind, s.loc>>])
    <2> DEFINE ch == changed[<<s.kind, s.loc>>]
    <2>0. ch \in Nat /\ s.loc \in tick[t].locs /\ s.loc \in LocationIds
      BY <1>0, <1>2, <1>4, Zenon DEF ClockOK
    <2>1. ASSUME ch < tick[t].at PROVE FALSE
      <3>1. ActiveLocation(s.loc)
        BY <1>0, <1>4, <2>0, <2>1, Zenon DEF TickOK
      <3>2. Schedule(s.kind) = None
        BY <1>4, <3>1, Zenon DEF Cadence
      <3>3. CASE s.kind = "observation"
        BY <3>2, <3>3, GenerationAssumption, Zenon DEF Schedule
      <3>4. CASE s.kind = "forecast"
        <4>1. tick[t].cadence = ActiveOffset
          BY <1>0, <2>0, <2>1, <3>4, Zenon DEF TickOK
        <4>2. QED
          BY <1>2, <3>2, <3>4, <4>1, Zenon DEF Schedule
      <3>5. QED
        BY <1>4, <3>3, <3>4, Zenon DEF Kinds
    <2>2. tick[t].at <= ch
      BY <1>0, <2>0, <2>1
    <2>3. To(tick[t].at) <= To(ch) /\ To(tick[t].at) \in Int /\ To(ch) \in Int
      BY <1>0, <2>0, <2>2, HourMonotone, Zenon
    <2>4. QED
      BY <1>2, <2>3
  <1>5. ASSUME NEW s \in slots', s.kind \in Kinds, Cadence(s.kind, s.loc) = None
        PROVE  s.at < To(changed[<<s.kind, s.loc>>])
    BY <1>0, <1>4, <1>5, Zenon DEF NothingAfterDisable
  <1>6. QED
    BY <1>1, <1>3, <1>5, Zenon DEF NothingAfterDisable, To, Truncate

\* Every step of a tick keeps the invariant.
LEMMA TickStepKeeps ==
    ASSUME SlotInv, NoteChanges, UNCHANGED catalogVars, NEW t \in Tickers, TickStep(t)
    PROVE  /\ ClockOK' /\ SlotsOK' /\ \A u \in Tickers : TickOK(tick[u])'
           /\ NoInstantSkipped' /\ NothingAfterDisable'
  <1>0. /\ ClockOK /\ SlotsOK /\ NoInstantSkipped /\ NothingAfterDisable
        /\ \A u \in Tickers : TickOK(tick[u])
        /\ now \in Nat /\ generated \in Nat /\ generated <= now
        /\ tick = [u \in Tickers |-> tick[u]] /\ Tick(tick[t]) /\ tick[t].at <= now
    BY Zenon DEF SlotInv, ClockOK
  <1>0a. Tick(NoTick) /\ NoTick.at <= now /\ TickOK(NoTick)
    BY <1>0, NoTickTyped
  <1>1. ASSUME NEW w, Tick(w), w.at <= now, TickOK(w), tick' = [tick EXCEPT ![t] = w],
               UNCHANGED <<now, slots, generated>>
        PROVE  /\ ClockOK' /\ SlotsOK' /\ \A u \in Tickers : TickOK(tick[u])'
               /\ NoInstantSkipped' /\ NothingAfterDisable'
    <2>1. generated' \in Nat /\ generated <= generated' /\ generated' <= now /\ UNCHANGED now
      BY <1>0, <1>1
    <2>2. ClockOK' /\ \A u \in Tickers : TickOK(tick[u])'
      BY <1>0, <1>1, <2>1, TickMoves, Zenon
    <2>3. now' \in Nat /\ now <= now'
      BY <1>0, <1>1
    <2>4. SlotsOK' /\ NoInstantSkipped' /\ NothingAfterDisable'
      BY <1>1, <2>3, SlotsStay
    <2>5. QED
      BY <2>2, <2>4
  <1>2. CASE StartTick(t)
    <2> DEFINE w == [tick[t] EXCEPT !.pc = "configs", !.at = now]
    <2>1. Tick(w) /\ w.pc = "configs" /\ w.at = now
      <3>1. PICK C : tick[t] \in Ticks(C)
        BY <1>0 DEF Tick
      <3>2. w \in Ticks(C) /\ w.pc = "configs" /\ w.at = now
        BY <1>0, <3>1, Zenon DEF Ticks
      <3>3. QED
        BY <3>2 DEF Tick
    <2>2. tick' = [tick EXCEPT ![t] = w] /\ UNCHANGED <<now, slots, generated>>
      BY <1>0, <1>2, Zenon DEF StartTick
    <2> HIDE DEF w
    <2>3. TickOK(w) /\ w.at <= now
      BY <1>0, <2>1 DEF TickOK
    <2>4. QED
      BY <1>1, <2>1, <2>2, <2>3, Zenon
  <1>3. CASE ListConfigurations(t)
    <2> DEFINE w == [tick[t] EXCEPT !.pc = "locations", !.cadence = ActiveOffset]
    <2>2. Tick(w) /\ w.pc = "locations" /\ w.at = tick[t].at /\ w.cadence = ActiveOffset
      <3>1. PICK C : tick[t] \in Ticks(C)
        BY <1>0 DEF Tick
      <3>2. /\ w \in Ticks(C \cup {ActiveOffset})
            /\ w.pc = "locations" /\ w.at = tick[t].at /\ w.cadence = ActiveOffset
        BY <3>1, Zenon DEF Ticks
      <3>3. QED
        BY <3>2 DEF Tick
    <2>3. tick' = [tick EXCEPT ![t] = w] /\ UNCHANGED <<now, slots, generated>>
      BY <1>0, <1>3, Zenon DEF ListConfigurations
    <2> HIDE DEF w
    <2>4. TickOK(w) /\ w.at <= now
      BY <1>0, <2>2, Zenon DEF TickOK
    <2>5. QED
      BY <1>1, <2>2, <2>3, <2>4, Zenon
  <1>4. CASE ListLocations(t) /\ ActiveLocations # {}
    <2> DEFINE w == [tick[t] EXCEPT !.pc = "write", !.locs = ActiveLocations]
    <2>1. ActiveLocations \in SUBSET LocationIds
      BY Zenon DEF ActiveLocations
    <2>2. Tick(w) /\ w.pc = "write" /\ w.at = tick[t].at /\ w.cadence = tick[t].cadence
          /\ w.locs = ActiveLocations
      <3>1. PICK C : tick[t] \in Ticks(C)
        BY <1>0 DEF Tick
      <3>2. /\ w \in Ticks(C) /\ w.pc = "write" /\ w.at = tick[t].at
            /\ w.cadence = tick[t].cadence /\ w.locs = ActiveLocations
        BY <2>1, <3>1, Zenon DEF Ticks
      <3>3. QED
        BY <3>2 DEF Tick
    <2>3. tick' = [tick EXCEPT ![t] = w] /\ UNCHANGED <<now, slots, generated>>
          /\ tick[t].pc = "locations"
      BY <1>0, <1>4 DEF ListLocations
    <2> HIDE DEF w
    <2>4. TickOK(w) /\ w.at <= now
      BY <1>0, <2>2, <2>3, Zenon DEF TickOK, ActiveLocations
    <2>5. QED
      BY <1>1, <2>2, <2>3, <2>4, Zenon
  <1>5. CASE ListLocations(t) /\ ActiveLocations = {}
    <2>1. tick' = [tick EXCEPT ![t] = NoTick] /\ LatestIs(t) /\ UNCHANGED <<now, slots>>
      BY <1>5 DEF ListLocations
    <2>2. generated' \in Nat /\ generated <= generated' /\ generated' <= now
      BY <1>0, <2>1, LatestMoves, Zenon
    <2>3. ClockOK' /\ \A u \in Tickers : TickOK(tick[u])'
      BY <1>0, <1>0a, <2>1, <2>2, TickMoves, Zenon
    <2>4. changed' = changed /\ \A kind, l : Cadence(kind, l)' = Cadence(kind, l)
      BY <1>0, NoChanges, Zenon
    <2>5. NoInstantSkipped'
      <3>1. \A kind \in Kinds, l \in LocationIds : Cadence(kind, l) = None
        BY <1>5, Zenon DEF Cadence, ActiveLocations
      <3>2. QED
        BY <2>4, <3>1, Zenon DEF NoInstantSkipped
    <2>6. NothingAfterDisable' /\ SlotsOK'
      BY <1>0, <2>1, <2>4, Zenon DEF NothingAfterDisable, SlotsOK, To, Truncate
    <2>7. QED
      BY <2>3, <2>5, <2>6, Zenon
  <1>6. CASE Generate(t)
    <2>1. /\ tick' = [tick EXCEPT ![t] = NoTick] /\ LatestIs(t) /\ UNCHANGED now
          /\ tick[t].pc = "write" /\ slots' = slots \cup Wanted(t)
      BY <1>6, Zenon DEF Generate
    <2>2. generated' \in Nat /\ generated <= generated' /\ generated' <= now
      BY <1>0, <2>1, LatestMoves, Zenon
    <2>3. ClockOK' /\ \A u \in Tickers : TickOK(tick[u])'
      BY <1>0, <1>0a, <2>1, <2>2, TickMoves, Zenon
    <2>4. NoInstantSkipped'
      BY <2>1, NothingSkipped, Zenon
    <2>5. NothingAfterDisable' /\ SlotsOK'
      BY <2>1, NothingLate, Zenon
    <2>6. QED
      BY <2>3, <2>4, <2>5
  <1>7. CASE TickFails(t)
    <2>1. tick' = [tick EXCEPT ![t] = NoTick] /\ UNCHANGED <<now, slots, generated>>
      BY <1>7, Zenon DEF TickFails
    <2>2. QED
      BY <1>0a, <1>1, <2>1, Zenon
  <1>8. QED
    BY <1>2, <1>3, <1>4, <1>5, <1>6, <1>7, Zenon DEF TickStep

\* So does the passing of time.
LEMMA AdvanceKeeps ==
    ASSUME SlotInv, NoteChanges, UNCHANGED catalogVars, Advance
    PROVE  /\ ClockOK' /\ SlotsOK' /\ \A u \in Tickers : TickOK(tick[u])'
           /\ NoInstantSkipped' /\ NothingAfterDisable'
  <1>0. /\ ClockOK /\ \A u \in Tickers : TickOK(tick[u])
        /\ now \in Nat /\ generated \in Nat /\ generated <= now
    BY Zenon DEF SlotInv, ClockOK
  <1>1. now' = now + 1 /\ now < generated + MaxOutage /\ UNCHANGED <<slots, tick, generated>>
    BY DEF Advance
  <1>2. MaxOutage \in Nat /\ MaxOutage <= Hour /\ Hour \in Nat
    BY GenerationAssumption
  <1>3. now' \in Nat /\ now <= now' /\ now' <= generated + Hour /\ generated <= now'
    BY <1>0, <1>1, <1>2
  <1>4. changed' = changed /\ ActiveOffset' = ActiveOffset
        /\ \A l : ActiveLocation(l)' <=> ActiveLocation(l)
    BY <1>0, NoChanges, Zenon
  <1>5. ClockOK'
    <2>1. \A t \in Tickers : tick[t].at \in Nat /\ tick[t].at <= now'
      BY <1>0, <1>3 DEF ClockOK, Tick, Ticks
    <2>2. \A x \in Kinds \X LocationIds : changed[x] <= now'
      BY <1>0, <1>3 DEF ClockOK
    <2>3. QED
      BY <1>0, <1>1, <1>3, <1>4, <2>1, <2>2, Zenon DEF ClockOK
  <1>6. ASSUME NEW u \in Tickers PROVE TickOK(tick[u])'
    BY <1>0, <1>1, <1>4, Zenon DEF TickOK
  <1>7. SlotsOK' /\ NoInstantSkipped' /\ NothingAfterDisable'
    BY <1>1, <1>3, SlotsStay, Zenon
  <1>8. QED
    BY <1>5, <1>6, <1>7

-----------------------------------------------------------------------------
\* The invariant holds before the first tick.
LEMMA SlotInvInit ==
    ASSUME SlotInit
    PROVE  SlotInv
  <1>2. Hour \in Nat /\ now = Hour /\ generated = Hour /\ slots = {}
        /\ tick = [t \in Tickers |-> NoTick] /\ changed = [x \in Kinds \X LocationIds |-> Hour]
    BY GenerationAssumption, Zenon DEF SlotInit
  <1>3. ClockOK
    BY <1>2, NoTickTyped DEF ClockOK
  <1>4. \A t \in Tickers : TickOK(tick[t])
    BY <1>2, NoTickTyped
  <1>5. SlotsOK /\ NothingAfterDisable
    BY <1>2, Zenon DEF SlotsOK, NothingAfterDisable
  <1>6. NoInstantSkipped
    <2> SUFFICES ASSUME NEW kind \in Kinds, NEW l \in LocationIds,
                        NEW i \in SlotTimes(Cadence(kind, l), changed[<<kind, l>>] + 1,
                                           generated + 1)
                 PROVE  FALSE
      BY Zenon DEF NoInstantSkipped
    <2>1. changed[<<kind, l>>] = Hour /\ generated = Hour /\ Hour \in Nat
      BY <1>2, Zenon
    <2>2. QED
      BY <2>1 DEF SlotTimes
  <1>7. QED
    BY <1>3, <1>4, <1>5, <1>6 DEF SlotInv

\* Every step keeps it.
LEMMA SlotInvNext ==
    ASSUME SlotInv, [SlotNext]_slotVars
    PROVE  SlotInv'
  <1>2. CASE NoteChanges /\ CatalogNext /\ UNCHANGED <<now, slots, tick, generated>>
    BY <1>2, ChangesKeep, Zenon DEF SlotInv
  <1>3. ASSUME NoteChanges, UNCHANGED catalogVars, NEW t \in Tickers, TickStep(t) PROVE SlotInv'
    BY <1>3, TickStepKeeps, Zenon DEF SlotInv
  <1>4. CASE NoteChanges /\ UNCHANGED catalogVars /\ Advance
    BY <1>4, AdvanceKeeps, Zenon DEF SlotInv
  <1>5. CASE UNCHANGED slotVars
    <2>1. UNCHANGED catalogVars /\ UNCHANGED <<now, slots, tick, generated, changed>>
      BY <1>5, Zenon DEF slotVars, genVars
    <2>2. ActiveOffset' = ActiveOffset /\ (\A l : ActiveLocation(l)' <=> ActiveLocation(l))
      BY <2>1, Zenon DEF catalogVars, ActiveOffset, ActiveLocation, Known
    <2>3. \A kind, l : Cadence(kind, l)' = Cadence(kind, l)
      BY <2>2 DEF Cadence, Schedule
    <2>4. ClockOK' /\ SlotsOK' /\ NothingAfterDisable'
      BY <2>1, <2>3, Zenon DEF SlotInv, ClockOK, SlotsOK, NothingAfterDisable, To, Truncate
    <2>5. NoInstantSkipped'
      BY <2>1, <2>3, Zenon DEF SlotInv, NoInstantSkipped, SlotTimes
    <2>6. \A t \in Tickers : TickOK(tick[t])'
      BY <2>1, <2>2, Zenon DEF SlotInv, TickOK
    <2>7. QED
      BY <2>4, <2>5, <2>6, Zenon DEF SlotInv
  <1>6. QED
    BY <1>2, <1>3, <1>4, <1>5, Zenon DEF SlotNext

\* The inductive invariant of generation: what a tick has read is what is, or it changed
\* since the tick began; and the latest generation is at most an hour ago.
THEOREM SlotInvariant == SlotSpec => []SlotInv
  BY SlotInvInit, SlotInvNext, PTL DEF SlotSpec

\* No instant of an active schedule is skipped and nothing is generated for what is
\* off, for any number of schedulers ticking at once, any of which may fail at any
\* point (Scheduler.generateSlots).
THEOREM SlotsAlwaysFollow == SlotSpec => []SlotsFollowCatalog
<1>1. SlotInv => SlotsFollowCatalog
  BY DEF SlotInv, SlotsFollowCatalog
<1> QED
  BY <1>1, SlotInvariant, PTL

\* The ticks only read the catalog: with them it is the catalog still.
THEOREM SlotsImplementCatalog == SlotSpec => CatalogSpec
<1>1. SlotInit => CatalogInit
  BY DEF SlotInit
<1>2. [SlotNext]_slotVars => [CatalogNext]_catalogVars
  BY DEF SlotNext, slotVars
<1> QED
  BY <1>1, <1>2, PTL DEF SlotSpec, CatalogSpec

-----------------------------------------------------------------------------
(* The cache of signing keys.                                              *)

\* A verification w under way takes at most MaxFetch.  A published key that a fetched set
\* lacks was published after the fetch began; whoever looks a second time began less than
\* MinRefresh after the last refresh, or before it.
VerifyOK(w) ==
    /\ w.pc \in {"fetch", "install", "again"} => w.began <= hour /\ hour <= w.began + MaxFetch
    /\ w.pc = "install" => \A k \in published \ w.set : w.began <= since[k]
    /\ w.pc = "again" => lastRefresh # Never /\ w.began < lastRefresh + MinRefresh
    /\ w.pc # "idle" => w.kid \in Kids
    /\ w.pc = "refused" /\ w.kid \in published =>
         hour < since[w.kid] + MinRefresh + 2 * MaxFetch

\* A published key that the cache lacks was published at most one fetch before the cache
\* was filled.
CacheOK ==
    lastRefresh # Never =>
        /\ lastRefresh <= hour
        /\ \A k \in published \ keys : lastRefresh <= since[k] + MaxFetch

\* The cache of keys, and every verification under way.
KeyInv == KeyTypeOK /\ CacheOK /\ \A v \in Verifiers : VerifyOK(verify[v])

\* What the proofs use of the constants and of a verification.
LEMMA KeyFacts ==
    KeyInv => /\ hour \in Nat /\ MinRefresh \in Nat \ {0} /\ MaxFetch \in Nat
              /\ \A k \in Kids : since[k] \in Nat
              /\ lastRefresh # Never => lastRefresh \in Nat
              /\ published \subseteq Kids
              /\ \A v \in Verifiers : /\ verify[v] \in Verification
                                      /\ verify[v].began \in Nat
                                      /\ VerifyOK(verify[v])
  BY KeyAssumption DEF KeyInv, KeyTypeOK, Verification

\* It holds before the first key is asked for.
LEMMA KeyInvInit == KeyInit => KeyInv
  <1> SUFFICES ASSUME KeyInit PROVE KeyInv
    OBVIOUS
  <1>1. NoVerification \in Verification /\ NoVerification.pc = "idle"
    BY KeyAssumption DEF NoVerification, Verification, VerifyPCs
  <1>2. KeyTypeOK
    BY <1>1, KeyAssumption DEF KeyInit, KeyTypeOK
  <1>3. \A v \in Verifiers : verify[v].pc = "idle"
    BY <1>1, Zenon DEF KeyInit
  <1>4. QED
    BY <1>2, <1>3, Zenon DEF KeyInit, KeyInv, CacheOK, VerifyOK

\* A step of one verification that leaves the cache and the published keys alone.
LEMMA KeyLocalStep ==
    ASSUME KeyInv, NEW v \in Verifiers, NEW w \in Verification, VerifyOK(w),
           verify' = [verify EXCEPT ![v] = w],
           UNCHANGED <<hour, published, since, rotations, keys, lastRefresh>>
    PROVE  KeyInv'
  <1>1. verify' \in [Verifiers -> Verification] /\ verify'[v] = w
        /\ \A u \in Verifiers \ {v} : verify'[u] = verify[u]
    BY Zenon DEF KeyInv, KeyTypeOK
  <1>2. KeyTypeOK' /\ CacheOK'
    BY <1>1, Zenon DEF KeyInv, KeyTypeOK, CacheOK
  <1>3. \A u \in Verifiers : VerifyOK(verify'[u])
    BY <1>1, Zenon DEF KeyInv
  <1>4. \A u \in Verifiers : VerifyOK(verify[u])'
    BY <1>3, Zenon DEF VerifyOK
  <1>5. QED
    BY <1>2, <1>4, Zenon DEF KeyInv

\* A look into the cache ends the verification or sends it to refresh.
LEMMA LookupKeyStep ==
    ASSUME KeyInv, NEW v \in Verifiers, LookupKey(v)
    PROVE  KeyInv'
  <1>1. PICK kid \in Kids :
          verify' = [verify EXCEPT ![v] =
                      [NoVerification EXCEPT !.kid = kid, !.began = hour,
                         !.pc = IF kid \in keys THEN "accepted"
                                ELSE IF TooSoon THEN "again" ELSE "fetch"]]
    BY Zenon DEF LookupKey
  <1> DEFINE pc == IF kid \in keys THEN "accepted"
                   ELSE IF TooSoon THEN "again" ELSE "fetch"
             w == [NoVerification EXCEPT !.kid = kid, !.began = hour, !.pc = pc]
  <1>2. pc \in {"accepted", "again", "fetch"} /\ (pc = "again" => TooSoon)
    OBVIOUS
  <1>3. verify' = [verify EXCEPT ![v] = w]
    BY <1>1
  <1> HIDE DEF pc
  <1>4. w \in Verification /\ w.pc = pc /\ w.began = hour /\ w.kid = kid
    <2>1. hour \in 0..MaxHour /\ pc \in VerifyPCs
      BY <1>2, Zenon DEF KeyInv, KeyTypeOK, VerifyPCs
    <2>2. QED
      BY <2>1, Zenon DEF Verification, NoVerification
  <1> HIDE DEF w
  <1>5. VerifyOK(w)
    <2>1. hour <= hour /\ hour <= hour + MaxFetch
      BY KeyFacts
    <2>2. QED
      BY <1>2, <1>4, <2>1, Zenon DEF VerifyOK, TooSoon
  <1>6. QED
    BY <1>3, <1>4, <1>5, KeyLocalStep, Zenon DEF LookupKey

\* The key server answers with what it publishes; nothing is installed yet.
LEMMA FetchKeysStep ==
    ASSUME KeyInv, NEW v \in Verifiers, FetchKeys(v)
    PROVE  KeyInv'
  <1> DEFINE w == [verify[v] EXCEPT !.pc = "install", !.set = published]
  <1>1. verify[v] \in Verification /\ VerifyOK(verify[v]) /\ published \subseteq Kids
        /\ verify[v].pc = "fetch"
    BY KeyFacts, Zenon DEF FetchKeys
  <1>2. verify' = [verify EXCEPT ![v] = w]
    BY Zenon DEF FetchKeys, KeyInv, KeyTypeOK
  <1>3. w \in Verification /\ w.pc = "install" /\ w.set = published /\ w.began = verify[v].began
        /\ w.kid = verify[v].kid
    BY <1>1, Zenon DEF Verification, VerifyPCs
  <1> HIDE DEF w
  <1>4. VerifyOK(w)
    BY <1>1, <1>3, Zenon DEF VerifyOK
  <1>5. QED
    BY <1>2, <1>3, <1>4, KeyLocalStep, Zenon DEF FetchKeys

\* A refresh that fails changes nothing in the cache.
LEMMA FetchFailsStep ==
    ASSUME KeyInv, NEW v \in Verifiers, FetchFails(v)
    PROVE  KeyInv'
  <1> DEFINE w == [verify[v] EXCEPT !.pc = "failed"]
  <1>1. verify[v] \in Verification /\ VerifyOK(verify[v]) /\ verify[v].pc = "fetch"
    BY KeyFacts, Zenon DEF FetchFails
  <1>2. verify' = [verify EXCEPT ![v] = w]
    BY DEF FetchFails, Enter, KeyInv, KeyTypeOK
  <1>3. w \in Verification /\ w.pc = "failed" /\ w.kid = verify[v].kid
    BY <1>1 DEF Verification, VerifyPCs
  <1> HIDE DEF w
  <1>4. VerifyOK(w)
    BY <1>1, <1>3, Zenon DEF VerifyOK
  <1>5. QED
    BY <1>2, <1>3, <1>4, KeyLocalStep, Zenon DEF FetchFails

\* The second look refuses a published key only while it is new.
LEMMA LookupAgainStep ==
    ASSUME KeyInv, NEW v \in Verifiers, LookupAgain(v)
    PROVE  KeyInv'
  <1> DEFINE pc == IF verify[v].kid \in keys THEN "accepted" ELSE "refused"
             w == [verify[v] EXCEPT !.pc = pc]
  <1>1. /\ verify[v] \in Verification /\ verify[v].pc = "again" /\ verify[v].kid \in Kids
        /\ verify[v].began \in Nat /\ hour <= verify[v].began + MaxFetch
        /\ lastRefresh # Never /\ verify[v].began < lastRefresh + MinRefresh
    BY KeyFacts, Zenon DEF LookupAgain, VerifyOK
  <1>2. verify' = [verify EXCEPT ![v] = w]
    BY DEF LookupAgain, Enter, KeyInv, KeyTypeOK
  <1>3. pc \in {"accepted", "refused"} /\ (pc = "refused" => verify[v].kid \notin keys)
    BY Zenon
  <1> HIDE DEF pc
  <1>4. w \in Verification /\ w.pc = pc /\ w.kid = verify[v].kid
    BY <1>1, <1>3 DEF Verification, VerifyPCs
  <1> HIDE DEF w
  <1>5. ASSUME pc = "refused", verify[v].kid \in published
        PROVE  hour < since[verify[v].kid] + MinRefresh + 2 * MaxFetch
    <2>1. PICK k \in Kids : k = verify[v].kid
      BY <1>1, Zenon
    <2>2. lastRefresh <= since[k] + MaxFetch
      BY <1>1, <1>3, <1>5, <2>1, Zenon DEF KeyInv, CacheOK
    <2>3. /\ hour \in Nat /\ lastRefresh \in Nat /\ since[k] \in Nat
          /\ MinRefresh \in Nat /\ MaxFetch \in Nat
      BY <1>1, KeyFacts, Zenon
    <2>4. hour < since[k] + MinRefresh + 2 * MaxFetch
      BY <1>1, <2>2, <2>3
    <2>5. QED
      BY <2>1, <2>4, Zenon
  <1>6. VerifyOK(w)
    BY <1>1, <1>3, <1>4, <1>5, Zenon DEF VerifyOK
  <1>7. QED
    BY <1>2, <1>4, <1>6, KeyLocalStep, Zenon DEF LookupAgain

\* Fetched keys that are installed late lack a published key only if it was published
\* after that fetch began.
LEMMA InstallKeysStep ==
    ASSUME KeyInv, NEW v \in Verifiers, InstallKeys(v)
    PROVE  KeyInv'
  <1> DEFINE w == [verify[v] EXCEPT !.pc = "again"]
  <1>0. /\ verify[v].pc = "install" /\ keys' = verify[v].set /\ lastRefresh' = hour
        /\ UNCHANGED <<hour, published, since, rotations>>
    BY Zenon DEF InstallKeys
  <1>1. /\ verify[v] \in Verification /\ VerifyOK(verify[v]) /\ verify[v].began \in Nat
        /\ hour \in Nat /\ hour \in 0..MaxHour /\ Never \notin Nat
        /\ MinRefresh \in Nat \ {0} /\ MaxFetch \in Nat
    BY KeyFacts, KeyAssumption, Zenon DEF KeyInv, KeyTypeOK
  <1>2. verify' = [verify EXCEPT ![v] = w]
    BY DEF InstallKeys, Enter, KeyInv, KeyTypeOK
  <1>3. w \in Verification /\ w.pc = "again" /\ w.began = verify[v].began
        /\ w.kid = verify[v].kid /\ verify[v].set \subseteq Kids
    BY <1>1 DEF Verification, VerifyPCs
  <1> HIDE DEF w
  <1>4. verify' \in [Verifiers -> Verification] /\ verify'[v] = w
        /\ \A u \in Verifiers \ {v} : verify'[u] = verify[u]
    BY <1>2, <1>3, Zenon DEF KeyInv, KeyTypeOK
  <1>5. KeyTypeOK'
    BY <1>0, <1>1, <1>3, <1>4, Zenon DEF KeyInv, KeyTypeOK
  <1>6. CacheOK'
    <2>1. PICK b \in Nat : b = verify[v].began /\ hour <= b + MaxFetch
      BY <1>0, <1>1, Zenon DEF VerifyOK
    <2>2. \A k \in published \ verify[v].set : b <= since[k] /\ since[k] \in Nat
      BY <1>0, <1>1, <2>1, KeyFacts, Zenon DEF VerifyOK
    <2>3. \A k \in published \ verify[v].set : hour <= since[k] + MaxFetch
      BY <1>1, <2>1, <2>2
    <2>4. hour <= hour
      BY <1>1
    <2>5. QED
      BY <1>0, <2>3, <2>4, Zenon DEF CacheOK
  <1>7. VerifyOK(verify[v])'
    <2>1. w.kid \in Kids
      BY <1>0, <1>1, <1>3, Zenon DEF VerifyOK
    <2>2. QED
      <3>1. w.began <= hour /\ hour <= w.began + MaxFetch
        BY <1>0, <1>1, <1>3, Zenon DEF VerifyOK
      <3>2. hour < hour + MinRefresh /\ hour # Never
        BY <1>1
      <3>3. w.began < hour + MinRefresh
        BY <1>1, <1>3, <3>1
      <3>4. QED
        BY <1>0, <1>3, <1>4, <2>1, <3>1, <3>2, <3>3, Zenon DEF VerifyOK
  <1>8. ASSUME NEW u \in Verifiers \ {v}
        PROVE  VerifyOK(verify[u])'
    <2>1. verify'[u] = verify[u] /\ VerifyOK(verify[u]) /\ verify[u].began \in Nat
      BY <1>4, KeyFacts, Zenon
    <2>2. verify[u].began <= hour => verify[u].began < hour + MinRefresh
      BY <1>1, <2>1
    <2>3. QED
      BY <1>0, <1>1, <2>1, <2>2, Zenon DEF VerifyOK
  <1>9. QED
    BY <1>5, <1>6, <1>7, <1>8, Zenon DEF KeyInv

\* A rotation makes keys that nobody has seen yet, as of now.
LEMMA RotateStep ==
    ASSUME KeyInv, Rotate
    PROVE  KeyInv'
  <1>1. PICK new \in (SUBSET Kids) \ {{}, published} :
          /\ published' = new
          /\ since' = [k \in Kids |-> IF k \in new \ published THEN hour ELSE since[k]]
    BY Zenon DEF Rotate
  <1>2. UNCHANGED <<hour, keys, lastRefresh, verify>> /\ rotations' \in 0..MaxRotations
    BY KeyAssumption DEF Rotate, KeyInv, KeyTypeOK
  <1>3. /\ hour \in Nat /\ hour \in 0..MaxHour /\ MinRefresh \in Nat \ {0} /\ MaxFetch \in Nat
        /\ lastRefresh # Never => lastRefresh \in Nat /\ lastRefresh <= hour
    BY KeyFacts, Zenon DEF KeyInv, KeyTypeOK, CacheOK
  <1>4. \A k \in published' : since'[k] \in Nat
          /\ (since'[k] = hour \/ (k \in published /\ since'[k] = since[k]))
    BY <1>1, <1>3, KeyFacts, Zenon
  <1>5. KeyTypeOK'
    BY <1>1, <1>2, <1>3, Zenon DEF KeyInv, KeyTypeOK
  <1>6. CacheOK'
    <2>1. ASSUME lastRefresh # Never, NEW k \in published' \ keys
          PROVE  lastRefresh <= since'[k] + MaxFetch
      <3>1. CASE since'[k] = hour
        BY <1>3, <2>1, <3>1
      <3>2. CASE k \in published /\ since'[k] = since[k]
        BY <2>1, <3>2, Zenon DEF KeyInv, CacheOK
      <3>3. QED
        BY <1>4, <2>1, <3>1, <3>2, Zenon
    <2>2. QED
      BY <1>2, <1>3, <2>1, Zenon DEF CacheOK
  <1>7. ASSUME NEW v \in Verifiers
        PROVE  VerifyOK(verify[v])'
    <2>1. verify'[v] = verify[v] /\ VerifyOK(verify[v]) /\ verify[v].began \in Nat
      BY <1>2, KeyFacts, Zenon
    <2>2. ASSUME verify[v].pc = "install", NEW k \in published' \ verify[v].set
          PROVE  verify[v].began <= since'[k]
      <3>1. verify[v].began <= hour
        BY <2>1, <2>2, Zenon DEF VerifyOK
      <3>2. CASE k \in published /\ since'[k] = since[k]
        BY <2>1, <2>2, <3>2, Zenon DEF VerifyOK
      <3>3. QED
        BY <1>4, <2>2, <3>1, <3>2, Zenon
    <2>3. ASSUME verify[v].pc = "refused", NEW k \in published', k = verify[v].kid
          PROVE  hour < since'[k] + MinRefresh + 2 * MaxFetch
      <3>1. hour < hour + MinRefresh + 2 * MaxFetch
        BY <1>3
      <3>2. CASE k \in published /\ since'[k] = since[k]
        BY <2>1, <2>3, <3>2, Zenon DEF VerifyOK
      <3>3. QED
        BY <1>4, <2>3, <3>1, <3>2, Zenon
    <2>4. QED
      BY <1>2, <2>1, <2>2, <2>3, Zenon DEF VerifyOK
  <1>8. QED
    BY <1>5, <1>6, <1>7, Zenon DEF KeyInv

\* Time passes only as long as every verification under way has some left.
LEMMA HourStep ==
    ASSUME KeyInv, HourPasses
    PROVE  KeyInv'
  <1>1. /\ hour' = hour + 1 /\ hour' \in 0..MaxHour /\ hour \in Nat /\ MaxFetch \in Nat
        /\ UNCHANGED <<published, since, rotations, keys, lastRefresh>>
    BY KeyAssumption DEF HourPasses, KeyInv, KeyTypeOK
  <1>2. NoVerification \in Verification /\ NoVerification.pc = "idle"
    <2>1. 0 \in 0..MaxHour
      BY KeyAssumption
    <2>2. "idle" \in VerifyPCs
      BY Zenon DEF VerifyPCs
    <2>3. QED
      BY <2>1, <2>2, Zenon DEF NoVerification, Verification
  <1>3. verify' = [v \in Verifiers |->
                    IF verify[v].pc \in {"accepted", "refused", "failed"}
                    THEN NoVerification ELSE verify[v]]
    BY Zenon DEF HourPasses
  <1>4. KeyTypeOK'
    <2>1. verify' \in [Verifiers -> Verification]
      BY <1>2, <1>3, Zenon DEF KeyInv, KeyTypeOK
    <2>2. since' \in [Kids -> 0..MaxHour] /\ lastRefresh' \in 0..MaxHour \cup {Never}
      BY <1>1, Zenon DEF KeyInv, KeyTypeOK
    <2>3. QED
      BY <1>1, <2>1, <2>2, Zenon DEF KeyInv, KeyTypeOK
  <1>5. CacheOK'
    BY <1>1, KeyFacts DEF KeyInv, CacheOK
  <1>6. ASSUME NEW v \in Verifiers
        PROVE  VerifyOK(verify[v])'
    <2>1. VerifyOK(verify[v]) /\ verify[v].began \in Nat
      BY KeyFacts, Zenon
    <2>2. CASE verify[v].pc \in {"accepted", "refused", "failed"}
      BY <1>2, <1>3, <2>2, Zenon DEF VerifyOK
    <2>3. CASE verify[v].pc \notin {"accepted", "refused", "failed"}
      <3>1. verify'[v] = verify[v]
        BY <1>3, <2>3, Zenon
      <3>2. verify[v].pc \in {"fetch", "install", "again"} => hour < verify[v].began + MaxFetch
        BY Zenon DEF HourPasses
      <3>3. verify[v].pc \in {"fetch", "install", "again"} =>
              verify[v].began <= hour + 1 /\ hour + 1 <= verify[v].began + MaxFetch
        BY <1>1, <2>1, <3>2 DEF VerifyOK
      <3>4. QED
        BY <1>1, <2>1, <2>3, <3>1, <3>3, Zenon DEF VerifyOK
    <2>4. QED
      BY <2>2, <2>3, Zenon
  <1>7. QED
    BY <1>4, <1>5, <1>6, Zenon DEF KeyInv

\* The cache, the published keys and the verifications under way, in every behaviour.
THEOREM KeyInvariant == KeySpec => []KeyInv
<1>1. KeyInv /\ [KeyNext]_keyVars => KeyInv'
  <2>1. ASSUME KeyInv, UNCHANGED keyVars PROVE KeyInv'
    BY <2>1, Zenon DEF KeyInv, KeyTypeOK, CacheOK, VerifyOK, keyVars
  <2> QED
    BY <2>1, LookupKeyStep, FetchKeysStep, FetchFailsStep, InstallKeysStep, LookupAgainStep,
       RotateStep, HourStep DEF KeyNext
<1> QED
  BY <1>1, KeyInvInit, PTL DEF KeySpec

\* Verify, keyForKID and refresh: a rotation of the auth provider's keys is tolerated, for
\* any keys, any number of concurrent verifications and any rotations: late installations
\* of older keys refuse a published key for MinRefresh and two fetches at most.
THEOREM RotationIsTolerated == KeySpec => []RotationTolerated
<1>1. KeyInv => RotationTolerated
  BY Zenon DEF KeyInv, VerifyOK, RotationTolerated
<1> QED
  BY <1>1, KeyInvariant, PTL

-----------------------------------------------------------------------------
(* The end of the process.                                                 *)

\* The states of a server and of the loop, and where the results in errCh are from.
ServerInv ==
    /\ server \in [Servers -> {"off", "listening", "stopped", "ended"}]
    /\ errCh \subseteq Servers
    /\ \A s \in errCh : server[s] = "ended"

\* Jobs outlive the loop only if the drain was given up; without a worker there are none.
LoopInv ==
    /\ loop = "off" => jobs = {}
    /\ loop = "returned" /\ jobs # {} => "jobs" \in late
    /\ ~RunWorker => loop = "off"

\* Where an orderly end has got to.
EndInv ==
    /\ main = "start" => loop = "off" /\ \A s \in Servers : server[s] = "off"
    /\ main \in {"stop", "close", "defer", "exit"} /\ ~failure =>
         /\ server["api"] # "listening"
         /\ requests # {} => "requests" \in late
    /\ main \in {"close", "defer", "exit"} /\ ~failure => loop \in {"off", "returned"}
    /\ pool = "closed" => main \in {"defer", "exit"}

ServeInv == ServerInv /\ LoopInv /\ EndInv

\* It holds when the process starts.
LEMMA ServeInvInit == ServeInit => ServeInv
  BY Zenon DEF ServeInit, ServeInv, ServerInv, LoopInv, EndInv, Servers, RunWorker

\* What an action leaves alone keeps what is said of it.
LEMMA ServeInvStutter == ServeInv /\ UNCHANGED serveVars => ServeInv'
  BY DEF ServeInv, ServerInv, LoopInv, EndInv, serveVars, RunWorker

\* Every step of cmdServe, its goroutines and the work preserves it.
LEMMA ServeInvNext == ServeInv /\ ServeNext => ServeInv'
<1> SUFFICES ASSUME ServeInv, ServeNext PROVE ServeInv'
  BY Zenon
<1> USE DEF ServeInv, ServerInv, LoopInv, EndInv, Servers, RunWorker
<1>1. CASE StartUp
  BY <1>1, Zenon DEF StartUp
<1>2. CASE Signal
  BY <1>2, Zenon DEF Signal
<1>3. ASSUME NEW s \in Servers, ServerFails(s) PROVE ServeInv'
  BY <1>3, Zenon DEF ServerFails
<1>4. ASSUME NEW s \in Servers, Report(s) PROVE ServeInv'
  BY <1>4, Zenon DEF Report
<1>5. CASE WorkBegins
  BY <1>5, Zenon DEF WorkBegins
<1>6. CASE WorkEnds
  BY <1>6, Zenon DEF WorkEnds
<1>7. CASE LoopEnds
  BY <1>7, Zenon DEF LoopEnds
<1>8. CASE Select
  BY <1>8, Zenon DEF Select
<1>9. CASE ShutdownAPI
  BY <1>9 DEF ShutdownAPI
<1>10. CASE StopWorker
  BY <1>10, Zenon DEF StopWorker
<1>11. CASE ShutdownMetrics
  BY <1>11, Zenon DEF ShutdownMetrics
<1>12. CASE Return
  BY <1>12, Zenon DEF Return
<1> QED
  BY <1>1, <1>2, <1>3, <1>4, <1>5, <1>6, <1>7, <1>8, <1>9, <1>10, <1>11, <1>12, Zenon DEF ServeNext, Servers

\* The invariant of the process, in every behaviour.
THEOREM ServeInvariant == ServeSpec => []ServeInv
<1>1. ServeInv /\ [ServeNext]_serveVars => ServeInv'
  BY ServeInvNext, ServeInvStutter, Zenon
<1> QED
  BY ServeInvInit, <1>1, PTL DEF ServeSpec

-----------------------------------------------------------------------------
\* After a signal the pool is closed only when the loop has returned, and jobs and
\* requests are in flight only if their time was up (cmdServe's order of Shutdown,
\* workerDone and close).
THEOREM PoolIsClosedLast == ServeSpec => []PoolClosesLast
<1>1. ServeInv => PoolClosesLast
  BY Zenon DEF ServeInv, LoopInv, EndInv, PoolClosesLast
<1> QED
  BY ServeInvariant, <1>1, PTL

INSTANCE FiniteSetTheorems

\* Results of servers that have not reported are not in errCh: one more fits.
LEMMA RoomForOne ==
    ASSUME ServerInv, NEW s \in Servers, server[s] = "stopped"
    PROVE  Cardinality(errCh) < ErrCap
<1> DEFINE other == IF s = "api" THEN "metrics" ELSE "api"
<1>1. errCh \subseteq {other}
  BY Zenon DEF ServerInv, Servers
<1>2. IsFiniteSet({other}) /\ Cardinality({other}) = 1
  BY FS_Singleton, Zenon
<1>3. Cardinality(errCh) \in Nat /\ Cardinality(errCh) <= 1
  <2> HIDE DEF other
  <2> QED BY <1>1, <1>2, FS_Subset, FS_CardinalityType
<1> QED
  BY <1>3 DEF ErrCap

\* No server's goroutine is ever stuck on errCh, although nobody reads it after the select.
THEOREM ReportsNeverBlock == ServeSpec => []ReportsHaveRoom
<1>1. ServeInv => ReportsHaveRoom
  BY RoomForOne, Zenon DEF ServeInv, ReportsHaveRoom
<1> QED
  BY ServeInvariant, <1>1, PTL

\* Both: the process ends in order.
THEOREM TheEndIsOrderly == ServeSpec => []EndIsOrderly
<1>1. PoolClosesLast /\ ReportsHaveRoom => EndIsOrderly
  BY Zenon DEF EndIsOrderly
<1> QED
  BY PoolIsClosedLast, ReportsNeverBlock, <1>1, PTL
=============================================================================
