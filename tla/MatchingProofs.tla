--------------------------- MODULE MatchingProofs ---------------------------
(***************************************************************************)
(* What Observation and Matching promise, for any number of calls, hours,  *)
(* readings, snapshots and matchers: the corrections of an hour form       *)
(* chains with one live end, and what is matched with any row of a chain   *)
(* is evaluated once and against its end.                                  *)
(***************************************************************************)
EXTENDS Matching, FiniteSetTheorems, TLAPS

-----------------------------------------------------------------------------
(* The inductive invariant of Observation.                                 *)

\* What the migration promises, without cardinalities: an hour has at most one
\* live row, and has one if it was ever observed.
ChainEnds ==
    /\ \A i, j \in Ids : Live(i) /\ Live(j) /\ i[2] = j[2] => i = j
    /\ \A i \in Ids : Stored(i) => LiveAt(i[2]) # {}

\* A row that was never inserted is not superseded either.
AbsentUnlinked == \A i \in Ids : ~Stored(i) => obs[i].next = NoRow

\* No rows supersede each other in a circle: every set of rows has one whose
\* successor is outside of it.
NoCircle ==
    \A S \in SUBSET Ids : S # {} => \E i \in S : obs[i].next \notin S

\* What a call's local variables w say about the table.  A row to be corrected
\* is there, and still live once the call has superseded it; an hour the call
\* has inserted has no other live row; what is superseded will be inserted.
CallOK(c, w) ==
    /\ w.pc # "done" => \A h \in Hours : ~Stored(<<c, h>>)
    /\ w.pc \notin {"superseding", "inserting"} => w.held = {}
    /\ w.pc # "inserting" => w.put = {}
    /\ w.pc \in {"superseding", "inserting"} =>
         \A h \in Hours : w.fix[h] # NoRow => /\ w.fix[h][2] = h /\ Stored(w.fix[h])
                                              /\ h \in w.add \cup w.put
    /\ w.pc = "inserting" => \A h \in Hours : w.fix[h] # NoRow => h \in w.held
    /\ \A h \in w.held : w.fix[h] # NoRow /\ obs[w.fix[h]].next = NoRow
    /\ \A h \in w.put : LiveAt(h) \subseteq {w.fix[h]}

Claims(w) == w.held \cup w.put

\* Two transactions never have rows of one hour in hand.
Exclusive ==
    \A c, d \in Observers : c # d => Claims(call[c]) \cap Claims(call[d]) = {}

RowsInv == ChainEnds /\ LinksLand /\ AbsentUnlinked /\ NoCircle

ObsInv ==
    /\ ObsTypeOK
    /\ RowsInv
    /\ \A c \in Observers : CallOK(c, call[c])
    /\ Exclusive

\* The inductive invariant of Matching: a pair, inserted or about to be, is with
\* a stored row of the snapshot's hour that is not suspect.
PairOK(p) ==
    /\ Stored(p[2]) /\ obs[p[2]].flag # "suspect"
    /\ p[2][2] = TargetOf[p[1]]

MatchInv ==
    /\ ObsInv
    /\ MatchTypeOK
    /\ \A p \in pairs : PairOK(p)
    /\ \A m \in Matchers : \A p \in matcher[m].found : PairOK(p)

-----------------------------------------------------------------------------
(* Facts about the rows.                                                   *)

\* A row is named by the call that inserts it and the hour.
LEMMA PairId == \A i \in Ids : i[1] \in Observers /\ i[2] \in Hours /\ i = <<i[1], i[2]>>
  BY DEF Ids

\* NoRow names no row.
LEMMA NoRowIsNoId == NoRow \notin Ids
  BY ObservationAssumption DEF Ids

\* The live rows of an hour.
LEMMA LiveAtMember == \A h \in Hours, i \in Ids : i \in LiveAt(h) <=> i[2] = h /\ Live(i)
  BY DEF LiveAt

\* A call that has not begun, or has ended, holds nothing.
LEMMA NoCallTyped == NoCall \in Call /\ [NoCall EXCEPT !.pc = "done"] \in Call
  BY DEF NoCall, Call, Phases, Values

\* A step of a call that leaves the rows alone keeps the invariant if what the
\* call knows afterwards is right and it claims no hour of another.
LEMMA LocalStep ==
    ASSUME ObsInv, UNCHANGED obs,
           NEW c \in Observers, NEW w \in Call,
           call' = [call EXCEPT ![c] = w],
           CallOK(c, w),
           \A d \in Observers \ {c} : Claims(w) \cap Claims(call[d]) = {}
    PROVE  ObsInv'
  <1>1. ObsTypeOK'
    BY DEF ObsInv, ObsTypeOK
  <1>2. RowsInv'
    BY DEF ObsInv, RowsInv, ChainEnds, LinksLand, AbsentUnlinked, NoCircle, LiveAt,
           Live, Stored
  <1>3. \A d \in Observers : call'[d] = IF d = c THEN w ELSE call[d]
    BY DEF ObsInv, ObsTypeOK
  <1>4. ASSUME NEW d \in Observers, NEW v, CallOK(d, v)
        PROVE  CallOK(d, v)'
    BY <1>4 DEF CallOK, LiveAt, Live, Stored
  <1>5. \A d \in Observers : CallOK(d, call[d])'
    BY <1>3, <1>4 DEF ObsInv, CallOK, LiveAt, Live, Stored
  <1>6. Exclusive'
    BY <1>3 DEF ObsInv, Exclusive, Claims
  <1>7. QED
    BY <1>1, <1>2, <1>5, <1>6 DEF ObsInv

\* A call that ends, done or rolled back, claims nothing.
LEMMA EndsStep ==
    ASSUME ObsInv, UNCHANGED obs, NEW c \in Observers, Ends(c)
    PROVE  ObsInv'
  <1> DEFINE w == [NoCall EXCEPT !.pc = "done"]
  <1>1. w \in Call /\ call' = [call EXCEPT ![c] = w]
    BY NoCallTyped DEF Ends
  <1>2. w.pc = "done" /\ w.held = {} /\ w.put = {}
    BY DEF NoCall
  <1> HIDE DEF w
  <1>3. CallOK(c, w)
    BY <1>2 DEF CallOK
  <1>4. \A d \in Observers \ {c} : Claims(w) \cap Claims(call[d]) = {}
    BY <1>2 DEF Claims
  <1>5. QED
    BY <1>1, <1>3, <1>4, LocalStep, Zenon

\* The source answers with readings of the window.
LEMMA FetchStep ==
    ASSUME ObsInv, NEW c \in Observers, NEW H \in SUBSET Hours,
           NEW read \in [Hours -> Values], FetchObservations(c, H, read)
    PROVE  ObsInv'
  <1> DEFINE r == [h \in Hours |-> IF h \in H THEN read[h] ELSE Null]
             w == [call[c] EXCEPT !.pc = "fetched", !.hours = H, !.read = r]
  <1>0. call[c] \in Call /\ CallOK(c, call[c]) /\ call \in [Observers -> Call]
        /\ call[c].pc = "idle" /\ UNCHANGED obs
    BY DEF ObsInv, ObsTypeOK, FetchObservations
  <1>1. r \in [Hours -> Values]
    BY DEF Values
  <1>2. w \in Call
    BY <1>0, <1>1, Zenon DEF Call, Phases
  <1>3. call' = [call EXCEPT ![c] = w]
    BY <1>0, Zenon DEF FetchObservations
  <1>4. w.pc = "fetched" /\ w.held = {} /\ w.put = {}
    BY <1>0 DEF CallOK, Call
  <1> HIDE DEF w
  <1>5. CallOK(c, w)
    BY <1>0, <1>4 DEF CallOK
  <1>6. \A d \in Observers \ {c} : Claims(w) \cap Claims(call[d]) = {}
    BY <1>4 DEF Claims
  <1>7. QED
    BY <1>0, <1>2, <1>3, <1>5, <1>6, LocalStep, Zenon

\* TxRead: the rows it finds are live, one for each hour that has any.
LEMMA ReadStep ==
    ASSUME ObsInv, NEW c \in Observers, TxRead(c)
    PROVE  ObsInv'
  <1> DEFINE prev(h) == IF LiveAt(h) = {} THEN NoRow ELSE CHOOSE i \in LiveAt(h) : TRUE
             new == {h \in call[c].hours : prev(h) = NoRow}
             fixed == {h \in call[c].hours \ new :
                         Differs(call[c].read[h], obs[prev(h)].value)}
             fix == [h \in Hours |-> IF h \in fixed THEN prev(h) ELSE NoRow]
             add == new \cup fixed
             w == [call[c] EXCEPT !.pc = "superseding", !.fix = fix, !.add = add]
  <1>0. call[c] \in Call /\ CallOK(c, call[c]) /\ call \in [Observers -> Call]
        /\ call[c].pc = "fetched" /\ UNCHANGED obs /\ call[c].hours \subseteq Hours
    BY Zenon DEF ObsInv, ObsTypeOK, TxRead, Call
  <1>1. \A h \in Hours : prev(h) # NoRow => prev(h) \in LiveAt(h)
    OBVIOUS
  <1>2. \A h \in Hours : prev(h) \in Ids \cup {NoRow}
    BY <1>1 DEF LiveAt
  <1>3. fix \in [Hours -> Ids \cup {NoRow}] /\ add \in SUBSET Hours
    BY <1>0, <1>2
  <1>4. \A h \in Hours : fix[h] # NoRow => fix[h] \in LiveAt(h) /\ h \in add
    BY <1>1
  <1>5. call' = [call EXCEPT ![c] = w]
    BY <1>0, Zenon DEF TxRead
  <1> HIDE DEF fix, add, prev, new, fixed
  <1>6. w \in Call
    BY <1>0, <1>3, Zenon DEF Call, Phases
  <1>7. w.pc = "superseding" /\ w.held = {} /\ w.put = {} /\ w.fix = fix /\ w.add = add
    BY <1>0 DEF CallOK, Call
  <1> HIDE DEF w
  <1>8. CallOK(c, w)
    BY <1>0, <1>4, <1>7 DEF CallOK, LiveAt, Live
  <1>9. \A d \in Observers \ {c} : Claims(w) \cap Claims(call[d]) = {}
    BY <1>7 DEF Claims
  <1>10. QED
    BY <1>0, <1>5, <1>6, <1>8, <1>9, LocalStep, Zenon

\* Supersede: the row is still live, and nobody else has rows of that hour.
LEMMA SupersedeStep ==
    ASSUME ObsInv, NEW c \in Observers, NEW h \in Hours, Supersede(c, h)
    PROVE  ObsInv'
  <1>1. CASE Ends(c)
    BY <1>1, EndsStep DEF Supersede
  <1>2. CASE Live(call[c].fix[h]) /\ call' = [call EXCEPT ![c].held = @ \cup {h}]
    <2> DEFINE w == [call[c] EXCEPT !.held = call[c].held \cup {h}]
    <2>0. call[c] \in Call /\ CallOK(c, call[c]) /\ call \in [Observers -> Call]
          /\ call[c].pc = "superseding" /\ UNCHANGED obs /\ LockedBy(c, h) = {}
          /\ h \in ToSupersede(c)
      BY DEF ObsInv, ObsTypeOK, Supersede, Earliest
    <2>1. w \in Call /\ call' = [call EXCEPT ![c] = w]
      BY <1>2, <2>0, Zenon DEF Call
    <2>2. w.held = call[c].held \cup {h} /\ w.put = call[c].put /\ w.fix = call[c].fix
          /\ w.add = call[c].add /\ w.pc = "superseding"
      BY <2>0 DEF Call
    <2> HIDE DEF w
    <2>3. call[c].fix[h] # NoRow /\ obs[call[c].fix[h]].next = NoRow
      BY <1>2, <2>0 DEF ToSupersede, Fixes, Live
    <2>4. CallOK(c, w)
      BY <2>0, <2>2, <2>3 DEF CallOK
    <2>5. \A d \in Observers \ {c} : Claims(w) \cap Claims(call[d]) = {}
      <3>1. \A d \in Observers \ {c} : h \notin Claims(call[d])
        BY <2>0 DEF LockedBy, Claims
      <3>2. \A d \in Observers \ {c} : Claims(call[c]) \cap Claims(call[d]) = {}
        BY DEF ObsInv, Exclusive
      <3>3. Claims(w) = Claims(call[c]) \cup {h}
        BY <2>2 DEF Claims
      <3>4. QED
        BY <3>1, <3>2, <3>3
    <2>6. QED
      BY <2>0, <2>1, <2>4, <2>5, LocalStep, Zenon
  <1>3. QED
    BY <1>1, <1>2 DEF Supersede

\* When all rows to correct are superseded, the inserts begin.
LEMMA BeginInsertStep ==
    ASSUME ObsInv, NEW c \in Observers, BeginInsert(c)
    PROVE  ObsInv'
  <1> DEFINE w == [call[c] EXCEPT !.pc = "inserting"]
  <1>0. call[c] \in Call /\ CallOK(c, call[c]) /\ call \in [Observers -> Call]
        /\ call[c].pc = "superseding" /\ UNCHANGED obs /\ ToSupersede(c) = {}
    BY DEF ObsInv, ObsTypeOK, BeginInsert
  <1>1. w \in Call /\ call' = [call EXCEPT ![c] = w]
    BY <1>0, Zenon DEF Call, Phases, BeginInsert
  <1>2. w.held = call[c].held /\ w.put = call[c].put /\ w.fix = call[c].fix
        /\ w.add = call[c].add /\ w.pc = "inserting"
    BY <1>0 DEF Call
  <1> HIDE DEF w
  <1>3. \A g \in Hours : call[c].fix[g] # NoRow => g \in call[c].held
    BY <1>0 DEF ToSupersede, Fixes
  <1>4. CallOK(c, w)
    BY <1>0, <1>2, <1>3 DEF CallOK
  <1>5. \A d \in Observers \ {c} : Claims(w) \cap Claims(call[d]) = {}
    BY <1>2 DEF ObsInv, Exclusive, Claims
  <1>6. QED
    BY <1>0, <1>1, <1>4, <1>5, LocalStep, Zenon

\* Insert: for a row it corrects, the hour's only live row is the one it has
\* superseded, so DO NOTHING does not strike.
LEMMA InsertStep ==
    ASSUME ObsInv, NEW c \in Observers, NEW h \in Hours, Insert(c, h)
    PROVE  ObsInv'
  <1> DEFINE put == IF LiveAt(h) \subseteq {call[c].fix[h]}
                    THEN call[c].put \cup {h} ELSE call[c].put
             w == [call[c] EXCEPT !.add = call[c].add \ {h}, !.put = put]
  <1>0. call[c] \in Call /\ CallOK(c, call[c]) /\ call \in [Observers -> Call]
        /\ call[c].pc = "inserting" /\ UNCHANGED obs /\ LockedBy(c, h) = {}
    BY DEF ObsInv, ObsTypeOK, Insert
  <1>1. put \in SUBSET Hours
    BY <1>0 DEF Call
  <1>2. call' = [call EXCEPT ![c] = w]
    BY <1>0, Zenon DEF Insert
  <1>3. call[c].put \subseteq put /\ put \subseteq call[c].put \cup {h}
        /\ (h \in put => h \in call[c].put \/ LiveAt(h) \subseteq {call[c].fix[h]})
        /\ (LiveAt(h) \subseteq {call[c].fix[h]} => h \in put)
    OBVIOUS
  <1> HIDE DEF put
  <1>4. w \in Call
    BY <1>0, <1>1, Zenon DEF Call
  <1>5. w.held = call[c].held /\ w.put = put /\ w.fix = call[c].fix
        /\ w.add = call[c].add \ {h} /\ w.pc = "inserting"
    BY <1>0 DEF Call
  <1> HIDE DEF w
  <1>6. call[c].fix[h] # NoRow => h \in put
    <2> SUFFICES ASSUME call[c].fix[h] # NoRow
                 PROVE  LiveAt(h) \subseteq {call[c].fix[h]}
      BY <1>3
    <2>1. call[c].fix[h] \in Ids
      BY <1>0 DEF Call
    <2>2. Live(call[c].fix[h]) /\ call[c].fix[h][2] = h
      BY <1>0, Zenon DEF CallOK, Live
    <2>3. QED
      BY <2>1, <2>2 DEF ObsInv, RowsInv, ChainEnds, LiveAt
  <1>7. \A g \in Hours : call[c].fix[g] # NoRow => g \in w.add \cup w.put
    BY <1>0, <1>3, <1>5, <1>6 DEF CallOK
  <1>8. \A g \in w.put : LiveAt(g) \subseteq {w.fix[g]}
    BY <1>0, <1>3, <1>5 DEF CallOK
  <1>9. CallOK(c, w)
    BY <1>0, <1>5, <1>7, <1>8 DEF CallOK
  <1>10. \A d \in Observers \ {c} : Claims(w) \cap Claims(call[d]) = {}
    <2>1. \A d \in Observers \ {c} : h \notin Claims(call[d])
      BY <1>0 DEF LockedBy, Claims
    <2>2. \A d \in Observers \ {c} : Claims(call[c]) \cap Claims(call[d]) = {}
      BY DEF ObsInv, Exclusive
    <2>3. Claims(w) \subseteq Claims(call[c]) \cup {h}
      BY <1>3, <1>5 DEF Claims
    <2>4. QED
      BY <2>1, <2>2, <2>3
  <1>11. QED
    BY <1>0, <1>2, <1>4, <1>9, <1>10, LocalStep, Zenon

-----------------------------------------------------------------------------
(* Commit, the one step that changes the rows.                             *)

NewRow(c, i) == i[1] = c /\ i[2] \in call[c].put

FixedRow(c, i) == i[2] \in call[c].held /\ i = call[c].fix[i[2]]

\* What a commit does to each row: it inserts, links, or leaves alone, and it
\* inserts where it links.
LEMMA CommitRows ==
    ASSUME ObsInv, NEW c \in Observers, Commit(c)
    PROVE  /\ obs' \in [Ids -> Row]
           /\ call[c].held \subseteq call[c].put /\ call[c].put \subseteq Hours
           /\ \A i \in Ids : NewRow(c, i) =>
                /\ ~Stored(i) /\ ~FixedRow(c, i)
                /\ obs'[i].flag = FlagOf(c, i[2]) /\ obs'[i].flag # "absent"
                /\ obs'[i].next = NoRow
           /\ \A i \in Ids : FixedRow(c, i) =>
                /\ Live(i)
                /\ obs'[i].flag = obs[i].flag /\ obs'[i].next = <<c, i[2]>>
           /\ \A i \in Ids : ~NewRow(c, i) /\ ~FixedRow(c, i) => obs'[i] = obs[i]
  <1>0. call[c] \in Call /\ CallOK(c, call[c]) /\ obs \in [Ids -> Row]
        /\ call[c].pc = "inserting" /\ call[c].add = {}
    BY DEF ObsInv, ObsTypeOK, Commit
  <1>1. call[c].put \subseteq Hours /\ call[c].held \subseteq Hours
        /\ call[c].fix \in [Hours -> Ids \cup {NoRow}] /\ call[c].read \in [Hours -> Values]
    BY <1>0, Zenon DEF Call
  <1>2. call[c].held \subseteq call[c].put
    BY <1>0, <1>1, Zenon DEF CallOK
  <1>3. \A i \in Ids :
          obs'[i] = IF NewRow(c, i)
                    THEN [flag |-> FlagOf(c, i[2]), value |-> call[c].read[i[2]],
                          next |-> NoRow]
                    ELSE IF FixedRow(c, i) THEN [obs[i] EXCEPT !.next = <<c, i[2]>>]
                    ELSE obs[i]
    BY DEF Commit, NewRow, FixedRow
  <1>4. DOMAIN obs' = Ids /\ obs' = [i \in Ids |-> obs'[i]]
    BY DEF Commit
  <1>5. \A h \in Hours : FlagOf(c, h) \in {"valid", "suspect", "corrected"}
    BY DEF FlagOf, SourceFlag
  <1>6. ASSUME NEW i \in Ids, NewRow(c, i)
        PROVE  /\ ~Stored(i) /\ ~FixedRow(c, i)
               /\ obs'[i].flag = FlagOf(c, i[2]) /\ obs'[i].flag # "absent"
               /\ obs'[i].next = NoRow /\ obs'[i] \in Row
    <2>1. ~Stored(i)
      BY <1>0, <1>6, PairId DEF CallOK, NewRow
    <2>2. ~FixedRow(c, i)
      BY <1>0, <1>1, <2>1, NoRowIsNoId DEF CallOK, FixedRow
    <2>3. obs'[i] = [flag |-> FlagOf(c, i[2]), value |-> call[c].read[i[2]],
                     next |-> NoRow]
      BY <1>3, <1>6, Zenon
    <2>4. obs'[i].flag = FlagOf(c, i[2]) /\ obs'[i].next = NoRow
      BY <2>3
    <2>5. i[2] \in Hours /\ call[c].read[i[2]] \in Values
      BY <1>1, PairId
    <2>6. obs'[i] \in Row
      BY <1>5, <2>3, <2>5 DEF Row
    <2>7. QED
      BY <1>5, <2>1, <2>2, <2>4, <2>5, <2>6
  <1>7. ASSUME NEW i \in Ids, FixedRow(c, i)
        PROVE  /\ Live(i)
               /\ obs'[i].flag = obs[i].flag /\ obs'[i].next = <<c, i[2]>>
               /\ obs'[i] \in Row
    <2>1. Live(i)
      BY <1>0, <1>1, <1>7, NoRowIsNoId DEF CallOK, FixedRow, Live
    <2>2. ~NewRow(c, i)
      BY <1>6, <1>7
    <2>3. obs'[i] = [obs[i] EXCEPT !.next = <<c, i[2]>>] /\ obs[i] \in Row
      BY <1>0, <1>3, <1>7, <2>2, Zenon
    <2>4. <<c, i[2]>> \in Ids
      BY PairId DEF Ids
    <2>5. QED
      BY <2>1, <2>3, <2>4 DEF Row
  <1>8. \A i \in Ids : ~NewRow(c, i) /\ ~FixedRow(c, i) => obs'[i] = obs[i]
    BY <1>3, Zenon
  <1>9. obs' \in [Ids -> Row]
    BY <1>0, <1>4, <1>6, <1>7, <1>8
  <1>10. QED
    BY <1>1, <1>2, <1>6, <1>7, <1>8, <1>9, Zenon

\* The hours that another call has in hand, and those this one has not, keep
\* their rows; stored rows stay stored, with their flag.
LEMMA CommitFrame ==
    ASSUME ObsInv, NEW c \in Observers, Commit(c)
    PROVE  /\ \A i \in Ids : i[2] \notin call[c].put => obs'[i] = obs[i]
           /\ \A h \in Hours : h \notin call[c].put => LiveAt(h)' = LiveAt(h)
           /\ \A i \in Ids : Stored(i) => Stored(i)' /\ obs'[i].flag = obs[i].flag
           /\ \A i \in Ids : Stored(i)' => Stored(i) \/ NewRow(c, i)
  <1>1. \A i \in Ids : i[2] \notin call[c].put => obs'[i] = obs[i]
    BY CommitRows, Zenon DEF NewRow, FixedRow
  <1>2. \A h \in Hours : h \notin call[c].put => LiveAt(h)' = LiveAt(h)
    BY <1>1 DEF LiveAt, Live, Stored
  <1>3. \A i \in Ids : Stored(i) => Stored(i)' /\ obs'[i].flag = obs[i].flag
    BY CommitRows DEF Stored
  <1>4. \A i \in Ids : Stored(i)' => Stored(i) \/ NewRow(c, i)
    BY CommitRows DEF Stored
  <1>5. QED
    BY <1>1, <1>2, <1>3, <1>4, Zenon

\* The live row of an hour that was inserted into is the new one.
LEMMA CommitEnds ==
    ASSUME ObsInv, NEW c \in Observers, Commit(c)
    PROVE  ChainEnds'
  <1>0. call[c] \in Call /\ CallOK(c, call[c]) /\ call[c].pc = "inserting"
    BY DEF ObsInv, ObsTypeOK, Commit
  <1>1. ASSUME NEW i \in Ids, i[2] \in call[c].put
        PROVE  Live(i)' <=> i = <<c, i[2]>>
    <2>1. CASE i[1] = c
      <3>1. NewRow(c, i) /\ i = <<c, i[2]>>
        BY <1>1, <2>1, PairId DEF NewRow
      <3>2. QED
        BY <3>1, CommitRows DEF Live, Stored
    <2>2. CASE i[1] # c
      <3>1. ~NewRow(c, i)
        BY <2>2 DEF NewRow
      <3>2. CASE FixedRow(c, i)
        <4>1. <<c, i[2]>> \in Ids
          BY PairId DEF Ids
        <4>2. QED
          BY <2>2, <3>2, <4>1, CommitRows, NoRowIsNoId DEF Live
      <3>3. CASE ~FixedRow(c, i)
        <4>1. obs'[i] = obs[i]
          BY <3>1, <3>3, CommitRows, Zenon
        <4>2. ~Live(i)
          <5>1. SUFFICES ASSUME Live(i) PROVE FALSE
            OBVIOUS
          <5>2. i \in LiveAt(i[2])
            BY <5>1 DEF LiveAt
          <5>3. i = call[c].fix[i[2]]
            BY <1>0, <1>1, <5>2, Zenon DEF CallOK
          <5>4. i[2] \in call[c].held
            BY <1>0, <5>3, PairId, NoRowIsNoId DEF CallOK
          <5>5. QED
            BY <3>3, <5>3, <5>4 DEF FixedRow
        <4>3. QED
          BY <2>2, <4>1, <4>2 DEF Live, Stored
      <3>4. QED
        BY <3>2, <3>3
    <2>3. QED
      BY <2>1, <2>2
  <1>2. ASSUME NEW i \in Ids, NEW j \in Ids, Live(i)', Live(j)', i[2] = j[2]
        PROVE  i = j
    <2>1. CASE i[2] \in call[c].put
      BY <1>1, <1>2, <2>1
    <2>2. CASE i[2] \notin call[c].put
      <3>1. Live(i) /\ Live(j)
        BY <1>2, <2>2, CommitFrame DEF Live, Stored
      <3>2. QED
        BY <1>2, <3>1 DEF ObsInv, RowsInv, ChainEnds
    <2>3. QED
      BY <2>1, <2>2
  <1>3. ASSUME NEW i \in Ids, Stored(i)'
        PROVE  LiveAt(i[2])' # {}
    <2>1. CASE i[2] \in call[c].put
      <3>1. <<c, i[2]>> \in Ids /\ <<c, i[2]>>[2] = i[2]
        BY PairId DEF Ids
      <3>2. Live(<<c, i[2]>>)'
        BY <1>1, <2>1, <3>1
      <3>3. QED
        BY <3>1, <3>2 DEF LiveAt
    <2>2. CASE i[2] \notin call[c].put
      <3>1. Stored(i)
        BY <1>3, <2>2, CommitFrame, Zenon DEF NewRow
      <3>2. QED
        BY <2>2, <3>1, PairId, CommitFrame DEF ObsInv, RowsInv, ChainEnds
    <2>3. QED
      BY <2>1, <2>2
  <1>4. QED
    BY <1>2, <1>3 DEF ChainEnds

\* A new link leads to the row inserted with it; an old one is as it was.
LEMMA CommitLinks ==
    ASSUME ObsInv, NEW c \in Observers, Commit(c)
    PROVE  LinksLand' /\ AbsentUnlinked' /\ NoCircle'
  <1>0. CallOK(c, call[c]) /\ LinksLand /\ AbsentUnlinked /\ NoCircle /\ obs \in [Ids -> Row]
    BY DEF ObsInv, ObsTypeOK, RowsInv
  <1>1. ASSUME NEW i \in Ids, FixedRow(c, i)
        PROVE  /\ obs'[i].next = <<c, i[2]>> /\ <<c, i[2]>> \in Ids
               /\ NewRow(c, <<c, i[2]>>) /\ obs'[<<c, i[2]>>].flag = "corrected"
               /\ ~Stored(<<c, i[2]>>)
    <2>1. <<c, i[2]>> \in Ids /\ <<c, i[2]>>[1] = c /\ <<c, i[2]>>[2] = i[2]
      BY PairId DEF Ids
    <2>2. NewRow(c, <<c, i[2]>>)
      BY <1>1, <2>1, CommitRows, Zenon DEF NewRow, FixedRow
    <2>3. FlagOf(c, i[2]) = "corrected"
      BY <1>1, NoRowIsNoId DEF FlagOf, FixedRow
    <2>4. QED
      BY <1>1, <2>1, <2>2, <2>3, CommitRows, Zenon
  <1>2. ASSUME NEW i \in Ids, obs'[i].next # NoRow
        PROVE  \/ FixedRow(c, i)
               \/ /\ ~FixedRow(c, i) /\ obs'[i].next = obs[i].next
                  /\ obs[i].next \in Ids /\ Stored(obs[i].next)
    <2>1. CASE FixedRow(c, i)
      BY <2>1, Zenon
    <2>2. CASE ~FixedRow(c, i)
      <3>1. ~NewRow(c, i)
        BY <1>2, CommitRows, Zenon
      <3>2. obs'[i] = obs[i] /\ obs[i].next \in Ids
        BY <1>0, <1>2, <2>2, <3>1, CommitRows, Zenon DEF Row
      <3>3. QED
        BY <1>0, <1>2, <2>2, <3>2 DEF LinksLand
    <2>3. QED
      BY <2>1, <2>2, Zenon
  <1>3. ASSUME NEW i \in Ids, obs'[i].next # NoRow
        PROVE  /\ obs'[obs'[i].next].flag # "absent" /\ obs'[i].next[2] = i[2]
               /\ obs'[obs'[i].next].flag = "corrected"
               /\ \A j \in Ids : obs'[j].next = obs'[i].next => j = i
    <2>1. CASE FixedRow(c, i)
      <3>1. \A j \in Ids : obs'[j].next = obs'[i].next => j = i
        <4> SUFFICES ASSUME NEW j \in Ids, obs'[j].next = obs'[i].next
                     PROVE  j = i
          OBVIOUS
        <4>1. FixedRow(c, j)
          BY <1>1, <1>2, <1>3, <2>1, Zenon
        <4>2. <<c, j[2]>> = <<c, i[2]>>
          BY <1>1, <2>1, <4>1, ZenonT(60)
        <4>3. j[2] = i[2]
          BY <4>2
        <4>4. QED
          BY <2>1, <4>1, <4>3 DEF FixedRow
      <3>2. obs'[i].next = <<c, i[2]>> /\ obs'[<<c, i[2]>>].flag = "corrected"
        BY <1>1, <2>1
      <3>3. obs'[i].next[2] = i[2]
        BY <3>2
      <3>4. QED
        BY <3>1, <3>2, <3>3 DEF Stored
    <2>2. CASE ~FixedRow(c, i)
      <3>0. obs'[i].next = obs[i].next /\ obs[i].next \in Ids /\ Stored(obs[i].next)
            /\ obs[i].next # NoRow
        BY <1>2, <1>3, <2>2, NoRowIsNoId, Zenon
      <3>1. obs[i].next[2] = i[2] /\ obs[obs[i].next].flag = "corrected"
            /\ \A j \in Ids : obs[j].next = obs[i].next => j = i
        BY <1>0, <3>0, Zenon DEF LinksLand
      <3>2. Stored(obs[i].next)' /\ obs'[obs[i].next].flag = "corrected"
        BY <3>0, <3>1, CommitFrame, Zenon DEF Stored
      <3>3. \A j \in Ids : obs'[j].next = obs'[i].next => j = i
        <4> SUFFICES ASSUME NEW j \in Ids, obs'[j].next = obs'[i].next
                     PROVE  j = i
          OBVIOUS
        <4>1. ~FixedRow(c, j)
          BY <1>1, <3>0, Zenon
        <4>2. obs'[j].next = obs[j].next
          BY <1>2, <1>3, <4>1, Zenon
        <4>3. QED
          BY <3>0, <3>1, <4>2, Zenon
      <3>4. QED
        BY <3>0, <3>1, <3>2, <3>3 DEF Stored
    <2>3. QED
      BY <2>1, <2>2, Zenon
  <1>4. LinksLand'
    BY <1>3, Zenon DEF LinksLand, Stored
  <1>5. AbsentUnlinked'
    BY <1>0, CommitRows, Zenon DEF AbsentUnlinked, Stored, Live
  <1>6. NoCircle'
    <2> SUFFICES ASSUME NEW S \in SUBSET Ids, S # {},
                        \A i \in S : obs'[i].next \in S
                 PROVE  FALSE
      BY Zenon DEF NoCircle
    <2>1. \A i \in S : ~NewRow(c, i)
      BY CommitRows, NoRowIsNoId, Zenon
    <2>2. \A i \in S : ~FixedRow(c, i)
      BY <1>1, <2>1, Zenon
    <2>3. \A i \in S : obs[i].next \in S
      BY <2>1, <2>2, CommitRows, Zenon
    <2>4. QED
      BY <1>0, <2>3, Zenon DEF NoCircle
  <1>7. QED
    BY <1>4, <1>5, <1>6

\* A commit puts superseded and inserted rows in place together.
LEMMA CommitStep ==
    ASSUME ObsInv, NEW c \in Observers, Commit(c)
    PROVE  ObsInv'
  <1> DEFINE w == [NoCall EXCEPT !.pc = "done"]
  <1>1. w \in Call /\ call' = [call EXCEPT ![c] = w]
    BY NoCallTyped DEF Commit, Ends
  <1>2. w.pc = "done" /\ w.held = {} /\ w.put = {}
    BY DEF NoCall
  <1> HIDE DEF w
  <1>3. \A d \in Observers : call'[d] = IF d = c THEN w ELSE call[d]
    BY <1>1 DEF ObsInv, ObsTypeOK
  <1>4. ObsTypeOK'
    BY <1>1, CommitRows, Zenon DEF ObsInv, ObsTypeOK
  <1>5. RowsInv'
    BY CommitEnds, CommitLinks DEF RowsInv
  <1>6. CallOK(c, call[c])'
    BY <1>2, <1>3, Zenon DEF CallOK
  <1>7. ASSUME NEW d \in Observers, d # c
        PROVE  CallOK(d, call[d])'
    <2>0. call[d] \in Call /\ CallOK(d, call[d]) /\ call'[d] = call[d]
      BY <1>3, <1>7 DEF ObsInv, ObsTypeOK
    <2>1. \A h \in call[d].held \cup call[d].put : h \notin call[c].put
      BY <1>7 DEF ObsInv, Exclusive, Claims
    <2>2. call[d].pc # "done" => \A h \in Hours : ~Stored(<<d, h>>)'
      <3>1. \A h \in Hours : <<d, h>> \in Ids /\ ~NewRow(c, <<d, h>>)
        BY <1>7 DEF Ids, NewRow
      <3>2. QED
        BY <2>0, <3>1, CommitFrame, Zenon DEF CallOK
    <2>3. \A h \in Hours : call[d].fix[h] \in Ids \cup {NoRow}
      BY <2>0 DEF Call
    <2>4. call[d].pc \in {"superseding", "inserting"} =>
            \A h \in Hours : call[d].fix[h] # NoRow => Stored(call[d].fix[h])'
      <3>1. SUFFICES ASSUME call[d].pc \in {"superseding", "inserting"}, NEW h \in Hours,
                            call[d].fix[h] # NoRow
                     PROVE  Stored(call[d].fix[h])'
        OBVIOUS
      <3>2. call[d].fix[h] \in Ids /\ Stored(call[d].fix[h])
        BY <2>0, <2>3, <3>1, Zenon DEF CallOK
      <3>3. obs'[call[d].fix[h]].flag # "absent"
        BY <3>2, CommitFrame, Zenon DEF Stored
      <3>4. QED
        BY <2>0, <3>3, Zenon DEF Stored
    <2>5. \A h \in call[d].held : obs'[call[d].fix[h]].next = NoRow
      <3> SUFFICES ASSUME NEW h \in call[d].held
                   PROVE  obs'[call[d].fix[h]].next = NoRow
        OBVIOUS
      <3>1. h \in Hours /\ call[d].fix[h] \in Ids /\ call[d].fix[h][2] = h
            /\ obs[call[d].fix[h]].next = NoRow
        BY <2>0, <2>3, Zenon DEF CallOK, Call
      <3>2. QED
        BY <2>1, <3>1, CommitFrame, Zenon
    <2>6. \A h \in call[d].put : LiveAt(h)' \subseteq {call[d].fix[h]}
      <3>1. \A h \in call[d].put : h \in Hours /\ LiveAt(h)' = LiveAt(h)
        BY <2>0, <2>1, CommitFrame, Zenon DEF Call
      <3>2. QED
        BY <2>0, <3>1 DEF CallOK
    <2>7. QED
      BY <2>0, <2>2, <2>4, <2>5, <2>6 DEF CallOK, Stored
  <1>8. Exclusive'
    BY <1>2, <1>3, Zenon DEF ObsInv, Exclusive, Claims
  <1>9. QED
    BY <1>4, <1>5, <1>6, <1>7, <1>8 DEF ObsInv

-----------------------------------------------------------------------------
(* Observation.                                                            *)

\* The invariant holds of an empty table.
LEMMA ObsInitially == ObsInit => ObsInv
  <1> SUFFICES ASSUME ObsInit
               PROVE  ObsInv
    OBVIOUS
  <1>1. Absent \in Row /\ Absent.flag = "absent" /\ Absent.next = NoRow
    BY DEF Absent, Row, Values
  <1>2. obs \in [Ids -> Row] /\ \A i \in Ids : ~Stored(i) /\ obs[i].next = NoRow
    BY <1>1 DEF ObsInit, Stored
  <1>3. ObsTypeOK
    BY <1>2, NoCallTyped DEF ObsInit, ObsTypeOK
  <1>4. RowsInv
    <2>1. ChainEnds /\ LinksLand /\ AbsentUnlinked
      BY <1>2, Zenon DEF ChainEnds, LinksLand, AbsentUnlinked, Live
    <2>2. NoCircle
      BY <1>2, NoRowIsNoId DEF NoCircle
    <2>3. QED
      BY <2>1, <2>2 DEF RowsInv
  <1>5. \A c \in Observers : call[c].pc = "idle" /\ call[c].held = {} /\ call[c].put = {}
    BY DEF ObsInit, NoCall
  <1>6. \A c \in Observers, h \in Hours : ~Stored(<<c, h>>)
    BY <1>2 DEF Ids
  <1>7. \A c \in Observers : CallOK(c, call[c])
    BY <1>5, <1>6, Zenon DEF CallOK
  <1>8. Exclusive
    BY <1>5 DEF Exclusive, Claims
  <1>9. QED
    BY <1>3, <1>4, <1>7, <1>8 DEF ObsInv

\* Every step of Observe preserves it.
LEMMA ObsStep == ObsInv /\ ObsNext => ObsInv'
  <1> SUFFICES ASSUME ObsInv, ObsNext
               PROVE  ObsInv'
    OBVIOUS
  <1>1. PICK c \in Observers :
           \/ \E H \in SUBSET Hours, read \in [Hours -> Values] :
                FetchObservations(c, H, read)
           \/ ObserveStep(c)
           \/ Abort(c)
    BY DEF ObsNext
  <1>2. CASE \E H \in SUBSET Hours, read \in [Hours -> Values] :
               FetchObservations(c, H, read)
    BY <1>2, FetchStep
  <1>3. CASE ObserveStep(c)
    BY <1>3, ReadStep, SupersedeStep, BeginInsertStep, InsertStep, CommitStep
       DEF ObserveStep
  <1>4. CASE Abort(c)
    BY <1>4, EndsStep, Zenon DEF Abort
  <1>5. QED
    BY <1>1, <1>2, <1>3, <1>4

\* Steps of others leave it.
LEMMA ObsStutter == ObsInv /\ UNCHANGED obsVars => ObsInv'
  <1> SUFFICES ASSUME ObsInv, UNCHANGED obsVars
               PROVE  ObsInv'
    OBVIOUS
  <1>1. ObsTypeOK'
    BY DEF ObsInv, ObsTypeOK, obsVars
  <1>2. RowsInv'
    BY DEF ObsInv, obsVars, RowsInv, ChainEnds, LinksLand, AbsentUnlinked, NoCircle, LiveAt,
           Live, Stored
  <1>3. \A c \in Observers : CallOK(c, call[c])'
    BY DEF ObsInv, obsVars, CallOK, LiveAt, Live, Stored
  <1>4. Exclusive'
    BY DEF ObsInv, obsVars, Exclusive, Claims
  <1>5. QED
    BY <1>1, <1>2, <1>3, <1>4 DEF ObsInv

\* The invariant implies what the migration promises: one live row, counted.
LEMMA ObsInvChains == ObsInv => ChainsAreSound
  <1> SUFFICES ASSUME ObsInv
               PROVE  ChainsAreSound
    OBVIOUS
  <1>1. ASSUME NEW h \in Hours, NEW i \in Ids, i[2] = h, Stored(i)
        PROVE  Cardinality(LiveAt(h)) = 1
    <2>1. PICK j \in LiveAt(h) : TRUE
      BY <1>1 DEF ObsInv, RowsInv, ChainEnds
    <2>2. LiveAt(h) = {j}
      BY <2>1 DEF ObsInv, RowsInv, ChainEnds, LiveAt
    <2>3. QED
      BY <2>2, FS_Singleton
  <1>2. OneLiveRow
    BY <1>1 DEF OneLiveRow
  <1>3. LinksLand
    BY DEF ObsInv, RowsInv
  <1>4. QED
    BY <1>2, <1>3 DEF ChainsAreSound

\* What a call of Observe knows of the table stays true while other calls
\* commit: the rows it has superseded stay live and the hours it has inserted
\* stay free, because locks and index entries keep the others out.
THEOREM ObservationInvariant == ObsSpec => []ObsInv
  <1>1. ObsInv /\ [ObsNext]_obsVars => ObsInv'
    BY ObsStep, ObsStutter
  <1>2. QED
    BY <1>1, ObsInitially, PTL DEF ObsSpec

\* The chains of corrections are sound, however many calls of Observe overlap,
\* correct each other, wait and fail: an hour that was ever observed has exactly
\* one live row, and each link leads to the one row that corrects it.
THEOREM ChainsStaySound == ObsSpec => []ChainsAreSound
  BY ObservationInvariant, ObsInvChains, PTL

-----------------------------------------------------------------------------
(* Matching.                                                               *)

\* A finite set of integers that is not empty has a greatest member: one whose
\* set of greater members is minimal.
LEMMA GreatestExists ==
    ASSUME NEW S \in SUBSET Int, IsFiniteSet(S), S # {}
    PROVE  \E s \in S : \A t \in S : t <= s
  <1> DEFINE Above(s) == {t \in S : t > s}
             T == {Above(s) : s \in S}
  <1>1. IsWellFoundedOn(StrictSubsetOrdering(S), SUBSET S)
    BY FS_StrictSubsetOrderingWellFounded, FS_FiniteSubsetsOfFinite, Zenon
  <1>2. T \subseteq SUBSET S /\ T # {}
    BY Zenon
  <1>3. PICK x \in T : \A y \in T : ~(<<y, x>> \in StrictSubsetOrdering(S))
    <2> HIDE DEF T
    <2>1. QED
      BY <1>1, <1>2, WFMin, Zenon
  <1>4. PICK s \in S : x = Above(s)
    OBVIOUS
  <1>5. ASSUME NEW t \in S, t > s
        PROVE  FALSE
    <2>1. Above(t) \subseteq Above(s) /\ Above(t) # Above(s)
      <3>1. t \in Above(s) /\ t \notin Above(t)
        BY <1>5
      <3>2. \A u \in Above(t) : u \in Above(s)
        BY <1>5
      <3>3. QED
        BY <3>1, <3>2, Zenon
    <2>2. Above(t) \in T /\ Above(t) \in SUBSET S /\ Above(s) \in SUBSET S
      OBVIOUS
    <2>3. <<Above(t), Above(s)>> \in StrictSubsetOrdering(S)
      <3> HIDE DEF Above
      <3>1. QED
        BY <2>1, <2>2 DEF StrictSubsetOrdering
    <2>4. QED
      BY <1>3, <1>4, <2>2, <2>3, Zenon
  <1>6. QED
    BY <1>5

\* No step of Observation takes a row away or changes its flag: what a pair is
\* made of stays.
LEMMA RowsStay ==
    ASSUME ObsInv, [ObsNext]_obsVars
    PROVE  \A i \in Ids : Stored(i) => Stored(i)' /\ obs'[i].flag = obs[i].flag
  <1>1. CASE UNCHANGED obs
    BY <1>1 DEF Stored
  <1>2. CASE \E c \in Observers : Commit(c)
    BY <1>2, CommitFrame, Zenon
  <1>3. QED
    BY <1>1, <1>2, Zenon DEF ObsNext, ObserveStep, FetchObservations, TxRead, Supersede,
       BeginInsert, Insert, Abort, obsVars

\* A pair that is right stays right while rows are only corrected.
LEMMA PairsStay ==
    ASSUME ObsInv, [ObsNext]_obsVars, NEW p \in Snapshots \X Ids, PairOK(p)
    PROVE  PairOK(p)'
  <1>1. p[2] \in Ids
    OBVIOUS
  <1>2. Stored(p[2])' /\ obs'[p[2]].flag = obs[p[2]].flag
    BY <1>1, RowsStay DEF PairOK
  <1>3. QED
    BY <1>2, Zenon DEF PairOK, Stored

\* A step of Observation, or of time, as Matching sees it.
LEMMA MatchFrame ==
    ASSUME MatchInv, [ObsNext]_obsVars, ObsInv', UNCHANGED <<pairs, matcher>>,
           window' \in [Snapshots -> {"before", "inside", "past"}]
    PROVE  MatchInv'
  <1>1. MatchTypeOK'
    BY Zenon DEF MatchInv, MatchTypeOK, ObsInv
  <1>2. pairs \subseteq Snapshots \X Ids
        /\ \A m \in Matchers : matcher[m].found \subseteq Snapshots \X Ids
    BY DEF MatchInv, MatchTypeOK, Matcher
  <1>3. \A p \in pairs : PairOK(p)'
    BY <1>2, PairsStay DEF MatchInv
  <1>4. \A m \in Matchers : \A p \in matcher[m].found : PairOK(p)'
    BY <1>2, PairsStay DEF MatchInv
  <1>5. QED
    BY <1>1, <1>3, <1>4 DEF MatchInv

\* A step of matcher m, which becomes w and inserts new.
LEMMA MatcherStep ==
    ASSUME MatchInv, UNCHANGED <<obs, call, window>>,
           NEW m \in Matchers, NEW w \in Matcher, matcher' = [matcher EXCEPT ![m] = w],
           NEW new, pairs' = pairs \cup new, new \subseteq Snapshots \X Ids,
           \A p \in new : PairOK(p),
           \A p \in w.found : PairOK(p)
    PROVE  MatchInv'
  <1>1. ObsInv'
    BY ObsStutter, Zenon DEF MatchInv, obsVars
  <1>2. MatchTypeOK'
    BY <1>1, Zenon DEF MatchInv, MatchTypeOK, ObsInv
  <1>3. \A p : PairOK(p) => PairOK(p)'
    BY Zenon DEF PairOK, Stored
  <1>4. \A p \in pairs' : PairOK(p)'
    BY <1>3 DEF MatchInv
  <1>5. \A n \in Matchers : matcher'[n] = IF n = m THEN w ELSE matcher[n]
    BY DEF MatchInv, MatchTypeOK
  <1>6. \A n \in Matchers : \A p \in matcher'[n].found : PairOK(p)'
    BY <1>3, <1>5 DEF MatchInv
  <1>7. QED
    BY <1>1, <1>2, <1>4, <1>6 DEF MatchInv

\* A step of matcher m that only reads.
LEMMA ReadingStep ==
    ASSUME MatchInv, UNCHANGED <<obs, call, window, pairs>>,
           NEW m \in Matchers, NEW w \in Matcher, matcher' = [matcher EXCEPT ![m] = w],
           \A p \in w.found : PairOK(p)
    PROVE  MatchInv'
  <1> DEFINE new == {}
  <1>1. /\ pairs' = pairs \cup new /\ new \subseteq Snapshots \X Ids
        /\ \A p \in new : PairOK(p)
    OBVIOUS
  <1> HIDE DEF new
  <1>2. QED
    BY <1>1, MatcherStep, Zenon

\* A matcher that has not begun has found nothing.
LEMMA NoMatcherTyped ==
    /\ NoMatcher \in Matcher /\ NoMatcher.found = {}
    /\ [NoMatcher EXCEPT !.pc = "failed"] \in Matcher
    /\ [NoMatcher EXCEPT !.pc = "failed"].found = {}
  BY Zenon DEF NoMatcher, Matcher

\* MatchBatch begins.
LEMMA BeginBatchStep ==
    ASSUME MatchInv, NEW m \in Matchers, BeginBatch(m)
    PROVE  MatchInv'
  <1> DEFINE range == {s \in Snapshots : window[s] = "inside"}
             w == [matcher[m] EXCEPT !.pc = "scanning", !.range = range]
  <1>0. matcher[m] \in Matcher /\ matcher \in [Matchers -> Matcher] /\ range \subseteq Snapshots
    BY DEF MatchInv, MatchTypeOK
  <1>1. w \in Matcher
    BY <1>0, Zenon DEF Matcher
  <1>2. matcher' = [matcher EXCEPT ![m] = w]
    BY <1>0, Zenon DEF BeginBatch
  <1>3. w.found = matcher[m].found
    BY <1>0 DEF Matcher
  <1> HIDE DEF w
  <1>4. \A p \in w.found : PairOK(p)
    BY <1>3 DEF MatchInv
  <1>5. UNCHANGED <<obs, call, window, pairs>>
    BY DEF BeginBatch
  <1>6. QED
    BY <1>1, <1>2, <1>4, <1>5, ReadingStep, Zenon

\* ListUnmatched reads a chunk of snapshots.
LEMMA ListUnmatchedStep ==
    ASSUME MatchInv, NEW m \in Matchers, NEW S \in SUBSET Snapshots, ListUnmatched(m, S)
    PROVE  MatchInv'
  <1> DEFINE pc == IF S = {} THEN "relisting" ELSE "looking"
             full == (Cardinality(S) = ChunkSize)
             range == IF S = {} THEN {} ELSE matcher[m].range
             after == IF S = {} THEN 0 ELSE CHOOSE s \in S : \A t \in S : t <= s
             w == [matcher[m] EXCEPT !.pc = pc, !.chunk = S, !.found = {}, !.full = full,
                                     !.range = range, !.after = after]
  <1>0. matcher[m] \in Matcher /\ matcher \in [Matchers -> Matcher]
    BY Zenon DEF MatchInv, MatchTypeOK
  <1>1. after \in Snapshots \cup {0}
    <2>1. CASE S # {}
      <3>0. IsFiniteSet(Snapshots) /\ Snapshots \subseteq Int
        BY MatchingAssumption
      <3>1. S \in SUBSET Int /\ IsFiniteSet(S)
        BY <3>0, FS_Subset, Zenon
      <3>2. \E s \in S : \A t \in S : t <= s
        BY <2>1, <3>1, GreatestExists
      <3>3. QED
        BY <2>1, <3>2
    <2>2. QED
      BY <2>1
  <1>2. pc \in {"relisting", "looking"} /\ full \in BOOLEAN /\ range \in SUBSET Snapshots
    BY <1>0 DEF Matcher
  <1>3. matcher' = [matcher EXCEPT ![m] = w]
    BY <1>0 DEF ListUnmatched
  <1> HIDE DEF after, pc, full, range
  <1>4. w \in Matcher /\ w.found = {}
    BY <1>0, <1>1, <1>2, Zenon DEF Matcher
  <1> HIDE DEF w
  <1>5. UNCHANGED <<obs, call, window, pairs>>
    BY DEF ListUnmatched
  <1>6. QED
    BY <1>3, <1>4, <1>5, ReadingStep, Zenon

\* FindCandidates and SelectCandidate find a row that may be matched, or none.
LEMMA FindCandidateStep ==
    ASSUME MatchInv, NEW m \in Matchers, NEW s \in Snapshots, FindCandidate(m, s)
    PROVE  MatchInv'
  <1> DEFINE candidates == {i \in LiveAt(TargetOf[s]) : obs[i].flag # "suspect"}
             pc == IF matcher[m].chunk = {s} THEN "inserting" ELSE matcher[m].pc
             found == matcher[m].found \cup ({s} \X candidates)
             w == [matcher[m] EXCEPT !.chunk = matcher[m].chunk \ {s}, !.pc = pc,
                                     !.found = found]
  <1>0. matcher[m] \in Matcher /\ matcher \in [Matchers -> Matcher]
    BY Zenon DEF MatchInv, MatchTypeOK
  <1>1. \A p \in {s} \X candidates : p \in Snapshots \X Ids /\ PairOK(p)
    BY MatchingAssumption DEF LiveAt, Live, PairOK
  <1>2. found \in SUBSET (Snapshots \X Ids) /\ \A p \in found : PairOK(p)
    <2> HIDE DEF candidates
    <2>1. QED
      BY <1>0, <1>1 DEF MatchInv, Matcher
  <1>3. pc \in {"inserting", matcher[m].pc}
    OBVIOUS
  <1>4. matcher' = [matcher EXCEPT ![m] = w]
    BY <1>0, Zenon DEF FindCandidate
  <1> HIDE DEF found, pc
  <1>5. w \in Matcher /\ w.found = found
    BY <1>0, <1>2, <1>3, Zenon DEF Matcher
  <1> HIDE DEF w
  <1>6. UNCHANGED <<obs, call, window, pairs>>
    BY Zenon DEF FindCandidate
  <1>7. QED
    BY <1>2, <1>4, <1>5, <1>6, ReadingStep, Zenon

\* InsertMatches and Rematch insert what the matcher has found; it may be
\* superseded by now, but it is there.
LEMMA InsertMatchesStep ==
    ASSUME MatchInv, NEW m \in Matchers, InsertMatches(m)
    PROVE  MatchInv'
  <1> DEFINE pc == IF matcher[m].full THEN "scanning" ELSE "relisting"
             after == IF matcher[m].full THEN matcher[m].after ELSE 0
             range == IF matcher[m].full THEN matcher[m].range ELSE {}
             w == [matcher[m] EXCEPT !.pc = pc, !.after = after, !.range = range,
                                     !.found = {}, !.full = FALSE]
  <1>0. matcher[m] \in Matcher /\ matcher \in [Matchers -> Matcher]
    BY Zenon DEF MatchInv, MatchTypeOK
  <1>1. pc \in {"scanning", "relisting"} /\ after \in Snapshots \cup {0}
        /\ range \in SUBSET Snapshots
    BY <1>0 DEF Matcher
  <1>2. matcher' = [matcher EXCEPT ![m] = w]
    BY <1>0, Zenon DEF InsertMatches
  <1> HIDE DEF after, pc, range
  <1>3. w \in Matcher /\ w.found = {}
    BY <1>0, <1>1, Zenon DEF Matcher
  <1> HIDE DEF w
  <1>4. matcher[m].found \subseteq Snapshots \X Ids /\ \A p \in matcher[m].found : PairOK(p)
    BY <1>0 DEF MatchInv, Matcher
  <1>5. UNCHANGED <<obs, call, window>> /\ pairs' = pairs \cup matcher[m].found
    BY DEF InsertMatches
  <1>6. QED
    BY <1>2, <1>3, <1>4, <1>5, MatcherStep, Zenon

\* rematch inserts the pairs it has listed, and the batch ends.
LEMMA RematchStep ==
    ASSUME MatchInv, NEW m \in Matchers, Rematch(m)
    PROVE  MatchInv'
  <1>1. matcher[m].found \subseteq Snapshots \X Ids /\ \A p \in matcher[m].found : PairOK(p)
    BY DEF MatchInv, MatchTypeOK, Matcher
  <1>2. UNCHANGED <<obs, call, window>> /\ pairs' = pairs \cup matcher[m].found
        /\ matcher' = [matcher EXCEPT ![m] = NoMatcher]
    BY DEF Rematch
  <1>3. QED
    BY <1>1, <1>2, NoMatcherTyped, MatcherStep, Zenon

\* The row that corrects the row of a pair makes a pair too: it is stored, of
\* the same hour, and a correction is never suspect.
LEMMA TargetsOK ==
    ASSUME MatchInv
    PROVE  \A t \in RematchTargets : t \in Snapshots \X Ids /\ PairOK(t)
  <1> SUFFICES ASSUME NEW t \in RematchTargets
               PROVE  t \in Snapshots \X Ids /\ PairOK(t)
    OBVIOUS
  <1>1. PICK p \in pairs : /\ obs[p[2]].next \in Ids /\ Stored(obs[p[2]].next)
                           /\ t = <<p[1], obs[p[2]].next>>
    BY DEF RematchTargets
  <1>2. p \in Snapshots \X Ids /\ PairOK(p)
    BY DEF MatchInv, MatchTypeOK
  <1>3. p[1] \in Snapshots /\ p[2] \in Ids /\ t[1] = p[1] /\ t[2] = obs[p[2]].next
    BY <1>1, <1>2
  <1>4. obs[p[2]].next # NoRow
    BY <1>1, NoRowIsNoId, Zenon
  <1>5. t[2][2] = p[2][2] /\ obs[t[2]].flag = "corrected"
    BY <1>3, <1>4, Zenon DEF MatchInv, ObsInv, RowsInv, LinksLand
  <1>6. QED
    BY <1>1, <1>2, <1>3, <1>5 DEF PairOK

\* ListRematchTargets reads pairs with the successors of their rows.
LEMMA ListTargetsStep ==
    ASSUME MatchInv, NEW m \in Matchers, NEW T \in SUBSET RematchTargets,
           ListRematchTargets(m, T)
    PROVE  MatchInv'
  <1> DEFINE w == IF T = {} THEN NoMatcher
                  ELSE [NoMatcher EXCEPT !.pc = "rematching", !.found = T]
  <1>1. T \subseteq Snapshots \X Ids /\ \A p \in T : PairOK(p)
    BY TargetsOK
  <1>2. w \in Matcher /\ w.found = T
    BY <1>1, Zenon DEF NoMatcher, Matcher
  <1>3. matcher' = [matcher EXCEPT ![m] = w]
    BY DEF ListRematchTargets
  <1> HIDE DEF w
  <1>4. UNCHANGED <<obs, call, window, pairs>>
    BY DEF ListRematchTargets
  <1>5. QED
    BY <1>1, <1>2, <1>3, <1>4, ReadingStep, Zenon

\* A batch that fails leaves what it has inserted.
LEMMA AbortBatchStep ==
    ASSUME MatchInv, NEW m \in Matchers, AbortBatch(m)
    PROVE  MatchInv'
  <1> DEFINE w == [NoMatcher EXCEPT !.pc = "failed"]
  <1>1. w \in Matcher /\ w.found = {}
    BY NoMatcherTyped
  <1>2. UNCHANGED <<obs, call, window, pairs>>
        /\ matcher' = [matcher EXCEPT ![m] = w]
    BY DEF AbortBatch
  <1> HIDE DEF w
  <1>3. QED
    BY <1>1, <1>2, ReadingStep, Zenon

\* The invariant holds before the first batch.
LEMMA MatchInitially == Init => MatchInv
  <1> SUFFICES ASSUME Init
               PROVE  MatchInv
    OBVIOUS
  <1>1. ObsInv
    BY ObsInitially DEF Init
  <1>2. MatchTypeOK
    BY <1>1, NoMatcherTyped DEF Init, MatchTypeOK, ObsInv
  <1>3. \A m \in Matchers : matcher[m].found = {}
    BY NoMatcherTyped DEF Init
  <1>4. QED
    BY <1>1, <1>2, <1>3 DEF MatchInv, Init

\* Every step of Observe and MatchBatch preserves it.
LEMMA MatchNext == MatchInv /\ [Next]_vars => MatchInv'
  <1> SUFFICES ASSUME MatchInv, [Next]_vars
               PROVE  MatchInv'
    OBVIOUS
  <1>0. window \in [Snapshots -> {"before", "inside", "past"}]
    BY DEF MatchInv, MatchTypeOK
  <1>1. CASE ObsNext /\ UNCHANGED matchVars
    <2>1. ObsInv' /\ UNCHANGED <<window, pairs, matcher>>
      BY <1>1, ObsStep DEF MatchInv, matchVars
    <2>2. QED
      BY <1>0, <1>1, <2>1, MatchFrame
  <1>2. ASSUME NEW s \in Snapshots, Enters(s) \/ Leaves(s)
        PROVE  MatchInv'
    <2>1. UNCHANGED obsVars /\ UNCHANGED <<pairs, matcher>>
      BY <1>2 DEF Enters, Leaves, obsVars
    <2>2. window' \in [Snapshots -> {"before", "inside", "past"}]
      BY <1>0, <1>2 DEF Enters, Leaves
    <2>3. ObsInv'
      BY <2>1, ObsStutter, Zenon DEF MatchInv
    <2>4. QED
      BY <2>1, <2>2, <2>3, MatchFrame
  <1>3. ASSUME NEW m \in Matchers, MatchStep(m) \/ AbortBatch(m)
        PROVE  MatchInv'
    BY <1>3, BeginBatchStep, ListUnmatchedStep, FindCandidateStep, InsertMatchesStep,
       ListTargetsStep, RematchStep, AbortBatchStep DEF MatchStep
  <1>4. CASE UNCHANGED vars
    <2>1. UNCHANGED obsVars /\ UNCHANGED <<window, pairs, matcher>>
      BY <1>4 DEF vars, obsVars
    <2>2. ObsInv'
      BY <2>1, ObsStutter DEF MatchInv
    <2>3. QED
      BY <1>0, <2>1, <2>2, MatchFrame, Zenon
  <1>5. QED
    BY <1>1, <1>2, <1>3, <1>4 DEF Next

\* Evidence is a subset of the live rows of the snapshot's hour, of which there
\* is one.
LEMMA InvEvaluatedOnce == MatchInv => EvaluatedOnce
  <1> SUFFICES ASSUME MatchInv, NEW s \in Snapshots
               PROVE  Cardinality(Evidence(s)) <= 1
    BY DEF EvaluatedOnce
  <1>1. \A i, j \in Evidence(s) : i = j
    <2> SUFFICES ASSUME NEW i \in Evidence(s), NEW j \in Evidence(s)
                 PROVE  i = j
      OBVIOUS
    <2>1. i \in Ids /\ j \in Ids /\ Live(i) /\ Live(j) /\ <<s, i>> \in pairs
          /\ <<s, j>> \in pairs
      BY Zenon DEF Evidence, Paired
    <2>2. <<s, i>>[1] = s /\ <<s, i>>[2] = i /\ <<s, j>>[1] = s /\ <<s, j>>[2] = j
      OBVIOUS
    <2>3. i[2] = TargetOf[s] /\ j[2] = TargetOf[s]
      BY <2>1, <2>2, Zenon DEF MatchInv, PairOK
    <2>4. QED
      BY <2>1, <2>3, Zenon DEF MatchInv, ObsInv, RowsInv, ChainEnds
  <1>2. CASE Evidence(s) = {}
    BY <1>2, FS_EmptySet
  <1>3. CASE Evidence(s) # {}
    <2>1. PICK i : Evidence(s) = {i}
      BY <1>1, <1>3
    <2>2. Cardinality(Evidence(s)) = 1
      BY <2>1, FS_Singleton, Zenon
    <2>3. QED
      BY <2>2
  <1>4. QED
    BY <1>2, <1>3

\* The rows a snapshot is paired with are no circle: one of them has its
\* successor outside.  It is live, and evidence, or its successor is a target.
LEMMA InvNeverStranded == MatchInv => NeverStranded
  <1> SUFFICES ASSUME MatchInv, NEW s \in Snapshots, Paired(s) # {}
               PROVE  Evidence(s) # {} \/ \E t \in RematchTargets : t[1] = s
    BY DEF NeverStranded
  <1>0. Paired(s) \in SUBSET Ids
    BY DEF Paired
  <1>1. PICK i \in Paired(s) : obs[i].next \notin Paired(s)
    BY <1>0 DEF MatchInv, ObsInv, RowsInv, NoCircle
  <1>2. i \in Ids /\ <<s, i>> \in pairs /\ obs[i] \in Row
    BY <1>0, <1>1 DEF Paired, MatchInv, ObsInv, ObsTypeOK
  <1>3. Stored(i) /\ obs[i].flag # "suspect"
    <2>1. <<s, i>>[2] = i
      OBVIOUS
    <2>2. QED
      BY <1>2, <2>1, Zenon DEF MatchInv, PairOK
  <1>4. CASE obs[i].next = NoRow
    BY <1>1, <1>3, <1>4 DEF Evidence, Live
  <1>5. CASE obs[i].next # NoRow
    <2>1. obs[i].next \in Ids /\ Stored(obs[i].next)
      BY <1>2, <1>5, Zenon DEF MatchInv, ObsInv, RowsInv, LinksLand, Row
    <2>2. <<s, obs[i].next>> \notin pairs
      BY <1>1, <2>1, Zenon DEF Paired
    <2>3. <<s, i>>[1] = s /\ <<s, i>>[2] = i /\ <<s, obs[i].next>>[1] = s
      OBVIOUS
    <2>4. <<s, obs[i].next>> \in RematchTargets
      BY <1>2, <2>1, <2>2, <2>3, Zenon DEF RematchTargets
    <2>5. QED
      BY <2>3, <2>4
  <1>6. QED
    BY <1>4, <1>5

\* Matching and Observation together keep the invariant: a pair is made with a
\* row that is there, of the right hour and not suspect, though it may have been
\* superseded since it was looked up.
THEOREM MatchingInvariant == Spec => []MatchInv
  BY MatchInitially, MatchNext, PTL DEF Spec

\* Every variable of Matching and Observation keeps its type.
THEOREM MatchingTypeCorrect == Spec => []MatchTypeOK
  <1>1. MatchInv => MatchTypeOK
    BY DEF MatchInv
  <1>2. QED
    BY <1>1, MatchingInvariant, PTL

\* No forecast is evaluated twice, however batches overlap with each other and
\* with corrections.
THEOREM ForecastsEvaluatedOnce == Spec => []EvaluatedOnce
  BY MatchingInvariant, InvEvaluatedOnce, PTL

\* A matched forecast has its evaluation, or rematch has something to do for it,
\* for chains of corrections of any length.
THEOREM MatchesNeverStranded == Spec => []NeverStranded
  BY MatchingInvariant, InvNeverStranded, PTL
=============================================================================
