-------------------------- MODULE PublicationProofs --------------------------
(***************************************************************************)
(* Publication never takes away, for any cohort and any number of          *)
(* overlapping and failing batches; and when no batch starts while another *)
(* one runs, every key has one live row and a ranking table lives or is    *)
(* superseded as a whole.                                                  *)
(***************************************************************************)
EXTENDS Publication, Integers, TLAPS

\* What the transactions under way have: rows to supersede are stored rows of the
\* providers whose new rows are inserted; outside of a transaction there are none.
Pending(b) ==
    LET w == batch[b] IN
    /\ \A i \in w.want \cup w.held : rows[w.table][i].stored /\ i[2] \in w.new
    /\ w.todo \subseteq w.new
    /\ w.pc = "writing" => w.cells \cap w.new = {}
    /\ w.pc # "writing" => w.want = {} /\ w.held = {}

\* A batch has not stored yet what it is going to store: everything, before it starts,
\* then the rows of the cells that are left and the rankings, then those it writes.
Unwritten(b) ==
    LET w == batch[b] IN
    /\ w.pc = "idle" =>
         \A t \in Tables, p \in Providers : ~rows[t][<<b, p>>].stored
    /\ w.pc \in {"aggregating", "ranking", "writing"} =>
         /\ \A p \in w.cells : ~rows["metrics"][<<b, p>>].stored
         /\ \A p \in Providers : ~rows["rankings"][<<b, p>>].stored
    /\ w.pc = "writing" => \A p \in w.new : ~rows[w.table][<<b, p>>].stored

\* A row that is not stored has no successor.
Clean == \A t \in Tables, i \in RowIds : ~rows[t][i].stored => rows[t][i].next = Unlinked

PublicationInv ==
    /\ PublicationTypeOK
    /\ \A b \in Batches : Pending(b) /\ Unwritten(b)
    /\ Clean
    /\ NeverUnpublished
    /\ SupersededByAnother

-----------------------------------------------------------------------------
\* It holds when nothing has been published.
LEMMA PublicationInvInit == PublicationInit => PublicationInv
<1> SUFFICES ASSUME PublicationInit PROVE PublicationInv
  OBVIOUS
<1> USE PublicationAssumption DEF PublicationInit
<1>1. 0 \in Versions
  BY DEF Versions
<1>2. NoRow \in Row
  BY <1>1 DEF NoRow, Row
<1>3. NoBatch \in Batch
  BY <1>1 DEF NoBatch, Batch, Phases, Tables
<1>4. PublicationTypeOK
  BY <1>1, <1>2, <1>3 DEF PublicationTypeOK
<1>5. \A t \in Tables, i \in RowIds : ~rows[t][i].stored /\ rows[t][i].next = Unlinked
  BY DEF NoRow
<1>6. \A b \in Batches : Pending(b)
  BY DEF Pending, NoBatch
<1>7. \A b \in Batches : Unwritten(b)
  BY <1>5 DEF Unwritten, NoBatch, RowIds, Tables
<1> QED
  BY <1>4, <1>5, <1>6, <1>7 DEF PublicationInv, Clean, NeverUnpublished, SupersededByAnother

\* An action that stores nothing preserves it if it preserves what is said of its batch.
LEMMA QuietStep ==
    ASSUME PublicationInv, NEW b \in Batches, UNCHANGED <<overlap, evidence, rows>>,
           NEW w \in Batch, batch' = [batch EXCEPT ![b] = w],
           Pending(b)', Unwritten(b)'
    PROVE  PublicationInv'
<1>1. PublicationTypeOK'
  BY DEF PublicationInv, PublicationTypeOK, Batch, Row, Versions, Phases
<1>2. \A d \in Batches : d # b => Pending(d)' /\ Unwritten(d)'
  BY DEF PublicationInv, PublicationTypeOK, Pending, Unwritten
<1>3. (Clean /\ NeverUnpublished /\ SupersededByAnother)'
  BY DEF PublicationInv, Clean, NeverUnpublished, SupersededByAnother, LiveAt, Live
<1> QED
  BY <1>1, <1>2, <1>3 DEF PublicationInv

-----------------------------------------------------------------------------
(* One lemma per action.                                                   *)

\* A batch that starts has stored nothing yet.
LEMMA BeginBatchInv ==
    ASSUME PublicationInv, NEW b \in Batches, NEW cells \in CellSets, BeginBatch(b, cells)
    PROVE  PublicationInv'
<1> DEFINE w == [batch[b] EXCEPT !.pc = IF cells = {} THEN "ranking" ELSE "aggregating",
                                 !.cells = cells]
<1>1. batch[b] \in Batch /\ batch \in [Batches -> Batch]
  BY DEF PublicationInv, PublicationTypeOK
<1>2. cells \subseteq Providers
  BY PublicationAssumption
<1>3. w \in Batch
  BY <1>1, <1>2, Zenon DEF Batch, Phases
<1>4. batch' = [batch EXCEPT ![b] = w]
  BY Zenon DEF BeginBatch
<1>5. batch'[b] = w /\ rows' = rows
  BY <1>1, <1>4, Zenon DEF BeginBatch
<1>6. /\ w.pc \in {"ranking", "aggregating"} /\ w.cells = cells /\ w.table = batch[b].table
      /\ w.new = batch[b].new /\ w.want = batch[b].want /\ w.held = batch[b].held
      /\ w.todo = batch[b].todo
  BY <1>1 DEF Batch
<1> HIDE DEF w
<1>7. batch[b].pc = "idle"
  BY DEF BeginBatch
<1>8. Pending(b)'
  BY <1>5, <1>6, <1>7 DEF PublicationInv, Pending
<1>9. Unwritten(b)'
  BY <1>2, <1>5, <1>6, <1>7 DEF PublicationInv, Unwritten, Tables
<1> QED
  BY <1>3, <1>4, <1>8, <1>9, QuietStep DEF BeginBatch

\* A transaction begins with rows that the batch has not stored, and holds nothing.
LEMMA BeginWriteInv ==
    ASSUME PublicationInv, NEW b \in Batches, batch[b].pc \in {"aggregating", "ranking"},
           NEW t \in Tables, NEW P \in SUBSET Providers, NEW ver \in [Providers -> Versions],
           \A p \in P : ~rows[t][<<b, p>>].stored,
           BeginWrite(b, t, P, ver), UNCHANGED <<overlap, evidence, rows>>
    PROVE  PublicationInv'
<1> DEFINE w == [batch[b] EXCEPT !.pc = "writing", !.table = t, !.new = P, !.ver = ver,
                                 !.todo = P, !.cells = @ \ P]
<1>1. batch[b] \in Batch /\ batch \in [Batches -> Batch]
  BY DEF PublicationInv, PublicationTypeOK
<1>2. w \in Batch
  BY <1>1, Zenon DEF Batch, Phases
<1>3. batch' = [batch EXCEPT ![b] = w]
  BY Zenon DEF BeginWrite
<1>4. batch'[b] = w
  BY <1>1, <1>3
<1>5. /\ w.pc = "writing" /\ w.cells = batch[b].cells \ P /\ w.table = t
      /\ w.new = P /\ w.todo = P /\ w.want = batch[b].want /\ w.held = batch[b].held
  BY <1>1 DEF Batch
<1> HIDE DEF w
<1>6. Pending(b)'
  BY <1>4, <1>5 DEF PublicationInv, Pending
<1>7. Unwritten(b)'
  BY <1>4, <1>5 DEF PublicationInv, Unwritten
<1> QED
  BY <1>2, <1>3, <1>6, <1>7, QuietStep, Zenon

\* aggregateCellPeriod writes the row of a cell that was left.
LEMMA AggregateCellInv ==
    ASSUME PublicationInv, NEW b \in Batches, NEW p \in Providers, AggregateCell(b, p)
    PROVE  PublicationInv'
<1> DEFINE ver == [q \in Providers |-> IF q = p THEN evidence ELSE 0]
<1>1. ver \in [Providers -> Versions]
  BY PublicationAssumption DEF PublicationInv, PublicationTypeOK, Versions
<1>2. ~rows["metrics"][<<b, p>>].stored
  BY DEF AggregateCell, PublicationInv, Unwritten
<1> QED
  BY <1>1, <1>2, BeginWriteInv DEF AggregateCell, Tables

\* A batch that is over, after Abort or with nothing to rank, is said nothing of.
LEMMA DoneInv ==
    ASSUME PublicationInv, NEW b \in Batches, UNCHANGED <<overlap, evidence, rows>>,
           batch' = [batch EXCEPT ![b] = [NoBatch EXCEPT !.pc = "done"]]
    PROVE  PublicationInv'
<1> DEFINE w == [NoBatch EXCEPT !.pc = "done"]
<1>1. batch \in [Batches -> Batch] /\ overlap \in BOOLEAN
  BY DEF PublicationInv, PublicationTypeOK
<1>2. 0 \in Versions
  BY <1>1, PublicationAssumption DEF Versions
<1>3. w \in Batch
  BY <1>2 DEF NoBatch, Batch, Phases, Tables
<1>4. w.pc = "done" /\ w.want = {} /\ w.held = {} /\ w.todo = {}
  BY DEF NoBatch
<1> HIDE DEF w
<1>5. batch' = [batch EXCEPT ![b] = w]
  BY DEF w
<1>6. batch'[b] = w
  BY <1>1, <1>5
<1> QED
  BY <1>3, <1>4, <1>5, <1>6, QuietStep, Zenon DEF Pending, Unwritten

\* RankPeriod writes rankings, of which the batch has stored none.
LEMMA PublishCohortInv ==
    ASSUME PublicationInv, NEW b \in Batches, NEW ver \in [Providers -> Versions],
           PublishCohort(b, ver)
    PROVE  PublicationInv'
<1> DEFINE cohort == {p \in Providers : LiveAt("metrics", p) # {}}
<1>1. CASE cohort = {}
  BY <1>1, DoneInv DEF PublishCohort
<1>2. CASE cohort # {}
  <2>1. BeginWrite(b, "rankings", cohort, ver) /\ UNCHANGED <<overlap, evidence, rows>>
    BY <1>2 DEF PublishCohort
  <2>2. batch[b].pc = "ranking"
    BY DEF PublishCohort
  <2>3. \A p \in cohort : ~rows["rankings"][<<b, p>>].stored
    BY <2>2 DEF PublicationInv, Unwritten
  <2> HIDE DEF cohort
  <2>4. cohort \in SUBSET Providers /\ "rankings" \in Tables
    BY DEF cohort, Tables
  <2> QED
    BY <2>1, <2>2, <2>3, <2>4, BeginWriteInv
<1> QED
  BY <1>1, <1>2

\* The UPDATE for a new row is after stored rows of its provider.
LEMMA SupersedePreviousInv ==
    ASSUME PublicationInv, NEW b \in Batches, NEW p \in Providers, SupersedePrevious(b, p)
    PROVE  PublicationInv'
<1> DEFINE prev == LiveAt(batch[b].table, p) \ batch[b].held
           w == [batch[b] EXCEPT !.todo = @ \ {p}, !.want = prev]
<1>1. batch[b] \in Batch /\ batch \in [Batches -> Batch]
  BY DEF PublicationInv, PublicationTypeOK
<1>2. prev \subseteq RowIds /\ \A i \in prev : i[2] = p /\ rows[batch[b].table][i].stored
  BY DEF LiveAt, Live
<1> HIDE DEF prev
<1>3. w \in Batch
  BY <1>1, <1>2, Zenon DEF Batch
<1>4. batch' = [batch EXCEPT ![b] = w]
  BY Zenon DEF SupersedePrevious, Previous, prev
<1>5. batch'[b] = w /\ rows' = rows
  BY <1>1, <1>4, Zenon DEF SupersedePrevious
<1>6. /\ w.pc = batch[b].pc /\ w.cells = batch[b].cells /\ w.table = batch[b].table
      /\ w.new = batch[b].new /\ w.want = prev /\ w.held = batch[b].held
      /\ w.todo = batch[b].todo \ {p}
  BY <1>1 DEF Batch
<1> HIDE DEF w
<1>7. batch[b].pc = "writing" /\ p \in batch[b].new
  BY DEF SupersedePrevious, PublicationInv, Pending
<1>8. Pending(b)'
  BY <1>2, <1>5, <1>6, <1>7 DEF PublicationInv, Pending
<1>9. Unwritten(b)'
  BY <1>5, <1>6 DEF PublicationInv, Unwritten
<1> QED
  BY <1>3, <1>4, <1>8, <1>9, QuietStep, Zenon DEF SupersedePrevious

\* A row that was wanted is held, or left.
LEMMA UpdateRowInv ==
    ASSUME PublicationInv, NEW b \in Batches, NEW i \in RowIds, UpdateRow(b, i)
    PROVE  PublicationInv'
<1> DEFINE h == IF rows[batch[b].table][i].next = Unlinked THEN batch[b].held \cup {i}
                ELSE batch[b].held
           w == [batch[b] EXCEPT !.want = @ \ {i}, !.held = h]
<1>1. batch[b] \in Batch /\ batch \in [Batches -> Batch]
  BY DEF PublicationInv, PublicationTypeOK
<1>2. batch[b].held \subseteq RowIds /\ i \in batch[b].want
  BY <1>1 DEF Batch, UpdateRow
<1>3. h \subseteq RowIds /\ h \subseteq batch[b].held \cup batch[b].want
  BY <1>2
<1>4. batch' = [batch EXCEPT ![b] = w]
  BY Zenon DEF UpdateRow
<1> HIDE DEF h
<1>5. w \in Batch
  BY <1>1, <1>3, Zenon DEF Batch
<1>6. batch'[b] = w /\ rows' = rows
  BY <1>1, <1>4, Zenon DEF UpdateRow
<1>7. /\ w.pc = batch[b].pc /\ w.cells = batch[b].cells /\ w.table = batch[b].table
      /\ w.new = batch[b].new /\ w.want = batch[b].want \ {i} /\ w.held = h
      /\ w.todo = batch[b].todo
  BY <1>1 DEF Batch
<1> HIDE DEF w
<1>8. batch[b].pc = "writing"
  BY DEF UpdateRow
<1>9. Pending(b)'
  BY <1>3, <1>6, <1>7, <1>8 DEF PublicationInv, Pending
<1>10. Unwritten(b)'
  BY <1>6, <1>7 DEF PublicationInv, Unwritten
<1> QED
  BY <1>4, <1>5, <1>9, <1>10, QuietStep, Zenon DEF UpdateRow

\* What a commit leaves in its table: its new rows live, the held rows superseded by the
\* new row of the same provider, all others as they were.
LEMMA CommitRows ==
    ASSUME PublicationInv, NEW b \in Batches, Commit(b)
    PROVE  LET t == batch[b].table
               w == batch[b]
           IN  /\ rows' \in [Tables -> [RowIds -> Row]]
               /\ \A u \in Tables \ {t} : rows'[u] = rows[u]
               /\ \A p \in w.new : /\ rows'[t][<<b, p>>].stored
                                   /\ rows'[t][<<b, p>>].next = Unlinked
                                   /\ rows'[t][<<b, p>>].ver = w.ver[p]
               /\ \A i \in w.held : /\ rows'[t][i].stored /\ rows'[t][i].next = <<b, i[2]>>
                                    /\ rows'[t][i].ver = rows[t][i].ver
               /\ \A i \in RowIds : i \notin w.held /\ (i[1] # b \/ i[2] \notin w.new)
                                    => rows'[t][i] = rows[t][i]
<1> DEFINE w == batch[b]
           t == w.table
           written(i) == IF i[1] = b /\ i[2] \in w.new
                         THEN [stored |-> TRUE, ver |-> w.ver[i[2]], next |-> Unlinked]
                         ELSE rows[t][i]
           final(i) == IF i \in w.held THEN [written(i) EXCEPT !.next = Link(b, i)]
                       ELSE written(i)
<1>1. /\ w \in Batch /\ t \in Tables /\ w.held \subseteq RowIds /\ w.new \subseteq Providers
      /\ w.ver \in [Providers -> Versions] /\ rows \in [Tables -> [RowIds -> Row]]
  BY DEF PublicationInv, PublicationTypeOK, Batch
<1>2. rows' = [rows EXCEPT ![t] = [i \in RowIds |-> final(i)]]
  BY DEF Commit
<1>3. \A i \in RowIds : written(i) \in Row
  BY <1>1 DEF RowIds, Row
<1>4. \A i \in w.held : ~(i[1] = b /\ i[2] \in w.new) /\ rows[t][i].stored /\ i[2] \in w.new
  BY <1>1 DEF PublicationInv, Pending, Unwritten, Commit, RowIds
<1>5. \A i \in w.held : /\ Link(b, i) \in RowIds /\ Link(b, i) = <<b, i[2]>>
                        /\ written(i) = rows[t][i]
  BY <1>1, <1>4 DEF Link, RowIds
<1>6. \A i \in w.held : /\ final(i) \in Row /\ final(i).stored /\ final(i).next = <<b, i[2]>>
                        /\ final(i).ver = rows[t][i].ver
  BY <1>1, <1>4, <1>5 DEF Row
<1>7. \A i \in RowIds : final(i) \in Row
  BY <1>3, <1>6, Zenon
<1>8. \A p \in w.new : <<b, p>> \in RowIds /\ <<b, p>> \notin w.held
  BY <1>1, <1>4 DEF RowIds
<1>9. \A p \in w.new : /\ final(<<b, p>>).stored /\ final(<<b, p>>).next = Unlinked
                       /\ final(<<b, p>>).ver = w.ver[p]
  BY <1>8
<1>10. \A i \in RowIds : i \notin w.held /\ (i[1] # b \/ i[2] \notin w.new)
                        => final(i) = rows[t][i]
  OBVIOUS
<1> HIDE DEF final
<1>11. rows'[t] = [i \in RowIds |-> final(i)] /\ \A u \in Tables \ {t} : rows'[u] = rows[u]
  BY <1>1, <1>2
<1>12. rows' \in [Tables -> [RowIds -> Row]]
  BY <1>1, <1>2, <1>7
<1> QED
  BY <1>1, <1>6, <1>8, <1>9, <1>10, <1>11, <1>12

\* After a commit, every provider of the batch has its new row, and the others the rows
\* they had; what other batches hold or have still to write is as before.
LEMMA CommitInv ==
    ASSUME PublicationInv, NEW b \in Batches, Commit(b)
    PROVE  PublicationInv'
<1> DEFINE w == batch[b]
           t == w.table
           v == [NoBatch EXCEPT !.pc = IF t = "rankings" THEN "done"
                                       ELSE IF w.cells = {} THEN "ranking" ELSE "aggregating",
                                !.cells = w.cells]
<1>1. /\ w \in Batch /\ t \in Tables /\ w.held \subseteq RowIds /\ w.new \subseteq Providers
      /\ w.cells \subseteq Providers /\ batch \in [Batches -> Batch] /\ overlap \in BOOLEAN
      /\ rows \in [Tables -> [RowIds -> Row]]
  BY DEF PublicationInv, PublicationTypeOK, Batch
<1>2. /\ rows' \in [Tables -> [RowIds -> Row]]
      /\ \A u \in Tables \ {t} : rows'[u] = rows[u]
      /\ \A p \in w.new : rows'[t][<<b, p>>].stored /\ rows'[t][<<b, p>>].next = Unlinked
      /\ \A i \in w.held : rows'[t][i].stored /\ rows'[t][i].next = <<b, i[2]>>
      /\ \A i \in RowIds : i \notin w.held /\ (i[1] # b \/ i[2] \notin w.new)
                           => rows'[t][i] = rows[t][i]
  BY CommitRows, Zenon
<1>3. w.pc = "writing" /\ batch' = [batch EXCEPT ![b] = v] /\ UNCHANGED <<overlap, evidence>>
  BY DEF Commit
<1>4. /\ \A i \in w.held : rows[t][i].stored /\ i[2] \in w.new
      /\ \A p \in w.new : ~rows[t][<<b, p>>].stored
      /\ \A p \in w.cells : ~rows["metrics"][<<b, p>>].stored
      /\ \A p \in Providers : ~rows["rankings"][<<b, p>>].stored
  BY <1>3 DEF PublicationInv, Pending, Unwritten
<1>5. /\ v.pc \in {"done", "ranking", "aggregating"} /\ v.cells = w.cells
      /\ t = "rankings" => v.pc = "done"
      /\ v.todo = {} /\ v.want = {} /\ v.held = {} /\ v.new = {} /\ v \in Batch
  <2>1. 0 \in Versions
    BY <1>1, PublicationAssumption DEF Versions
  <2> QED
    BY <1>1, <2>1, Zenon DEF NoBatch, Batch, Phases, Tables
<1> HIDE DEF v
<1>6. batch'[b] = v /\ \A d \in Batches \ {b} : batch'[d] = batch[d]
  BY <1>1, <1>3
<1>7. PublicationTypeOK'
  <2>1. Versions' = Versions /\ Row' = Row /\ Batch' = Batch
    BY <1>3 DEF Versions, Row, Batch
  <2>2. batch' \in [Batches -> Batch]
    BY <1>1, <1>3, <1>5
  <2> QED
    BY <1>2, <1>3, <2>1, <2>2, Zenon DEF PublicationInv, PublicationTypeOK
\* What was stored stays stored, and only b's new rows are added.
<1>8. \A u \in Tables, i \in RowIds :
        /\ rows[u][i].stored => rows'[u][i].stored
        /\ rows'[u][i].stored => rows[u][i].stored \/ (u = t /\ i[1] = b /\ i[2] \in w.new)
  BY <1>2, <1>4 DEF RowIds
<1>9. ASSUME NEW d \in Batches PROVE Pending(d)' /\ Unwritten(d)'
  <2>1. CASE d = b
    <3>1. Pending(d)'
      BY <1>5, <1>6, <2>1 DEF Pending
    <3>2. \A p \in w.cells : p \notin w.new
      BY <1>3 DEF PublicationInv, Pending
    <3>3. \A p \in w.cells : ~rows'["metrics"][<<b, p>>].stored
      BY <1>1, <1>4, <1>8, <3>2 DEF Tables, RowIds
    <3>4. t # "rankings" => \A p \in Providers : ~rows'["rankings"][<<b, p>>].stored
      BY <1>4, <1>8 DEF Tables, RowIds
    <3> QED
      BY <1>5, <1>6, <2>1, <3>1, <3>3, <3>4 DEF Unwritten
  <2>2. CASE d # b
    <3>1. batch'[d] = batch[d] /\ Pending(d) /\ Unwritten(d) /\ batch[d] \in Batch
      BY <1>1, <1>6, <2>2 DEF PublicationInv
    <3>2. Pending(d)'
      BY <1>8, <3>1 DEF Pending, Batch
    <3>3. \A u \in Tables, p \in Providers : ~rows[u][<<d, p>>].stored => ~rows'[u][<<d, p>>].stored
      BY <1>8, <2>2 DEF RowIds
    <3> QED
      BY <3>1, <3>2, <3>3 DEF Unwritten, Batch, Tables
  <2> QED
    BY <2>1, <2>2
\* A row of the table is held, new, or as it was.
<1>10. \A i \in RowIds :
         \/ i \in w.held
         \/ i[2] \in w.new /\ i = <<b, i[2]>>
         \/ rows'[t][i] = rows[t][i]
  BY <1>2 DEF RowIds
<1>11. Clean'
  BY <1>1, <1>2, <1>10 DEF PublicationInv, Clean
<1>12. NeverUnpublished'
  <2> SUFFICES ASSUME NEW u \in Tables, NEW i \in RowIds, rows'[u][i].stored
               PROVE  \E j \in RowIds : j[2] = i[2] /\ Live(u, j)'
    BY DEF NeverUnpublished, LiveAt
  <2>1. CASE u = t /\ i[2] \in w.new
    <3>1. <<b, i[2]>> \in RowIds /\ Live(u, <<b, i[2]>>)'
      BY <1>2, <2>1, Zenon DEF Live, RowIds
    <3> QED
      BY <3>1
  <2>2. CASE ~(u = t /\ i[2] \in w.new)
    <3>1. rows[u][i].stored
      BY <1>8, <2>2
    <3>2. PICK j \in RowIds : j[2] = i[2] /\ Live(u, j)
      BY <3>1 DEF PublicationInv, NeverUnpublished, LiveAt
    <3>3. rows'[u][j] = rows[u][j]
      BY <1>2, <1>4, <1>10, <2>2, <3>2, Zenon
    <3> QED
      BY <3>2, <3>3 DEF Live
  <2> QED
    BY <2>1, <2>2
<1>13. SupersededByAnother'
  <2> SUFFICES ASSUME NEW u \in Tables, NEW i \in RowIds, rows'[u][i].next # Unlinked,
                      NEW n, n = rows'[u][i].next
               PROVE  rows'[u][n].stored /\ n[2] = i[2] /\ n # i /\ rows'[u][n].next # i
    BY DEF SupersededByAnother
  <2> USE PublicationAssumption
  <2>1. CASE u = t /\ i \in w.held
    <3>1. n = <<b, i[2]>> /\ i[2] \in w.new /\ rows[t][i].stored
      BY <1>2, <1>4, <2>1, Zenon
    <3>2. n # i
      BY <1>4, <3>1
    <3>3. rows'[t][n].stored /\ rows'[t][n].next = Unlinked
      BY <1>2, <3>1
    <3>4. Unlinked # i
      BY PublicationAssumption DEF RowIds
    <3>5. n[2] = i[2]
      BY <3>1
    <3> QED
      BY <2>1, <3>2, <3>3, <3>4, <3>5, Zenon
  <2>2. CASE ~(u = t /\ i \in w.held)
    <3>1. rows'[u][i] = rows[u][i]
      BY <1>2, <1>10, <2>2
    <3>2. /\ rows[u][n].stored /\ n[2] = i[2] /\ n # i /\ rows[u][n].next # i
          /\ rows[u][i].stored /\ n \in RowIds
      BY <1>1, <3>1 DEF PublicationInv, SupersededByAnother, Clean, Row
    <3>3. CASE u = t /\ n \in w.held
      <4>1. rows'[u][n].next = <<b, i[2]>> /\ i[2] \in w.new
        <5>1. rows'[t][n].next = <<b, n[2]>> /\ n[2] \in w.new
          BY <1>2, <1>4, <3>3, Zenon
        <5> QED
          BY <3>2, <3>3, <5>1, Zenon
      <4>2. <<b, i[2]>> # i
        BY <1>4, <3>2, <3>3, <4>1, Zenon
      <4> QED
        BY <1>8, <3>2, <4>1, <4>2, Zenon
    <3>4. CASE u = t /\ n[2] \in w.new /\ n = <<b, n[2]>>
      BY <1>4, <3>2, <3>4, Zenon
    <3>5. CASE rows'[u][n] = rows[u][n]
      BY <3>2, <3>5, Zenon
    <3>6. n = <<n[1], n[2]>>
      BY <3>2 DEF RowIds
    <3>7. CASE u # t
      BY <1>2, <3>5, <3>7, Zenon
    <3>8. CASE u = t /\ n \notin w.held /\ (n[1] # b \/ n[2] \notin w.new)
      BY <1>2, <3>2, <3>5, <3>8, Zenon
    <3> QED
      BY <3>3, <3>4, <3>6, <3>7, <3>8, Zenon
  <2> QED
    BY <2>1, <2>2
<1> QED
  BY <1>7, <1>9, <1>11, <1>12, <1>13 DEF PublicationInv

\* Evidence that changes changes no row and no batch.
LEMMA EvidenceChangesInv ==
    ASSUME PublicationInv, EvidenceChanges
    PROVE  PublicationInv'
<1>1. evidence' \in Versions' /\ Versions' = Versions
  BY PublicationAssumption DEF PublicationInv, PublicationTypeOK, EvidenceChanges, Versions
<1>2. PublicationTypeOK'
  BY <1>1 DEF PublicationInv, PublicationTypeOK, EvidenceChanges, Row, Batch
<1> QED
  <2>1. \A b \in Batches : Pending(b)' /\ Unwritten(b)'
    BY Zenon DEF PublicationInv, EvidenceChanges, Pending, Unwritten
  <2>2. (Clean /\ NeverUnpublished /\ SupersededByAnother)'
    BY DEF PublicationInv, EvidenceChanges, Clean, NeverUnpublished, SupersededByAnother,
           LiveAt, Live
  <2> QED
    BY <1>2, <2>1, <2>2 DEF PublicationInv

-----------------------------------------------------------------------------
\* The invariant of publication, however batches overlap and wherever they fail.
THEOREM PublicationInvariant == PublicationSpec => []PublicationInv
<1>1. ASSUME PublicationInv, PublicationNext PROVE PublicationInv'
  <2>1. CASE EvidenceChanges
    BY <1>1, <2>1, EvidenceChangesInv
  <2>2. ASSUME NEW b \in Batches, NEW cells \in CellSets, BeginBatch(b, cells)
        PROVE  PublicationInv'
    BY <1>1, <2>2, BeginBatchInv
  <2>3. ASSUME NEW b \in Batches, NEW p \in Providers, AggregateCell(b, p)
        PROVE  PublicationInv'
    BY <1>1, <2>3, AggregateCellInv
  <2>4. ASSUME NEW b \in Batches, NEW p \in Providers, SupersedePrevious(b, p)
        PROVE  PublicationInv'
    BY <1>1, <2>4, SupersedePreviousInv
  <2>5. ASSUME NEW b \in Batches, NEW ver \in [Providers -> Versions], PublishCohort(b, ver)
        PROVE  PublicationInv'
    BY <1>1, <2>5, PublishCohortInv
  <2>6. ASSUME NEW b \in Batches, NEW i \in RowIds, UpdateRow(b, i) PROVE PublicationInv'
    BY <1>1, <2>6, UpdateRowInv
  <2>7. ASSUME NEW b \in Batches, Commit(b) PROVE PublicationInv'
    BY <1>1, <2>7, CommitInv
  <2>8. ASSUME NEW b \in Batches, Abort(b) PROVE PublicationInv'
    BY <1>1, <2>8, DoneInv, Zenon DEF Abort
  <2> QED
    BY <1>1, <2>1, <2>2, <2>3, <2>4, <2>5, <2>6, <2>7, <2>8 DEF PublicationNext
<1>2. ASSUME PublicationInv, UNCHANGED publicationVars PROVE PublicationInv'
  <2>1. PublicationTypeOK'
    BY <1>2 DEF publicationVars, PublicationInv, PublicationTypeOK, Versions, Row, Batch
  <2>2. \A b \in Batches : Pending(b)' /\ Unwritten(b)'
    BY <1>2, Zenon DEF publicationVars, PublicationInv, Pending, Unwritten
  <2>3. (Clean /\ NeverUnpublished /\ SupersededByAnother)'
    BY <1>2 DEF publicationVars, PublicationInv, Clean, NeverUnpublished, SupersededByAnother,
                LiveAt, Live
  <2> QED
    BY <2>1, <2>2, <2>3 DEF PublicationInv
<1> QED
  BY PublicationInvInit, <1>1, <1>2, PTL DEF PublicationSpec

\* A provider that was ever published has a live row in that table (the order of insert
\* and supersede in aggregateCellPeriod and RankPeriod).
THEOREM PublishedStaysPublished == PublicationSpec => []NeverUnpublished
  BY PublicationInvariant, PTL DEF PublicationInv

\* superseded_by names a stored row of the same provider and never leads in a circle of two.
THEOREM LinksAreSound == PublicationSpec => []SupersededByAnother
  BY PublicationInvariant, PTL DEF PublicationInv

-----------------------------------------------------------------------------
(* Batches in turn: what is true besides when no batch starts while another *)
(* one runs.                                                                *)

\* A provider has one live row, and a cohort is live as a whole.
OneLive == \A t \in Tables, i, j \in RowIds : Live(t, i) /\ Live(t, j) /\ i[2] = j[2] => i = j

\* Whoever is ranked is measured, and no ranking is newer than the metrics.
RankedMeasured ==
    /\ \A i \in RowIds : rows["rankings"][i].stored => LiveAt("metrics", i[2]) # {}
    /\ \A i, j \in RowIds : Live("rankings", i) /\ Live("metrics", j) /\ i[2] = j[2] =>
                              rows["rankings"][i].ver <= rows["metrics"][j].ver

\* What the local variables w of a batch say while its transaction is open: the rows it is
\* to supersede are live, they are all that are live once their UPDATE has started, and
\* none is newer than what it writes.  A cohort has everybody who is ranked, with the
\* metrics that are live.
TurnOK(w) ==
    w.pc = "writing" =>
      /\ \A p \in w.new : w.ver[p] <= evidence
      /\ \A i \in w.want \cup w.held : Live(w.table, i)
      /\ \A i \in RowIds : Live(w.table, i) /\ i[2] \in w.new \ w.todo => i \in w.want \cup w.held
      /\ \A i \in RowIds : Live(w.table, i) /\ i[2] \in w.new =>
                             rows[w.table][i].ver <= w.ver[i[2]]
      /\ w.table = "rankings" =>
           /\ \A i \in RowIds : rows["rankings"][i].stored => i[2] \in w.new
           /\ \A p \in w.new : LiveAt("metrics", p) # {}
           /\ \A i \in RowIds : Live("metrics", i) /\ i[2] \in w.new =>
                                  w.ver[i[2]] = rows["metrics"][i].ver

OneRuns == \A b, d \in Batches : Running(b) /\ Running(d) => b = d

NothingNewer == \A t \in Tables, i \in RowIds : rows[t][i].ver <= evidence

TablesInTurn == OneLive /\ CohortWhole /\ RankedMeasured /\ NothingNewer

TurnInv == ~overlap => TablesInTurn /\ OneRuns /\ \A b \in Batches : TurnOK(batch[b])

\* What is live and what is published whole stays while the tables do not change.
LEMMA TurnTablesStay ==
    ASSUME PublicationInv, TurnInv, ~overlap, overlap' = overlap, UNCHANGED rows,
           evidence' \in Nat, evidence <= evidence'
    PROVE  TablesInTurn'
<1>1. OneLive' /\ CohortWhole'
  BY DEF TurnInv, TablesInTurn, OneLive, CohortWhole, Live
<1>2. RankedMeasured'
  BY DEF TurnInv, TablesInTurn, RankedMeasured, Live, LiveAt
<1>3. \A t \in Tables, i \in RowIds : rows[t][i].ver \in Nat /\ evidence \in Nat
  BY PublicationAssumption DEF PublicationInv, PublicationTypeOK, Row, Versions
<1>4. NothingNewer'
  BY <1>3 DEF TurnInv, TablesInTurn, NothingNewer
<1> QED
  BY <1>1, <1>2, <1>4 DEF TablesInTurn

\* A step of one batch that stores nothing.
LEMMA TurnQuietStep ==
    ASSUME PublicationInv, TurnInv, ~overlap, NEW b \in Batches, NEW w \in Batch,
           UNCHANGED <<overlap, evidence, rows>>,
           batch' = [batch EXCEPT ![b] = w],
           TurnOK(w),
           w.pc \notin {"idle", "done"} => \A d \in Batches \ {b} : ~Running(d)
    PROVE  TurnInv'
<1>1. batch'[b] = w /\ \A d \in Batches \ {b} : batch'[d] = batch[d]
  BY DEF PublicationInv, PublicationTypeOK
<1>2. evidence \in Nat
  BY PublicationAssumption DEF PublicationInv, PublicationTypeOK, Versions
<1>3. TablesInTurn'
  BY <1>2, TurnTablesStay
<1>4. OneRuns'
  BY <1>1 DEF TurnInv, OneRuns, Running
<1>5. \A d \in Batches : TurnOK(batch'[d])
  BY <1>1 DEF TurnInv
<1>6. ASSUME NEW d \in Batches PROVE TurnOK(batch[d])'
  <2>1. TurnOK(batch'[d])
    BY <1>5
  <2>2. \A t, i : Live(t, i)' <=> Live(t, i)
    BY DEF Live
  <2>3. \A t, q : LiveAt(t, q)' = LiveAt(t, q)
    BY DEF LiveAt, Live
  <2> QED
    BY <2>1, <2>2, <2>3, Zenon DEF TurnOK
<1> QED
  BY <1>3, <1>4, <1>6 DEF TurnInv

\* A batch that begins in turn is the only one that runs.
LEMMA TurnBeginBatch ==
    ASSUME PublicationInv, TurnInv, ~overlap, NEW b \in Batches, NEW cells \in CellSets,
           BeginBatch(b, cells)
    PROVE  TurnInv'
<1> DEFINE pc == IF cells = {} THEN "ranking" ELSE "aggregating"
           w == [batch[b] EXCEPT !.pc = pc, !.cells = cells]
<1>1. batch[b] \in Batch /\ cells \subseteq Providers /\ pc \in {"ranking", "aggregating"}
  BY PublicationAssumption DEF PublicationInv, PublicationTypeOK
<1>2. batch' = [batch EXCEPT ![b] = w]
  BY Zenon DEF BeginBatch
<1> HIDE DEF pc
<1>3. w \in Batch /\ w.pc = pc
  BY <1>1, Zenon DEF Batch, Phases
<1> HIDE DEF w
<1>4. TurnOK(w)
  BY <1>1, <1>3 DEF TurnOK
<1>5. \A d \in Batches : ~Running(d)
  BY DEF BeginBatch
<1> QED
  BY <1>2, <1>3, <1>4, <1>5, TurnQuietStep DEF BeginBatch

\* Abort, or a cohort with nobody in it.
LEMMA TurnDone ==
    ASSUME PublicationInv, TurnInv, ~overlap, NEW b \in Batches,
           UNCHANGED <<overlap, evidence, rows>>,
           batch' = [batch EXCEPT ![b] = [NoBatch EXCEPT !.pc = "done"]]
    PROVE  TurnInv'
<1> DEFINE w == [NoBatch EXCEPT !.pc = "done"]
<1>1. 0 \in Versions
  BY PublicationAssumption DEF PublicationInv, PublicationTypeOK, Versions
<1>2. w \in Batch /\ w.pc = "done"
  BY <1>1 DEF NoBatch, Batch, Phases, Tables
<1>3. batch' = [batch EXCEPT ![b] = w]
  OBVIOUS
<1> HIDE DEF w
<1>4. TurnOK(w)
  BY <1>2 DEF TurnOK
<1> QED
  BY <1>2, <1>3, <1>4, TurnQuietStep, Zenon

\* A transaction begins with what is no older than what is live.
LEMMA TurnBeginWrite ==
    ASSUME PublicationInv, TurnInv, ~overlap, NEW b \in Batches,
           batch[b].pc \in {"aggregating", "ranking"},
           NEW t \in Tables, NEW P \in SUBSET Providers, NEW ver \in [Providers -> Versions],
           BeginWrite(b, t, P, ver), UNCHANGED <<overlap, evidence, rows>>,
           \A p \in P : ver[p] <= evidence,
           \A i \in RowIds : Live(t, i) /\ i[2] \in P => rows[t][i].ver <= ver[i[2]],
           t = "rankings" =>
             /\ \A i \in RowIds : rows["rankings"][i].stored => i[2] \in P
             /\ \A p \in P : LiveAt("metrics", p) # {}
             /\ \A i \in RowIds : Live("metrics", i) /\ i[2] \in P =>
                                    ver[i[2]] = rows["metrics"][i].ver
    PROVE  TurnInv'
<1> DEFINE w == [batch[b] EXCEPT !.pc = "writing", !.table = t, !.new = P, !.ver = ver,
                                 !.todo = P, !.cells = batch[b].cells \ P]
<1>1. batch[b] \in Batch /\ batch \in [Batches -> Batch]
  BY DEF PublicationInv, PublicationTypeOK
<1>2. w \in Batch
  BY <1>1, Zenon DEF Batch, Phases
<1>3. batch' = [batch EXCEPT ![b] = w]
  BY Zenon DEF BeginWrite
<1>4. /\ w.pc = "writing" /\ w.table = t /\ w.new = P /\ w.todo = P /\ w.ver = ver
      /\ w.want = batch[b].want /\ w.held = batch[b].held
  BY <1>1 DEF Batch
<1>5. w.want = {} /\ w.held = {}
  BY <1>4 DEF PublicationInv, Pending
<1> HIDE DEF w
<1>6. TurnOK(w)
  BY <1>4, <1>5, Zenon DEF TurnOK
<1>7. \A d \in Batches \ {b} : ~Running(d)
  BY Zenon DEF TurnInv, OneRuns, Running
<1> QED
  BY <1>2, <1>3, <1>6, <1>7, TurnQuietStep, Zenon

\* aggregateCellPeriod computes from the evidence of now, which nothing stored is newer
\* than.
LEMMA TurnAggregateCell ==
    ASSUME PublicationInv, TurnInv, ~overlap, NEW b \in Batches, NEW p \in Providers,
           AggregateCell(b, p)
    PROVE  TurnInv'
<1> DEFINE ver == [q \in Providers |-> IF q = p THEN evidence ELSE 0]
<1>1. evidence \in Versions /\ 0 \in Versions /\ evidence \in Nat
  BY PublicationAssumption DEF PublicationInv, PublicationTypeOK, Versions
<1>2. ver \in [Providers -> Versions] /\ ver[p] = evidence
  BY <1>1
<1>3. BeginWrite(b, "metrics", {p}, ver) /\ batch[b].pc = "aggregating"
      /\ UNCHANGED <<overlap, evidence, rows>>
  BY DEF AggregateCell
<1> HIDE DEF ver
<1>4. \A i \in RowIds : i[2] \in {p} => rows["metrics"][i].ver <= ver[i[2]]
  BY <1>2 DEF TurnInv, TablesInTurn, NothingNewer, Tables
<1>5. \A q \in {p} : ver[q] <= evidence
  BY <1>1, <1>2
<1>6. "metrics" \in Tables /\ {p} \in SUBSET Providers
  BY DEF Tables
<1> QED
  BY <1>2, <1>3, <1>4, <1>5, <1>6, TurnBeginWrite, Zenon

\* RankPeriod ranks everybody who is measured, so everybody who was ranked before.
LEMMA TurnPublishCohort ==
    ASSUME PublicationInv, TurnInv, ~overlap, NEW b \in Batches,
           NEW ver \in [Providers -> Versions], PublishCohort(b, ver)
    PROVE  TurnInv'
<1> DEFINE cohort == {p \in Providers : LiveAt("metrics", p) # {}}
<1>1. CASE cohort = {}
  BY <1>1, TurnDone DEF PublishCohort
<1>2. CASE cohort # {}
  <2>1. BeginWrite(b, "rankings", cohort, ver) /\ UNCHANGED <<overlap, evidence, rows>>
        /\ batch[b].pc = "ranking"
    BY <1>2 DEF PublishCohort
  <2>2. \A p \in cohort : \E i \in LiveAt("metrics", p) : ver[p] = rows["metrics"][i].ver
    BY DEF PublishCohort
  <2>3. \A p \in cohort : LiveAt("metrics", p) # {}
    OBVIOUS
  <2>4. \A i \in RowIds : rows["rankings"][i].stored => i[2] \in cohort
    BY DEF TurnInv, TablesInTurn, RankedMeasured, RowIds
  <2>5. cohort \in SUBSET Providers /\ "rankings" \in Tables /\ "metrics" \in Tables
    BY DEF Tables
  <2> HIDE DEF cohort
  <2>6. \A i \in RowIds : Live("metrics", i) /\ i[2] \in cohort =>
                            ver[i[2]] = rows["metrics"][i].ver
    BY <2>2, <2>5 DEF LiveAt, TurnInv, TablesInTurn, OneLive
  <2>7. \A p \in cohort : ver[p] <= evidence
    BY <2>2, <2>5 DEF LiveAt, TurnInv, TablesInTurn, NothingNewer
  <2>8. ASSUME NEW i \in RowIds, Live("rankings", i), i[2] \in cohort
        PROVE  rows["rankings"][i].ver <= ver[i[2]]
    <3>1. PICK j \in RowIds : j[2] = i[2] /\ Live("metrics", j)
      BY <2>3, <2>8 DEF LiveAt
    <3>2. rows["rankings"][i].ver <= rows["metrics"][j].ver
      BY <2>8, <3>1 DEF TurnInv, TablesInTurn, RankedMeasured
    <3>3. ver[i[2]] = rows["metrics"][j].ver
      BY <2>6, <2>8, <3>1
    <3> QED
      BY <3>2, <3>3
  <2> QED
    BY <2>1, <2>3, <2>4, <2>5, <2>6, <2>7, <2>8, TurnBeginWrite, Zenon
<1> QED
  BY <1>1, <1>2

\* The UPDATE for a provider wants all its rows that are live.
LEMMA TurnSupersedePrevious ==
    ASSUME PublicationInv, TurnInv, ~overlap, NEW b \in Batches, NEW p \in Providers,
           SupersedePrevious(b, p)
    PROVE  TurnInv'
<1> DEFINE prev == LiveAt(batch[b].table, p) \ batch[b].held
           w == [batch[b] EXCEPT !.todo = batch[b].todo \ {p}, !.want = prev]
<1>1. batch[b] \in Batch /\ TurnOK(batch[b]) /\ batch[b].pc = "writing" /\ batch[b].want = {}
  BY DEF PublicationInv, PublicationTypeOK, TurnInv, SupersedePrevious
<1>2. /\ prev \subseteq RowIds /\ \A i \in prev : Live(batch[b].table, i)
      /\ \A i \in RowIds : Live(batch[b].table, i) /\ i[2] = p => i \in prev \cup batch[b].held
  BY DEF LiveAt
<1>3. batch' = [batch EXCEPT ![b] = w]
  BY Zenon DEF SupersedePrevious, Previous
<1> HIDE DEF prev
<1>4. w \in Batch
  BY <1>1, <1>2, Zenon DEF Batch
<1>5. /\ w.pc = batch[b].pc /\ w.table = batch[b].table /\ w.new = batch[b].new
      /\ w.want = prev /\ w.held = batch[b].held /\ w.todo = batch[b].todo \ {p}
      /\ w.ver = batch[b].ver
  BY <1>1 DEF Batch
<1> HIDE DEF w
<1>6. TurnOK(w)
  BY <1>1, <1>2, <1>5, Zenon DEF TurnOK
<1>7. \A d \in Batches \ {b} : ~Running(d)
  BY <1>1 DEF TurnInv, OneRuns, Running
<1> QED
  BY <1>3, <1>4, <1>6, <1>7, TurnQuietStep, Zenon DEF SupersedePrevious

\* Nobody else has superseded the row in the meantime.
LEMMA TurnUpdateRow ==
    ASSUME PublicationInv, TurnInv, ~overlap, NEW b \in Batches, NEW i \in RowIds,
           UpdateRow(b, i)
    PROVE  TurnInv'
<1> DEFINE w == [batch[b] EXCEPT !.want = batch[b].want \ {i}, !.held = batch[b].held \cup {i}]
<1>1. batch[b] \in Batch /\ TurnOK(batch[b]) /\ batch[b].pc = "writing" /\ i \in batch[b].want
  BY DEF PublicationInv, PublicationTypeOK, TurnInv, UpdateRow
<1>2. rows[batch[b].table][i].next = Unlinked
  BY <1>1, Zenon DEF TurnOK, Live
<1>3. batch' = [batch EXCEPT ![b] = w]
  BY <1>2, Zenon DEF UpdateRow
<1>4. w \in Batch
  BY <1>1, Zenon DEF Batch
<1>5. /\ w.pc = batch[b].pc /\ w.table = batch[b].table /\ w.new = batch[b].new
      /\ w.want = batch[b].want \ {i} /\ w.held = batch[b].held \cup {i}
      /\ w.todo = batch[b].todo /\ w.ver = batch[b].ver
  BY <1>1 DEF Batch
<1> HIDE DEF w
<1>6. w.want \cup w.held = batch[b].want \cup batch[b].held
  BY <1>1, <1>5, Zenon
<1>7. TurnOK(w)
  BY <1>1, <1>5, <1>6, Zenon DEF TurnOK
<1>8. \A d \in Batches \ {b} : ~Running(d)
  BY <1>1 DEF TurnInv, OneRuns, Running
<1> QED
  BY <1>3, <1>4, <1>7, <1>8, TurnQuietStep, Zenon DEF UpdateRow

\* The evidence moves on, and what is computed already is older.
LEMMA TurnEvidenceChanges ==
    ASSUME PublicationInv, TurnInv, ~overlap, EvidenceChanges
    PROVE  TurnInv'
<1>1. evidence \in Nat /\ evidence' = evidence + 1 /\ UNCHANGED <<overlap, rows, batch>>
  BY PublicationAssumption DEF PublicationInv, PublicationTypeOK, Versions, EvidenceChanges
<1>2. TablesInTurn'
  BY <1>1, TurnTablesStay
<1>3. OneRuns'
  BY <1>1 DEF TurnInv, OneRuns, Running
<1>4. ASSUME NEW b \in Batches
      PROVE  TurnOK(batch[b])'
  <2>1. TurnOK(batch[b]) /\ batch[b].new \subseteq Providers /\ overlap \in BOOLEAN
        /\ batch[b].ver \in [Providers -> Versions]
    BY DEF TurnInv, PublicationInv, PublicationTypeOK, Batch
  <2>2. \A p \in batch[b].new : batch[b].ver[p] \in Nat
    <3>1. MaxEvidence[overlap] \in Nat
      BY <2>1, PublicationAssumption
    <3>2. \A x \in Versions : x \in Nat
      BY <3>1 DEF Versions
    <3> QED
      BY <2>1, <3>2
  <2>3. \A p \in batch[b].new : batch[b].ver[p] <= evidence => batch[b].ver[p] <= evidence'
    BY <1>1, <2>2
  <2> QED
    BY <1>1, <2>1, <2>3, Zenon DEF TurnOK, Live, LiveAt
<1> QED
  BY <1>1, <1>2, <1>3, <1>4 DEF TurnInv

\* What is live in the table after a commit: of the providers it writes the new rows
\* and no others, of the rest what was.
LEMMA CommitLive ==
    ASSUME PublicationInv, TurnInv, ~overlap, NEW b \in Batches, Commit(b), NEW i \in RowIds,
           NEW t, t = batch[b].table
    PROVE  LET w == batch[b]
           IN  /\ i[2] \in w.new => (Live(t, i)' <=> i[1] = b)
               /\ i[2] \notin w.new => rows'[t][i] = rows[t][i]
               /\ i[1] = b /\ i[2] \in w.new => rows'[t][i].ver = w.ver[i[2]]
               /\ rows[t][i].stored => rows'[t][i].stored
               /\ rows'[t][i].stored => rows[t][i].stored \/ (i[1] = b /\ i[2] \in w.new)
               /\ rows'[t][i].ver <= evidence
<1> DEFINE w == batch[b]
<1>1. /\ w.pc = "writing" /\ w.todo = {} /\ w.want = {} /\ TurnOK(w) /\ Pending(b) /\ Unwritten(b)
      /\ t \in Tables /\ w.held \subseteq RowIds
  BY DEF Commit, TurnInv, PublicationInv, PublicationTypeOK, Batch
<1>2. /\ \A p \in w.new : /\ rows'[t][<<b, p>>].stored
                          /\ rows'[t][<<b, p>>].next = Unlinked
                          /\ rows'[t][<<b, p>>].ver = w.ver[p]
      /\ \A j \in w.held : /\ rows'[t][j].stored /\ rows'[t][j].next = <<b, j[2]>>
                           /\ rows'[t][j].ver = rows[t][j].ver
      /\ \A j \in RowIds : j \notin w.held /\ (j[1] # b \/ j[2] \notin w.new)
                           => rows'[t][j] = rows[t][j]
  BY CommitRows
<1>3. i = <<i[1], i[2]>> /\ i[2] \in Providers
  BY DEF RowIds
<1>4. \A j \in w.held : rows[t][j].stored /\ j[2] \in w.new /\ j[1] # b
  <2>1. \A j \in w.held : rows[t][j].stored /\ j[2] \in w.new
    BY <1>1, Zenon DEF Pending
  <2>2. \A p \in w.new : ~rows[t][<<b, p>>].stored
    BY <1>1, Zenon DEF Unwritten
  <2>3. \A j \in RowIds : j = <<j[1], j[2]>>
    BY DEF RowIds
  <2> QED
    BY <1>1, <2>1, <2>2, <2>3
<1>5. CASE i[2] \in w.new /\ i[1] = b
  <2>1. i = <<b, i[2]>>
    BY <1>3, <1>5
  <2>2. rows'[t][i].stored /\ rows'[t][i].next = Unlinked /\ rows'[t][i].ver = w.ver[i[2]]
    BY <1>2, <1>5, <2>1
  <2>3. w.ver[i[2]] <= evidence
    BY <1>1, <1>5, Zenon DEF TurnOK
  <2> QED
    BY <1>5, <2>2, <2>3, Zenon DEF Live
<1>6. CASE i \in w.held
  <2>1. rows'[t][i].next # Unlinked
    <3>1. <<b, i[2]>> \in RowIds
      BY <1>3 DEF RowIds
    <3> QED
      BY <1>2, <1>6, <3>1, PublicationAssumption, Zenon DEF RowIds
  <2>2. rows'[t][i].stored /\ rows'[t][i].ver = rows[t][i].ver /\ i[1] # b /\ i[2] \in w.new
        /\ rows[t][i].stored
    BY <1>2, <1>4, <1>6, Zenon
  <2>3. rows[t][i].ver <= evidence
    BY <1>1 DEF TurnInv, TablesInTurn, NothingNewer
  <2> QED
    BY <2>1, <2>2, <2>3, Zenon DEF Live
<1>7. CASE i \notin w.held /\ (i[1] # b \/ i[2] \notin w.new)
  <2>1. rows'[t][i] = rows[t][i]
    BY <1>2, <1>7, Zenon
  <2>2. i[2] \in w.new => ~Live(t, i) /\ i[1] # b
    BY <1>1, <1>7, Zenon DEF TurnOK
  <2>3. rows[t][i].ver <= evidence
    BY <1>1 DEF TurnInv, TablesInTurn, NothingNewer
  <2> QED
    BY <1>7, <2>1, <2>2, <2>3, Zenon DEF Live
<1> QED
  BY <1>5, <1>6, <1>7, Zenon

\* A commit leaves one live row for each provider, and a cohort that is live as a whole.
LEMMA TurnCommitTables ==
    ASSUME PublicationInv, PublicationInv', TurnInv, ~overlap, NEW b \in Batches, Commit(b)
    PROVE  TablesInTurn'
<1>0. PICK t : t = batch[b].table
  OBVIOUS
<1> DEFINE w == batch[b]
<1>1. /\ w.pc = "writing" /\ w.todo = {} /\ w.want = {} /\ TurnOK(w) /\ Unwritten(b)
      /\ t \in Tables /\ w.new \subseteq Providers /\ UNCHANGED <<overlap, evidence>>
      /\ w.ver \in [Providers -> Versions]
  BY <1>0, Zenon DEF Commit, TurnInv, PublicationInv, PublicationTypeOK, Batch
<1>2. \A u \in Tables \ {t} : rows'[u] = rows[u]
  BY <1>0, CommitRows, Zenon
<1>3. \A i \in RowIds :
        /\ i[2] \in w.new => (Live(t, i)' <=> i[1] = b)
        /\ i[2] \notin w.new => rows'[t][i] = rows[t][i]
        /\ i[1] = b /\ i[2] \in w.new => rows'[t][i].ver = w.ver[i[2]]
        /\ rows[t][i].stored => rows'[t][i].stored
        /\ rows'[t][i].stored => rows[t][i].stored \/ (i[1] = b /\ i[2] \in w.new)
        /\ rows'[t][i].ver <= evidence
  BY <1>0, CommitLive
<1> HIDE DEF w
<1>4. \A i, j \in RowIds : i[1] = j[1] /\ i[2] = j[2] => i = j
  BY DEF RowIds
<1>5. OneLive'
  <2> SUFFICES ASSUME NEW u \in Tables, NEW i \in RowIds, NEW j \in RowIds,
                      Live(u, i)', Live(u, j)', i[2] = j[2]
               PROVE  i = j
    BY DEF OneLive
  <2>1. CASE u # t \/ i[2] \notin w.new
    <3>1. rows'[u][i] = rows[u][i] /\ rows'[u][j] = rows[u][j]
      BY <1>2, <1>3, <2>1
    <3> QED
      BY <3>1 DEF Live, TurnInv, TablesInTurn, OneLive
  <2>2. CASE u = t /\ i[2] \in w.new
    BY <1>3, <1>4, <2>2
  <2> QED
    BY <2>1, <2>2
<1>6. NothingNewer'
  <2> SUFFICES ASSUME NEW u \in Tables, NEW i \in RowIds PROVE rows'[u][i].ver <= evidence'
    BY DEF NothingNewer
  <2>1. CASE u = t
    BY <1>1, <1>3, <2>1
  <2>2. CASE u # t
    BY <1>1, <1>2, <2>2 DEF TurnInv, TablesInTurn, NothingNewer
  <2> QED
    BY <2>1, <2>2
<1>7. CohortWhole'
  <2> SUFFICES ASSUME NEW d \in Batches, NEW p \in Providers, NEW q \in Providers,
                      rows'["rankings"][<<d, p>>].stored, rows'["rankings"][<<d, q>>].stored,
                      Live("rankings", <<d, p>>)'
               PROVE  Live("rankings", <<d, q>>)'
    BY DEF CohortWhole
  <2> DEFINE i == <<d, p>>
             j == <<d, q>>
  <2>0. i \in RowIds /\ j \in RowIds /\ i[1] = d /\ i[2] = p /\ j[1] = d /\ j[2] = q
    BY DEF RowIds
  <2>1. CASE t # "rankings"
    <3>1. rows'["rankings"] = rows["rankings"]
      BY <1>2, <2>1 DEF Tables
    <3> QED
      BY <3>1 DEF Live, TurnInv, TablesInTurn, CohortWhole
  <2>2. CASE t = "rankings"
    <3>1. p \in w.new /\ q \in w.new
      BY <1>0, <1>1, <1>3, <2>0, <2>2 DEF TurnOK, w
    <3>2. d = b
      BY <1>3, <2>0, <2>2, <3>1, Zenon
    <3> QED
      BY <1>3, <2>0, <2>2, <3>1, <3>2, Zenon
  <2> QED
    BY <2>1, <2>2
<1>8. \A i \in RowIds : rows'["rankings"][i].stored => LiveAt("metrics", i[2])' # {}
  <2> SUFFICES ASSUME NEW i \in RowIds, rows'["rankings"][i].stored
               PROVE  \E j \in RowIds : rows'["metrics"][j].stored /\ j[2] = i[2]
    BY Zenon DEF PublicationInv, NeverUnpublished, Tables
  <2>1. LiveAt("metrics", i[2]) # {}
    <3>1. CASE rows["rankings"][i].stored
      BY <3>1 DEF TurnInv, TablesInTurn, RankedMeasured
    <3>2. CASE ~rows["rankings"][i].stored
      <4>1. t = "rankings" /\ i[2] \in w.new
        BY <1>2, <1>3, <3>2, Zenon DEF Tables
      <4> QED
        BY <1>0, <1>1, <4>1, Zenon DEF TurnOK, w
    <3> QED
      BY <3>1, <3>2
  <2>2. PICK j \in RowIds : j[2] = i[2] /\ rows["metrics"][j].stored
    BY <2>1 DEF LiveAt, Live
  <2>3. rows'["metrics"][j].stored
    BY <1>2, <1>3, <2>2 DEF Tables
  <2> QED
    BY <2>2, <2>3
<1>9. ASSUME NEW i \in RowIds, NEW j \in RowIds, Live("rankings", i)', Live("metrics", j)',
             i[2] = j[2]
      PROVE  rows'["rankings"][i].ver <= rows'["metrics"][j].ver
  <2>1. CASE i[2] \notin w.new
    <3>1. rows'["rankings"][i] = rows["rankings"][i] /\ rows'["metrics"][j] = rows["metrics"][j]
      BY <1>2, <1>3, <1>9, <2>1 DEF Tables
    <3> QED
      BY <1>9, <3>1, Zenon DEF Live, TurnInv, TablesInTurn, RankedMeasured
  <2>2. CASE i[2] \in w.new /\ t = "rankings"
    <3>1. rows'["metrics"] = rows["metrics"]
      BY <1>2, <2>2 DEF Tables
    <3>2. rows'["rankings"][i].ver = w.ver[i[2]]
      BY <1>3, <1>9, <2>2, Zenon
    <3>3. w.ver[i[2]] = rows["metrics"][j].ver
      BY <1>0, <1>1, <1>9, <2>2, <3>1, Zenon DEF TurnOK, Live, w
    <3>4. rows["metrics"][j].ver \in Nat
      BY PublicationAssumption DEF PublicationInv, PublicationTypeOK, Row, Versions, Tables
    <3> QED
      BY <3>1, <3>2, <3>3, <3>4
  <2>3. CASE i[2] \in w.new /\ t = "metrics"
    <3>1. rows'["rankings"] = rows["rankings"]
      BY <1>2, <2>3, Zenon DEF Tables
    <3>2. rows'["metrics"][j].ver = w.ver[i[2]]
      BY <1>3, <1>9, <2>3
    <3>3. PICK k \in RowIds : k[2] = i[2] /\ Live("metrics", k)
      BY <1>9, <3>1, Zenon DEF TurnInv, TablesInTurn, RankedMeasured, LiveAt, Live
    <3>4. rows["rankings"][i].ver <= rows["metrics"][k].ver
      BY <1>9, <3>1, <3>3, Zenon DEF TurnInv, TablesInTurn, RankedMeasured, Live
    <3>5. rows["metrics"][k].ver <= w.ver[i[2]]
      BY <1>0, <1>1, <2>3, <3>3, Zenon DEF TurnOK, w
    <3>6. rows["rankings"][i].ver \in Nat /\ rows["metrics"][k].ver \in Nat
      BY PublicationAssumption DEF PublicationInv, PublicationTypeOK, Row, Versions, Tables
    <3>7. w.ver[i[2]] \in Nat
      <4>1. rows'["metrics"][j].ver \in Nat
        BY PublicationAssumption DEF PublicationInv, PublicationTypeOK, Row, Versions, Tables
      <4> QED
        BY <3>2, <4>1
    <3> QED
      BY <3>1, <3>2, <3>4, <3>5, <3>6, <3>7
  <2> QED
    BY <1>1, <2>1, <2>2, <2>3, Zenon DEF Tables
<1>10. RankedMeasured'
  BY <1>8, <1>9 DEF RankedMeasured
<1> QED
  BY <1>5, <1>6, <1>7, <1>10 DEF TablesInTurn

\* Nobody else is in a transaction when a batch commits.
LEMMA TurnCommit ==
    ASSUME PublicationInv, PublicationInv', TurnInv, ~overlap, NEW b \in Batches, Commit(b)
    PROVE  TurnInv'
<1> DEFINE pc == IF batch[b].table = "rankings" THEN "done"
                 ELSE IF batch[b].cells = {} THEN "ranking" ELSE "aggregating"
           v == [NoBatch EXCEPT !.pc = pc, !.cells = batch[b].cells]
<1>1. /\ batch[b].pc = "writing" /\ batch' = [batch EXCEPT ![b] = v]
      /\ batch \in [Batches -> Batch]
  BY Zenon DEF Commit, PublicationInv, PublicationTypeOK
<1>2. v.pc # "writing"
  BY DEF NoBatch
<1> HIDE DEF v
<1>3. batch'[b] = v /\ \A d \in Batches \ {b} : batch'[d] = batch[d]
  BY <1>1
<1>4. \A d \in Batches \ {b} : batch[d].pc \in {"idle", "done"}
  BY <1>1 DEF TurnInv, OneRuns, Running
<1>5. OneRuns'
  BY <1>3, <1>4 DEF OneRuns, Running
<1>6. \A d \in Batches : TurnOK(batch[d])'
  BY <1>2, <1>3, <1>4, Zenon DEF TurnOK
<1> QED
  BY <1>5, <1>6, TurnCommitTables DEF TurnInv

\* It holds of empty tables.
LEMMA TurnInvInit == PublicationInit => TurnInv
<1> SUFFICES ASSUME PublicationInit PROVE TurnInv
  OBVIOUS
<1>1. \A t \in Tables, i \in RowIds : ~rows[t][i].stored /\ rows[t][i].ver = 0
  BY DEF PublicationInit, NoRow
<1>2. TablesInTurn
  <2>1. OneLive /\ NothingNewer
    BY <1>1 DEF OneLive, NothingNewer, Live, PublicationInit
  <2>2. \A i \in RowIds : ~rows["rankings"][i].stored
    BY <1>1 DEF Tables
  <2>3. CohortWhole /\ RankedMeasured
    BY <2>2, Zenon DEF CohortWhole, RankedMeasured, Live, RowIds
  <2> QED
    BY <2>1, <2>3 DEF TablesInTurn
<1>3. \A b \in Batches : batch[b].pc = "idle"
  BY DEF PublicationInit, NoBatch
<1> QED
  BY <1>2, <1>3, Zenon DEF TurnInv, OneRuns, Running, TurnOK

\* Every step of a batch in turn preserves what is true in turn.
LEMMA TurnInvNext ==
    ASSUME PublicationInv, PublicationInv', TurnInv, [PublicationNext]_publicationVars
    PROVE  TurnInv'
<1>1. overlap' = overlap
  BY Zenon DEF PublicationNext, EvidenceChanges, BeginBatch, AggregateCell, SupersedePrevious,
         PublishCohort, UpdateRow, Commit, Abort, publicationVars
<1>2. CASE overlap
  BY <1>1, <1>2 DEF TurnInv
<1>3. CASE ~overlap
  <2>1. CASE EvidenceChanges
    BY <1>3, <2>1, TurnEvidenceChanges
  <2>2. ASSUME NEW b \in Batches, NEW cells \in CellSets, BeginBatch(b, cells) PROVE TurnInv'
    BY <1>3, <2>2, TurnBeginBatch
  <2>3. ASSUME NEW b \in Batches, NEW p \in Providers, AggregateCell(b, p) PROVE TurnInv'
    BY <1>3, <2>3, TurnAggregateCell
  <2>4. ASSUME NEW b \in Batches, NEW p \in Providers, SupersedePrevious(b, p) PROVE TurnInv'
    BY <1>3, <2>4, TurnSupersedePrevious
  <2>5. ASSUME NEW b \in Batches, NEW ver \in [Providers -> Versions], PublishCohort(b, ver)
        PROVE  TurnInv'
    BY <1>3, <2>5, TurnPublishCohort
  <2>6. ASSUME NEW b \in Batches, NEW i \in RowIds, UpdateRow(b, i) PROVE TurnInv'
    BY <1>3, <2>6, TurnUpdateRow
  <2>7. ASSUME NEW b \in Batches, Commit(b) PROVE TurnInv'
    BY <1>3, <2>7, TurnCommit
  <2>8. ASSUME NEW b \in Batches, Abort(b) PROVE TurnInv'
    BY <1>3, <2>8, TurnDone, Zenon DEF Abort
  <2>9. CASE UNCHANGED publicationVars
    <3>1. evidence \in Nat
      BY PublicationAssumption DEF PublicationInv, PublicationTypeOK, Versions
    <3>2. TablesInTurn'
      BY <1>3, <2>9, <3>1, TurnTablesStay DEF publicationVars
    <3>3. OneRuns'
      BY <1>3, <2>9 DEF publicationVars, TurnInv, OneRuns, Running
    <3>4. ASSUME NEW b \in Batches PROVE TurnOK(batch[b])'
      BY <1>3, <2>9, ZenonT(60) DEF publicationVars, TurnInv, TurnOK, Live, LiveAt
    <3> QED
      BY <3>2, <3>3, <3>4 DEF TurnInv
  <2> QED
    BY <2>1, <2>2, <2>3, <2>4, <2>5, <2>6, <2>7, <2>8, <2>9 DEF PublicationNext
<1> QED
  BY <1>2, <1>3 DEF PublicationInv, PublicationTypeOK

\* A provider's live row, after a step, is no older than the one before.
LEMMA StepNoRegression ==
    ASSUME PublicationInv, PublicationInv', TurnInv, TurnInv', PublicationNext, ~overlap,
           NEW t \in Tables, NEW p \in Providers,
           NEW i \in LiveAt(t, p), NEW j \in LiveAt(t, p)'
    PROVE  rows'[t][j].ver >= rows[t][i].ver
<1>1. i \in RowIds /\ j \in RowIds /\ i[2] = p /\ j[2] = p /\ Live(t, i) /\ Live(t, j)'
  BY DEF LiveAt
<1>2. rows[t][i].ver \in Nat
  BY <1>1, PublicationAssumption DEF PublicationInv, PublicationTypeOK, Row, Versions
<1>3. CASE rows'[t][j] = rows[t][j]
  <2>1. i = j
    BY <1>1, <1>3, Zenon DEF Live, TurnInv, TablesInTurn, OneLive
  <2> QED
    BY <1>2, <1>3, <2>1
<1>4. ASSUME NEW b \in Batches, Commit(b), rows'[t][j] # rows[t][j]
      PROVE  rows'[t][j].ver >= rows[t][i].ver
  <2>1. t = batch[b].table
    BY <1>4, CommitRows
  <2>a. /\ j[2] \in batch[b].new => (Live(t, j)' <=> j[1] = b)
        /\ j[2] \notin batch[b].new => rows'[t][j] = rows[t][j]
        /\ j[1] = b /\ j[2] \in batch[b].new => rows'[t][j].ver = batch[b].ver[j[2]]
    BY <1>1, <1>4, <2>1, CommitLive
  <2>2. p \in batch[b].new
    BY <1>1, <1>4, <2>a, Zenon
  <2>3. j[1] = b
    BY <1>1, <2>2, <2>a, Zenon
  <2>4. rows'[t][j].ver = batch[b].ver[p]
    BY <1>1, <2>2, <2>3, <2>a, Zenon
  <2>5. TurnOK(batch[b]) /\ batch[b].pc = "writing"
    BY <1>4, Zenon DEF TurnInv, Commit
  <2>6. rows[t][i].ver <= batch[b].ver[p]
    BY <1>1, <2>1, <2>2, <2>5, Zenon DEF TurnOK
  <2>7. rows'[t][j].ver \in Nat
    BY <1>1, PublicationAssumption DEF PublicationInv, PublicationTypeOK, Row, Versions
  <2> QED
    BY <1>2, <2>4, <2>6, <2>7
<1>5. rows' = rows \/ \E b \in Batches : Commit(b)
  BY Zenon DEF PublicationNext, EvidenceChanges, BeginBatch, AggregateCell, SupersedePrevious,
         PublishCohort, UpdateRow, Abort
<1> QED
  BY <1>3, <1>4, <1>5, Zenon

\* Batches in turn: what is true besides, whichever of them fail and wherever.
THEOREM TurnInvariant == PublicationSpec => []TurnInv
<1>1. PublicationInv /\ PublicationInv' /\ TurnInv /\ [PublicationNext]_publicationVars => TurnInv'
  BY TurnInvNext
<1> QED
  BY <1>1, TurnInvInit, PublicationInvariant, PTL DEF PublicationSpec

\* aggregateCellPeriod and RankPeriod, in turn: no commit replaces a live row by one that
\* was computed from older evidence, after whatever failures.
THEOREM PublicationNeverRegresses == PublicationSpec => NoRegression
<1> DEFINE Step == ~overlap =>
             \A t \in Tables, p \in Providers :
               \A i \in LiveAt(t, p) : \A j \in LiveAt(t, p)' :
                 rows'[t][j].ver >= rows[t][i].ver
<1>1. PublicationInv /\ PublicationInv' /\ TurnInv /\ TurnInv' /\ [PublicationNext]_publicationVars
        => [Step]_publicationVars
  BY StepNoRegression, Zenon
<1> QED
  BY <1>1, PublicationInvariant, TurnInvariant, PTL DEF PublicationSpec, NoRegression

-----------------------------------------------------------------------------
(* How many rows live.                                                     *)
INSTANCE FiniteSetTheorems

\* SupersedePrevious and RankPeriod, when no batch starts while another one runs: a reader
\* finds one live row per key, and the rankings of a batch all live or all superseded.
THEOREM TurnsStayWhole == PublicationSpec => []TurnsAreWhole
<1>1. TurnInv => TurnsAreWhole
  <2>1. TurnInv => CohortWhole
    BY Zenon DEF TurnInv, TablesInTurn, CohortWhole
  <2> SUFFICES ASSUME TurnInv, ~overlap, NEW t \in Tables, NEW p \in Providers
               PROVE  Cardinality(LiveAt(t, p)) <= 1
    BY <2>1 DEF TurnsAreWhole, OneLiveRowInTurn, OneLiveRow
  <2>2. CASE LiveAt(t, p) = {}
    BY <2>2, FS_EmptySet
  <2>3. CASE LiveAt(t, p) # {}
    <3>1. PICK i : i \in LiveAt(t, p)
      BY <2>3
    <3>2. LiveAt(t, p) = {i}
      BY <3>1 DEF LiveAt, TurnInv, TablesInTurn, OneLive
    <3>3. Cardinality({i}) = 1
      BY FS_Singleton, Zenon
    <3> QED
      BY <3>2, <3>3
  <2> QED
    BY <2>2, <2>3
<1> QED
  BY <1>1, TurnInvariant, PTL
=============================================================================
