---------------------------- MODULE Publication ----------------------------
(***************************************************************************)
(* How analysis results are published: AggregateService and RankService    *)
(* (internal/analysis) over accuracy_metrics and provider_rankings, for    *)
(* one location, horizon and period.                                       *)
(*                                                                         *)
(* A batch (AnalysisDispatcher.run: a scheduled slot, or the admin's       *)
(* Recompute) first rewrites the metrics of each provider's cell, one      *)
(* transaction per cell, then the rankings of the whole cohort in one      *)
(* transaction.  A transaction inserts its new rows and then, row by row,  *)
(* supersedes the previous live ones.  It is READ COMMITTED: each UPDATE   *)
(* sees the rows committed when it starts, waits for the locks of others,  *)
(* and looks at a row again once it has it.                                *)
(*                                                                         *)
(* What is computed is left out: a row carries the version of the evidence *)
(* it was computed from.  The metric rows of a cell are written together   *)
(* and stand as one row.                                                   *)
(***************************************************************************)
EXTENDS Naturals, FiniteSets

CONSTANTS
    Batches,        \* the runs of the pipeline
    Providers,      \* the cohort, as integers: the order a cohort is written in
    CellSets,       \* bound: the sets of providers whose cell may have pairs
    Unlinked,       \* superseded_by IS NULL
    MaxEvidence     \* bound: versions of the evidence, by overlap

ASSUME PublicationAssumption ==
    /\ IsFiniteSet(Batches) /\ IsFiniteSet(Providers) /\ Providers \subseteq Nat
    /\ CellSets \subseteq SUBSET Providers
    /\ Unlinked \notin Batches \X Providers
    /\ MaxEvidence \in [BOOLEAN -> Nat]

VARIABLES
    overlap,    \* whether a batch may start while another one runs
    evidence,   \* the pairs, slots and collections a cell is computed from
    rows,       \* the committed rows of both tables
    batch       \* where each batch is, and its local variables

publicationVars == <<overlap, evidence, rows, batch>>

Tables == {"metrics", "rankings"}
RowIds == Batches \X Providers

Versions == 0..MaxEvidence[overlap]

Row == [stored : BOOLEAN, ver : Versions, next : RowIds \cup {Unlinked}]

NoRow == [stored |-> FALSE, ver |-> 0, next |-> Unlinked]

Phases == {"idle", "aggregating", "ranking", "writing", "done"}

\* cells are the providers still to be aggregated.  An open transaction writes
\* new into table; todo are the rows not superseded for yet, want the rows the
\* current UPDATE is after, held those it and its predecessors have updated.
Batch == [pc : Phases, cells : SUBSET Providers, table : Tables,
          new : SUBSET Providers, ver : [Providers -> Versions],
          todo : SUBSET Providers, want : SUBSET RowIds, held : SUBSET RowIds]

NoBatch == [pc |-> "idle", cells |-> {}, table |-> "metrics", new |-> {},
            ver |-> [p \in Providers |-> 0], todo |-> {}, want |-> {}, held |-> {}]

\* Every variable has its type.
PublicationTypeOK ==
    /\ overlap \in BOOLEAN
    /\ evidence \in Versions
    /\ rows \in [Tables -> [RowIds -> Row]]
    /\ batch \in [Batches -> Batch]

PublicationInit ==
    /\ overlap \in BOOLEAN
    /\ evidence = 0
    /\ rows = [t \in Tables |-> [i \in RowIds |-> NoRow]]
    /\ batch = [b \in Batches |-> NoBatch]

Live(t, i) == rows[t][i].stored /\ rows[t][i].next = Unlinked

LiveAt(t, p) == {i \in RowIds : i[2] = p /\ Live(t, i)}

Running(b) == batch[b].pc \notin {"idle", "done"}

-----------------------------------------------------------------------------
\* Pairs are matched, observations corrected, collections stored.
EvidenceChanges ==
    /\ evidence < MaxEvidence[overlap]
    /\ evidence' = evidence + 1
    /\ UNCHANGED <<overlap, rows, batch>>

\* run, after matching: AggregatePeriod lists the cells that have pairs.
\* Nothing keeps two runs apart.
BeginBatch(b, cells) ==
    /\ batch[b].pc = "idle"
    /\ overlap \/ \A d \in Batches : ~Running(d)
    /\ batch' = [batch EXCEPT ![b].pc = IF cells = {} THEN "ranking" ELSE "aggregating",
                              ![b].cells = cells]
    /\ UNCHANGED <<overlap, evidence, rows>>

\* A transaction begins that inserts the rows of providers P, computed from ver.
BeginWrite(b, table, P, ver) ==
    batch' = [batch EXCEPT ![b].pc = "writing", ![b].table = table, ![b].new = P,
                           ![b].ver = ver, ![b].todo = P, ![b].cells = @ \ P]

\* aggregateCellPeriod reads its inputs from the pool and inserts the new rows.
AggregateCell(b, p) ==
    /\ batch[b].pc = "aggregating" /\ p \in batch[b].cells
    /\ BeginWrite(b, "metrics", {p}, [q \in Providers |-> IF q = p THEN evidence ELSE 0])
    /\ UNCHANGED <<overlap, evidence, rows>>

\* Mutants of PublishCohort: only the providers whose metrics are new are published
\* again; superseded metrics are read too.
PublishCohortChanged(b, ver) ==
    LET cohort == {p \in Providers : LiveAt("metrics", p) # {} /\ ver[p] = evidence} IN
    /\ batch[b].pc = "ranking"
    /\ \A p \in Providers :
         IF LiveAt("metrics", p) # {}
         THEN \E i \in LiveAt("metrics", p) : ver[p] = rows["metrics"][i].ver
         ELSE ver[p] = 0
    /\ IF cohort = {} THEN batch' = [batch EXCEPT ![b] = [NoBatch EXCEPT !.pc = "done"]]
       ELSE BeginWrite(b, "rankings", cohort, ver)
    /\ UNCHANGED <<overlap, evidence, rows>>

PublishCohortAnyRow(b, ver) ==
    LET cohort == {p \in Providers : LiveAt("metrics", p) # {}} IN
    /\ batch[b].pc = "ranking"
    /\ \A p \in Providers :
         IF p \in cohort THEN \E i \in RowIds : /\ i[2] = p /\ rows["metrics"][i].stored
                                             /\ ver[p] = rows["metrics"][i].ver
         ELSE ver[p] = 0
    /\ IF cohort = {} THEN batch' = [batch EXCEPT ![b] = [NoBatch EXCEPT !.pc = "done"]]
       ELSE BeginWrite(b, "rankings", cohort, ver)
    /\ UNCHANGED <<overlap, evidence, rows>>

\* RankPeriod reads the live metrics from the pool and inserts the cohort's new
\* rows.  Of several live rows for a provider buildCohort keeps the last one it
\* is given.  Without metrics there is nothing to rank.
PublishCohort(b, ver) ==
    LET cohort == {p \in Providers : LiveAt("metrics", p) # {}} IN
    /\ batch[b].pc = "ranking"
    /\ \A p \in Providers :
         IF p \in cohort THEN \E i \in LiveAt("metrics", p) : ver[p] = rows["metrics"][i].ver
         ELSE ver[p] = 0
    /\ IF cohort = {} THEN batch' = [batch EXCEPT ![b] = [NoBatch EXCEPT !.pc = "done"]]
       ELSE BeginWrite(b, "rankings", cohort, ver)
    /\ UNCHANGED <<overlap, evidence, rows>>

\* Mutants of Previous: without "id <> $1", which sees the row inserted itself;
\* rankings are only added.
PreviousOrSelf(b, t, p) == LiveAt(t, p) \cup {<<b, p>>}

PreviousMetrics(b, t, p) == IF t = "metrics" THEN LiveAt(t, p) ELSE {}

\* The rows SupersedePrevious(Rankings) is after: the live ones with its key,
\* in the snapshot the statement starts with.
Previous(b, t, p) == LiveAt(t, p)

\* The UPDATE of the next new row starts.
SupersedePrevious(b, p) ==
    LET w == batch[b] IN
    /\ w.pc = "writing" /\ w.want = {}
    /\ p \in w.todo /\ \A q \in w.todo : p <= q
    /\ batch' = [batch EXCEPT ![b].todo = @ \ {p},
                              ![b].want = Previous(b, w.table, p) \ w.held]
    /\ UNCHANGED <<overlap, evidence, rows>>

Locked(b, t, i) == \E d \in Batches \ {b} : batch[d].table = t /\ i \in batch[d].held

\* It waits for whoever has the row and skips it if it is superseded by then.
UpdateRow(b, i) ==
    LET w == batch[b] IN
    /\ w.pc = "writing" /\ i \in w.want
    /\ ~Locked(b, w.table, i)
    /\ batch' = [batch EXCEPT
                   ![b].want = @ \ {i},
                   ![b].held = IF rows[w.table][i].next = Unlinked THEN @ \cup {i} ELSE @]
    /\ UNCHANGED <<overlap, evidence, rows>>

\* Mutant of Link: every row names the first row of the transaction.
LinkFirst(b, i) == <<b, CHOOSE p \in batch[b].new : \A q \in batch[b].new : p <= q>>

\* The superseded_by that SupersedePrevious sets on a previous row i.
Link(b, i) == <<b, i[2]>>

\* The transaction commits, and the batch goes on to the next cell, the ranking,
\* or its end.
Commit(b) ==
    LET w == batch[b]
        t == w.table
        written(i) == IF i[1] = b /\ i[2] \in w.new
                      THEN [stored |-> TRUE, ver |-> w.ver[i[2]], next |-> Unlinked]
                      ELSE rows[t][i]
    IN
    /\ w.pc = "writing" /\ w.todo = {} /\ w.want = {}
    /\ rows' = [rows EXCEPT ![t] =
                  [i \in RowIds |-> IF i \in w.held
                                 THEN [written(i) EXCEPT !.next = Link(b, i)]
                                 ELSE written(i)]]
    /\ batch' = [batch EXCEPT ![b] =
                   [NoBatch EXCEPT !.pc = IF t = "rankings" THEN "done"
                                          ELSE IF w.cells = {} THEN "ranking"
                                          ELSE "aggregating",
                                   !.cells = w.cells]]
    /\ UNCHANGED <<overlap, evidence>>

\* A statement fails, the context expires or the process dies: the transaction
\* is rolled back and the batch ends; what it committed stays.
Abort(b) ==
    /\ Running(b)
    /\ batch' = [batch EXCEPT ![b] = [NoBatch EXCEPT !.pc = "done"]]
    /\ UNCHANGED <<overlap, evidence, rows>>

PublicationNext ==
    \/ EvidenceChanges
    \/ \E b \in Batches :
         \/ \E cells \in CellSets : BeginBatch(b, cells)
         \/ \E p \in Providers : AggregateCell(b, p) \/ SupersedePrevious(b, p)
         \/ \E ver \in [Providers -> Versions] : PublishCohort(b, ver)
         \/ \E i \in RowIds : UpdateRow(b, i)
         \/ Commit(b)
         \/ Abort(b)

PublicationSpec == PublicationInit /\ [][PublicationNext]_publicationVars

-----------------------------------------------------------------------------
(* Properties *)

\* Publication never takes away: however batches overlap, wait for each other
\* and fail, a provider that was ever published has a live row in that table.
NeverUnpublished ==
    \A t \in Tables, i \in RowIds :
      rows[t][i].stored => LiveAt(t, i[2]) # {}

\* A superseded row names the row that replaced it, stored, of the same
\* provider, and computed by another batch that did not see it superseded: the
\* two batches never supersede each other.
SupersededByAnother ==
    \A t \in Tables, i \in RowIds : rows[t][i].next # Unlinked =>
      LET n == rows[t][i].next IN
      /\ rows[t][n].stored /\ n[2] = i[2]
      /\ n # i /\ rows[t][n].next # i

\* Migrations 09 and 10: two live rows of a key coexist only "within a recompute
\* tx", so a reader finds one.
OneLiveRow ==
    \A t \in Tables, p \in Providers : Cardinality(LiveAt(t, p)) <= 1

\* That is so when batches run one after the other, whichever of them fail and
\* wherever.
OneLiveRowInTurn == ~overlap => OneLiveRow

\* rank.go, RankPeriod: "readers never see a half-updated cohort": of the rankings
\* that batches in turn have published, a reader finds those of one batch whole.
CohortWhole ==
    ~overlap =>
      \A b \in Batches, p, q \in Providers :
        /\ rows["rankings"][<<b, p>>].stored /\ rows["rankings"][<<b, q>>].stored
        => (Live("rankings", <<b, p>>) <=> Live("rankings", <<b, q>>))

\* What batches in turn publish never goes back to older evidence, and a batch that
\* fails half way leaves what it has not replaced.
NoRegression ==
    [][~overlap =>
         \A t \in Tables, p \in Providers :
           \A i \in LiveAt(t, p) : \A j \in LiveAt(t, p)' :
             rows'[t][j].ver >= rows[t][i].ver]_publicationVars

\* Batches in turn leave one live row per key and cohorts that are published whole.
TurnsAreWhole == OneLiveRowInTurn /\ CohortWhole
=============================================================================
