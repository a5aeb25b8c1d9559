------------------------------- MODULE Trends -------------------------------
(***************************************************************************)
(* GET /accuracy: the stored metric rows of a filter, put into buckets     *)
(* that are days, weeks or months of the client's time zone.               *)
(*                                                                         *)
(* Time is in hours of UTC; day 0 is a Monday and the first of a month.  A *)
(* zone is [before, after, at]: its offsets before and from the instant at *)
(* which its clocks change.                                                *)
(***************************************************************************)
EXTENDS Integers, SequencesExt

CONSTANTS
    Blank,          \* the value of a row without samples
    TrendRows,      \* sets of rows the table may hold: [provider, start, end, value, n]
    Zones,
    MonthStarts,    \* the days on which months start, in order
    Since, Until        \* the range asked for

VARIABLES table, zone, aggregation, trends

trendVars == <<table, zone, aggregation, trends>>

Aggregations == {"daily", "weekly", "monthly"}

-----------------------------------------------------------------------------
(* Calendars: package time, as the code uses it.                           *)

Offset(z, t) == IF t < z.at THEN z.before ELSE z.after

\* t.In(loc).
Local(z, t) == t + Offset(z, t)

\* time.Date: the instant of a local time, which may exist twice or not at all.
DateIn(z, local) ==
    LET off == Offset(z, local)
        utc == local - off
    IN  IF off = 0 \/ (utc < z.at <=> local < z.at) THEN utc ELSE local - Offset(z, utc)

\* AddDate.
AddDays(z, t, n) == DateIn(z, Local(z, t) + 24 * n)

\* The month of a day, as an index of MonthStarts.
Month(day) == CHOOSE m \in 1..Len(MonthStarts) :
                 /\ MonthStarts[m] <= day
                 /\ m < Len(MonthStarts) => day < MonthStarts[m + 1]

MonthLength(m) == IF m < Len(MonthStarts) THEN MonthStarts[m + 1] - MonthStarts[m] ELSE 31

-----------------------------------------------------------------------------
\* standardPeriods: the day, week and month of now, in UTC.
StandardPeriods(now) ==
    LET day == now \div 24
        monday == day - (day % 7)
        m == Month(day)
    IN  [daily   |-> <<24 * day, 24 * (day + 1)>>,
         weekly  |-> <<24 * monday, 24 * (monday + 7)>>,
         monthly |-> <<24 * MonthStarts[m], 24 * (MonthStarts[m] + MonthLength(m))>>]

\* aggregationSpanSQL: rows of the kinds of period differ by their length.
SpanIs(row, agg) ==
    LET days == (row.end - row.start) \div 24
    IN  CASE agg = "weekly"  -> days = 7
          [] agg = "monthly" -> days = MonthLength(Month(row.start \div 24))
          [] OTHER           -> days = 1

\* AccuracyTrends.
AccuracyTrends ==
    LET Before(x, y) == x.provider < y.provider \/ (x.provider = y.provider /\ x.start < y.start)
    IN  SetToSortSeq({x \in table : Since <= x.start /\ x.end <= Until /\ SpanIs(x, aggregation)},
                     Before)

\* Mutant of TruncToBucket: the day of UTC.
TruncToBucketUTC(t) ==
    LET day == t \div 24
        start == DateIn(zone, 24 * day)
    IN  <<start, AddDays(zone, start, 1)>>

\* truncToBucket.
TruncToBucket(t) ==
    LET day == Local(zone, t) \div 24
        midnight == DateIn(zone, 24 * day)
        monday == AddDays(zone, midnight, -(day % 7))
        first == DateIn(zone, 24 * MonthStarts[Month(day)])
    IN  CASE aggregation = "weekly"  -> <<monday, AddDays(zone, monday, 7)>>
          [] aggregation = "monthly" ->
               <<first, AddDays(zone, first, MonthLength(Month(Local(zone, first) \div 24)))>>
          [] OTHER -> <<midnight, AddDays(zone, midnight, 1)>>

\* trendGrouping.add, for a row of the bucket.
AddRow(acc, row) ==
    LET w == IF row.value = Blank THEN 0 ELSE IF row.n = 0 THEN 1 ELSE row.n
    IN  [acc EXCEPT !.rows = @ + 1, !.single = row.value, !.n = @ + row.n,
                    !.vw = @ + (IF w = 0 THEN 0 ELSE row.value * w), !.w = @ + w]

\* A bucket of trendGrouping.buckets: a lone row keeps its value and interval.
BucketOf(span, rows) ==
    LET none == [rows |-> 0, single |-> Blank, n |-> 0, vw |-> 0, w |-> 0]
        acc == FoldLeft(AddRow, none, rows)
    IN  [start |-> span[1], end |-> span[2], n |-> acc.n, interval |-> acc.rows = 1,
         value |-> IF acc.rows = 1 THEN (IF acc.single = Blank THEN Blank ELSE <<acc.single, 1>>)
                   ELSE IF acc.w > 0 THEN <<acc.vw, acc.w>> ELSE Blank]

\* The buckets of a provider, by start.  Rows are grouped by the start of their bucket;
\* the end is that of the first row of the group.
Buckets(rows) ==
    LET starts == {TruncToBucket(rows[i].start)[1] : i \in 1..Len(rows)}
        In(s) == LET Is(row) == TruncToBucket(row.start)[1] = s IN SelectSeq(rows, Is)
        sorted == SetToSortSeq(starts, <)
    IN  [i \in 1..Len(sorted) |-> BucketOf(TruncToBucket(In(sorted[i])[1].start), In(sorted[i]))]

\* Trends: a series for each provider, in the order of the rows.
Trends ==
    /\ trends = <<>>
    /\ LET rows == AccuracyTrends
           ids == SetToSortSeq({rows[i].provider : i \in 1..Len(rows)}, <)
           Of(p) == LET Is(row) == row.provider = p IN SelectSeq(rows, Is)
           series == [i \in 1..Len(ids) |-> [provider |-> ids[i], buckets |-> Buckets(Of(ids[i]))]]
           ends == {Last(series[i].buckets).end : i \in 1..Len(ids)}
       IN  trends' = [series |-> series,
                      last |-> IF ends = {} THEN Blank
                               ELSE CHOOSE e \in ends : \A x \in ends : x <= e]
    /\ UNCHANGED <<table, zone, aggregation>>

TrendInit ==
    table \in TrendRows /\ zone \in Zones /\ aggregation \in Aggregations /\ trends = <<>>

-----------------------------------------------------------------------------
\* Every variable has its type.
TrendTypeOK ==
    /\ \A row \in table : row.start < row.end /\ (row.value = Blank <=> row.n = 0)
    /\ zone \in Zones /\ aggregation \in Aggregations
    /\ trends # <<>> => \A i \in 1..Len(trends.series) : trends.series[i].buckets # <<>>

\* The rows that a bucket is made of, found again by time.
Inside(p, b) ==
    {row \in table : /\ row.provider = p /\ Since <= row.start /\ row.end <= Until
                     /\ SpanIs(row, aggregation) /\ b.start <= row.start /\ row.start < b.end}

\* The clocks jump over midnight.  Package time then takes 23:00 for it, and what
\* AddDate adds to that is short of the bucket's end.
SkipsMidnight(z) == \E t \in (z.at + z.before)..(z.at + z.after - 1) : t % 24 = 0

Summed(S) == FoldSet(LAMBDA row, n : n + row.n, 0, S)

\* Each bucket holds exactly the rows that start in it, whatever the clocks do: no sample
\* is lost or counted twice, and buckets of a provider follow one another without overlap.
BucketsPartition ==
    trends # <<>> /\ ~SkipsMidnight(zone) =>
        \A i \in 1..Len(trends.series) :
            LET s == trends.series[i]
            IN  /\ \A j \in 1..Len(s.buckets) :
                     /\ Inside(s.provider, s.buckets[j]) # {}
                     /\ s.buckets[j].n = Summed(Inside(s.provider, s.buckets[j]))
                     /\ j > 1 => s.buckets[j - 1].end <= s.buckets[j].start
                /\ UNION {Inside(s.provider, s.buckets[j]) : j \in 1..Len(s.buckets)}
                     = {row \in table : /\ row.provider = s.provider /\ Since <= row.start
                                        /\ row.end <= Until /\ SpanIs(row, aggregation)}

\* The value of a bucket lies between the values of its rows, and is absent only if all
\* of them are; the interval is kept only for a bucket of one row.
BucketIsMean ==
    trends # <<>> /\ ~SkipsMidnight(zone) =>
        \A i \in 1..Len(trends.series) : \A j \in 1..Len(trends.series[i].buckets) :
            LET b == trends.series[i].buckets[j]
                rows == Inside(trends.series[i].provider, b)
                values == {row.value : row \in rows} \ {Blank}
            IN  /\ b.value = Blank <=> values = {}
                /\ values # {} => /\ \E v \in values : v * b.value[2] <= b.value[1]
                                  /\ \E v \in values : b.value[1] <= v * b.value[2]
                /\ b.interval <=> Cardinality(rows) = 1

\* In a zone whose clocks do not change, every stored row has a bucket of its own: days,
\* weeks and months of UTC are relabelled one to one, at any offset.
RelabelledOneToOne ==
    trends # <<>> /\ zone.before = zone.after =>
        \A i \in 1..Len(trends.series) : \A j \in 1..Len(trends.series[i].buckets) :
            trends.series[i].buckets[j].interval

\* Buckets of local time neither lose nor repeat a row, and their values are means of
\* their rows.
BucketsAreSound == BucketsPartition /\ BucketIsMean /\ RelabelledOneToOne
=============================================================================
