----------------------------- MODULE Evaluation -----------------------------
(***************************************************************************)
(* The evaluation kernel and the aggregation of one cell and period: from  *)
(* matched pairs to the rows of accuracy_metrics.                          *)
(*                                                                         *)
(* The arithmetic is exact.  A value is a fraction <<num, den>>; the value *)
(* of an RMSE is its square.  Weights, probabilities and amounts of rain   *)
(* are in tenths.  An interval is kept as the place of its bounds relative *)
(* to the value: -1 below, 0 equal, 1 above.  Where a computed number is   *)
(* exactly on a bound, floating point may put it on either side: noise     *)
(* says on which.                                                          *)
(***************************************************************************)
EXTENDS Integers, SequencesExt

CONSTANTS
    Nil,            \* a value that is absent
    StoredPairs,    \* sequences of matched pairs a cell may have in a period
    Deliveries      \* [with, scheduled, success]: what coverage is computed from

VARIABLES
    matched,        \* the pairs of matched_evaluations, with their two sides
    delivered,      \* forecast_snapshots, collection_schedules, forecast_collections
    metrics         \* the rows written for the cell and period; empty before

evalVars == <<matched, delivered, metrics>>

-----------------------------------------------------------------------------
(* eval.go                                                                 *)

ProvenanceWeight(type) ==
    CASE type = "station_observation" -> 10
      [] type = "interpolated" -> 8
      [] type = "reanalysis" -> 8
      [] type = "provider_estimated" -> 5
      [] OTHER -> 0

Eligible(forecast, observed, flag) == Nil \notin {forecast, observed} /\ flag # "suspect"

ForecastRain(prob, amount) == (prob # Nil /\ prob >= 5) \/ (amount # Nil /\ amount > 0)

ObservedRain(amount) == amount # Nil /\ amount >= 1

\* A ratio, or nil for a zero denominator.
Ratio(num, den) == IF den = 0 THEN Nil ELSE <<num, den>>

Magnitude(x) == IF x < 0 THEN -x ELSE x

-----------------------------------------------------------------------------
(* continuous.go                                                           *)

NoErrors == [w |-> 0, w2 |-> 0, abs |-> 0, err |-> 0, sq |-> 0, n |-> 0]

\* Continuous.Add.
AddError(c, forecast, observed, w) ==
    LET e == forecast - observed
    IN  [w |-> c.w + w, w2 |-> c.w2 + w * w, abs |-> c.abs + w * Magnitude(e),
         err |-> c.err + w * e, sq |-> c.sq + w * e * e, n |-> c.n + 1]

\* Mutant of MAE: the mean over the pairs, not over their weight.
MAEPerPair(c) == Ratio(c.abs, 10 * c.n)

MAE(c) == Ratio(c.abs, c.w)
RMSE(c) == Ratio(c.sq, c.w)
Bias(c) == Ratio(c.err, c.w)

-----------------------------------------------------------------------------
(* categorical.go and brier.go                                             *)

NoHours == [TP |-> 0, FP |-> 0, FN |-> 0, TN |-> 0]

\* Confusion.Add.
AddHour(c, forecast, observed, w) ==
    CASE forecast /\ observed  -> [c EXCEPT !.TP = @ + w]
      [] forecast /\ ~observed -> [c EXCEPT !.FP = @ + w]
      [] ~forecast /\ observed -> [c EXCEPT !.FN = @ + w]
      [] OTHER                 -> [c EXCEPT !.TN = @ + w]

Hours(c) == c.TP + c.FP + c.FN + c.TN
Recall(c) == Ratio(c.TP, c.TP + c.FN)
Precision(c) == Ratio(c.TP, c.TP + c.FP)

F1(c) == Ratio(2 * c.TP, 2 * c.TP + c.FP + c.FN)
FalseAlarmRate(c) == Ratio(c.FP, c.FP + c.TN)
ThreatScore(c) == Ratio(c.TP, c.TP + c.FP + c.FN)
OccurrenceAgreement(c) == Ratio(c.TP + c.TN, Hours(c))

NoProbabilities == [w |-> 0, w2 |-> 0, sq |-> 0, quad |-> 0, n |-> 0]

\* Brier.Add, the squares in hundredths.
AddProbability(b, prob, observed, w) ==
    LET d == prob - (IF observed THEN 10 ELSE 0)
    IN  [w |-> b.w + w, w2 |-> b.w2 + w * w, sq |-> b.sq + w * d * d,
         quad |-> b.quad + w * d * d * d * d, n |-> b.n + 1]

Score(b) == Ratio(b.sq, 100 * b.w)

-----------------------------------------------------------------------------
(* ci.go                                                                   *)

Sign(x) == IF x < 0 THEN -1 ELSE IF x > 0 THEN 1 ELSE 0

NoInterval == [lo |-> Nil, hi |-> Nil]

\* The bounds within [0, 1].  Exactly, the lower one is below the value unless this is 0,
\* the upper one above it unless this is 1; there the result may miss them on either side.
Within01(p, noise) ==
    [lo |-> IF p[1] = 0 THEN (IF noise < 0 THEN 0 ELSE noise) ELSE -1,
     hi |-> IF p[1] = p[2] THEN (IF noise > 0 THEN 0 ELSE noise) ELSE 1]

Wilson(p, noise) ==
    LET b == Within01(p, noise)
    IN  [lo |-> IF b.lo > 0 THEN 0 ELSE b.lo, hi |-> IF b.hi < 0 THEN 0 ELSE b.hi]

\* The numerator of the weighted variance.
Spread(wx, wx2, w) == wx2 * w - wx * wx

\* ciFromMoments.  The square root is of the sign of the variance.
CIFromMoments(wx, wx2, w, w2, n, noise) ==
    LET spread == Spread(wx, wx2, w)
        variance == IF spread = 0 THEN noise ELSE Sign(spread)
        half == IF variance < 0 THEN 0 ELSE variance
    IN  IF n < 2 \/ w <= 0 \/ w * w - w2 <= 0 THEN NoInterval
        ELSE [lo |-> -half, hi |-> half]

\* MAECI and RMSECI, BiasCI, ScoreCI.
AbsoluteCI(c, noise) == CIFromMoments(c.abs, c.sq, c.w, c.w2, c.n, noise)
BiasCI(c, noise) == CIFromMoments(c.err, c.sq, c.w, c.w2, c.n, noise)
ScoreCI(b, noise) == CIFromMoments(b.sq, b.quad, b.w, b.w2, b.n, noise)

-----------------------------------------------------------------------------
(* aggregate.go: the rows.                                                 *)

\* metric.
Metric(value, ci, n) ==
    IF value = Nil THEN [value |-> Nil, lo |-> Nil, hi |-> Nil, n |-> 0]
    ELSE [value |-> value, lo |-> ci.lo, hi |-> ci.hi, n |-> n]

RatioRow(value, n, noise) ==
    IF value = Nil THEN Metric(Nil, NoInterval, 0) ELSE Metric(value, Wilson(value, noise), n)

RatelessRow(num, den) ==
    IF den <= 0 THEN Metric(Nil, NoInterval, 0)
    ELSE Metric(IF num > den THEN <<1, 1>> ELSE <<num, den>>, NoInterval, den)

\* The pairs a metric is computed from, folded into its accumulator.
Errors(pairs, f, o) ==
    LET Add(c, p) == IF Eligible(p[f], p[o], p.flag)
                     THEN AddError(c, p[f], p[o], ProvenanceWeight(p.type)) ELSE c
    IN  FoldLeft(Add, NoErrors, pairs)

WetPairs(pairs) == LET Wet(p) == ObservedRain(p.omm) IN SelectSeq(pairs, Wet)

\* Occurrence needs a known observed state; the forecast may be absent.
KnownState(pairs) == LET Is(p) == p.omm # Nil /\ p.flag # "suspect" IN SelectSeq(pairs, Is)

Occurrences(pairs) ==
    LET Add(c, p) == AddHour(c, ForecastRain(p.fprob, p.fmm), ObservedRain(p.omm),
                             ProvenanceWeight(p.type))
    IN  FoldLeft(Add, NoHours, KnownState(pairs))

Probabilities(pairs) ==
    LET Add(b, p) == IF p.fprob = Nil THEN b
                     ELSE AddProbability(b, p.fprob, ObservedRain(p.omm), ProvenanceWeight(p.type))
    IN  FoldLeft(Add, NoProbabilities, KnownState(pairs))

\* continuousRows.
ContinuousRows(c, noise) ==
    [mae  |-> Metric(MAE(c), AbsoluteCI(c, noise), c.n),
     rmse |-> Metric(RMSE(c), AbsoluteCI(c, noise), c.n),
     bias |-> Metric(Bias(c), BiasCI(c, noise), c.n)]

\* The occurrence rows of computeRows.
OccurrenceRows(c, n, noise) ==
    [recall       |-> RatioRow(Recall(c), n, noise),
     precision    |-> RatioRow(Precision(c), n, noise),
     f1           |-> RatioRow(F1(c), n, noise),
     far          |-> RatioRow(FalseAlarmRate(c), n, noise),
     threat_score |-> RatioRow(ThreatScore(c), n, noise),
     occurrence_agreement |-> RatioRow(OccurrenceAgreement(c), n, noise)]

\* computeRows; temperature stands for the four continuous variables, whose code it shares.
ComputeRows(pairs, d, noise) ==
    LET all == Errors(pairs, "fmm", "omm")
        wet == Errors(WetPairs(pairs), "fmm", "omm")
        brier == Probabilities(pairs)
        n == Len(KnownState(pairs))
    IN  ContinuousRows(Errors(pairs, "ft", "ot"), noise)
        @@ OccurrenceRows(Occurrences(pairs), n, noise)
        @@ [rain_mae_all |-> Metric(MAE(all), AbsoluteCI(all, noise), all.n),
            rain_mae_wet |-> Metric(MAE(wet), AbsoluteCI(wet, noise), wet.n),
            brier        |-> Metric(Score(brier), ScoreCI(brier, noise), n),
            coverage     |-> RatelessRow(d.with, d.scheduled),
            reliability  |-> RatelessRow(d.success, d.scheduled)]

\* ReadPairs: the pairs to live observations that are not suspect.
ReadPairs == LET Live(p) == ~p.superseded /\ p.flag # "suspect" IN SelectSeq(matched, Live)

\* aggregateCellPeriod, up to the transaction, which Publication models.  The cell is
\* listed because it has a pair to a live observation (ListCells).
AggregateCellPeriod ==
    /\ metrics = <<>>
    /\ \E i \in 1..Len(matched) : ~matched[i].superseded
    /\ \E noise \in -1..1 : metrics' = ComputeRows(ReadPairs, delivered, noise)
    /\ UNCHANGED <<matched, delivered>>

EvalInit == matched \in StoredPairs /\ delivered \in Deliveries /\ metrics = <<>>

EvalNext == AggregateCellPeriod

-----------------------------------------------------------------------------
\* Every variable has its type.
EvalTypeOK ==
    /\ matched \in StoredPairs /\ delivered \in Deliveries
    /\ \A m \in DOMAIN metrics :
         /\ metrics[m].value = Nil \/ (metrics[m].value[1] \in Int /\ metrics[m].value[2] > 0)
         /\ metrics[m].n \in Nat

Leq(x, y) == x[1] * y[2] <= y[1] * x[2]

\* Every row meets the constraints of accuracy_metrics (migration 09): a value is absent
\* exactly when the count is 0, and an interval contains its value, also when there are
\* no rainy hours, one pair, equal errors or rounding at a bound.  One row that does not
\* makes the transaction of the whole cell fail.
RowsFitTable ==
    \A m \in DOMAIN metrics :
        LET row == metrics[m]
        IN  /\ (row.value = Nil) = (row.n = 0)
            /\ (row.lo = Nil) = (row.hi = Nil)
            /\ row.lo # Nil => row.lo <= 0 /\ 0 <= row.hi

\* |Bias| <= MAE <= RMSE for pairs of observations of different weight, all three present
\* or none, and the MAE is 0 only if the RMSE is.
ErrorsOrdered ==
    metrics # <<>> /\ metrics.mae.value # Nil =>
        LET mae == metrics.mae.value
            rmse == metrics.rmse.value
            bias == metrics.bias.value
        IN  /\ Nil \notin {rmse, bias}
            /\ Leq(<<Magnitude(bias[1]), bias[2]>>, mae)
            /\ Leq(<<mae[1] * mae[1], mae[2] * mae[2]>>, rmse)
            /\ mae[1] = 0 => rmse[1] = 0

\* The occurrence metrics agree with one another: each is within [0, 1]; F1 is absent
\* exactly when precision and recall both are; it lies between them; and the threat score
\* never exceeds either.
RatesCohere ==
    metrics # <<>> =>
        LET V(m) == metrics[m].value
        IN  /\ \A m \in {"recall", "precision", "f1", "far", "threat_score", "brier",
                         "occurrence_agreement", "coverage", "reliability"} :
                 V(m) # Nil => Leq(<<0, 1>>, V(m)) /\ Leq(V(m), <<1, 1>>)
            /\ V("f1") = Nil <=> V("precision") = Nil /\ V("recall") = Nil
            /\ Nil \notin {V("precision"), V("recall")} =>
                 /\ Leq(V("f1"), V("precision")) \/ Leq(V("f1"), V("recall"))
                 /\ Leq(V("precision"), V("f1")) \/ Leq(V("recall"), V("f1"))
                 /\ Leq(V("threat_score"), V("precision")) /\ Leq(V("threat_score"), V("recall"))

\* The weighted variance is never negative before rounding, whatever the weights: the
\* guard of ciFromMoments corrects floating point only, and cuts off no real spread.
SpreadIsReal ==
    metrics # <<>> =>
        LET c == Errors(ReadPairs, "ft", "ot")
            b == Probabilities(ReadPairs)
        IN  /\ Spread(c.abs, c.sq, c.w) >= 0 /\ Spread(c.err, c.sq, c.w) >= 0
            /\ Spread(b.sq, b.quad, b.w) >= 0
            /\ c.n >= 2 => c.w * c.w > c.w2

\* The rows of a cell fit the table and one another (the invariants of
\* docs/domain/03-metric-methodology.md, section 11).
MetricsAreSound == RowsFitTable /\ ErrorsOrdered /\ RatesCohere /\ SpreadIsReal
=============================================================================
