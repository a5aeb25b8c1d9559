----------------------------- MODULE Comparison -----------------------------
(***************************************************************************)
(* A day of forecasts against observations, twice: the pairs that matching *)
(* makes of it, which aggregation evaluates, and the comparison that the   *)
(* API computes from the same tables for GET /forecast-comparison.         *)
(***************************************************************************)
EXTENDS Evaluation

CONSTANTS
    Forecasts,      \* functions from <<provider, target hour, horizon>> to a value or Nil
    Sightings,      \* sequences of observations, as the database may list them
    Queries,       \* sequences of providers a client may ask for
    Horizon         \* the horizon it asks for

VARIABLES forecast, sighted, asked, compared

compareVars == <<forecast, sighted, asked, compared>>

-----------------------------------------------------------------------------
(* domain/match.go                                                         *)

ProvenanceRank(type) ==
    CASE type = "station_observation" -> 1
      [] type \in {"interpolated", "reanalysis"} -> 2
      [] type = "provider_estimated" -> 3
      [] OTHER -> 99

\* candidateLess.
CandidateLess(a, b, hour) ==
    LET Keys(c) == <<IF c.flag = "corrected" THEN 0 ELSE 1, ProvenanceRank(c.type),
                     Magnitude(c.at - hour), c.id>>
    IN  \E k \in 1..4 : /\ Keys(a)[k] < Keys(b)[k]
                        /\ \A l \in 1..(k - 1) : Keys(a)[l] = Keys(b)[l]

\* SelectCandidate.
SelectCandidate(hour, candidates) ==
    LET Better(best, c) == IF best = Nil \/ CandidateLess(c, best, hour) THEN c ELSE best
    IN  FoldLeft(Better, Nil, candidates)

Counts(o) == ~o.superseded /\ o.flag # "suspect"

\* FindCandidates.
FindCandidates(listed, hour) == LET Is(o) == o.at = hour /\ Counts(o) IN SelectSeq(listed, Is)

\* The pairs of MatchBatch that ReadPairs returns for a provider at the horizon.
PairsOf(p) ==
    LET Made(k) == LET o == SelectCandidate(k[2], FindCandidates(sighted, k[2]))
                   IN  [type |-> o.type, flag |-> o.flag, ft |-> forecast[k], ot |-> o.value]
        matches == {k \in DOMAIN forecast :
                      k[1] = p /\ k[3] = Horizon /\ FindCandidates(sighted, k[2]) # <<>>}
    IN  [i \in 1..Cardinality(matches) |-> Made(SetToSeq(matches)[i])]

-----------------------------------------------------------------------------
(* ForecastComparison.                                                     *)

\* ForecastComparisonPoints: per provider and hour the longest horizon up to the one
\* asked for, in the order of provider and hour.
Points ==
    LET usable == {k \in DOMAIN forecast : /\ forecast[k] # Nil /\ k[3] <= Horizon
                                           /\ \E i \in 1..Len(asked) : asked[i] = k[1]}
        longest == {k \in usable : \A l \in usable :
                      l[1] = k[1] /\ l[2] = k[2] => l[3] <= k[3]}
        Before(k, l) == k[1] < l[1] \/ (k[1] = l[1] /\ k[2] < l[2])
    IN  SetToSortSeq(longest, Before)

\* ComparisonObservations.
Observations == LET Is(o) == Counts(o) /\ o.value # Nil IN SelectSeq(sighted, Is)

\* Mutant of AddPoint: every observation has the same weight.
AddPointUnweighted(c, k) ==
    LET Here(o) == o.at = k[2]
        at == SelectSeq(Observations, Here)
    IN  IF at = <<>> THEN c ELSE AddError(c, forecast[k], Last(at).value, 10)

\* A point and the observation of its hour, the last one listed, for an accumulator.
AddPoint(c, k) ==
    LET Here(o) == o.at = k[2]
        at == SelectSeq(Observations, Here)
    IN  IF at = <<>> THEN c
        ELSE AddError(c, forecast[k], Last(at).value, ProvenanceWeight(Last(at).type))

\* All points in one accumulator.
Pooled(points) == FoldLeft(AddPoint, NoErrors, points)

\* The series of a provider and its day metrics.
Series(p) ==
    LET Of(k) == k[1] = p
        points == SelectSeq(Points, Of)
        c == FoldLeft(AddPoint, NoErrors, points)
    IN  [provider |-> p, points |-> points, mae |-> MAE(c), rmse |-> RMSE(c), bias |-> Bias(c),
         n |-> c.n]

\* ForecastComparison: providers in the order asked for, those without a point left out.
ForecastComparison ==
    /\ compared = <<>>
    /\ LET Present(s) == s.points # <<>>
       IN  compared' = [series |-> SelectSeq([i \in 1..Len(asked) |-> Series(asked[i])], Present),
                        band |-> MAE(Pooled(Points)),
                        latest |-> IF Observations = <<>> THEN Nil ELSE Last(Observations).at]
    /\ UNCHANGED <<forecast, sighted, asked>>

CompareInit ==
    forecast \in Forecasts /\ sighted \in Sightings /\ asked \in Queries /\ compared = <<>>

-----------------------------------------------------------------------------
\* Every variable has its type.
CompareTypeOK ==
    /\ forecast \in Forecasts /\ sighted \in Sightings /\ asked \in Queries
    /\ compared # <<>> =>
         \A i \in 1..Len(compared.series) :
            /\ compared.series[i].n \in 0..Len(compared.series[i].points)
            /\ compared.series[i].provider \in {asked[j] : j \in 1..Len(asked)}

\* The observation paired with a forecast does not depend on the order in which the
\* database lists the candidates of the hour.
ChoiceIgnoresListing ==
    \A hour \in {sighted[i].at : i \in 1..Len(sighted)} :
        LET listed == FindCandidates(sighted, hour)
        IN  SelectCandidate(hour, listed) = SelectCandidate(hour, Reverse(listed))

\* The day metrics of the comparison are those that aggregation publishes for the day:
\* two computations from the same tables agree, for a provider all of whose points have
\* the horizon asked for, if each hour has at most one live observation (one source).
DayAgrees ==
    compared # <<>> =>
        \A i \in 1..Len(compared.series) :
            LET s == compared.series[i]
                c == Errors(PairsOf(s.provider), "ft", "ot")
            IN  (/\ \A j \in 1..Len(s.points) : s.points[j][3] = Horizon
                 /\ \A k \in DOMAIN forecast : Len(FindCandidates(sighted, k[2])) <= 1)
                => <<s.mae, s.rmse, s.bias, s.n>> = <<MAE(c), RMSE(c), Bias(c), c.n>>

\* The error band of the chart lies between the least and the greatest error of the
\* providers it shows, and is absent only if each of theirs is.
BandWithin ==
    compared # <<>> =>
        LET maes == {compared.series[i].mae : i \in 1..Len(compared.series)} \ {Nil}
        IN  /\ compared.band = Nil <=> maes = {}
            /\ maes # {} => /\ \E x \in maes : Leq(x, compared.band)
                            /\ \E x \in maes : Leq(compared.band, x)

\* The comparison shows what aggregation publishes of the same day, and neither depends
\* on the order of rows.
ComparisonAgrees == ChoiceIgnoresListing /\ DayAgrees /\ BandWithin
=============================================================================
