----------------------------- MODULE Decompose ------------------------------
(***************************************************************************)
(* What the adapters make of a provider's answer: Open-Meteo's columns and *)
(* OpenWeather's items become forecast snapshots, Open-Meteo's history     *)
(* becomes observations.  Each row is built, validated and counted, and    *)
(* the whole is classified.                                                *)
(*                                                                         *)
(* Times are seconds after the forecast was issued, or after the start of  *)
(* the window.  Temperature stands for the fields that are only copied and *)
(* checked; a probability is a fraction; amounts are in mm.                *)
(***************************************************************************)
EXTENDS Integers, SequencesExt

CONSTANTS
    Absent,         \* null, or no such element
    Garbled,        \* bytes that are not JSON, a time that cannot be parsed
    Columns,        \* answers of Open-Meteo: records of sequences, or Garbled
    Items,          \* answers of OpenWeather: sequences of items, or Garbled
    WindowEnd       \* end of the window of observations asked for

VARIABLES answer, result

decomposeVars == <<answer, result>>

MaxTemperature == 60
MaxPrecip == 500

\* at: element i of a column that may be shorter than the others.
ElementAt(column, i) == IF i \in 1..Len(column) THEN column[i] ELSE Absent

\* pctToRatio.
PctToRatio(pct) == IF pct = Absent THEN Absent ELSE <<pct, 100>>

\* Whole minutes, towards zero.
Minutes(seconds) == IF seconds < 0 THEN -((-seconds) \div 60) ELSE seconds \div 60

Snapshot(target, temp, prob, mm) ==
    [target |-> target, horizon |-> Minutes(target), temp |-> temp, prob |-> prob, mm |-> mm]

\* buildSnapshot of Open-Meteo.
SnapshotOfColumns(h, i) ==
    IF h.time[i] = Garbled THEN Absent
    ELSE Snapshot(h.time[i], ElementAt(h.temp, i), PctToRatio(ElementAt(h.prob, i)), ElementAt(h.mm, i))

\* precipMM: rain and snow, or nothing if the answer has neither.
PrecipMM(item) ==
    IF {item.rain, item.snow} = {Absent} THEN Absent
    ELSE (IF item.rain = Absent THEN 0 ELSE item.rain) + (IF item.snow = Absent THEN 0 ELSE item.snow)

\* buildSnapshot of OpenWeather.
SnapshotOfItem(item) ==
    IF item = Absent \/ item.dt = Garbled THEN Absent
    ELSE Snapshot(item.dt, item.temp, item.pop, PrecipMM(item))

Within(v, least, most) == v = Absent \/ (least <= v /\ v <= most)

\* Validate finds nothing to object to.
Valid(s) ==
    /\ s.target > 0 /\ s.horizon > 0
    /\ Within(s.temp, -90, MaxTemperature) /\ Within(s.mm, 0, MaxPrecip)
    /\ s.prob = Absent \/ (0 <= s.prob[1] /\ s.prob[1] <= s.prob[2])

Drift(n) == [outcome |-> "failed", received |-> n, invalid |-> 0, suspect |-> 0, rows |-> <<>>]

\* Mutant of Classify: half of the rows suffices to fail.
ClassifyHalf(n, invalid) ==
    IF invalid * 2 >= n THEN "failed" ELSE IF invalid > 0 THEN "partial" ELSE "success"

\* The outcome of a forecast with rows.
Classify(n, invalid) ==
    IF invalid * 2 > n THEN "failed" ELSE IF invalid > 0 THEN "partial" ELSE "success"

\* The rows that were built and are valid, and the count of the others.
Sorted(built) ==
    LET Keep(s) == s # Absent /\ Valid(s)
        rows == SelectSeq(built, Keep)
        invalid == Len(built) - Len(rows)
    IN  [outcome |-> Classify(Len(built), invalid), received |-> Len(built),
         invalid |-> invalid, suspect |-> 0, rows |-> rows]

\* decompose of Open-Meteo.
DecomposeColumns(h) ==
    IF h = Garbled \/ h.time = <<>> THEN Drift(0)
    ELSE Sorted([i \in 1..Len(h.time) |-> SnapshotOfColumns(h, i)])

\* decompose of OpenWeather.
DecomposeItems(items) ==
    IF items = Garbled \/ items = <<>> THEN Drift(0)
    ELSE Sorted([i \in 1..Len(items) |-> SnapshotOfItem(items[i])])

\* buildObservation: nothing after the window's end.
ObservationOf(h, i) ==
    IF h.time[i] = Garbled \/ h.time[i] > WindowEnd THEN Absent
    ELSE [at |-> h.time[i], temp |-> ElementAt(h.temp, i), mm |-> ElementAt(h.mm, i),
          suspect |-> ~Within(ElementAt(h.temp, i), -90, MaxTemperature)
                      \/ ~Within(ElementAt(h.mm, i), 0, MaxPrecip)]

\* decompose of the observations: suspect rows are kept, and are no failures.
DecomposeHistory(h) ==
    IF h = Garbled \/ h.time = <<>> THEN Drift(0)
    ELSE LET built == [i \in 1..Len(h.time) |-> ObservationOf(h, i)]
             Is(o) == o # Absent
             Suspect(o) == o.suspect
             rows == SelectSeq(built, Is)
             invalid == Len(built) - Len(rows)
         IN  [outcome |-> IF rows = <<>> \/ invalid * 2 > Len(built) THEN "failed" ELSE "success",
              received |-> Len(built), invalid |-> invalid,
              suspect |-> Len(SelectSeq(rows, Suspect)), rows |-> rows]

\* DecodeStored, and what a fetch does with an answer of status 200.
DecomposeAnswer ==
    /\ result = Absent
    /\ result' = CASE answer.from = "openmeteo"   -> DecomposeColumns(answer.body)
                   [] answer.from = "openweather" -> DecomposeItems(answer.body)
                   [] OTHER                       -> DecomposeHistory(answer.body)
    /\ UNCHANGED answer

DecomposeInit ==
    /\ result = Absent
    /\ \/ \E h \in Columns, from \in {"openmeteo", "history"} :
            answer = [from |-> from, body |-> h]
       \/ \E items \in Items : answer = [from |-> "openweather", body |-> items]

-----------------------------------------------------------------------------
\* Every variable has its type.
DecomposeTypeOK ==
    result # Absent => /\ result.outcome \in {"success", "partial", "failed"}
                       /\ result.invalid \in 0..result.received

\* Every row of the answer is accounted for: stored or counted as invalid, and a suspect
\* observation is stored.
RowsAccounted ==
    result # Absent =>
        /\ Len(result.rows) + result.invalid = result.received
        /\ result.suspect <= Len(result.rows)
        /\ answer.body # Garbled =>
             result.received = Len(IF answer.from = "openweather" THEN answer.body ELSE answer.body.time)

\* What an outcome promises the collection services: success and partial come with at
\* least half of the rows, and with one; a forecast succeeds only if all rows are valid
\* and fails only if it lost more than half; no row is at or before its issue.
OutcomeIsEarned ==
    result # Absent =>
        /\ result.outcome # "failed" => /\ result.rows # <<>>
                                        /\ 2 * Len(result.rows) >= result.received
        /\ answer.from # "history" =>
             /\ result.outcome = "success" => result.invalid = 0
             /\ result.outcome = "failed" => 2 * Len(result.rows) < result.received \/ result.received = 0
             /\ \A i \in 1..Len(result.rows) : result.rows[i].horizon > 0

\* The same forecast as columns.
AsColumns(items) ==
    LET Column(F(_)) == [i \in 1..Len(items) |-> IF items[i] = Absent THEN Absent ELSE F(items[i])]
    IN  [time |-> [i \in 1..Len(items) |-> IF items[i] = Absent THEN Garbled ELSE items[i].dt],
         temp |-> Column(LAMBDA it : it.temp),
         prob |-> Column(LAMBDA it : IF it.pop = Absent THEN Absent ELSE it.pop[1]),
         mm   |-> Column(LAMBDA it : PrecipMM(it))]

\* The two forecast adapters, written one after the other, do the same with the same
\* forecast: equal rows, counts and outcome, whatever rows are missing or out of range.
AdaptersAgree ==
    result # Absent /\ answer.from = "openweather" /\ answer.body # Garbled =>
        result = DecomposeColumns(AsColumns(answer.body))

\* Every row of an answer is accounted for, the outcome says how many there are, and the
\* adapters agree on both.
AnswersAreSound == RowsAccounted /\ OutcomeIsEarned /\ AdaptersAgree
=============================================================================
