------------------------------ MODULE MCReports ------------------------------
(***************************************************************************)
(* One instance of accounts, of the lists of the API, and of what the      *)
(* program computes: snapshots from answers, metrics from pairs, ranks     *)
(* from metrics, charts from both.  They share no state: part says which   *)
(* of them a behaviour is about; the others stay as they are.              *)
(***************************************************************************)
EXTENDS Identity, Ranking, Comparison, Trends, Decompose, Listing

CONSTANTS r1, r2, r3, s1, s2, s3, Parts

VARIABLE part

-----------------------------------------------------------------------------
(* Accounts: operations that meet in the same rows are requested together. *)

\* The third subject has the email of the second.
Emails == [s \in Subjects |-> IF s = s3 THEN s2 ELSE s]

Mix(ops, creds, targets, starts) ==
    [ops |-> ops, creds |-> creds, targets |-> targets, starts |-> starts]

OperationMixes ==
    { Mix({"SetUserStatus", "SetUserRole"}, {s1, s2}, {s1, s2}, 0),
      Mix({"SetUserStatus", "DeleteUser"}, {s2}, {s1, s2}, 1),
      Mix({"RequestMyExport", "RequestUserExport", "DeleteUser"}, {s1, s2}, {s2}, 0),
      Mix({"CreateAPIKey", "RevokeAPIKey", "SetUserStatus"}, {s1, OldKey}, {s2}, 0),
      Mix({"DeleteMe", "CreateAPIKey", "AuthWebhook"}, {s2, s3}, {}, 0),
      Mix({"DeleteMe", "UpdateMe"}, {s3}, {}, 0) }

-----------------------------------------------------------------------------
(* Cohorts and stored rankings.                                            *)

\* One component of each direction, with its weight in the default composite.
ThreeComponents ==
    [temp_mae  |-> [weight |-> 6, direction |-> "lower"],
     precip_f1 |-> [weight |-> 5, direction |-> "higher"],
     coverage  |-> [weight |-> 1, direction |-> "direct"]]

SmallInputs ==
    [values : [temp_mae : {0, 1, 2, Null}, precip_f1 : {0, 1, 2}],
     half : [temp_mae : {1, Null}, precip_f1 : {Null}],
     coverages : {{}, {4}, {6}, {6, 9}, {9}},
     temp : {9, 30}, precip : {30}, days : {30}]

SmallRows ==
    LET Scored(st) ==
          {[status |-> st, score |-> s, lower |-> s - h, upper |-> s + h] :
              s \in 2..4, h \in 0..2}
          \cup {[status |-> st, score |-> s, lower |-> Null, upper |-> Null] : s \in 2..4}
    IN  Scored("ranked") \cup Scored("provisionally_ranked")
        \cup {[status |-> "unranked", score |-> Null, lower |-> Null, upper |-> Null]}

-----------------------------------------------------------------------------
(* Pairs of a cell: of temperature, with every weight; of rain, on both    *)
(* sides of the thresholds; and pairs that ReadPairs leaves out.           *)

Pair(type, flag, superseded, ft, ot, fmm, fprob, omm) ==
    [type |-> type, flag |-> flag, superseded |-> superseded, ft |-> ft, ot |-> ot,
     fmm |-> fmm, fprob |-> fprob, omm |-> omm]

SmallPairs ==
    LET temp == {Pair(type, "valid", FALSE, f, 2, Nil, Nil, Nil) : f \in {0, 2, 6},
                   type \in {"station_observation", "reanalysis", "provider_estimated"}}
        rain == {Pair(type, "corrected", FALSE, Nil, Nil, fmm, fprob, omm) :
                   type \in {"station_observation", "provider_estimated"},
                   fmm \in {Nil, 0, 4}, fprob \in {Nil, 4, 5}, omm \in {0, 1}}
        out  == {Pair("reanalysis", "suspect", FALSE, 9, 0, 4, 5, 0),
                 Pair("reanalysis", "valid", TRUE, 9, 0, 4, 5, 0)}
    IN  {<<p>> : p \in temp \cup rain \cup out} \cup (temp \X temp) \cup (temp \X temp \X temp)
        \cup (rain \X rain) \cup ((temp \cup rain) \X out)

SmallDeliveries ==
    {[with |-> 3, scheduled |-> 2, success |-> 1], [with |-> 0, scheduled |-> 0, success |-> 0]}

(* Two providers, two hours, horizons 1 to 3; observations of each hour.   *)

SmallForecasts ==
    LET cells == {<<1, 1, 1>>, <<1, 1, 2>>, <<1, 2, 2>>, <<1, 2, 3>>, <<2, 1, 2>>, <<2, 2, 2>>}
    IN  {f \in [cells -> {0, 3, Nil}] : f[<<1, 2, 3>>] = 0 /\ f[<<1, 1, 1>>] # 3}

SmallSightings ==
    LET Seen(id, t, type, flag, superseded, v) ==
            [id |-> id, at |-> t, type |-> type, flag |-> flag, superseded |-> superseded,
             value |-> v]
        Hourly(t) ==
            {<<>>, <<Seen(t, t, "station_observation", "valid", FALSE, 1)>>,
             <<Seen(t, t, "reanalysis", "suspect", FALSE, 5)>>,
             <<Seen(t, t, "reanalysis", "valid", TRUE, 5),
               Seen(t + 10, t, "reanalysis", "corrected", FALSE, 5)>>,
             <<Seen(t, t, "reanalysis", "valid", FALSE, 5),
               Seen(t + 10, t, "interpolated", "valid", FALSE, 1)>>}
        blank == <<Seen(2, 2, "station_observation", "valid", FALSE, Nil)>>
    IN  {x \o y : x \in Hourly(1), y \in Hourly(2) \cup {blank}}

SmallRequests == {<<1>>, <<2, 1>>}

(* Rows of three days, weeks or months around a change of the clocks, and   *)
(* a row of another kind that starts with one of them.                      *)

SmallTrends ==
    LET Held(p, period, v) ==
            [provider |-> p, start |-> period[1], end |-> period[2], value |-> v,
             n |-> IF v = Blank THEN 0 ELSE v + 1]
        Holding(kind, other, nows) ==
            {{Held(1, StandardPeriods(nows[i])[kind], v[i]) : i \in 1..3}
             \cup {Held(2, StandardPeriods(nows[2])[k], 1) : k \in {kind, other}} :
                v \in [1..3 -> {Blank, 0, 3}]}
    IN  Holding("daily", "weekly", <<24 * 27 + 5, 24 * 28 + 1, 24 * 29>>)
        \cup Holding("weekly", "daily", <<24 * 20, 24 * 28, 24 * 35 + 3>>)
        \cup Holding("monthly", "daily", <<24 * 20, 24 * 28, 24 * 61>>)

\* Fixed offsets, and clocks that change in the hours around midnight of day 28.
SmallZones ==
    {[before |-> o, after |-> o, at |-> 0] : o \in {-11, 0, 14}}
    \cup {[before |-> z[1], after |-> z[2], at |-> 24 * 28 + z[3]] :
             z \in {<<-5, -4, 7>>, <<-4, -5, 6>>, <<0, 1, 1>>, <<0, -1, 1>>, <<-5, -4, 5>>}}

MonthDays == <<-31, 0, 28, 59, 90>>

(* Answers of up to three rows, each row of a kind of its own.             *)

UpToThree(S) == UNION {[1..n -> S] : n \in 0..3}

SmallItems ==
    LET Item(dt, temp, pop, rain, snow) ==
            [dt |-> dt, temp |-> temp, pop |-> pop, rain |-> rain, snow |-> snow]
    IN  {Garbled} \cup UpToThree({
            Absent, Item(Garbled, 1, Absent, 1, 1), Item(0, 1, Absent, 1, 1),
            Item(30, 1, <<50, 100>>, Absent, Absent), Item(3600, 1, <<50, 100>>, Absent, 2),
            Item(3600, 99, Absent, 0, Absent), Item(7200, Absent, <<130, 100>>, 300, 201)})

SmallColumns ==
    {Garbled} \cup
    {[time |-> t, temp |-> c, prob |-> <<50, 130>>, mm |-> <<0, 501, 2>>] :
        t \in UpToThree({Garbled, 0, 59, 3600, 7200}),
        c \in {<<>>, <<1, 99, 1>>, <<Absent, 1>>}}

-----------------------------------------------------------------------------
Init ==
    /\ part \in Parts
    /\ IdentityInit
    /\ part # "identity" => mix = (CHOOSE m \in Mixes : TRUE) /\ keys[OldKey].owner = s1
    /\ RankInit
    /\ IF part = "evaluation" THEN EvalInit
       ELSE matched = <<>> /\ delivered = Nil /\ metrics = <<>>
    /\ IF part = "comparison" THEN CompareInit
       ELSE forecast = Nil /\ sighted = <<>> /\ asked = <<>> /\ compared = <<>>
    /\ IF part = "trends" THEN TrendInit
       ELSE table = {} /\ zone = Nil /\ aggregation = Nil /\ trends = <<>>
    /\ IF part = "decompose" THEN DecomposeInit ELSE answer = Nil /\ result = Absent
    /\ IF part = "lists" THEN ListInit
       ELSE /\ list = Nil /\ limit = Nil /\ rows = <<>> /\ cursor = NoCursor
            /\ seen = <<>> /\ open = FALSE /\ steady = {}

Next ==
    /\ \/ part = "identity" /\ IdentityNext
       \/ part # "identity" /\ UNCHANGED identVars
    /\ \/ part = "ranking" /\ RankNext
       \/ part # "ranking" /\ UNCHANGED rankVars
    /\ \/ part = "evaluation" /\ EvalNext
       \/ part # "evaluation" /\ UNCHANGED evalVars
    /\ \/ part = "comparison" /\ ForecastComparison
       \/ part # "comparison" /\ UNCHANGED compareVars
    /\ \/ part = "trends" /\ Trends
       \/ part # "trends" /\ UNCHANGED trendVars
    /\ \/ part = "decompose" /\ DecomposeAnswer
       \/ part # "decompose" /\ UNCHANGED decomposeVars
    /\ \/ part = "lists" /\ ListNext
       \/ part # "lists" /\ UNCHANGED listVars
    /\ UNCHANGED part

Spec ==
    Init /\ [][Next]_<<part, identVars, rankVars, evalVars, compareVars, trendVars,
                       decomposeVars, listVars>>

RequestSymmetry == Permutations(Requests)

\* Every variable of the part has its type.
ReportsTypeOK ==
    /\ part = "identity" => IdentityTypeOK
    /\ part = "ranking" => RankTypeOK
    /\ part = "evaluation" => EvalTypeOK
    /\ part = "comparison" => CompareTypeOK
    /\ part = "trends" => TrendTypeOK
    /\ part = "decompose" => DecomposeTypeOK
    /\ part = "lists" => ListTypeOK
=============================================================================
