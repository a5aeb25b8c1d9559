------------------------------ MODULE Ranking ------------------------------
(***************************************************************************)
(* The ranking of a cell: from the metrics of its cohort to composite      *)
(* scores (buildCohort, RankCohort), and from the stored rows to displayed *)
(* ranks (RankOrder, orderRankings).                                       *)
(*                                                                         *)
(* The arithmetic is exact.  Values of metrics are small integers; weights *)
(* are twentieths, coverage is in tenths, a normalized component in        *)
(* Scale-ths.  Scores of one cohort have the same denominator, Whole, and  *)
(* are compared by their numerators.  epsilon is smaller than any value    *)
(* that is not 0: what it contributes to a score is 0, what it makes       *)
(* positive is positive.                                                   *)
(***************************************************************************)
EXTENDS Integers, SequencesExt

CONSTANTS
    Components,     \* name -> [weight, direction]
    CohortInputs,         \* the metrics a provider may have
    Rows,           \* the rows a cohort of an earlier batch may have
    Size,           \* providers in a cohort that is ranked
    Listed,         \* rows of a cohort that is only read
    Null            \* a metric without a value

Scale == 40

ASSUME RankingAssumption ==
    /\ \A c \in DOMAIN Components :
         Components[c].weight \in 1..20 /\ Components[c].direction \in {"lower", "higher", "direct"}
    /\ Size \in Nat /\ Listed \in Nat

VARIABLES
    cohort,     \* what RankPeriod has read for the cell
    stored,     \* provider_rankings: the live rows of the cell
    shown       \* the response: for each row of stored, its place and rank

rankVars == <<cohort, stored, shown>>

RankStatuses == {"ranked", "provisionally_ranked", "unranked"}

\* Every variable has its type.
RankTypeOK ==
    /\ \A i \in 1..Len(cohort) : cohort[i] \in CohortInputs
    /\ \A i \in 1..Len(stored) :
         /\ stored[i].status \in RankStatuses
         /\ (stored[i].score = Null) <=> (stored[i].status = "unranked")
         /\ stored[i].score \in Nat \cup {Null}
    /\ \A i \in 1..Len(shown) : shown[i].row \in 1..Len(stored) /\ shown[i].rank \in Nat

-----------------------------------------------------------------------------
(* buildCohort.                                                            *)

Least(S)    == CHOOSE x \in S : \A y \in S : x <= y
Greatest(S) == CHOOSE x \in S : \A y \in S : x >= y

\* The least coverage of the variables that have one.
Coverage(p) == IF p.coverages = {} THEN Null ELSE Least(p.coverages)

\* Coverage is a component as well.
Value(p, c) == IF c = "coverage" THEN Coverage(p) ELSE p.values[c]

-----------------------------------------------------------------------------
(* RankCohort.                                                             *)

\* The components every provider of the cohort has a value for.
Active(co) == {c \in DOMAIN Components : \A i \in 1..Len(co) : Value(co[i], c) # Null}

Values(co, c) == {Value(co[i], c) : i \in 1..Len(co)} \ {Null}

Weight(S) == FoldSet(LAMBDA c, w : w + Components[c].weight, 0, S)

\* normalize, with the best of the cohort.
Normalize(co, p, c) ==
    LET v == Value(p, c)
        least == Least(Values(co, c))
        most  == Greatest(Values(co, c))
    IN  CASE v = Null -> 0
          [] Components[c].direction = "direct" -> (v * Scale) \div 10
          [] Components[c].direction = "higher" -> IF most = 0 THEN 0 ELSE (v * Scale) \div most
          [] OTHER -> IF v = least THEN Scale ELSE (least * Scale) \div v

\* status.
Status(p) ==
    LET cov == IF Coverage(p) = Null THEN 0 ELSE Coverage(p)
        pairs == Least({p.temp, p.precip})
    IN  IF pairs < 10 \/ cov < 5 THEN "unranked"
        ELSE IF pairs < 30 \/ cov < 8 \/ p.days < 7 THEN "provisionally_ranked"
        ELSE "ranked"

\* The coverage penalty, in eighths.
Penalty(p) == IF Coverage(p) # Null /\ Coverage(p) < 8 THEN Coverage(p) ELSE 8

Sum(co, F(_)) == FoldSet(LAMBDA c, s : s + F(c), 0, Active(co))

\* A score of 1.
Whole(co) == Weight(Active(co)) * Scale * 8

Composite(co, p) ==
    LET Part(c) == Components[c].weight * Normalize(co, p, c)
    IN  Sum(co, Part) * Penalty(p)

\* The components that contribute to the interval, and what they do.
Uncertain(co, p) ==
    {c \in Active(co) : /\ Components[c].direction # "direct"
                        /\ p.half[c] \notin {0, Null} /\ Value(p, c) # 0}

HalfWidth(co, p) ==
    LET Part(c) == IF c \in Uncertain(co, p)
                   THEN (Components[c].weight * Normalize(co, p, c) * p.half[c]) \div Value(p, c)
                   ELSE 0
    IN  Sum(co, Part) * Penalty(p)

Clamp(x, whole) == IF x < 0 THEN 0 ELSE IF x > whole THEN whole ELSE x

\* The row of a provider.
Ranking(co, p) ==
    LET s == Composite(co, p)
        h == HalfWidth(co, p)
        w == Whole(co)
    IN  IF Status(p) = "unranked"
        THEN [status |-> "unranked", score |-> Null, lower |-> Null, upper |-> Null]
        ELSE [status |-> Status(p), score |-> Clamp(s, w),
              lower |-> IF Uncertain(co, p) = {} THEN Null ELSE Clamp(s - h, w),
              upper |-> IF Uncertain(co, p) = {} THEN Null ELSE Clamp(s + h, w)]

RankCohort(co) == [i \in 1..Len(co) |-> Ranking(co, co[i])]

-----------------------------------------------------------------------------
(* RankOrder and orderRankings.                                            *)

CiOverlap(a, b) ==
    Null \notin {a.lower, b.lower} /\ a.lower <= b.upper /\ b.lower <= a.upper

\* A row joins the last group if its interval overlaps that of the group's leader.
Place(rows, groups, i) ==
    IF groups # <<>> /\ CiOverlap(rows[Head(Last(groups))], rows[i])
    THEN [groups EXCEPT ![Len(groups)] = Append(@, i)]
    ELSE Append(groups, <<i>>)

\* The rows of a status as groups, best first; the sort is stable.
RankOrder(rows, status) ==
    LET Before(i, j) == rows[i].score > rows[j].score
                        \/ (rows[i].score = rows[j].score /\ i < j)
        sorted == SetToSortSeq({i \in 1..Len(rows) : rows[i].status = status}, Before)
    IN  FoldLeft(LAMBDA gs, i : Place(rows, gs, i), <<>>, sorted)

\* rankGroups: the rows of the groups, numbered from base.
RankGroups(groups, base) ==
    FlattenSeq([n \in 1..Len(groups) |->
        [k \in 1..Len(groups[n]) |->
            [row |-> groups[n][k], rank |-> base + n - 1, tied |-> Len(groups[n]) > 1]]])

\* Mutant of OrderRankings: the numbering starts again with each status.
OrderRankingsAnew(rows) ==
    LET Unranked(i) == rows[i].status = "unranked"
        last == SelectSeq([i \in 1..Len(rows) |-> i], Unranked)
    IN  RankGroups(RankOrder(rows, "ranked"), 1)
        \o RankGroups(RankOrder(rows, "provisionally_ranked"), 1)
        \o [n \in 1..Len(last) |-> [row |-> last[n], rank |-> 0, tied |-> FALSE]]

\* orderRankings.
OrderRankings(rows) ==
    LET first == RankOrder(rows, "ranked")
        Unranked(i) == rows[i].status = "unranked"
        last == SelectSeq([i \in 1..Len(rows) |-> i], Unranked)
    IN  RankGroups(first, 1)
        \o RankGroups(RankOrder(rows, "provisionally_ranked"), Len(first) + 1)
        \o [n \in 1..Len(last) |-> [row |-> last[n], rank |-> 0, tied |-> FALSE]]

-----------------------------------------------------------------------------
\* RankPeriod for a cell: read, compute, publish (see Publication for the last).
RankPeriod ==
    /\ stored = <<>>
    /\ cohort' \in [1..Size -> CohortInputs]
    /\ stored' = RankCohort(cohort')
    /\ UNCHANGED shown

\* Rows of an earlier batch, of which only the response is asked.
EarlierRows ==
    /\ stored = <<>>
    /\ stored' \in [1..Listed -> Rows]
    /\ UNCHANGED <<cohort, shown>>

\* Rankings: ListRankings returns the rows in any order, here that of stored.
Rankings ==
    /\ stored # <<>> /\ shown = <<>>
    /\ shown' = OrderRankings(stored)
    /\ UNCHANGED <<cohort, stored>>

RankInit == cohort = <<>> /\ stored = <<>> /\ shown = <<>>

RankNext == RankPeriod \/ EarlierRows \/ Rankings

-----------------------------------------------------------------------------
\* A provider that is at least as good as another in everything that counts, and covers
\* at least as much, has at least its score, also when components are left out because
\* some provider lacks them, and when the best value is 0.
DominanceRespected ==
    \A i, j \in 1..Len(cohort) :
        LET p == cohort[i]
            q == cohort[j]
            Better(c) == IF Components[c].direction = "lower"
                         THEN Value(p, c) <= Value(q, c) ELSE Value(p, c) >= Value(q, c)
        IN  (/\ Null \notin {stored[i].score, stored[j].score}
             /\ \A c \in DOMAIN Components :
                  (\A k \in 1..Len(cohort) : Value(cohort[k], c) # Null) => Better(c)
             /\ Coverage(p) >= Coverage(q))
            => stored[i].score >= stored[j].score

\* A weighted mean of ratios to the best is within [0, 1] by itself: what clamp01 cuts
\* off is never part of a score.
ScoreNeedsNoClamp ==
    \A i \in 1..Len(cohort) : Composite(cohort, cohort[i]) \in 0..Whole(cohort)

Rank(i) == LET n == CHOOSE n \in 1..Len(shown) : shown[n].row = i IN shown[n].rank

Leads(i) == \E n \in 1..Len(shown) : /\ shown[n].row = i /\ Rank(i) > 0
                                     /\ \A m \in 1..(n - 1) : shown[m].rank # Rank(i)

\* Ranks are sound: every row is shown once; ranks count up from 1 without gaps; ranked
\* come before provisional and these before unranked ones, which have rank 0; within a
\* status a higher score never has a worse rank; rows share a rank with the group's
\* leader only if their intervals overlap; and, if all rows of the status have intervals,
\* no two leaders overlap, even when other groups stand between them.
RanksAreSound ==
    shown # <<>> =>
      /\ {shown[n].row : n \in 1..Len(shown)} = 1..Len(stored) /\ Len(shown) = Len(stored)
      /\ \E top \in 0..Len(stored) : {Rank(i) : i \in 1..Len(stored)} \ {0} = 1..top
      /\ \A i, j \in 1..Len(stored) :
           LET a == stored[i]
               b == stored[j]
           IN  /\ a.status = "unranked" <=> Rank(i) = 0
               /\ a.status = "ranked" /\ b.status = "provisionally_ranked" => Rank(i) < Rank(j)
               /\ a.status = b.status /\ a.status # "unranked" =>
                    /\ a.score > b.score => Rank(i) <= Rank(j)
                    /\ i # j /\ Leads(i) /\ Rank(i) = Rank(j) => CiOverlap(a, b)
                    /\ (/\ i # j /\ Leads(i) /\ Leads(j)
                        /\ \A k \in 1..Len(stored) :
                             stored[k].status = a.status => stored[k].lower # Null)
                       => ~CiOverlap(a, b)

\* The ranks do not depend on the order in which the database lists the rows, unless two
\* rows of a status have the same score.
ListingIrrelevant ==
    LET n == Len(stored)
        Listing(f) == [i \in 1..n |-> stored[f[i]]]
        RankIn(order, i) == LET k == CHOOSE k \in 1..n : order[k].row = i IN order[k].rank
    IN  (/\ shown # <<>>
         /\ \A i, j \in 1..n : i # j /\ stored[i].status = stored[j].status
                                 => stored[i].score = Null \/ stored[i].score # stored[j].score)
        => \A f \in {g \in [1..n -> 1..n] : \A i, j \in 1..n : i # j => g[i] # g[j]} :
             LET order == OrderRankings(Listing(f))
             IN  \A i \in 1..n : RankIn(order, i) = Rank(f[i])

\* Scores respect what the metrics say, and ranks what the scores and intervals say,
\* whatever is missing and however rows are listed.
RankingIsSound == DominanceRespected /\ ScoreNeedsNoClamp /\ RanksAreSound /\ ListingIrrelevant
=============================================================================
