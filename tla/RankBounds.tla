----------------------------- MODULE RankBounds ----------------------------
(***************************************************************************)
(* rank_ic_bounds: bounds on the rank correlation of scores and returns    *)
(* over a pool some of whose returns are unknown, and the percentile       *)
(* intervals of the same pool.  Ranks are doubled and centred, as in the   *)
(* code.                                                                   *)
(***************************************************************************)
EXTENDS RankLabels, FiniteSetsExt

CONSTANT Score, Return  \* the scores and returns a member may have

VARIABLES scores, returns, bounds

boundVars == <<scores, returns, bounds>>

Size == Cardinality(Member)

Centred(values) == [m \in Member |-> Rank2(values, m) - (Size + 1)]

SumOver(f) == FoldSet(LAMBDA m, total : f[m] + total, 0, Member)
Product(f, g) == SumOver([m \in Member |-> f[m] * g[m]])

Ties(values, v) == Cardinality({m \in Known(values) : values[m] = v})
TieLoss(k) == k * k * k - k

\* Most and least that the squared ranks of a completion add up to: unknown
\* returns that all differ, or that all join the largest tie.
LargestVariance ==
    (TieLoss(Size) - FoldSet(LAMBDA v, t : TieLoss(Ties(returns, v)) + t, 0, {returns[m] : m \in Known(returns)})) \div 3
LargestTie == Max({Ties(returns, returns[m]) : m \in Known(returns)})
LeastVariance ==
    LargestVariance - (TieLoss(LargestTie + Missing(returns)) - TieLoss(LargestTie)) \div 3

\* Where a member's centred rank may lie.
LowRank(m) == IF returns[m] = None THEN 1 - Size ELSE Rank2(returns, m) - (Size + 1)
HighRankHalved(m) == IF returns[m] = None THEN Size - 1 ELSE LowRank(m) + Missing(returns)
HighRank(m) == IF returns[m] = None THEN Size - 1 ELSE LowRank(m) + 2 * Missing(returns)

\* _linear_extreme: start from the low ends and raise the ranks in the order
\* of their coefficients until the ranks add up to zero.
RECURSIVE Raise(_, _, _, _)
Raise(x, left, members, sign) ==
    IF left = 0 \/ members = {} THEN [objective |-> 0, left |-> left]
    ELSE LET m == CHOOSE n \in members : \A o \in members : sign * x[n] >= sign * x[o]
             step == Min({left, HighRank(m) - LowRank(m)})
             rest == Raise(x, left - step, members \ {m}, sign)
         IN [objective |-> x[m] * step + rest.objective, left |-> rest.left]

LowRanks == [m \in Member |-> LowRank(m)]

LinearExtreme(x, sign) ==
    LET raised == Raise(x, 0 - SumOver(LowRanks), Member, sign)
    IN [value |-> Product(x, LowRanks) + raised.objective, feasible |-> raised.left = 0]

\* The correlation itself is a quotient by a square root that only grows with
\* the variances; the bounds keep its parts.
RankIcBounds ==
    LET x == Centred(scores)
        low == LinearExtreme(x, -1)
        high == LinearExtreme(x, 1)
    IN IF Product(x, x) = 0 THEN [reason |-> "CONSTANT_PREDICTION_RANKS"]
       ELSE IF Known(returns) = {} THEN [reason |-> "NO_IDENTIFIED_OUTCOMES"]
       ELSE IF LeastVariance = 0 THEN [reason |-> "RETURN_VARIANCE_NOT_IDENTIFIED_POSITIVE"]
       ELSE IF ~low.feasible \/ ~high.feasible THEN [reason |-> "RANK_BOX_SUM_INFEASIBLE"]
       ELSE [reason |-> None, least |-> LeastVariance, largest |-> LargestVariance,
             low |-> low.value, high |-> high.value,
             sharp |-> Missing(returns) = 0]

BoundsInit ==
    /\ scores \in [Member -> Score]
    /\ returns \in [Member -> Return \cup {None}]
    /\ bounds = None

Bound ==
    /\ bounds = None
    /\ bounds' = RankIcBounds
    /\ UNCHANGED <<scores, returns>>

----------------------------------------------------------------------------
(***************************************************************************)
(* Properties, over every way the unknown returns may have come out: below *)
(* all, among or above the known ones.                                     *)
(***************************************************************************)
Halfway == {2 * v : v \in Return} \cup {2 * v + 1 : v \in Return} \cup {2 * v - 1 : v \in Return}

Completions ==
    {c \in [Member -> Halfway] : \A m \in Known(returns) : c[m] = 2 * returns[m]}

\* The interval of a member holds its percentile in every completion, and
\* each end of it is the percentile in one of them.
IntervalsTight ==
    bounds # None => \A m \in Known(returns) :
        LET interval == PercentileInterval(returns, m)
            percentiles == {Rank2(c, m) - 2 : c \in Completions}
        IN /\ \A p \in percentiles : interval.low <= p /\ p <= interval.high
           /\ interval.low \in percentiles /\ interval.high \in percentiles

\* The correlation of every completion lies within the bounds: its variance
\* between the two variances and its covariance between the two covariances;
\* the boxes can always be filled; an answer is withheld when a completion
\* would have no correlation.
BoundsHold ==
    bounds # None =>
        LET x == Centred(scores)
            variance(c) == Product(Centred(c), Centred(c))
            covariance(c) == Product(x, Centred(c))
        IN /\ bounds.reason # "RANK_BOX_SUM_INFEASIBLE"
           /\ bounds.reason = None => \A c \in Completions :
                /\ bounds.least <= variance(c) /\ variance(c) <= bounds.largest
                /\ bounds.low <= covariance(c) /\ covariance(c) <= bounds.high
                /\ variance(c) > 0
           /\ bounds.reason = "RETURN_VARIANCE_NOT_IDENTIFIED_POSITIVE" => \E c \in Completions : variance(c) = 0
=============================================================================
