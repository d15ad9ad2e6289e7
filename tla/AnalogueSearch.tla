--------------------------- MODULE AnalogueSearch ---------------------------
(***************************************************************************)
(* The search for historical analogues of one query (src/quant/models/    *)
(* analogues.py FittedAnalogue._candidates, _select and _neighbors).       *)
(*                                                                         *)
(* Rows with the same values missing are in one tree, which returns its    *)
(* nearest rows, in any order among equal distances.  At most k \div       *)
(* Divisor rows of one date are taken, so a shortlist of each tree may not *)
(* be enough; it is doubled until what is beyond it cannot matter, and     *)
(* ties at the last distance are fetched.                                  *)
(*                                                                         *)
(* Rows are numbered in the order of distance, then date and symbol, which *)
(* loses nothing: a tree does not see the numbers, and what is selected in *)
(* that order is a set.  Distances are ranks; rounding (1e-14 in the code) *)
(* is left out.                                                            *)
(***************************************************************************)
EXTENDS Nothing, Integers, FiniteSets

CONSTANTS
    Count,   \* rows in memory
    Groups,  \* patterns of missing values
    Dates,
    Ks,      \* neighbours asked for: 32 and 64
    Divisor, \* 8
    Widen    \* the first shortlist is Widen times the largest k: 2

\* A memory has rows (ANALOGUE_TRAIN_SHAPE), and some neighbours are asked for.
ASSUME SearchAssumption ==
    /\ Count \in Nat \ {0} /\ Divisor \in Nat \ {0} /\ Widen \in Nat \ {0}
    /\ Ks \subseteq Nat \ {0} /\ IsFiniteSet(Ks) /\ Ks # {}

VARIABLES
    distance, dates, group, \* of each row
    limit,                \* of the shortlist of each tree
    answer                \* by k: the rows; None until found

searchVars == <<distance, dates, group, limit, answer>>

Memory == 1 .. Count
Largest == CHOOSE k \in Ks : \A j \in Ks : k >= j
GroupRows(g) == {r \in Memory : group[r] = g}
Least(a, b) == IF a < b THEN a ELSE b

\* Rows are ordered by distance; days and groups are numbered as they appear.
Numbered(f) == \A r \in Memory : f[r] = 1 \/ \E q \in 1..(r - 1) : f[q] = f[r] - 1

SearchInit ==
    /\ distance \in [Memory -> 0..(Count - 1)]
    /\ distance[1] = 0 /\ \A r \in 2..Count : distance[r] - distance[r - 1] \in {0, 1}
    /\ dates \in {f \in [Memory -> Dates] : Numbered(f)}
    /\ group \in {f \in [Memory -> Groups] : Numbered(f)}
    /\ limit = Widen * Largest
    /\ answer = None

\* _select(): in order, no more of a date than its share.
Share(k) == k \div Divisor
Considered(taken, r, k) ==
    IF Cardinality(taken) < k /\ Cardinality({q \in taken : dates[q] = dates[r]}) < Share(k)
    THEN taken \union {r} ELSE taken
Select(found, k) ==
    LET take[r \in 0 .. Count] ==
            IF r = 0 THEN {} ELSE IF r \in found THEN Considered(take[r - 1], r, k) ELSE take[r - 1]
    IN take[Count]

\* _candidates(): the nearest rows of each tree; among equals, any.
Nearest(g, s) ==
    /\ Cardinality(s) = Least(limit, Cardinality(GroupRows(g)))
    /\ \A r \in s, q \in GroupRows(g) \ s : distance[r] <= distance[q]

Shortlists == {found \in SUBSET Memory : \A g \in Groups : Nearest(g, found \intersect GroupRows(g))}

Farthest(s) == CHOOSE d \in {distance[r] : r \in s} : \A r \in s : distance[r] <= d

\* The distance beyond which a tree may hold more.
Beyond(g, found) ==
    IF GroupRows(g) \subseteq found THEN Count ELSE Farthest(found \intersect GroupRows(g))

\* _neighbors(): the last distance taken, for any k.
\* Bug: the last distance taken for the first k.
BoundaryOfFirst(results) ==
    LET k == CHOOSE k \in Ks : \A j \in Ks : k <= j IN
    IF results[k] = {} THEN Count ELSE Farthest(results[k])
Boundary(results) ==
    IF \A k \in Ks : results[k] = {} THEN Count ELSE Farthest(UNION {results[k] : k \in Ks})

Query ==
    /\ answer = None
    /\ \E found \in Shortlists :
          LET results == [k \in Ks |-> Select(found, k)]
              boundary == Boundary(results)
              exhausted == \A g \in Groups : limit >= Cardinality(GroupRows(g))
              complete == \A k \in Ks : Cardinality(results[k]) = k
              ready == exhausted \/ (complete /\ \A g \in Groups : Beyond(g, found) >= boundary)
              ties == IF \A g \in Groups : Beyond(g, found) > boundary THEN {}
                      ELSE {r \in Memory : distance[r] <= boundary} IN
          IF ready
          THEN answer' = [k \in Ks |-> Select(found \union ties, k)] /\ UNCHANGED limit
          ELSE limit' = 2 * limit /\ UNCHANGED answer
    /\ UNCHANGED <<distance, dates, group>>

\* predict_arrays(): fewer neighbours than asked for are no support.
Predict(k) == IF Cardinality(answer[k]) < k THEN None ELSE answer[k]

SearchNext == Query

SearchSpec == SearchInit /\ [][SearchNext]_searchVars

---------------------------------------------------------------------------
(* Properties. *)

\* "Date caps are applied to the globally ordered candidates, never to an
\* arbitrary fixed shortlist": whatever the trees return first among equals and
\* however often the shortlist was doubled, a query gets, for each k, what it
\* would get from all rows in memory, or a fallback if they have too few dates.
SearchExact ==
    answer # None => \A k \in Ks :
        Predict(k) = LET all == Select(Memory, k) IN IF Cardinality(all) < k THEN None ELSE all
=============================================================================
