----------------------------- MODULE RankLabels ----------------------------
(***************************************************************************)
(* Labels of the quant study: the percentile of a security's return among  *)
(* the whole pool of its day, as an interval when some of the pool's       *)
(* returns are unknown, and as known at a cutoff.                          *)
(*                                                                         *)
(* A percentile (rank - 1) / (n - 1) is written as its doubled numerator,  *)
(* 2 * rank - 2, which average ranks keep whole; the pool fixes n.         *)
(***************************************************************************)
EXTENDS Nothing, Integers, FiniteSets, Sequences

CONSTANTS
    Member,     \* securities of a pool
    Days,       \* sessions of the calendar
    HorizonOf   \* sessions from scoring to the end of the label

Day == 0 .. Days - 1

Instant(day, slot) == 4 * day + slot
DayOf(time) == time \div 4
OpeningOf(day) == Instant(day, 0)
ScoringOf(day) == Instant(day, 3)

Keys == Member \X Day

ASSUME PoolAssumption == IsFiniteSet(Member) /\ Days \in Nat /\ HorizonOf \in Nat \ {0}

\* Why a key has no return.
Reasons == {"calendar", "horizon", "price", "availability"}

ASSUME NothingAssumption == None \notin Int /\ None \notin Reasons /\ None \notin [low : Int, high : Int]

----------------------------------------------------------------------------
Known(values) == {m \in Member : values[m] # None}

\* Twice the average rank, ascending, of a member among those known.
Rank2(values, m) ==
    LET below == {o \in Known(values) : values[o] < values[m]}
        equal == {o \in Known(values) : values[o] = values[m]}
    IN 2 * Cardinality(below) + Cardinality(equal) + 1

Missing(values) == Cardinality(Member) - Cardinality(Known(values))

\* percentile_intervals: every unknown return may fall on either side.
PercentileInterval(values, m) ==
    IF values[m] = None THEN None
    ELSE [low |-> Rank2(values, m) - 2, high |-> Rank2(values, m) - 2 + 2 * Missing(values)]

Supervised(label) == label.interval # None

----------------------------------------------------------------------------
(***************************************************************************)
(* What is observed of a key: the end of its horizon, its return and the   *)
(* time the return was known, or why there is none.                        *)
(***************************************************************************)
EndOf(day) == IF day + HorizonOf >= Days THEN None ELSE day + HorizonOf

\* _identify: what the cutoff hides is censored before the pool is ranked.
Censored(o, cutoff) ==
    IF o.end # None /\ o.end >= DayOf(cutoff)
    THEN [o EXCEPT !.value = None, !.ready = None, !.reason = "horizon"]
    ELSE IF o.ready # None /\ o.ready >= cutoff
    THEN [o EXCEPT !.value = None, !.ready = None, !.reason = "availability"]
    ELSE o

Latest(times) == IF times = {} THEN None ELSE CHOOSE t \in times : \A u \in times : u <= t

\* Labels of what was seen at a cutoff.
Labelled(seen, cutoff) ==
    LET values(d) == [m \in Member |-> seen[<<m, d>>].value]
        known(d) == {m \in Member : seen[<<m, d>>].value # None}
    IN [k \in DOMAIN seen |->
        [end |-> seen[k].end, value |-> seen[k].value,
         interval |-> PercentileInterval(values(k[2]), k[1]),
         outcomeReady |-> seen[k].ready,
         ready |-> Latest({seen[<<m, k[2]>>].ready : m \in known(k[2])}),
         observed |-> Cardinality(known(k[2])),
         cutoff |-> cutoff,
         reason |-> IF seen[k].value = None THEN seen[k].reason ELSE None]]

Identify(observed, cutoff) == Labelled([k \in DOMAIN observed |-> Censored(observed[k], cutoff)], cutoff)

----------------------------------------------------------------------------
(***************************************************************************)
(* build_label_rows, from the prices; label_rows_at_cutoff, from labels    *)
(* already built, where only a cutoff that is no later is allowed.         *)
(***************************************************************************)
\* outcomes[k] is the return and the time it was known, or None.  A panel has a
\* row for each member on each of its days, and the prices' records see to it
\* that a return is not known before the close of the last day of its horizon.
PanelOutcomes(outcomes) ==
    /\ DOMAIN outcomes \subseteq Keys
    /\ \A k \in DOMAIN outcomes, m \in Member : <<m, k[2]>> \in DOMAIN outcomes
    /\ \A k \in DOMAIN outcomes : outcomes[k] # None =>
          /\ outcomes[k].value \in Int /\ outcomes[k].ready \in Int
          /\ EndOf(k[2]) # None => Instant(EndOf(k[2]), 1) <= outcomes[k].ready

Observed(outcomes, k, cutoff) ==
    LET end == EndOf(k[2])
        nothing(why) == [end |-> end, value |-> None, ready |-> None, reason |-> why]
    IN IF end = None THEN nothing("calendar")
       ELSE IF end >= DayOf(cutoff) THEN nothing("horizon")
       ELSE IF outcomes[k] = None THEN nothing("price")
       ELSE IF outcomes[k].ready >= cutoff THEN nothing("availability")
       ELSE [end |-> end, value |-> outcomes[k].value, ready |-> outcomes[k].ready, reason |-> None]

BuildLabels(outcomes, cutoff) ==
    Identify([k \in DOMAIN outcomes |-> Observed(outcomes, k, cutoff)], cutoff)

Widens(labels, cutoff) == \E k \in DOMAIN labels : cutoff > labels[k].cutoff

\* A label that keeps the interval it had when more was known.
LabelsFiltered(labels, cutoff) ==
    [k \in DOMAIN labels |->
        IF labels[k].ready # None /\ labels[k].ready >= cutoff
        THEN [labels[k] EXCEPT !.value = None, !.interval = None, !.outcomeReady = None, !.cutoff = cutoff]
        ELSE [labels[k] EXCEPT !.cutoff = cutoff]]

LabelsAtCutoff(labels, cutoff) ==
    Identify([k \in DOMAIN labels |->
        [end |-> labels[k].end, value |-> labels[k].value, ready |-> labels[k].outcomeReady,
         reason |-> labels[k].reason]], cutoff)

----------------------------------------------------------------------------
(***************************************************************************)
(* LabelRow and validate_label_groups: what every label is checked for     *)
(* when it is made and whenever labels are read.                           *)
(***************************************************************************)
LabelValid(k, label) ==
    IF Supervised(label)
    THEN /\ label.reason = None
         /\ label.end # None /\ k[2] < label.end
         /\ Instant(label.end, 1) <= label.outcomeReady
         /\ label.outcomeReady <= label.ready
         /\ label.ready < label.cutoff
         /\ label.end < DayOf(label.cutoff)
    ELSE label.value = None /\ label.outcomeReady = None /\ label.reason # None

DayRows(labels, d) == {k \in DOMAIN labels : k[2] = d}

GroupValid(labels, d) ==
    LET rows == DayRows(labels, d)
        supervised == {k \in rows : Supervised(labels[k])}
        values == [m \in Member |-> labels[<<m, d>>].value]
    IN /\ \A k \in rows : labels[k].observed = Cardinality(supervised)
       /\ \A k, l \in rows : /\ labels[k].end = labels[l].end
                             /\ labels[k].cutoff = labels[l].cutoff
                             /\ labels[k].ready = labels[l].ready
       /\ \A k \in rows : labels[k].interval = PercentileInterval(values, k[1])
       /\ \A k \in rows : labels[k].ready = Latest({labels[l].outcomeReady : l \in supervised})

GroupsValid(labels) == \A d \in {k[2] : k \in DOMAIN labels} : GroupValid(labels, d)

LabelsValid(labels) == GroupsValid(labels) /\ \A k \in DOMAIN labels : LabelValid(k, labels[k])
=============================================================================
