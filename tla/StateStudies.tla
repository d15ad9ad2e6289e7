---------------------------- MODULE StateStudies ----------------------------
(***************************************************************************)
(* The state study of quant/state_study.py and state_meta.py, with         *)
(* StateInputs.supervision() of state_data.py: half-year models, their     *)
(* out-of-sample predictions, risk calibration, gates and yearly forecasts *)
(* are each computed at a cutoff from artifacts of this and earlier        *)
(* cutoffs, kept in files and reused by every later demand.                *)
(*                                                                         *)
(* An artifact is abstracted to the days whose outcomes it was computed    *)
(* from, directly or through the artifacts it reads.  The calls of the     *)
(* code are a stack per process; a process may be killed between two       *)
(* artifacts or while it writes one.  Days are integers; a day stands for  *)
(* the securities scored on it.                                            *)
(***************************************************************************)
EXTENDS Nothing, Selections, SequencesExt, FiniteSets

CONSTANTS
    Workers,   \* processes that run the study
    Halves,    \* the last half-year that is a cutoff
    First,     \* the first half-year that may be a block: that of 2013
    Annual,    \* half-years that start a year to be forecast
    Calendars, \* [start, days, ends, ready]: first day of a half-year; the days,
               \* the last day of each label and the day its outcome is available
    MaxTorn,   \* bound: files left by a process killed in the write
    Torn

VARIABLES
    calendar,
    saved,  \* by artifact: the days its content rests on, None, or Torn
    stacks  \* by process: the artifacts being asked for, the innermost first

studyVars == <<calendar, saved, stacks>>

Cutoffs == 1..Halves
Artifacts ==
    ({"view", "tensor", "metric", "models", "block", "risk", "gates", "forecast"} \X Cutoffs)
    \union ({"validation"} \X Cutoffs \X Cutoffs)

ASSUME HalfAssumption == Halves \in Nat /\ First \in Nat \ {0} /\ Annual \subseteq Cutoffs

\* Half-years follow each other, and a label that ends has a day.
ASSUME CalendarAssumption ==
    \A c \in Calendars :
        /\ c.days \subseteq Int
        /\ \A h \in 1..(Halves + 1) : c.start[h] \in Int
        /\ \A h, k \in 1..(Halves + 1) : h <= k => c.start[h] <= c.start[k]
        /\ \A d \in c.days : c.ends[d] \in Int \union {None} /\ c.ready[d] \in Int

---------------------------------------------------------------------------
(* What is known when. *)

DaysOf(c, h) == {d \in c.days : c.start[h] <= d /\ d < c.start[h + 1]}

\* StateInputs.supervision()
\* Bug: an outcome counts as known on the day after its label ends.
KnownByEnd(c, h) == {d \in c.days : c.ends[d] # None /\ c.ends[d] < c.start[h]}
KnownBefore(c, h) ==
    {d \in c.days :
        /\ d < c.start[h]
        /\ c.ends[d] # None /\ c.ends[d] < c.start[h]
        /\ c.ready[d] < c.start[h]}

\* The data begin early enough for the queries of the first half-year: without
\* a memory no learning tensor is made, and no study comes about.
ASSUME HistoryAssumption == \A c \in Calendars : KnownBefore(c, 1) # {}

\* The half-years before a cutoff whose last label ended before it.
Ended(c, h) ==
    {k \in First..(h - 1) :
        \E d \in DaysOf(c, k) : /\ \A e \in DaysOf(c, k) : e <= d
                                /\ c.ends[d] # None /\ c.ends[d] < c.start[h]}

LastTwo(S) == {k \in S : Cardinality({j \in S : j > k}) < 2}

\* inner_blocks(): the two last of them, if there are as many.
TooShort(c, h) == Cardinality(Ended(c, h)) < 2
Inner(c, h) == LastTwo(Ended(c, h))

\* StateMeta.blocks_before(): those that could be predicted.
BlocksBefore(c, h) == {k \in Ended(c, h) : ~TooShort(c, k)}

InOrder(S) == Those([h \in Cutoffs |-> h], S)
Each(kind, S) == [i \in DOMAIN InOrder(S) |-> <<kind, InOrder(S)[i]>>]

\* rows_before(): predictions of a block whose outcomes are known by now.
RowsKnown(c, h) == {k \in BlocksBefore(c, h) : DaysOf(c, k) \intersect KnownBefore(c, h) # {}}

---------------------------------------------------------------------------
(* The artifacts each function asks for, in its order. *)

\* tensor(): each query of the memory is matched with the memory of its half.
TensorNeeds(c, h) == Each("view", {h} \union {k \in 1..h : DaysOf(c, k) \intersect KnownBefore(c, h) # {}})

\* validate_metric(): the metric of a block, its memory, what is known now.
ValidationNeeds(h, k) == << <<"metric", k>>, <<"view", k>>, <<"view", h>> >>

\* fit()
ModelNeeds(c, h) ==
    FlattenSeq([i \in DOMAIN InOrder(Inner(c, h)) |->
                   LET k == InOrder(Inner(c, h))[i]
                   IN << <<"tensor", k>>, <<"metric", k>>, <<"validation", h, k>> >>])
    \o << <<"tensor", h>>, <<"view", h>> >>

RowNeeds(c, h) == << <<"view", h>> >> \o Each("block", BlocksBefore(c, h))

\* block(): models, calibration and memory of the start of the block.
\* Bug: the block is predicted with the models of its end.
BlockNeedsAtEnd(h) == << <<"models", h>>, <<"risk", h>>, <<"view", h + 1>> >>
BlockNeeds(h) == << <<"models", h>>, <<"risk", h>>, <<"view", h>> >>

\* gates(): both gates are validated on the two last blocks, the second one
\* with the first gate of the start of each.
GateNeeds(c, h) ==
    << <<"risk", h>> >> \o RowNeeds(c, h)
    \o FlattenSeq([i \in DOMAIN InOrder(LastTwo(BlocksBefore(c, h))) |->
           LET k == InOrder(LastTwo(BlocksBefore(c, h)))[i]
           IN RowNeeds(c, k)
              \o IF RowsKnown(c, k) = {} THEN <<>> ELSE << <<"block", k>>, <<"gates", k>> >>])

\* forecast()
ForecastNeeds(h) == << <<"models", h>>, <<"risk", h>>, <<"gates", h>>, <<"view", h>> >>

NeedsOf(c, a) ==
    CASE a[1] = "view" -> <<>>
      [] a[1] = "tensor" -> TensorNeeds(c, a[2])
      [] a[1] = "metric" -> << <<"tensor", a[2]>> >>
      [] a[1] = "validation" -> ValidationNeeds(a[2], a[3])
      [] a[1] = "models" -> ModelNeeds(c, a[2])
      [] a[1] = "block" -> BlockNeeds(a[2])
      [] a[1] = "risk" -> RowNeeds(c, a[2])
      [] a[1] = "gates" -> GateNeeds(c, a[2])
      [] a[1] = "forecast" -> ForecastNeeds(a[2])

\* The outcomes a function reads itself.
\* Bug: a gate is validated on all of a block.
OutcomesOfAll(c, h) == UNION {DaysOf(c, k) : k \in LastTwo(BlocksBefore(c, h))}
Outcomes(c, h) ==
    {d \in UNION {DaysOf(c, k) : k \in {j \in LastTwo(BlocksBefore(c, h)) : RowsKnown(c, j) # {}}} :
        c.ready[d] < c.start[h]}

OwnOf(c, a) ==
    CASE a[1] = "view" -> KnownBefore(c, a[2])
      [] a[1] = "gates" -> Outcomes(c, a[2])
      [] OTHER -> {}

\* STATE_EMPTY_SUPERVISION, STATE_INNER_HISTORY_TOO_SHORT, STATE_GATE_HISTORY_EMPTY
RefusesOf(c, a) ==
    \/ a[1] = "view" /\ KnownBefore(c, a[2]) = {}
    \/ a[1] = "models" /\ TooShort(c, a[2])
    \/ a[1] = "gates" /\ RowsKnown(c, a[2]) = {}

\* schedule()
\* Bug: the blocks are scheduled only at the years' own cutoffs.
BaseOfYears(c) == Annual
BaseOf(c) == Annual \union UNION {BlocksBefore(c, h) : h \in Annual}

\* Tables of the above.
Needs == [c \in Calendars |-> [a \in Artifacts |-> NeedsOf(c, a)]]
Base == [c \in Calendars |-> BaseOf(c)]
InnerCutoffs == [c \in Calendars |-> UNION {Inner(c, h) : h \in BaseOf(c)}]
Own == [c \in Calendars |-> [a \in Artifacts |-> OwnOf(c, a)]]
Refusing == [c \in Calendars |-> {a \in Artifacts : RefusesOf(c, a)}]

---------------------------------------------------------------------------

StudyInit ==
    /\ calendar \in Calendars
    /\ saved = [a \in Artifacts |-> None]
    /\ stacks = [w \in Workers |-> <<>>]

Top(w) == Head(stacks[w])
Lacking(a) == Those(Needs[calendar][a], {n \in Artifacts : saved[n] \in {None, Torn}})

\* The command line: fit or forecast a year.
Begin(w) ==
    /\ stacks[w] = <<>>
    /\ \E h \in Annual, kind \in {"models", "forecast"} :
          /\ saved[<<kind, h>>] = None
          /\ stacks' = [stacks EXCEPT ![w] = << <<kind, h>> >>]
    /\ UNCHANGED <<calendar, saved>>

\* An artifact on disk is checked against its receipt and used.
Reuse(w) ==
    /\ stacks[w] # <<>> /\ saved[Top(w)] # None
    /\ stacks' = [stacks EXCEPT ![w] = IF saved[Top(w)] = Torn THEN <<>> ELSE Tail(@)]
    /\ UNCHANGED <<calendar, saved>>

Call(w) ==
    /\ stacks[w] # <<>> /\ saved[Top(w)] = None
    /\ IF Top(w) \in Refusing[calendar] THEN stacks' = [stacks EXCEPT ![w] = <<>>]
       ELSE /\ Lacking(Top(w)) # <<>>
            /\ stacks' = [stacks EXCEPT ![w] = <<Head(Lacking(Top(w)))>> \o @]
    /\ UNCHANGED <<calendar, saved>>

\* The artifact is computed and written: whole, or the process is killed in the
\* write; arrays are linked when they are complete.
Make(w) ==
    /\ stacks[w] # <<>> /\ saved[Top(w)] = None
    /\ Top(w) \notin Refusing[calendar] /\ Lacking(Top(w)) = <<>>
    /\ \/ /\ saved' = [saved EXCEPT ![Top(w)] =
                          Own[calendar][Top(w)] \union UNION {saved[n] : n \in ToSet(Needs[calendar][Top(w)])}]
          /\ stacks' = [stacks EXCEPT ![w] = Tail(@)]
       \/ /\ Top(w)[1] \notin {"block", "forecast"}
          /\ MaxTorn > Cardinality({a \in Artifacts : saved[a] = Torn})
          /\ saved' = [saved EXCEPT ![Top(w)] = Torn]
          /\ stacks' = [stacks EXCEPT ![w] = <<>>]
    /\ UNCHANGED calendar

Kill(w) ==
    /\ stacks[w] # <<>>
    /\ stacks' = [stacks EXCEPT ![w] = <<>>]
    /\ UNCHANGED <<calendar, saved>>

StudyNext == \E w \in Workers : Begin(w) \/ Reuse(w) \/ Call(w) \/ Make(w) \/ Kill(w)

StudySpec == StudyInit /\ [][StudyNext]_studyVars

---------------------------------------------------------------------------
(* Properties. *)

\* Whatever was saved for a cutoff rests only on outcomes that were available
\* before that cutoff, through every artifact it was computed from, in whatever
\* order years are demanded and processes are killed (state_meta.py:1-6).
NoLookAhead ==
    \A a \in Artifacts : saved[a] \notin {None, Torn} =>
        \A d \in saved[a] : calendar.ready[d] < calendar.start[a[2]]

\* The schedule printed before the work names every cutoff at which models, and
\* every one at which metrics, are ever fitted (schedule()).
WithinSchedule ==
    /\ \A h \in Cutoffs : saved[<<"models", h>>] # None => h \in Base[calendar]
    /\ \A k \in Cutoffs : saved[<<"metric", k>>] # None => k \in InnerCutoffs[calendar]

\* A history that is too short is met only at the cutoff the study was asked
\* for: the blocks, the gates and the memories it recurs to always have theirs.
OnlyYearsRefused ==
    \A w \in Workers : stacks[w] # <<>> /\ Top(w) \in Refusing[calendar] => Top(w)[2] = Last(stacks[w])[2]

\* Nothing saved for a cutoff rests on an outcome that was not available before
\* it, models and metrics are fitted at the cutoffs of the schedule only, and a
\* history that is too short is met only where the study was asked.
StudySound == NoLookAhead /\ WithinSchedule /\ OnlyYearsRefused
=============================================================================
