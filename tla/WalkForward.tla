---------------------------- MODULE WalkForward ----------------------------
(***************************************************************************)
(* A fold of the quant study: labels are built once with everything known, *)
(* and prepare_fold identifies them again at the cutoffs of training,      *)
(* validation and test before it selects any row.                          *)
(*                                                                         *)
(* `outcomes' is what the market store makes of each key: None, or the     *)
(* return over the horizon and the time it was known.                      *)
(***************************************************************************)
EXTENDS RankLabels

CONSTANTS
    OutcomeMaps,      \* the outcome functions of a study, over the panel's keys
    Windows,          \* records [trainStart, validationStart, validationEnd, testStart, testEnd]
    KnowledgeCutoffs  \* when labels may be built, and evaluated

WindowOrdered(w) ==
    /\ w.trainStart < w.validationStart /\ w.validationStart <= w.validationEnd
    /\ w.validationEnd < w.testStart /\ w.testStart <= w.testEnd

ASSUME CutoffAssumption == KnowledgeCutoffs \subseteq Int

ASSUME WindowAssumption ==
    Windows \subseteq [trainStart : Int, validationStart : Int, validationEnd : Int, testStart : Int, testEnd : Int]

ASSUME OutcomeAssumption == \A o \in OutcomeMaps : PanelOutcomes(o)

VARIABLES
    outcomes,
    dataset,    \* None, or the labels of the panel
    fold        \* None, or the result of prepare_fold

foldVars == <<outcomes, dataset, fold>>

FoldInit ==
    /\ outcomes \in OutcomeMaps
    /\ dataset = None
    /\ fold = None

Build ==
    /\ dataset = None
    /\ \E c \in KnowledgeCutoffs : dataset' = BuildLabels(outcomes, c)
    /\ UNCHANGED <<outcomes, fold>>

----------------------------------------------------------------------------
CutoffOf(labels) == (CHOOSE l \in {labels[k] : k \in DOMAIN labels} : TRUE).cutoff

SplitKinds == {"train", "validation", "test"}

SplitKind(day, w) ==
    IF w.trainStart <= day /\ day < w.validationStart THEN "train"
    ELSE IF w.validationStart <= day /\ day <= w.validationEnd THEN "validation"
    ELSE IF w.testStart <= day /\ day <= w.testEnd THEN "test"
    ELSE None

BoundaryOf(kind, w) == IF kind = "train" THEN w.validationStart ELSE w.testStart

\* partition_label; its requirement that ranks were identified before the
\* boundary is Reidentified.
Disposition(k, label, w) ==
    LET kind == SplitKind(k[2], w)
    IN IF label.end = None THEN "unavailable"
       ELSE IF label.end >= DayOf(label.cutoff) THEN "purged"
       ELSE IF kind # "test" /\ label.end >= BoundaryOf(kind, w) THEN "purged"
       ELSE IF ~Supervised(label) THEN "unavailable"
       ELSE "available"

Reidentified(k, label, w) ==
    LET kind == SplitKind(k[2], w)
    IN kind # "test" => label.cutoff <= OpeningOf(BoundaryOf(kind, w))

\* day_partition: the same decision for a whole day, in another order.
DayDisposition(label, kind, w) ==
    IF label.end = None THEN "unavailable"
    ELSE IF kind # "test" /\ label.end >= BoundaryOf(kind, w) THEN "purged"
    ELSE IF label.end >= DayOf(label.cutoff) THEN "purged"
    ELSE "available"

----------------------------------------------------------------------------
(***************************************************************************)
(* training_batch selects by dates and supervision, not by the disposition *)
(* the rows were sorted with.                                              *)
(***************************************************************************)
TrainedFromAnyDay(view, w) ==
    {k \in DOMAIN view : view[k].end # None /\ view[k].end < w.validationStart /\ Supervised(view[k])}

Trained(view, w) ==
    {k \in DOMAIN view :
        /\ k[2] >= w.trainStart
        /\ ScoringOf(k[2]) < OpeningOf(w.validationStart)
        /\ view[k].end # None /\ view[k].end < w.validationStart
        /\ Supervised(view[k])}

\* Each day weighs the same: a row weighs one part in as many as its day has.
Weights(rows) == [k \in rows |-> Cardinality({l \in rows : l[2] = k[2]})]

TrainingChecks(view, rows, w) ==
    \A k \in rows : /\ ScoringOf(k[2]) < OpeningOf(w.validationStart)
                    /\ view[k].ready < OpeningOf(w.validationStart)
                    /\ view[k].cutoff = OpeningOf(w.validationStart)

Earlier(s, t) == IF t < s THEN t ELSE s

\* Ranks of training rows that were identified with the whole dataset.
RanksKept(w, evaluation) == [train |-> dataset, validation |-> dataset, test |-> dataset]

\* The three views of the labels; the test view is capped by the evaluation.
Views(w, evaluation) ==
    LET test == IF evaluation = None THEN dataset ELSE LabelsAtCutoff(dataset, evaluation)
    IN [train |-> LabelsAtCutoff(dataset, OpeningOf(w.validationStart)),
        validation |-> LabelsAtCutoff(dataset, Earlier(OpeningOf(w.testStart), CutoffOf(test))),
        test |-> test]

CanIdentify(w, evaluation) ==
    /\ evaluation # None => ~Widens(dataset, evaluation)
    /\ ~Widens(dataset, OpeningOf(w.validationStart))

Errors == {"HORIZON_COVERAGE_INCOMPLETE", "REIDENTIFY_RANKS_BEFORE_SPLIT", "EMPTY_SPLIT_AFTER_PURGE",
           "EMPTY_TRAINING_AFTER_PURGE", "TRAINING_LABEL_LEAKAGE", "CANNOT_UNCENSOR_WITHOUT_SOURCE"}

ASSUME ErrorAssumption == None \notin Errors \union SplitKinds

Refused(why) == [error |-> why]

InWindow(w) == {k \in DOMAIN dataset : SplitKind(k[2], w) # None}

LabelIn(views, w, k) == views[SplitKind(k[2], w)][k]

Decided(views, w, kind, what) ==
    {k \in InWindow(w) : SplitKind(k[2], w) = kind /\ Disposition(k, LabelIn(views, w, k), w) = what}

\* Whole days, with the rows that have no outcome.
EvaluatedRows(views, w, kind) ==
    {k \in InWindow(w) : SplitKind(k[2], w) = kind} \ Decided(views, w, kind, "purged")

Split(views, w) ==
    LET trained == Trained(views.train, w)
    IN [error |-> None, window |-> w,
        trained |-> [k \in trained |-> views.train[k]],
        weights |-> Weights(trained),
        validation |-> [k \in EvaluatedRows(views, w, "validation") |-> views.validation[k]],
        test |-> [k \in EvaluatedRows(views, w, "test") |-> views.test[k]],
        purged |-> [kind \in SplitKinds |-> Decided(views, w, kind, "purged")],
        unavailable |-> UNION {Decided(views, w, kind, "unavailable") : kind \in SplitKinds}]

Prepared(views, w) ==
    IF \E k \in InWindow(w) : LabelIn(views, w, k).end = None THEN Refused("HORIZON_COVERAGE_INCOMPLETE")
    ELSE IF \E k \in InWindow(w) :
               /\ Disposition(k, LabelIn(views, w, k), w) # "purged"
               /\ ~Reidentified(k, LabelIn(views, w, k), w)
         THEN Refused("REIDENTIFY_RANKS_BEFORE_SPLIT")
    ELSE IF EvaluatedRows(views, w, "validation") = {} \/ EvaluatedRows(views, w, "test") = {}
         THEN Refused("EMPTY_SPLIT_AFTER_PURGE")
    ELSE IF Trained(views.train, w) = {} THEN Refused("EMPTY_TRAINING_AFTER_PURGE")
    ELSE IF ~TrainingChecks(views.train, Trained(views.train, w), w) THEN Refused("TRAINING_LABEL_LEAKAGE")
    ELSE Split(views, w)

FoldOf(w, evaluation) ==
    IF CanIdentify(w, evaluation) THEN Prepared(Views(w, evaluation), w)
    ELSE Refused("CANNOT_UNCENSOR_WITHOUT_SOURCE")

PrepareFold ==
    /\ dataset # None
    /\ fold = None
    /\ \E w \in {v \in Windows : WindowOrdered(v)}, evaluation \in KnowledgeCutoffs \cup {None} :
        fold' = FoldOf(w, evaluation)
    /\ UNCHANGED <<outcomes, dataset>>

FoldNext == Build \/ PrepareFold

FoldSpec == FoldInit /\ [][FoldNext]_foldVars

----------------------------------------------------------------------------
(***************************************************************************)
(* StateInputs.supervision: the state studies keep returns and the times   *)
(* they were known in arrays, and compute a cutoff's training rows and     *)
(* intervals again, day by day, from positions in the sorted returns.      *)
(***************************************************************************)
UsableOnceEnded(k, cutoff) == dataset[k].value # None

Usable(k, cutoff) ==
    dataset[k].value # None /\ dataset[k].outcomeReady < cutoff

SupervisedDays(cutoff) ==
    {d \in {k[2] : k \in DOMAIN dataset} :
        /\ d < DayOf(cutoff)
        /\ \A k \in DayRows(dataset, d) : dataset[k].end # None /\ dataset[k].end < DayOf(cutoff)}

\* From the places of a return among the sorted ones.
PlaceInterval(k, cutoff) ==
    LET known == {l \in DayRows(dataset, k[2]) : Usable(l, cutoff)}
        left == Cardinality({l \in known : dataset[l].value < dataset[k].value})
        right == Cardinality({l \in known : dataset[l].value <= dataset[k].value})
        missing == Cardinality(Member) - Cardinality(known)
    IN [low |-> left + right - 1, high |-> left + right - 1 + 2 * missing]

Supervision(cutoff) ==
    [k \in {l \in DOMAIN dataset : l[2] \in SupervisedDays(cutoff) /\ Usable(l, cutoff)} |-> PlaceInterval(k, cutoff)]

----------------------------------------------------------------------------
(***************************************************************************)
(* Properties.                                                             *)
(***************************************************************************)
FoldReady == fold # None /\ fold.error = None

Openings == {OpeningOf(d) : d \in Day}

\* Hiding what a cutoff hides and ranking again gives the labels that would
\* have been built at that cutoff, reasons included, and they pass the checks
\* of every label.
RecutCommutes ==
    dataset # None => \A c \in Openings :
        ~Widens(dataset, c) =>
            /\ LabelsAtCutoff(dataset, c) = BuildLabels(outcomes, c)
            /\ LabelsValid(LabelsAtCutoff(dataset, c))

\* The state studies train on the rows, and with the intervals, that the label
\* builder gives at the same cutoff.
SupervisionAgrees ==
    dataset # None => \A c \in Openings :
        LET view == LabelsAtCutoff(dataset, c)
            rows == {k \in DOMAIN view : ScoringOf(k[2]) < c /\ Supervised(view[k])}
        IN ~Widens(dataset, c) => Supervision(c) = [k \in rows |-> view[k].interval]

\* What was known of the outcomes at a time.
KnownAt(t) ==
    [k \in DOMAIN outcomes |->
        IF outcomes[k] # None /\ outcomes[k].ready < t THEN outcomes[k] ELSE None]

\* A training target is the one that a study run at the cutoff would have
\* computed, and the batch's own leakage checks never have to refuse it.
TrainsOnThePast ==
    /\ fold # None => fold.error \notin {"TRAINING_LABEL_LEAKAGE", "REIDENTIFY_RANKS_BEFORE_SPLIT"}
    /\ FoldReady =>
        LET cutoff == OpeningOf(fold.window.validationStart)
        IN \A k \in DOMAIN fold.trained :
              /\ fold.trained[k].interval = BuildLabels(KnownAt(cutoff), cutoff)[k].interval
              /\ fold.trained[k].end < fold.window.validationStart

\* Every row of the training window is trained on, purged or reported as
\* unavailable, exactly one of the three, though two rules decide; no row of
\* an evaluated day is left out but by a purge of its whole day, which is also
\* what the rule for whole days says.
FoldAccountsForAll ==
    FoldReady =>
        /\ \A k \in DOMAIN dataset : SplitKind(k[2], fold.window) = "train" =>
            Cardinality({part \in {"trained", "purged", "unavailable"} :
                \/ part = "trained" /\ k \in DOMAIN fold.trained
                \/ part = "purged" /\ k \in fold.purged["train"]
                \/ part = "unavailable" /\ k \in fold.unavailable}) = 1
        /\ DOMAIN fold.trained \subseteq {k \in DOMAIN dataset : SplitKind(k[2], fold.window) = "train"}
        /\ \A kind \in {"validation", "test"} : \A k \in DOMAIN dataset :
            SplitKind(k[2], fold.window) = kind =>
                \/ DayRows(dataset, k[2]) \subseteq fold.purged[kind]
                \/ /\ DayRows(dataset, k[2]) \subseteq DOMAIN fold[kind]
                   /\ DayDisposition(fold[kind][k], kind, fold.window) = "available"

\* Labels cut at an earlier time are the labels built at that time, and the
\* state study's own supervision of a day is that of the labels.
LabelsAgree == RecutCommutes /\ SupervisionAgrees

\* What trains and validates a fold was known before what comes after it, and
\* every row of its window is trained on, reported, purged or unavailable, by
\* two rules that agree at the boundaries.
FoldsSound == TrainsOnThePast /\ FoldAccountsForAll
=============================================================================
