---------------------------- MODULE MCQuantStudy ---------------------------
(***************************************************************************)
(* The components of the quant package for TLC.  They share files and no   *)
(* state, so a behaviour exercises one of them, `part'.  Those extended    *)
(* here have variables of their own; RankBounds, which has another pool, is *)
(* an instance.  What a part does not use rests.                           *)
(***************************************************************************)
EXTENDS MarketStore, StateStudies, RunStores, WalkForward, AnalogueSearch, TLC

CONSTANTS s1, s2, m1, m2, m3, m4

VARIABLES part, scores, returns, bounds

----------------------------------------------------------------------------
(* The market store: one security with every kind of row, and one that     *)
(* always trades.                                                          *)

Rows(kinds, closes, precloses) == [kind : kinds, close : closes, preclose : precloses]
Flat(how) == [kind |-> how, close |-> 0, preclose |-> 0]

MCRaw ==
    (s1 :> Rows({"traded", "halted"}, {1}, 0 .. 1) \cup Rows({"traded", "blank"}, {0}, 0 .. 1)
          \cup {Flat(how) : how \in {"amounts", "missing", "conflict", "idle"}})
    @@ (s2 :> {Flat("traded")})

\* s1 becomes s2 after the second session.
Conversion ==
    [old |-> s1, successor |-> s2, oldAnchor |-> 1, effective |-> 1, first |-> 2, last |-> 3, ratio |-> 1, confirmed |-> 3]

Manifest(reviews, conversions, liquidations) ==
    [reviews |-> reviews, conversions |-> conversions, liquidations |-> liquidations]

Review(session, expected, row) ==
    [session |-> session, security |-> s1, expected |-> Flat(expected), row |-> Flat(row)]

MCManifests == {
    Manifest({}, {}, {}),
    Manifest({Review(1, "blank", "halted")}, {Conversion}, {[security |-> s2, published |-> 2, effective |-> 1]}),
    Manifest({Review(2, "conflict", "traded")}, {}, {[security |-> s2, published |-> 1, effective |-> 2]}),
    Manifest({Review(2, "traded", "halted")}, {}, {})}  \* refused

----------------------------------------------------------------------------
(* The folds of two securities.                                            *)

Window(train, validation, validationEnd, test, testEnd) ==
    [trainStart |-> train, validationStart |-> validation, validationEnd |-> validationEnd,
     testStart |-> test, testEnd |-> testEnd]

MCWindows == {
    Window(0, 3, 3, 5, 5), Window(0, 2, 3, 4, 5), Window(1, 3, 4, 5, 5),
    Window(0, 3, 5, 5, 5)}  \* refused

MCOpening(day) == 4 * day

\* An outcome is unknown, or known the evening its horizon of one session
\* ends, or a session later, when a trade confirmed one of its prices.
Shape == {None} \cup {[value |-> 0, delay |-> 0], [value |-> 1, delay |-> 0], [value |-> 0, delay |-> 1]}

OutcomeOf(shape, d) ==
    IF shape = None THEN None ELSE [value |-> shape.value, ready |-> 4 * (d + 1 + shape.delay) + 2]

MCOutcomes ==
    {[k \in {m1, m2} \X {0, 1, 3, 5} |-> OutcomeOf(IF k[2] < 2 THEN early[k] ELSE late[k], k[2])] :
        early \in [{m1, m2} \X {0, 1} -> Shape],
        late \in [{m1, m2} \X {3, 5} -> {[value |-> 0, delay |-> 0]}] \cup [{m1, m2} \X {3, 5} -> {None}]}

MCKnowledgeCutoffs == {MCOpening(8), MCOpening(7), MCOpening(5)}

----------------------------------------------------------------------------
(* The intervals and bounds of a pool of four.                             *)

Ranked == INSTANCE RankBounds WITH
    Member <- {m1, m2, m3, m4}, Days <- 8, HorizonOf <- 1, Score <- 0 .. 1, Return <- 0 .. 1

\* The intervals and the correlation bounds of a pool hold for, and the
\* intervals are met by, the ways its unknown returns may come out.
BoundsHold == part = "bounds" => Ranked!IntervalsTight /\ Ranked!BoundsHold

----------------------------------------------------------------------------
(* The state study over eight half-years of two days.  A label ends `lag'  *)
(* days after its day, in the next half-year for a long lag, and its       *)
(* outcome is available the day after, or twelve days later.               *)

StudyDays == {1, 2} \cup {10 * h + i : <<h, i>> \in (1 .. 8) \X {1, 8}}

CalendarOf(days, lag, late) ==
    [start |-> [h \in 1 .. 9 |-> 10 * h],
     days |-> days,
     ends |-> [d \in days |-> IF d > 70 THEN None ELSE d + lag],
     ready |-> [d \in days |-> IF d > 70 THEN 999 ELSE d + lag + 1 + (IF d \in late THEN 12 ELSE 0)]]

Calendar(lag, late) == CalendarOf(StudyDays, lag, late)

\* Too short for the gates of the first year, and not for those of the second.
ShortCalendar == CalendarOf({d \in StudyDays : d < 10 \/ d > 30}, 3, {})

MCCalendars == {Calendar(3, {}), Calendar(1, {}), Calendar(3, {31, 51}), Calendar(1, {31}), ShortCalendar}

----------------------------------------------------------------------------
NoMarket ==
    /\ manifest = None /\ ordinal = None /\ reference = None /\ previous = None /\ pending = None
    /\ bars = {} /\ prices = {} /\ pools = None /\ reviewed = None /\ phase = None /\ disk = None
NoFold == outcomes = None /\ dataset = None /\ fold = None
NoBounds == scores = None /\ returns = None /\ bounds = None
NoStores == kind = "run" /\ RunInit
NoSearch == distance = None /\ dates = None /\ group = None /\ limit = None /\ answer = None
NoStudy == StudyInit /\ calendar = Calendar(1, {})

MCInit ==
    \/ part = "store" /\ MarketInit /\ NoFold /\ NoBounds /\ NoStores /\ NoSearch /\ NoStudy
    \/ part = "folds" /\ FoldInit /\ NoMarket /\ NoBounds /\ NoStores /\ NoSearch /\ NoStudy
    \/ part = "bounds" /\ Ranked!BoundsInit /\ NoMarket /\ NoFold /\ NoStores /\ NoSearch /\ NoStudy
    \/ part = "stores" /\ RunInit /\ NoMarket /\ NoFold /\ NoBounds /\ NoSearch /\ NoStudy
    \/ part = "search" /\ SearchInit /\ NoMarket /\ NoFold /\ NoBounds /\ NoStores /\ NoStudy
    \/ part = "study" /\ StudyInit /\ NoMarket /\ NoFold /\ NoBounds /\ NoStores /\ NoSearch

boundVars == <<scores, returns, bounds>>

MCNext ==
    \/ part = "store" /\ MarketNext /\ UNCHANGED <<part, foldVars, boundVars, runVars, searchVars, studyVars>>
    \/ part = "folds" /\ FoldNext /\ UNCHANGED <<part, marketVars, boundVars, runVars, searchVars, studyVars>>
    \/ part = "bounds" /\ Ranked!Bound /\ UNCHANGED <<part, marketVars, foldVars, runVars, searchVars, studyVars>>
    \/ part = "stores" /\ RunNext /\ UNCHANGED <<part, marketVars, foldVars, boundVars, searchVars, studyVars>>
    \/ part = "search" /\ SearchNext /\ UNCHANGED <<part, marketVars, foldVars, boundVars, runVars, studyVars>>
    \/ part = "study" /\ StudyNext /\ UNCHANGED <<part, marketVars, foldVars, boundVars, runVars, searchVars>>

MCSpec == MCInit /\ [][MCNext]_<<part, marketVars, foldVars, boundVars, runVars, searchVars, studyVars>>
=============================================================================
