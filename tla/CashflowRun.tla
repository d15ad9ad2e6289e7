---------------------------- MODULE CashflowRun ----------------------------
(***************************************************************************)
(* The cashflow check and its bounded investigation                        *)
(* (src/finauditgate/core/cashflow.py).                                    *)
(*                                                                         *)
(* The rows between profit and operating cash flow become drivers, a row   *)
(* that cannot be used becomes an issue, and the working-capital section   *)
(* is complete only if nothing in it was left out.  Then the notes are     *)
(* searched for at most MaxSearches drivers, chosen by the rules, by the   *)
(* model, or by the rules after a fruitless search of the model.           *)
(*                                                                         *)
(* A row is abstracted to how _pair() reads it:                            *)
(*   header      the section of operating assets and liabilities begins    *)
(*   text        no amount                                                 *)
(*   number      an amount without a tagged fact                           *)
(*   pair        a fact of each period                                     *)
(*   half        a fact of one period, and no counterpart                  *)
(*   resolved    a fact of one period whose counterpart is found           *)
(*   ambiguous   facts that contradict each other                          *)
(*   period      facts of another period                                   *)
(***************************************************************************)
EXTENDS Integers, SequencesExt, Selections

CONSTANTS
    Statements,
    MaxSearches, \* of a run
    Shown        \* how many drivers an investigator is shown

\* The kinds of a row, those that become drivers, and what a search finds.
Kinds == {"header", "text", "number", "pair", "half", "resolved", "ambiguous", "period"}
Usable == {"pair", "half", "resolved"}
Disclosures == {"CANDIDATE_DISCLOSURES_FOUND", "NO_MATCHING_DISCLOSURE", "BACKGROUND_ONLY"}

StatementsAssumption ==
    \A s \in Statements :
        /\ s.rows \in Seq(ToSet(s.rows)) /\ \A r \in ToSet(s.rows) : r.kind \in Kinds
        /\ \A i \in DOMAIN s.rows : s.notes[i] \in Disclosures
ASSUME StatementsAreRead == StatementsAssumption
ASSUME SearchesAssumption == MaxSearches \in Nat \ {0} /\ Shown \in Nat

VARIABLES
    statement, \* [rows, gap, strategy, notes]
    read,      \* rows read
    section,   \* whether the header was met
    incomplete,
    drivers, issues,
    closed,
    steps,     \* the searches: [action, origin, feedback]
    finished

cashVars == <<statement, read, section, incomplete, drivers, issues, closed, steps, finished>>

ThisRow == statement.rows[read + 1]

CashInit ==
    /\ statement \in Statements
    /\ read = 0 /\ section = FALSE /\ incomplete = FALSE
    /\ drivers = <<>> /\ issues = {} /\ closed = FALSE
    /\ steps = <<>> /\ finished = FALSE

---------------------------------------------------------------------------
(* analyze() *)

\* The same facts as a row before: concept, period and value.
Seen == \E d \in ToSet(drivers) : d.fact = ThisRow.fact /\ d.whole = (ThisRow.kind # "half")

\* Bug: a row met again leaves the section as it was.
FlawedTagged == ThisRow.kind \in {"number", "ambiguous", "period"}
Flawed == ThisRow.kind \in {"number", "ambiguous", "period"} \/ (ThisRow.kind \in Usable /\ Seen)

Issue ==
    CASE ThisRow.kind = "ambiguous" -> {"AMBIGUOUS_ROW_FACTS"}
      [] ThisRow.kind = "period" -> {"ADJUSTMENT_PERIOD_MISMATCH"}
      [] ThisRow.kind \in Usable ->
            (IF ThisRow.kind = "half" THEN {"ADJUSTMENT_HAS_UNTAGGED_COMPARATIVE_VALUE"} ELSE {})
            \union IF Seen THEN {"DUPLICATE_ADJUSTMENT_ROW"} ELSE {}
      [] OTHER -> {}

ReadRow ==
    /\ ~closed /\ read < Len(statement.rows)
    /\ section' = (section \/ ThisRow.kind = "header")
    /\ incomplete' = (incomplete \/ (section /\ Flawed))
    /\ issues' = issues \union Issue
    /\ drivers' = IF ThisRow.kind \in Usable /\ ~Seen
                  THEN Append(drivers, [row |-> read + 1, fact |-> ThisRow.fact, amount |-> ThisRow.amount,
                                        whole |-> ThisRow.kind # "half", inSection |-> section])
                  ELSE drivers
    /\ read' = read + 1
    /\ UNCHANGED <<statement, closed, steps, finished>>

Total(ds) == FoldLeft(LAMBDA total, d : total + d.amount, 0, ds)
Members == Those(drivers, {d \in ToSet(drivers) : d.inSection})
SectionComplete == Members # <<>> /\ ~incomplete /\ \A d \in ToSet(Members) : d.whole

\* By the size of their change, then in the order of the rows.
Before(d, e) == d.amount > e.amount \/ (d.amount = e.amount /\ d.row < e.row)
Orderings(ds) ==
    {[i \in DOMAIN ds |-> ds[p[i]]] :
        p \in {q \in Bijection(DOMAIN ds, DOMAIN ds) : \A i, j \in DOMAIN ds : i < j => Before(ds[q[i]], ds[q[j]])}}

\* The drivers by the size of their change, and what the bridge leaves open.
CloseBridge ==
    /\ ~closed /\ read = Len(statement.rows)
    /\ closed' = TRUE
    /\ drivers' \in Orderings(drivers)
    /\ issues' = issues \union IF Total(drivers) # statement.gap THEN {"CASHFLOW_BRIDGE_UNRECONCILED"} ELSE {}
    /\ UNCHANGED <<statement, read, section, incomplete, steps, finished>>

---------------------------------------------------------------------------
(* The investigation. *)

Available == {i \in DOMAIN drivers : i <= Shown}
Finish == 0
Invalid == -1
Searched(done) == {s.action : s \in ToSet(done)}

\* rule_action()
RuleAction(done) ==
    LET open == {i \in Available : i \notin Searched(done) /\ drivers[i].amount # 0}
    IN IF open = {} THEN Finish ELSE Min(open)

\* choice_origin()
\* Bug: the rules take over after any search.
OriginAfterAny(done) ==
    IF statement.strategy = "rules" THEN "RULES"
    ELSE IF done # <<>> THEN "RULE_FALLBACK" ELSE "MODEL"
Origin(done) ==
    IF statement.strategy = "rules" THEN "RULES"
    ELSE IF done # <<>> /\ Last(done).feedback \in {"NO_MATCHING_DISCLOSURE", "BACKGROUND_ONLY"}
    THEN "RULE_FALLBACK" ELSE "MODEL"

\* perform()
Feedback(done, action) ==
    CASE action = Invalid -> "INVALID_ACTION"
      [] action = Finish -> "FINISHED"
      [] action \notin Available \union {Finish, Invalid} -> "ACTION_NOT_ALLOWED"
      [] action \in Available /\ action \in Searched(done) -> "REPEATED_SEARCH_STOPPED"
      [] OTHER -> statement.notes[drivers[action].row]

Continues(feedback) == feedback \in {"CANDIDATE_DISCLOSURES_FOUND", "NO_MATCHING_DISCLOSURE", "BACKGROUND_ONLY"}

SearchNotes ==
    /\ closed /\ ~finished /\ Len(steps) < MaxSearches
    /\ \E action \in IF Origin(steps) = "MODEL" THEN {Invalid, Finish} \union 1 .. Shown + 1
                     ELSE {RuleAction(steps)} :
          LET feedback == Feedback(steps, action) IN
          /\ steps' = Append(steps, [action |-> action, origin |-> Origin(steps), feedback |-> feedback])
          /\ finished' = (~Continues(feedback) \/ Len(steps) + 1 = MaxSearches)
    /\ UNCHANGED <<statement, read, section, incomplete, drivers, issues, closed>>

CashNext == ReadRow \/ CloseBridge \/ SearchNotes

CashSpec == CashInit /\ [][CashNext]_cashVars

---------------------------------------------------------------------------
(* The replay of a record. *)

SearchesReplay(done) ==
    /\ Len(done) <= MaxSearches
    /\ \A i \in DOMAIN done :
          LET before == SubSeq(done, 1, i - 1)
              fruitless == i > 1 /\ done[i - 1].feedback \in {"NO_MATCHING_DISCLOSURE", "BACKGROUND_ONLY"}
          IN /\ done[i].origin = IF statement.strategy = "rules" THEN "RULES"
                                 ELSE IF fruitless THEN "RULE_FALLBACK" ELSE "MODEL"
             /\ done[i].origin # "MODEL" => done[i].action = RuleAction(before)
             /\ done[i].feedback = Feedback(before, done[i].action)
             /\ i > 1 => Continues(done[i - 1].feedback)

\* The rows of the section that state an amount.
Stated ==
    {i \in DOMAIN statement.rows :
        /\ statement.rows[i].kind \notin {"text", "header"}
        /\ \E j \in 1 .. i - 1 : statement.rows[j].kind = "header"}

\* A section is complete only if every amount it states is counted once and in
\* both periods, however rows repeat, contradict each other or lack a fact.
CountedOnce ==
    closed /\ SectionComplete =>
        /\ {d.row : d \in ToSet(Members)} = Stated
        /\ \A i, j \in DOMAIN Members : Members[i].row = Members[j].row => i = j
        /\ \A d \in ToSet(Members) : d.amount = statement.rows[d.row].amount

\* The rules search what was not searched and never stop a run that has
\* something left to search.
RulesGoOn ==
    \A i \in DOMAIN steps : steps[i].origin # "MODEL" =>
        /\ steps[i].feedback \notin {"INVALID_ACTION", "ACTION_NOT_ALLOWED", "REPEATED_SEARCH_STOPPED"}
        /\ steps[i].feedback = "FINISHED" =>
              \A d \in Available : drivers[d].amount = 0 \/ d \in Searched(SubSeq(steps, 1, i - 1))

\* The drivers account for every amount of a complete section, the rules search
\* all there is to search, and what was run replays.
InvestigationSound == CountedOnce /\ RulesGoOn /\ (finished => SearchesReplay(steps))
=============================================================================
