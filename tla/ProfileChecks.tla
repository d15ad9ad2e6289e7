--------------------------- MODULE ProfileChecks ---------------------------
(***************************************************************************)
(* The order in which the two evaluators of src/finauditgate/core          *)
(* (synthetic_profile.py, private_profile.py) look for what is wrong with  *)
(* a task and with the candidate proposed for it, and what each finding    *)
(* decides.  The first finding decides; with none, the calculation of the  *)
(* candidate is the accepted answer.                                       *)
(*                                                                         *)
(* A task is its identity and the faults the profile finds in it, a        *)
(* candidate the faults of each evidence item and of its calculation.      *)
(***************************************************************************)
EXTENDS Naturals, Sequences, FiniteSets, Selections

Decision == {"ACCEPT", "RETRY", "ABSTAIN", "HUMAN_REVIEW"}
ReviewedModes == {"PRIVATE_DEV", "POST_FREEZE_EVAL"}

\* What can be wrong with a task.  A question that the reviewed profile has
\* no evidence for ("unanswerable") is a fault of the reviewed profile only.
TaskFault == {"source", "question", "published", "cutoff", "mode", "risk", "late", "unanswerable"}

ItemFault == {"identity", "blank", "locator", "span", "claim", "value", "unprinted",
              "corroboration", "semantics", "number"}

CalculationFault == {"shape", "operation", "contract", "output_unit", "quantize", "operands",
                     "role", "semantics", "period", "domain"}

Candidate == [items : Seq(SUBSET ItemFault), calculation : SUBSET CalculationFault]

---------------------------------------------------------------------------

\* The faults of this set that are looked for, first to last.
InOrder(order, faults) == Those(order, faults)

Found(order, faults, decision) ==
    LET found == InOrder(order, faults)
    IN [i \in DOMAIN found |-> [decision |-> decision[found[i]], reason |-> found[i]]]

Reports(set, decision) == [f \in set |-> decision]

\* A number of evidence items other than two.
Count(candidate, few, many) ==
    IF Len(candidate.items) < 2 THEN <<[decision |-> few, reason |-> "count"]>>
    ELSE IF Len(candidate.items) > 2 THEN <<[decision |-> many, reason |-> "count"]>>
    ELSE <<>>

\* Every check of the first item comes before any of the second.
Items(candidate, order, decision) ==
    Found(order, candidate.items[1], decision) \o Found(order, candidate.items[2], decision)

\* The first report decides.
Verdict(reports) ==
    IF reports = <<>> THEN [decision |-> "ACCEPT", reason |-> "none"] ELSE Head(reports)

---------------------------------------------------------------------------
(* evaluate_profiled_candidate() *)

SyntheticTaskOrder == <<"source", "question", "mode", "risk", "late">>
SyntheticItemOrder == <<"identity", "blank", "locator", "claim", "value", "number", "semantics">>
SyntheticCalculationOrder == <<"output_unit", "quantize", "operands", "semantics", "period", "domain">>

SyntheticCalculation ==
    [f \in CalculationFault |->
        CASE f \in {"operation", "domain"} -> "ABSTAIN"
          [] f \in {"shape", "operands"} -> "RETRY"
          [] OTHER -> "HUMAN_REVIEW"]

SyntheticItem == [f \in ItemFault |-> IF f = "semantics" THEN "HUMAN_REVIEW" ELSE "RETRY"]

SyntheticVerdict(faults, candidate) ==
    LET first == Found(SyntheticTaskOrder, faults, Reports(TaskFault, "HUMAN_REVIEW"))
                     \o Found(<<"shape", "operation">>, candidate.calculation, SyntheticCalculation)
                     \o Count(candidate, "RETRY", "ABSTAIN")
    IN Verdict(IF first # <<>> THEN first
               ELSE Items(candidate, SyntheticItemOrder, SyntheticItem)
                        \o Found(SyntheticCalculationOrder, candidate.calculation, SyntheticCalculation))

---------------------------------------------------------------------------
(* evaluate_private_candidate() *)

ReviewedTaskOrder == <<"source", "question", "published", "cutoff", "mode", "risk", "late", "unanswerable">>
ReviewedItemOrder ==
    <<"identity", "locator", "span", "value", "unprinted", "corroboration", "semantics", "number">>
ReviewedCalculationOrder ==
    <<"operation", "contract", "output_unit", "quantize", "operands", "role", "domain">>

ReviewedCalculation ==
    [f \in CalculationFault |->
        CASE f \in {"operation", "domain"} -> "ABSTAIN"
          [] f \in {"operands", "role"} -> "RETRY"
          [] OTHER -> "HUMAN_REVIEW"]

ReviewedItem ==
    [f \in ItemFault |-> IF f \in {"corroboration", "semantics"} THEN "HUMAN_REVIEW" ELSE "RETRY"]

\* Bug: the task is compared with the profile last.
ReviewedTaskLast(faults, candidate) ==
    LET count == Count(candidate, "RETRY", "RETRY")
    IN Verdict(IF count # <<>> THEN count
               ELSE Items(candidate, ReviewedItemOrder, ReviewedItem)
                        \o Found(ReviewedCalculationOrder, candidate.calculation, ReviewedCalculation)
                        \o Found(ReviewedTaskOrder, faults, Reports(TaskFault, "HUMAN_REVIEW")))
ReviewedVerdict(faults, candidate) ==
    LET first == Found(ReviewedTaskOrder, faults, Reports(TaskFault, "HUMAN_REVIEW"))
                     \o Count(candidate, "RETRY", "RETRY")
    IN Verdict(IF first # <<>> THEN first
               ELSE Items(candidate, ReviewedItemOrder, ReviewedItem)
                        \o Found(ReviewedCalculationOrder, candidate.calculation, ReviewedCalculation))
=============================================================================
