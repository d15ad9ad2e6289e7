----------------------------- MODULE CaseRules -----------------------------
(***************************************************************************)
(* The vocabulary of a research Case: what a journal entry is, the status  *)
(* a history leads to, and which entry may come next.  These are the rules *)
(* that src/finauditgate/application/module.py applies each time it loads  *)
(* a Case; they hold no state and are shared by the modules that do.       *)
(*                                                                         *)
(* A material (a workpaper or a review record) is content addressed, and   *)
(* the event that publishes it is a function of it, so one record stands   *)
(* for both.  A journal head names the hash of its last event, and an      *)
(* event the hash of the event before it: a head is therefore modelled by  *)
(* the history, the sequence of materials, that the hash chain commits to. *)
(***************************************************************************)
EXTENDS Integers, Sequences, FiniteSets, SequencesExt

CONSTANTS
    Output,     \* what the model can make of one analysis task
    Accepted,   \* the outputs the audit gate decides ACCEPT for
    Reason,     \* the (stripped) reasons a reviewer may give
    Stamp       \* the values of the clock that a review record may carry

ASSUME AcceptedAssumption == Accepted \subseteq Output

ReviewAction == {"APPROVE", "RETURN", "REJECT"}
CaseStatus == {"CREATED", "AWAITING_REVIEW", "APPROVED", "RETURNED", "REJECTED"}

\* A run is named by its task, whose id carries the analysis number, and by
\* what came out of it.
Run == [number : Nat \ {0}, output : Output]
MachineAccepts(run) == run.output \in Accepted

Workpaper == [kind : {"workpaper"}, run : Run]
Review == [kind : {"review"}, run : Run, action : ReviewAction,
           reason : Reason, at : Stamp]
Material == Workpaper \union Review
History == Seq(Material)

---------------------------------------------------------------------------

Analyses(h) == {n \in DOMAIN h : h[n].kind = "workpaper"}
RunsOf(h) == {h[n].run : n \in Analyses(h)}
LatestRun(h) == h[Max(Analyses(h))].run

\* The number that the next analysis task gets.
NextNumber(h) == Cardinality(Analyses(h)) + 1

ResultingStatus(action) ==
    CASE action = "APPROVE" -> "APPROVED"
      [] action = "RETURN"  -> "RETURNED"
      [] action = "REJECT"  -> "REJECTED"

StatusAfter(m) ==
    IF m.kind = "workpaper" THEN "AWAITING_REVIEW" ELSE ResultingStatus(m.action)

Status(h) == IF h = <<>> THEN "CREATED" ELSE StatusAfter(Last(h))

\* Bug: an approved Case may be analysed again.
ReopensApproved(h) == Status(h) \in {"CREATED", "RETURNED", "APPROVED"}
MayAnalyse(h) == Status(h) \in {"CREATED", "RETURNED"}

\* Bug: the reviewer's approval overrides the machine's decision.
TrustsReviewer(action, run) == TRUE
Approvable(action, run) == action = "APPROVE" => MachineAccepts(run)

\* Whether material m may be the entry after history h.
MayFollow(h, m) ==
    \/ /\ m.kind = "workpaper"
       /\ MayAnalyse(h)
       /\ m.run.number = NextNumber(h)
       /\ m.run \notin RunsOf(h)
    \/ /\ m.kind = "review"
       /\ Status(h) = "AWAITING_REVIEW"
       /\ m.run = LatestRun(h)
       /\ Approvable(m.action, m.run)

LegalHistory(h) ==
    \A n \in DOMAIN h : MayFollow(SubSeq(h, 1, n - 1), h[n])

=============================================================================
