--------------------------- MODULE CaseLifecycle ---------------------------
(***************************************************************************)
(* What a Case promises its clients, with no journal, lock or crash in     *)
(* sight: a status that moves along                                        *)
(*     CREATED -> AWAITING_REVIEW -> APPROVED | RETURNED | REJECTED        *)
(* where only RETURNED leads on, one human decision per machine run, an    *)
(* approval only of what the machine accepted, and a change packet only of *)
(* the run that was approved.  CaseJournal implements it.                  *)
(***************************************************************************)
EXTENDS Integers, FiniteSets

CONSTANTS
    Output, Accepted, Reason, Stamp,    \* as in CaseRules
    NoRun                               \* the current run of a fresh Case

VARIABLES
    status,     \* the status a reader of the Case sees
    current,    \* the run that is under, or last under, review
    analysed,   \* every run the Case has owned
    reviews,    \* every review record the Case has owned
    packets     \* the exported research-change packets

vars == <<status, current, analysed, reviews, packets>>

Rules == INSTANCE CaseRules

Init ==
    /\ status = "CREATED"
    /\ current = NoRun
    /\ analysed = {}
    /\ reviews = {}
    /\ packets = {}

\* RunAnalysis takes effect.
Analyse(run) ==
    /\ status \in {"CREATED", "RETURNED"}
    /\ \A old \in analysed : old.number < run.number
    /\ status' = "AWAITING_REVIEW"
    /\ current' = run
    /\ analysed' = analysed \union {run}
    /\ UNCHANGED <<reviews, packets>>

\* SubmitReview takes effect.
Decide(review) ==
    /\ status = "AWAITING_REVIEW"
    /\ review.run = current
    /\ \A old \in reviews : old.run # current
    /\ review.action = "APPROVE" => current.output \in Accepted
    /\ status' = Rules!ResultingStatus(review.action)
    /\ reviews' = reviews \union {review}
    /\ UNCHANGED <<current, analysed, packets>>

\* ExportChangePacket takes effect: the packet cites the approval.
Export ==
    /\ status = "APPROVED"
    /\ packets' = {r \in reviews : r.run = current}
    /\ UNCHANGED <<status, current, analysed, reviews>>

Next ==
    \/ \E number \in 1 .. Cardinality(analysed) + 1, output \in Output :
           Analyse([number |-> number, output |-> output])
    \/ \E action \in Rules!ReviewAction, reason \in Reason, at \in Stamp :
           Decide([kind |-> "review", run |-> current, action |-> action,
                   reason |-> reason, at |-> at])
    \/ Export

Spec == Init /\ [][Next]_vars

=============================================================================
