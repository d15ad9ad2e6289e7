---------------------------- MODULE ThesisReview ---------------------------
(***************************************************************************)
(* The review of a saved report and its one revision                       *)
(* (src/finauditgate/application/thesis_quality.py).                       *)
(*                                                                         *)
(* The review names stretches of text and proposes changes of inputs; the  *)
(* revision answers every finding and rewrites the stretches.  Texts are   *)
(* those of the report and the reasons of the inputs; a reason has related *)
(* texts, which are reviewed with it.  The words of a text are distinct,   *)
(* so that a stretch is the words from one place to another.               *)
(***************************************************************************)
EXTENDS Integers, SequencesExt, FiniteSetsExt

CONSTANTS
    Texts,       \* the words of each text of the case
    Reasons,     \* the texts that are reasons of inputs
    RelatedTo,   \* of a reason: the texts that are reviewed with it
    Floor,       \* a text keeps half of its words, or as many as this
    Assessments, \* what the review may answer
    Revisions(_) \* what the revision may answer to it

VARIABLES
    assessment, \* [findings: id -> [path, from, to, impact], changes: set of [ids, reason]]
    revision,   \* [edits, outcomes, rating, decided]; None-like: no edits and no outcomes
    reviewed    \* assessed; revised; accepted; refused

reviewVars == <<assessment, revision, reviewed>>

Findings == assessment.findings
Substantive == {f \in DOMAIN Findings : Findings[f].impact # "optional"}
Outcome(f) == revision.outcomes[f]
RelatedPaths(f) == IF Findings[f].path \in Reasons THEN RelatedTo[Findings[f].path] ELSE {}

\* prepare_revision(): a change of inputs rests on financial findings.
Prepared ==
    \A change \in assessment.changes :
        change.ids # {} /\ \A f \in change.ids : f \in DOMAIN Findings /\ Findings[f].impact = "financial"

---------------------------------------------------------------------------
(* apply_revision() *)

Whole(edit) == edit.from = 1 /\ edit.to = Len(Texts[edit.path])
Expected(edit) == SubSeq(Texts[edit.path], edit.from, edit.to)
Rewritten(edit) == edit.words # Expected(edit)
WholeRelated(edit) == \E f \in edit.ids : edit.path \in RelatedPaths(f)

Covers(edit, f) ==
    /\ Findings[f].path = edit.path
    /\ edit.from <= Findings[f].from /\ Findings[f].to <= edit.to

\* Outside the finding's own words an edit keeps what it copied.
KeepsOutside(edit, f) ==
    LET before == SubSeq(Expected(edit), 1, Findings[f].from - edit.from)
        after == SubSeq(Texts[edit.path], Findings[f].to + 1, edit.to)
    IN /\ IsPrefix(before, edit.words) /\ IsSuffix(after, edit.words)
       /\ Len(edit.words) >= Len(before) + Len(after)

EditLegal(edit) ==
    /\ edit.ids # {} /\ edit.words # <<>>
    /\ \A f \in edit.ids : f \in Substantive /\ Outcome(f) # "not_supported"
    /\ \A f \in edit.ids :
          IF edit.path \in RelatedPaths(f) THEN Whole(edit)
          ELSE /\ Covers(edit, f)
               /\ IF WholeRelated(edit) THEN Whole(edit) ELSE KeepsOutside(edit, f)
    /\ Rewritten(edit) \/ WholeRelated(edit)

Edits(path) == {e \in revision.edits : e.path = path}
Disjoint(path) == \A e, d \in Edits(path) : e # d => e.to < d.from \/ d.to < e.from

\* The text with its edits, from the last to the first.
NewText(path) ==
    FoldLeft(LAMBDA text, e : SubSeq(text, 1, e.from - 1) \o e.words \o SubSeq(text, e.to + 1, Len(text)),
             Texts[path], SetToSortSeq(Edits(path), LAMBDA e, d : e.from > d.from))

Collapsed(path) ==
    LET old == Len(Texts[path])
        half == (old + 1) \div 2
        floor == IF half > Floor THEN half ELSE Floor
    IN Len(NewText(path)) < (IF old < floor THEN old ELSE floor)

\* Bug: an edit that leaves its text as it was counts.
TouchedByAny ==
    {f \in DOMAIN Findings : \E e \in revision.edits : f \in e.ids /\ Covers(e, f)}
Touched ==
    {f \in DOMAIN Findings : \E e \in revision.edits : f \in e.ids /\ Rewritten(e) /\ Covers(e, f)}
RelatedTouched ==
    {f \in DOMAIN Findings : \E e \in revision.edits : f \in e.ids /\ e.path \in RelatedPaths(f)}

Material ==
    \E f \in Substantive \intersect Touched :
        /\ Findings[f].impact \in {"financial", "conclusion"} \/ Findings[f].path \in Reasons
        /\ Outcome(f) # "not_supported"

Changed == UNION {change.ids : change \in assessment.changes}

Answered ==
    /\ DOMAIN revision.outcomes = DOMAIN Findings
    /\ \A e \in revision.edits : EditLegal(e)
    /\ \A path \in DOMAIN Texts : Edits(path) # {} => Disjoint(path) /\ ~Collapsed(path)
    /\ \A path \in Reasons : Edits(path) # {} => \A change \in assessment.changes : change.reason # path
    /\ \A f \in Changed : Outcome(f) = "corrected"
    /\ \A f \in Substantive : Outcome(f) \in {"corrected", "unresolved"} =>
          /\ f \in Touched
          /\ Findings[f].path \in Reasons => f \in RelatedTouched
    /\ (revision.rating # "kept" \/ revision.decided) => Material

\* Without a substantive finding no revision is asked for.
Unrevised == [edits |-> {}, outcomes |-> <<>>, rating |-> "kept", decided |-> FALSE]

---------------------------------------------------------------------------

ReviewInit ==
    /\ assessment \in Assessments
    /\ revision = Unrevised
    /\ reviewed = "assessed"

Revise ==
    /\ reviewed = "assessed" /\ Prepared /\ Substantive # {}
    /\ revision' \in Revisions(assessment)
    /\ reviewed' = "revised"
    /\ UNCHANGED assessment

ApplyRevision ==
    /\ reviewed = "revised"
    /\ reviewed' = IF Answered THEN "accepted" ELSE "refused"
    /\ UNCHANGED <<assessment, revision>>

LeaveReport ==
    /\ reviewed = "assessed" /\ Prepared /\ Substantive = {}
    /\ reviewed' = IF assessment.changes = {} THEN "accepted" ELSE "refused"
    /\ UNCHANGED <<assessment, revision>>

Unprepared ==
    /\ reviewed = "assessed" /\ ~Prepared
    /\ reviewed' = "refused"
    /\ UNCHANGED <<assessment, revision>>

ReviewNext == Revise \/ ApplyRevision \/ LeaveReport \/ Unprepared

---------------------------------------------------------------------------
(* Properties. *)

\* The words of a text that no accepted finding names; a text that is related
\* to a finding about a reason is free.
Outside(path) ==
    LET named == {i \in DOMAIN Texts[path] : \E f \in Substantive :
                     Findings[f].path = path /\ Outcome(f) # "not_supported" /\ i \in Findings[f].from .. Findings[f].to}
    IN SelectSeq(Texts[path], LAMBDA w : \A i \in named : Texts[path][i] # w)

Free(path) == \E f \in Substantive : Outcome(f) # "not_supported" /\ path \in RelatedPaths(f)

Survives(words, text) == SelectSeq(text, LAMBDA w : \E i \in DOMAIN words : words[i] = w) = words

\* Of a case whose report, reasons and inputs the review may all revise, over
\* several findings and edits of one text: what no finding names survives in
\* its order; an input, the rating and the use of a scenario change only with
\* the text of a finding about them; no finding is dropped without a change of
\* its words; and a reason that is rewritten has its related text reviewed, and
\* is not rewritten beside its number.
ReviewJustified ==
    reviewed = "accepted" /\ Substantive # {} =>
        /\ \A path \in DOMAIN Texts : ~Free(path) => Survives(Outside(path), NewText(path))
        /\ \A f \in Substantive :
              \/ Outcome(f) = "not_supported"
              \/ NewText(Findings[f].path) # Texts[Findings[f].path]
        /\ \A change \in assessment.changes :
              /\ Edits(change.reason) = {}
              /\ \E f \in change.ids : NewText(Findings[f].path) # Texts[Findings[f].path]
        /\ revision.rating # "kept" \/ revision.decided =>
              \E f \in Substantive :
                  /\ Findings[f].impact # "wording" \/ Findings[f].path \in Reasons
                  /\ NewText(Findings[f].path) # Texts[Findings[f].path]
        /\ \A path \in Reasons : NewText(path) # Texts[path] =>
              \E related \in RelatedTo[path] : Edits(related) # {}
=============================================================================
