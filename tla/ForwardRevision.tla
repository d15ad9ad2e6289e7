-------------------------- MODULE ForwardRevision --------------------------
(***************************************************************************)
(* The edits of a forward draft and what each of them did                  *)
(* (src/finauditgate/core/forward_revision.py, revision_effects.py).       *)
(*                                                                         *)
(* The proposed edits are applied in their order, then the draft is        *)
(* calculated again; the effects walk the same edits from the old draft,   *)
(* calculating it before and after each piece.  The run revises the draft  *)
(* once, and the review revises what the run left.                         *)
(***************************************************************************)
EXTENDS ForwardDrafts, Selections

CONSTANTS
    Forecasts,          \* the drafts that are revised
    Replacements(_, _), \* what may be proposed for a target of a draft
    MaxEdits,           \* of the first revision, and one less of every later one
    Rounds              \* how many revisions follow each other

\* A draft that is revised was calculated.
ForecastsAssumption == \A draft \in Forecasts : ShapedDraft(draft) /\ LegalDraft(draft)
ASSUME ForecastsAreLegal == ForecastsAssumption

VARIABLES
    base,      \* the draft the edits were proposed for
    seen,      \* targets
    applied,   \* the edits that change something
    effective,
    current,   \* the draft the effects have walked to
    effects,   \* the rows of the pieces walked
    walked, piece, \* the edits walked, and the next piece of the one after
    round, revPhase \* editing; effects; done; refused

revVars == <<base, seen, applied, effective, current, effects, walked, piece, round, revPhase>>

StartRevision(draft, r) ==
    /\ base' = draft /\ effective' = draft /\ current' = draft
    /\ seen' = {} /\ applied' = <<>> /\ effects' = <<>> /\ walked' = 0 /\ piece' = 1
    /\ round' = r /\ revPhase' = "editing"

RevInit ==
    /\ base \in Forecasts /\ effective = base /\ current = base
    /\ seen = {} /\ applied = <<>> /\ effects = <<>> /\ walked = 0 /\ piece = 1
    /\ round = 1 /\ revPhase = "editing"

\* One change of the list; a refused one refuses the revision.
Edit(target, expected, replacement) ==
    /\ revPhase = "editing" /\ Cardinality(seen) <= MaxEdits - round
    /\ LET change == [target |-> target, expected |-> expected, replacement |-> replacement] IN
       IF ~Applicable(effective, seen, change)
       THEN revPhase' = "refused" /\ UNCHANGED <<seen, applied, effective>>
       ELSE /\ seen' = seen \union {target}
            /\ UNCHANGED revPhase
            /\ IF Changes(effective, change)
               THEN /\ applied' = Append(applied, [target |-> target, before |-> Input(effective, target), after |-> replacement])
                    /\ effective' = WithInput(effective, target, replacement)
               ELSE UNCHANGED <<applied, effective>>
    /\ UNCHANGED <<base, current, effects, walked, piece, round>>

\* The new inputs are checked by the calculator.
Recalculate ==
    /\ revPhase = "editing"
    /\ revPhase' = IF LegalDraft(effective) THEN "effects" ELSE "refused"
    /\ UNCHANGED <<base, seen, applied, effective, current, effects, walked, piece, round>>

---------------------------------------------------------------------------
(* revision_effects() *)

\* The pieces of an edit: an attribution changes its direction, then its amount.
Pieces(edit) ==
    IF edit.target[2] = "noncontrolling_attribution"
       /\ edit.before.nature # edit.after.nature /\ edit.before.value # edit.after.value
    THEN <<[edit.before EXCEPT !.nature = edit.after.nature], edit.after>>
    ELSE <<edit.after>>

EffectMetrics == {"parent_net_income", "eps_per_traded_unit", "operating_cash_flow", "return_with_dividend"}

\* Bug: only the first scenario shows what a common input did.
ScopeFirst(target) == IF target[1] = 0 THEN {1} ELSE {target[1]}
Scope(target) == IF target[1] = 0 THEN DOMAIN base.scenarios ELSE {target[1]}

Effect ==
    /\ revPhase = "effects" /\ walked < Len(applied)
    /\ LET edit == applied[walked + 1]
           new == WithInput(current, edit.target, Pieces(edit)[piece])
       IN /\ current' = new
          /\ effects' = Append(effects,
                [s \in Scope(edit.target) |->
                    [m \in EffectMetrics |-> <<Bridge(current, s)[m], Bridge(new, s)[m]>>]])
          /\ IF piece < Len(Pieces(edit)) THEN piece' = piece + 1 /\ UNCHANGED walked
             ELSE piece' = 1 /\ walked' = walked + 1
    /\ UNCHANGED <<base, seen, applied, effective, round, revPhase>>

Attributed ==
    /\ revPhase = "effects" /\ walked = Len(applied)
    /\ revPhase' = "done"
    /\ UNCHANGED <<base, seen, applied, effective, current, effects, walked, piece, round>>

\* The review's changes are proposed for what the run's revision left.
ReviewDraft ==
    /\ revPhase = "done" /\ round < Rounds
    /\ StartRevision(effective, round + 1)

RevNext ==
    \/ \E target \in Targets(effective) \union {<<3, "revenue">>, <<1, "market_price">>} :
          \E change \in Replacements(effective, target) : Edit(target, change.expected, change.replacement)
    \/ Recalculate \/ Effect \/ Attributed \/ ReviewDraft

RevSpec == RevInit /\ [][RevNext]_revVars

---------------------------------------------------------------------------
(* Properties. *)

\* The pieces of the edits, walked one after another from the old draft, end
\* at the new one; no draft between fails the calculator; and the effects they
\* show of each scenario, over common and own inputs, add up to what the whole
\* revision changed of it, an unknown number breaking off and resuming.
EffectsOf(s) == Those(effects, {e \in ToSet(effects) : s \in DOMAIN e})
EffectsTelescope ==
    /\ revPhase \in {"effects", "done"} => LegalDraft(current)
    /\ revPhase = "done" =>
          /\ current = effective
          /\ \A s \in DOMAIN base.scenarios, m \in EffectMetrics :
                LET rows == EffectsOf(s)
                IN /\ rows = <<>> => Bridge(base, s)[m] = Bridge(effective, s)[m]
                   /\ rows # <<>> => /\ rows[1][s][m][1] = Bridge(base, s)[m]
                                     /\ rows[Len(rows)][s][m][2] = Bridge(effective, s)[m]
                   /\ \A i \in 1 .. Len(rows) - 1 : rows[i][s][m][2] = rows[i + 1][s][m][1]

\* What a metric is calculated from.
Needs(m) ==
    LET income == {"revenue", "operating_margin", "net_nonoperating_income", "effective_tax_rate"}
        eps == income \union {"noncontrolling_attribution", "diluted_ordinary_shares", "shares_per_traded_unit", "fx"}
        quote == {"market_price", "market_price_date"}
    IN CASE m = "consolidated_net_income" -> income
         [] m = "parent_net_income" -> income \union {"noncontrolling_attribution"}
         [] m = "eps_per_traded_unit" -> eps
         [] m = "operating_cash_flow" -> income \union {"cash_adjustments"}
         [] m = "cash_after_capex_proxy" -> income \union {"cash_adjustments", "cash_capex"}
         [] m = "exit_price" -> eps \union {"exit_pe"}
         [] m = "price_only_break_even_pe" -> eps \union quote
         [] m = "return_ex_dividend" -> eps \union quote \union {"exit_pe"}
         [] m = "return_with_dividend" -> eps \union quote \union {"exit_pe", "cash_dividend"}

Bars(m) ==
    CASE m = "exit_price" -> {"not_annual", "eps_not_positive", "pe_not_positive"}
      [] m = "price_only_break_even_pe" -> {"not_annual", "eps_not_positive", "zero_holding_period"}
      [] m \in {"return_ex_dividend", "return_with_dividend"} ->
            {"not_annual", "eps_not_positive", "pe_not_positive", "zero_holding_period"}
      [] OTHER -> {}

ReasonsKnown(bridge, missing, notes) ==
    \A m \in Metrics :
        bridge[m] = None <=> missing \intersect Needs(m) # {} \/ notes \intersect Bars(m) # {}

\* Through every edit, a number is unknown exactly where an input it is
\* calculated from is missing or a note bars it: nothing is filled in, and
\* nothing is lost without a word.  The rule rates a draft only when it knows a
\* return of every scenario, and an edit that lowers no return lowers no rating.
NullsExplained ==
    /\ LegalDraft(effective) =>
          \A s \in DOMAIN effective.scenarios :
              ReasonsKnown(Bridge(effective, s), Missing(effective, s), Notes(effective, s))
    /\ revPhase = "done" =>
          \A months \in {6, 12} :
              LET old == RuleRating(base, months)
                  new == RuleRating(effective, months)
              IN /\ new = None <=>
                       effective.scenarios = <<>> \/ \E s \in DOMAIN effective.scenarios : Bridge(effective, s).return_ex_dividend = None
                 /\ old # None /\ new # None
                    /\ (\A s \in DOMAIN base.scenarios : ScenarioReturn(effective, s) >= ScenarioReturn(base, s))
                    => new >= old
\* Both, of every revision.
RevisionExplained == EffectsTelescope /\ NullsExplained
=============================================================================
