--------------------------- MODULE ForwardDrafts ---------------------------
(***************************************************************************)
(* A forward draft, its arithmetic, its edits and the rule's rating        *)
(* (src/finauditgate/core/forward_scenarios.py, forward_revision.py,       *)
(* rating_rule.py).                                                        *)
(*                                                                         *)
(* A draft is the common inputs, the scenarios' inputs, and what the dates *)
(* say: whether the forecast spans a year, and where the quote lies.  An   *)
(* input is an assumption: a value, None where the model proposed none,    *)
(* and its reason.  Ratios are fixed-point numbers of Scale parts, which   *)
(* is a multiple of what they are divided by.                              *)
(***************************************************************************)
EXTENDS Integers, SequencesExt, FiniteSets, Nothing

CONSTANTS Scale

ASSUME ScaleAssumption == Scale \in Nat \ {0}

\* Numbers, and what stands for a price compared with earnings, are not None.
NumbersAreSome == None \notin Int \union (Int \X Int)
ASSUME NumbersAssumption == NumbersAreSome

\* COMMON_FIELDS and SCENARIO_FIELDS, the two adjustments of the cash flow as one.
Common == {"market_price", "shares_per_traded_unit"}
Proposed ==
    {"revenue", "operating_margin", "net_nonoperating_income", "effective_tax_rate", "noncontrolling_attribution",
     "diluted_ordinary_shares", "fx", "cash_adjustments", "cash_capex", "exit_pe", "cash_dividend"}
Positive == Common \union {"diluted_ordinary_shares", "fx"}
Nonnegative == {"cash_capex", "cash_dividend", "noncontrolling_attribution"}

\* _assumption(), _attribution(): the shape of an input.
Inputs(field) ==
    IF field = "noncontrolling_attribution"
    THEN [nature : {"profit", "loss", "unknown"}, value : Int \union {None}, reason : STRING]
    ELSE [value : Int \union {None}, reason : STRING]

\* calculate_forward(): the checks of shape, and those that a value can fail.
ShapedDraft(draft) ==
    /\ draft = [common |-> draft.common, quoted |-> draft.quoted, annual |-> draft.annual, scenarios |-> draft.scenarios]
    /\ draft.quoted \in {"none", "same", "before"} /\ draft.annual \in BOOLEAN
    /\ draft.common \in [Common -> Inputs("market_price")]
    /\ draft.scenarios \in Seq(ToSet(draft.scenarios))
    /\ \A scenario \in ToSet(draft.scenarios) :
          /\ scenario = [field \in Proposed |-> scenario[field]]
          /\ \A field \in Proposed : scenario[field] \in Inputs(field)

LegalInput(field, assumption) ==
    assumption.value # None =>
        /\ field \in Positive => assumption.value > 0
        /\ field \in Nonnegative => assumption.value >= 0

LegalDraft(draft) ==
    /\ \A field \in Common : LegalInput(field, draft.common[field])
    /\ \A s \in DOMAIN draft.scenarios : \A field \in Proposed : LegalInput(field, draft.scenarios[s][field])

---------------------------------------------------------------------------
(* calculate_forward() *)

\* A result is unknown as soon as one of the values it is made of is.
Calculate(values, result) == IF None \in values THEN None ELSE result

Metrics == {"consolidated_net_income", "parent_net_income", "eps_per_traded_unit", "operating_cash_flow",
            "cash_after_capex_proxy", "exit_price", "price_only_break_even_pe",
            "return_ex_dividend", "return_with_dividend"}

\* Bug: a direction that is unknown adds nothing.
EffectOrZero(attribution) ==
    IF attribution.value = None THEN None
    ELSE CASE attribution.nature = "profit" -> - attribution.value
           [] attribution.nature = "loss" -> attribution.value
           [] OTHER -> 0
AttributionEffect(attribution) ==
    IF attribution.value = None \/ attribution.nature = "unknown" THEN None
    ELSE IF attribution.nature = "profit" THEN - attribution.value ELSE attribution.value

\* From the revenue to the earnings of a traded unit and its price.
Pretax(scenario) ==
    LET revenue == scenario.revenue.value
        margin == scenario.operating_margin.value
        other == scenario.net_nonoperating_income.value
    IN Calculate({revenue, margin, other}, revenue * margin + other)
Taxed(pretax, tax) == Calculate({pretax, tax}, pretax * (1 - tax))
Plus(amount, other) == Calculate({amount, other}, amount + other)
Spent(amount, other) == Calculate({amount, other}, amount - other)
PerUnit(parent, units, shares, fx) ==
    Calculate({parent, shares, units, fx}, (parent * units * Scale) \div (shares * fx))

Consolidated(scenario) == Taxed(Pretax(scenario), scenario.effective_tax_rate.value)
Parent(scenario) == Plus(Consolidated(scenario), AttributionEffect(scenario.noncontrolling_attribution))
CashFlow(scenario) == Plus(Consolidated(scenario), scenario.cash_adjustments.value)
Earnings(common, scenario) ==
    PerUnit(Parent(scenario), common.shares_per_traded_unit.value, scenario.diluted_ordinary_shares.value, scenario.fx.value)

\* What a multiple of the earnings makes, the multiple that makes the price,
\* and what is gained on the price.
Priced(annual, eps, pe) ==
    IF annual /\ eps # None /\ eps > 0 /\ pe # None /\ pe > 0 THEN eps * pe ELSE None
BreakEven(annual, eps, comparison) ==
    IF annual /\ eps # None /\ eps > 0 /\ comparison # None THEN <<comparison * Scale, eps>> ELSE None
Gained(exit, dividend, comparison) ==
    Calculate({exit, dividend, comparison}, (exit + dividend * Scale) \div comparison - Scale)

\* The price that returns are compared with.
Comparable(draft) == IF draft.quoted = "before" THEN draft.common["market_price"].value ELSE None

Bridge(draft, s) ==
    LET scenario == draft.scenarios[s]
        eps == Earnings(draft.common, scenario)
        exit == Priced(draft.annual, eps, scenario.exit_pe.value)
    IN [consolidated_net_income |-> Consolidated(scenario),
        parent_net_income |-> Parent(scenario),
        eps_per_traded_unit |-> eps,
        operating_cash_flow |-> CashFlow(scenario),
        cash_after_capex_proxy |-> Spent(CashFlow(scenario), scenario.cash_capex.value),
        exit_price |-> exit,
        price_only_break_even_pe |-> BreakEven(draft.annual, eps, Comparable(draft)),
        return_ex_dividend |-> Gained(exit, 0, Comparable(draft)),
        return_with_dividend |-> Gained(exit, scenario.cash_dividend.value, Comparable(draft))]

\* The missing inputs and the notes of a scenario's results.
Missing(draft, s) ==
    {f \in Proposed : draft.scenarios[s][f].value = None}
    \union {f \in Common : draft.common[f].value = None}
    \union (IF draft.scenarios[s].noncontrolling_attribution.nature = "unknown"
            THEN {"noncontrolling_attribution"} ELSE {})
    \union (IF draft.quoted = "none" THEN {"market_price_date"} ELSE {})

NotPositive(value) == value # None /\ value <= 0
Notes(draft, s) ==
    (IF draft.quoted = "same" THEN {"zero_holding_period"} ELSE {})
    \union (IF ~draft.annual THEN {"not_annual"} ELSE {})
    \union (IF NotPositive(Earnings(draft.common, draft.scenarios[s])) THEN {"eps_not_positive"} ELSE {})
    \union (IF NotPositive(draft.scenarios[s].exit_pe.value) THEN {"pe_not_positive"} ELSE {})

---------------------------------------------------------------------------
(* apply_forward_revision(): every target once, and as it was proposed for. *)

Input(draft, target) ==
    IF target[1] = 0 THEN draft.common[target[2]] ELSE draft.scenarios[target[1]][target[2]]

WithInput(draft, target, assumption) ==
    IF target[1] = 0 THEN [draft EXCEPT !.common[target[2]] = assumption]
    ELSE [draft EXCEPT !.scenarios[target[1]][target[2]] = assumption]

Targets(draft) ==
    ({0} \X Common) \union ((DOMAIN draft.scenarios) \X Proposed)

\* The exact value, and for the attribution its direction.
Expectation(target, assumption) ==
    IF target[2] = "noncontrolling_attribution" THEN <<assumption.nature, assumption.value>> ELSE <<assumption.value>>

\* change: [target, expected, replacement]
Applicable(draft, seen, change) ==
    /\ change.target \in Targets(draft) \ seen
    /\ change.replacement \in Inputs(change.target[2])
    /\ change.expected = Expectation(change.target, Input(draft, change.target))

Changes(draft, change) == change.replacement # Input(draft, change.target)

---------------------------------------------------------------------------
(* rule_rating(), for horizons of twelve and of six months *)

Annualized(value, months) ==
    IF months = 12 THEN value
    ELSE IF value <= - Scale THEN - Scale
    ELSE ((Scale + value) * (Scale + value)) \div Scale - Scale

TotalReturn(bridge) ==
    IF bridge.return_with_dividend # None THEN bridge.return_with_dividend ELSE bridge.return_ex_dividend
ScenarioReturn(draft, s) == TotalReturn(Bridge(draft, s))

\* The bands, from Sell to Buy, of a mean over n scenarios.
Band(total, n) ==
    LET hundredths == total * 100
        percent == n * Scale
    IN IF hundredths >= 20 * percent THEN 4
       ELSE IF hundredths >= 5 * percent THEN 3
       ELSE IF hundredths > -5 * percent THEN 2
       ELSE IF hundredths > -20 * percent THEN 1 ELSE 0

\* The returns of all scenarios, added.
AddedUp(returns) ==
    LET sum[n \in 0 .. Len(returns)] == IF n = 0 THEN 0 ELSE sum[n - 1] + returns[n]
    IN sum[Len(returns)]

RuleRating(draft, months) ==
    IF draft.scenarios = <<>> \/ \E s \in DOMAIN draft.scenarios : ScenarioReturn(draft, s) = None THEN None
    ELSE Band(AddedUp([s \in DOMAIN draft.scenarios |-> Annualized(ScenarioReturn(draft, s), months)]),
              Len(draft.scenarios))
=============================================================================
