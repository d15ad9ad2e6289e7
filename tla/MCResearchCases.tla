-------------------------- MODULE MCResearchCases --------------------------
(***************************************************************************)
(* The runs that make research Cases, for TLC: the model budget, the files *)
(* of saved Cases, the pairs of an evaluation, and the steps of thesis,    *)
(* judgment, cashflow and research runs.  They share files and no state,   *)
(* so a behaviour exercises one of them, `part'.  Those extended here have  *)
(* variables of their own, which rest in every other part; the variables   *)
(* of the others are the first of x1 .. x9, and what a part does not use   *)
(* is None.                                                                *)
(***************************************************************************)
EXTENDS ModelBudget, CaseStores, PairedRuns, JudgmentTree, NumberMasking, ThesisRun, CashflowRun, ResearchRun,
        ForwardRevision, TLC

VARIABLES part, x1, x2, x3, x4, x5, x6, x7, x8, x9

(* The budget: a short, a long and an oversized prompt.  Base is above the *)
(* price of most prompts, reports reach past a whole reservation, and      *)
(* either limit may be met first: the ceiling has room for one short call  *)
(* more than max_calls, but not for three long ones.                       *)
MCInputPrice == [p \in Prompt |-> CASE p = "short" -> 1 [] p = "long" -> 3 [] OTHER -> 9]

----------------------------------------------------------------------------
(* The stages of a thesis run.                                             *)

MCAnalysts == <<"f", "m">>
MCResearchers == <<"bull", "bear">>
MCRisks == <<"a", "c">>

----------------------------------------------------------------------------
(* A stretch of three sentences, the first with two numbers and the last   *)
(* with none; a contract of at most two rules.                             *)

MCSpots == <<{1, 2}, {3}, {}>>

\* No rule refuses every text.
MCRules ==
    [words : {{}, {2}, {3}}, shown : {{}, {1}, {2, 3}}, hidden : {{}, {1}, {3}}, gone : {{}, {1}, {2}}]
    \ {[words |-> {}, shown |-> {}, hidden |-> {}, gone |-> {}]}

MCContracts == {{r, q} : <<r, q>> \in MCRules \X MCRules}

----------------------------------------------------------------------------
(* Judgments: three records on disk, c above b above a or beside it, and   *)
(* the task, which may reach a shared record by two paths.                 *)

Judgment(node, source, priors, supported, asked, used) ==
    [node |-> node, source |-> source, priors |-> priors, supported |-> supported, asked |-> asked, used |-> used]

Decided == {<<{}, {}>>, <<{"a"}, {}>>, <<{"a"}, {"a"}>>}

MCForests ==
    {[records |-> "a" :> Judgment(n, s, <<>>, x, {}, {})
                  @@ "b" :> Judgment(m, r, p, y, d[1], d[2])
                  @@ "c" :> Judgment(l, 1, q, TRUE, e[1], e[2]),
      task |-> Judgment(t[1], 1, t[2], TRUE, {}, {})] :
        n \in {1, 2}, s \in {1, 2}, x \in BOOLEAN,
        m \in {2, 3}, r \in {1, 2}, p \in {<<>>, <<"a">>}, y \in {TRUE}, d \in Decided,
        l \in {3, 4}, q \in {<<"a">>, <<"a", "b">>, <<"b", "a">>}, e \in Decided,
        t \in {4, 5} \X {<<"c">>, <<"b", "a">>, <<"c", "a">>, <<"a", "c", "b">>}}

----------------------------------------------------------------------------
(* Cashflow statements of four rows, the first a driver.                   *)

Row(kind, fact, amount) == [kind |-> kind, fact |-> fact, amount |-> amount]

MCRows ==
    {Row("header", 0, 0), Row("text", 0, 0), Row("number", 0, 1), Row("pair", 1, 1), Row("pair", 2, 0),
     Row("pair", 3, 2), Row("half", 1, 1), Row("resolved", 1, 1), Row("ambiguous", 0, 1), Row("period", 0, 1)}

MCStatements ==
    {[rows |-> <<Row("pair", 3, 2)>> \o rows, gap |-> 3, strategy |-> strategy, notes |-> <<n, n, m, m>>] :
        rows \in [1 .. 3 -> MCRows], strategy \in {"rules", "adaptive"},
        n \in {"BACKGROUND_ONLY"}, m \in {"NO_MATCHING_DISCLOSURE", "CANDIDATE_DISCLOSURES_FOUND"}}

----------------------------------------------------------------------------
(* Forward drafts with a profit, a loss, an unknown nature, no revenue or  *)
(* no scenario, revised twice.                                             *)

MCInput(v) == [value |-> v, reason |-> "old"]
MCAttribution(nature, v) == [nature |-> nature, value |-> v, reason |-> "old"]

Scenario(revenue, tax, nature, attribution, pe, dividend) ==
    [revenue |-> MCInput(revenue), operating_margin |-> MCInput(2), net_nonoperating_income |-> MCInput(1),
     effective_tax_rate |-> MCInput(tax), noncontrolling_attribution |-> MCAttribution(nature, attribution),
     diluted_ordinary_shares |-> MCInput(2), fx |-> MCInput(1), cash_adjustments |-> MCInput(1),
     cash_capex |-> MCInput(1), exit_pe |-> MCInput(pe), cash_dividend |-> MCInput(dividend)]

Draft(scenarios, quoted, annual) ==
    [common |-> [market_price |-> MCInput(2), shares_per_traded_unit |-> MCInput(1)],
     quoted |-> quoted, annual |-> annual, scenarios |-> scenarios]

MCForecasts ==
    {Draft(<<Scenario(2, 0, "profit", 1, 2, None), Scenario(1, 0, "unknown", 1, 1, 1)>>, "before", TRUE),
     Draft(<<Scenario(1, 0, "loss", 1, 1, 0), Scenario(2, 0, "profit", 0, 1, 0)>>, "before", TRUE),
     Draft(<<Scenario(None, 0, "loss", 1, 1, 0)>>, "none", TRUE),
     Draft(<<Scenario(1, 1, "loss", 0, 1, 0)>>, "same", TRUE),
     Draft(<<Scenario(1, 0, "loss", 0, 0, 0)>>, "before", FALSE),
     Draft(<<>>, "before", TRUE)}

\* A change of one input, expecting what is there or, once, something else;
\* of any other input, one that cannot be expected.
Change(expected, replacement) == [expected |-> expected, replacement |-> replacement]

MCReplacements(draft, target) ==
    LET inputs == IF target[1] = 0 THEN draft.common ELSE draft.scenarios[target[1]]
        here == inputs[target[2]]
        With(values) == {Change(<<here.value>>, [value |-> v, reason |-> "new"]) : v \in values}
    IN IF target[1] > Len(draft.scenarios) \/ target[2] \notin DOMAIN inputs THEN {Change(<<1>>, MCInput(1))}
       ELSE CASE target[2] = "revenue" -> With({2, None}) \cup {Change(<<here.value>>, [here EXCEPT !.reason = "new"]), Change(<<7>>, MCInput(1))}
              [] target[2] = "market_price" -> With({1, None})
              [] target[2] = "exit_pe" -> With({0, None})
              [] target[2] = "diluted_ordinary_shares" -> With({0})
              [] target[2] = "noncontrolling_attribution" ->
                    {Change(<<here.nature, here.value>>, [nature |-> n, value |-> v, reason |-> "new"]) :
                        n \in {"profit", "loss", "unknown"}, v \in {1, 2}}
              [] OTHER -> {}

----------------------------------------------------------------------------
(* The quality review of a report of three texts, with two findings and up *)
(* to two edits of the texts they are about.                               *)

MCTexts == "summary" :> <<1, 2, 3>> @@ "scenario" :> <<4, 5>> @@ "reason" :> <<6, 7>>
MCRelated == "reason" :> {"scenario"}

Finding(place, impact) == [path |-> place[1], from |-> place[2], to |-> place[3], impact |-> impact]
MCPlaces == {<<"summary", 1, 1>>, <<"summary", 2, 3>>, <<"scenario", 2, 2>>, <<"reason", 1, 1>>}

Assessment(findings, changes) == [findings |-> findings, changes |-> changes]

MCAssessments ==
    {Assessment(<<Finding(p, i), Finding(q, j)>>, changes) :
        p \in MCPlaces, q \in MCPlaces, i \in {"wording", "financial", "optional"}, j \in {"wording", "financial"},
        changes \in {{}, {[ids |-> {1}, reason |-> "reason"]}}}
    \cup {Assessment(<<Finding(p, "optional")>>, {}) : p \in MCPlaces}

\* An edit spans the finding or the whole text of one finding, or of the text
\* related to it, and copies, replaces or keeps an end of it.
MCEdits(findings) ==
    LET Words(path, from, to) ==
            LET old == SubSeq(MCTexts[path], from, to)
            IN {old, <<9>>, <<9>> \o Tail(old), SubSeq(old, 1, Len(old) - 1) \o <<9>>}
        Spans(path) ==
            {<<findings[f].from, findings[f].to>> : f \in {g \in DOMAIN findings : findings[g].path = path}}
            \cup {<<1, Len(MCTexts[path])>>}
        Paths(ids) == {findings[f].path : f \in ids} \cup (IF \E f \in ids : findings[f].path = "reason" THEN {"scenario"} ELSE {})
    IN UNION {UNION {UNION {
           {[path |-> path, from |-> span[1], to |-> span[2], words |-> w, ids |-> ids] : w \in Words(path, span[1], span[2])}
           : span \in Spans(path)} : path \in Paths(ids)} : ids \in (SUBSET DOMAIN findings) \ {{}}}

MCRevisions(assessed) ==
    LET edits == MCEdits(assessed.findings)
    IN [edits : {{d, e} : d \in edits, e \in edits} \cup {{}},
        outcomes : {<<o, "corrected">> : o \in {"corrected", "unresolved", "not_supported"}},
        rating : {"kept", "changed"}, decided : {FALSE}]

Quality == INSTANCE ThesisReview WITH
    Texts <- MCTexts, Reasons <- {"reason"}, RelatedTo <- MCRelated, Floor <- 1,
    Assessments <- MCAssessments, Revisions <- MCRevisions,
    assessment <- x1, revision <- x2, reviewed <- x3

----------------------------------------------------------------------------
(* The calls of that review, over three runs.                              *)

Calls == INSTANCE ReviewCalls WITH
    ExtraCalls <- 3, MaxRuns <- 3,
    attempts <- x1, prior <- x2, sameInput <- x3, calls <- x4, asking <- x5,
    retries <- x6, exchanges <- x7, result <- x8, runs <- x9

\* An accepted review changes only what its findings are about, and its reader
\* accepts every sequence of calls a review can have made.
ReviewSound ==
    /\ part = "quality" => Quality!ReviewJustified
    /\ part = "calls" => Calls!ReviewReads

----------------------------------------------------------------------------
(* Two research Cases of filings with three drivers.                       *)

Filing(interim, published, readable) ==
    [interim |-> interim, published |-> published, readable |-> readable, facts |-> {"f"},
     rows |-> <<"a", "b", "c">>, hits |-> "a" :> <<"n">> @@ "b" :> <<>> @@ "c" :> <<"m", "f">>]

Question(filing, subject, cutoff) == [filing |-> filing, subject |-> subject, cutoff |-> cutoff]
Proposal(claims, wants) == [claims |-> claims, wants |-> wants]

MCRequests ==
    {Question(Filing(FALSE, 1, TRUE), "s", 1), Question(Filing(TRUE, 2, TRUE), "s", 2),
     Question(Filing(TRUE, 1, FALSE), "t", 1)}

MCProposals ==
    {Proposal(<<{"f"}>>, <<>>), Proposal(<<{"f", "b"}>>, <<"b", "a">>), Proposal(<<{"n"}>>, <<>>),
     Proposal(<<{"f"}>>, <<"c">>)}

\* One claim or the same twice; what it must reply to, or all but the first.
MCDecisions(page, required) ==
    LET asked == SetToSeq(required) IN
    [claims : {<<{r}>> : r \in EvidenceIds(page)} \union {<<{r}, {r}>> : r \in {CHOOSE r \in page.facts : TRUE}},
     replies : {asked} \union (IF Len(asked) > 1 THEN {Tail(asked)} ELSE {}), outlook : {"up", "down"}]

MCUpdates == {<<1>>, <<1, 2>>, <<2, 1>>, <<1, 1>>}

----------------------------------------------------------------------------
Idle4 == x4 = None /\ x5 = None /\ x6 = None /\ x7 = None /\ x8 = None /\ x9 = None
Idle == x1 = None /\ x2 = None /\ x3 = None /\ Idle4

\* Those with variables of their own at rest, in their initial state.
NoBudget == Init
NoFiles == caseKind = "cashflow" /\ StoreInit
NoPairs == PairedInit
NoTree == judgments = <<>> /\ task = None /\ frames = <<>> /\ cache = {} /\ verdict = "none"
NoMasking == rules = {} /\ maskPhase = "report" /\ sentence = 1 /\ whole = {} /\ shown = {}
NoThesis == ThesisInit
NoStatement ==
    /\ statement = None /\ read = 0 /\ section = FALSE /\ incomplete = FALSE
    /\ drivers = <<>> /\ issues = {} /\ closed = FALSE /\ steps = <<>> /\ finished = FALSE
NoResearch == ResearchInit
NoRevision ==
    /\ base = Draft(<<>>, "before", TRUE) /\ effective = base /\ current = base
    /\ seen = {} /\ applied = <<>> /\ effects = <<>>
    /\ walked = 0 /\ piece = 1 /\ round = 1 /\ revPhase = "none"
RunsRest == NoBudget /\ NoTree /\ NoMasking /\ NoThesis /\ NoStatement /\ NoResearch /\ NoRevision
Resting == RunsRest /\ NoFiles /\ NoPairs

After3 == <<x4, x5, x6, x7, x8, x9>>
All == <<x1, x2, x3, After3>>
Own == <<vars, storeVars, pairedVars, treeVars, maskVars, thesisVars, cashVars, researchVars, revVars>>

MCInit ==
    \/ part = "budget" /\ Resting /\ Idle
    \/ part = "thesis" /\ Resting /\ Idle
    \/ part = "masking" /\ MaskInit /\ NoBudget /\ NoFiles /\ NoPairs /\ NoTree /\ NoThesis /\ NoStatement /\ NoResearch /\ NoRevision /\ Idle
    \/ part = "judgment" /\ TreeInit /\ NoBudget /\ NoFiles /\ NoPairs /\ NoMasking /\ NoThesis /\ NoStatement /\ NoResearch /\ NoRevision /\ Idle
    \/ part = "cashflow" /\ CashInit /\ NoBudget /\ NoFiles /\ NoPairs /\ NoTree /\ NoMasking /\ NoThesis /\ NoResearch /\ NoRevision /\ Idle
    \/ part = "revision" /\ RevInit /\ NoFiles /\ NoPairs /\ NoBudget /\ NoTree /\ NoMasking /\ NoThesis /\ NoStatement /\ NoResearch /\ Idle
    \/ part = "quality" /\ Resting /\ Quality!ReviewInit /\ Idle4
    \/ part = "calls" /\ Resting /\ Calls!CallsInit
    \/ part = "files" /\ StoreInit /\ NoPairs /\ RunsRest /\ Idle
    \/ part = "research" /\ Resting /\ Idle
    \/ part = "paired" /\ Resting /\ Idle

MCNext ==
    \/ part = "budget" /\ Next /\ UNCHANGED <<part, All, storeVars, pairedVars, treeVars, maskVars, thesisVars, cashVars, researchVars, revVars>>
    \/ part = "thesis" /\ ThesisNext /\ UNCHANGED <<part, All, vars, storeVars, pairedVars, treeVars, maskVars, cashVars, researchVars, revVars>>
    \/ part = "masking" /\ MaskNext /\ UNCHANGED <<part, All, vars, storeVars, pairedVars, treeVars, thesisVars, cashVars, researchVars, revVars>>
    \/ part = "judgment" /\ TreeNext /\ UNCHANGED <<part, All, vars, storeVars, pairedVars, maskVars, thesisVars, cashVars, researchVars, revVars>>
    \/ part = "cashflow" /\ CashNext /\ UNCHANGED <<part, All, vars, storeVars, pairedVars, treeVars, maskVars, thesisVars, researchVars, revVars>>
    \/ part = "revision" /\ RevNext /\ UNCHANGED <<part, All, vars, storeVars, pairedVars, treeVars, maskVars, thesisVars, cashVars, researchVars>>
    \/ part = "quality" /\ Quality!ReviewNext /\ UNCHANGED <<part, After3, Own>>
    \/ part = "calls" /\ Calls!CallsNext /\ UNCHANGED <<part, Own>>
    \/ part = "files" /\ StoreNext /\ UNCHANGED <<part, All, vars, pairedVars, treeVars, maskVars, thesisVars, cashVars, researchVars, revVars>>
    \/ part = "research" /\ ResearchNext /\ UNCHANGED <<part, All, vars, storeVars, pairedVars, treeVars, maskVars, thesisVars, cashVars, revVars>>
    \/ part = "paired" /\ PairedNext /\ UNCHANGED <<part, All, vars, storeVars, treeVars, maskVars, thesisVars, cashVars, researchVars, revVars>>

MCSpec == MCInit /\ [][MCNext]_<<part, All, Own>>
=============================================================================
