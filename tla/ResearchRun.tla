---------------------------- MODULE ResearchRun ----------------------------
(***************************************************************************)
(* An investment research Case (src/finauditgate/application/             *)
(* research_case.py, adapters/tradingagents_research.py and                *)
(* research_contract.py, core/research_evidence.py): the facts of a filing *)
(* are audited, two drafts are made apart from each other, at most two     *)
(* drivers are looked up in the notes, a decision is formed, and only then *)
(* is the prior Case read and, if the evidence is of the explained form,   *)
(* the change explained.                                                   *)
(*                                                                         *)
(* The model answers anything in Drafts, and decisions around what it is   *)
(* asked for.  The researcher that comes with the program checks every     *)
(* answer; another one, of which the application knows the interface only, *)
(* may check nothing and look up what it likes.  Prose is left out: a      *)
(* claim is the set of its references.                                     *)
(***************************************************************************)
EXTENDS Integers, SequencesExt, FiniteSets, Selections, Nothing

CONSTANTS
    Requests,   \* [filing, subject, cutoff], a filing being [interim, published, readable,
                \*  facts, rows, hits]: rows are the drivers in order
    Drafts,     \* [claims: sequence of sets of references, wants: sequence of drivers]
    Decisions(_, _), \* what the model may answer to a page and what it must reply to
    Updates,    \* the explanations it may give: the prior claims each accounts for
    Listed,     \* drivers that may be asked for: 6 in the code
    MaxLookups, \* 2
    MaxReplies, \* 12
    MaxRuns

Cited(claims) == UNION ToSet(claims)

VARIABLES
    audits,     \* stored evidence records: <<filing, drivers>>
    decisions,  \* saved by an execution before it read a prior Case
    cases,
    run,        \* the execution under way
    runs

\* A driver of the rows has its hits, in order.
RequestsAssumption ==
    \A q \in Requests :
        /\ q.cutoff \in Int
        /\ q.filing.rows \in Seq(ToSet(q.filing.rows))
        /\ \A d \in ToSet(q.filing.rows) : q.filing.hits[d] \in Seq(ToSet(q.filing.hits[d]))
ASSUME RequestsHaveRows == RequestsAssumption

\* By the schemas, a draft has few references and a decision room for them and
\* for a note of every lookup: three claims of three, two lookups, twelve replies.
DraftsAssumption ==
    \A d \in Drafts :
        /\ d.wants \in Seq(ToSet(d.wants))
        /\ IsFiniteSet(Cited(d.claims)) /\ Cardinality(Cited(d.claims)) + MaxLookups <= MaxReplies
ASSUME DraftsAreShort == DraftsAssumption

ASSUME LimitsAssumption == Listed \in Nat /\ MaxLookups \in Nat /\ MaxReplies \in Nat /\ MaxRuns \in Nat

\* How a decision compares with that of a prior Case.
Comparisons == [kind : {"initial", "changed", "retained"}, known : BOOLEAN]
ASSUME NoneIsOther == None \notin Updates \union Comparisons

researchVars == <<audits, decisions, cases, run, runs>>

Upto(s, n) == SubSeq(s, 1, IF Len(s) < n THEN Len(s) ELSE n)
First(rows) == Upto(rows, Listed)

---------------------------------------------------------------------------
(* Evidence. *)

\* core _record()
EvidenceRecord(f, drivers) ==
    [facts |-> f.facts, rows |-> f.rows, filing |-> f, drivers |-> drivers,
     steps |-> [i \in DOMAIN drivers |-> f.hits[drivers[i]]]]

\* model_evidence_view()
\* Bug: what was looked up is not shown.
FiguresView(record) == [facts |-> record.facts, rows |-> record.rows, steps |-> <<>>]
EvidenceView(record) == [facts |-> record.facts, rows |-> record.rows, steps |-> record.steps]

\* evidence_ids()
EvidenceIds(e) == e.facts \union ToSet(e.rows) \union UNION {ToSet(e.steps[i]) : i \in DOMAIN e.steps}

\* required_review_references()
Required(challenge, e) ==
    Cited(challenge.claims) \union {Head(e.steps[i]) : i \in {j \in DOMAIN e.steps : e.steps[j] # <<>>}}

\* selected_drivers(): in the order of the rows, whoever asked.
Selected(analysis, challenge, e) ==
    Upto(Those(First(e.rows), ToSet(analysis.wants) \union ToSet(challenge.wants)), MaxLookups)

\* validate_proposal()
DraftValid(d, e) ==
    /\ Len(d.wants) <= MaxLookups /\ IsInjective(d.wants)
    /\ Cited(d.claims) \subseteq EvidenceIds(e)
    /\ ToSet(d.wants) \subseteq ToSet(First(e.rows))

DecisionValid(d, e, challenge) ==
    /\ Len(d.replies) \in 1..MaxReplies /\ IsInjective(d.replies)
    /\ Cited(d.claims) \union ToSet(d.replies) \subseteq EvidenceIds(e)
    /\ Required(challenge, e) \subseteq ToSet(d.replies)

\* validate_update(): each prior claim once.
UpdateValid(u, prior) == IsInjective(u) /\ ToSet(u) = DOMAIN prior.decision.claims

---------------------------------------------------------------------------
(* What a Case must be, checked when it is written and when it is read. *)

CallOf(name, sees, required, proposal) ==
    [stage |-> name, sees |-> sees, required |-> required, proposal |-> proposal]

\* _validate_result()
\* Bug: the lookups of a researcher are not compared with what was asked for.
AcceptsAnyLookup(c) ==
    LET last == EvidenceRecord(c.request.filing, c.lookups[Len(c.lookups)]) IN
    DraftValid(c.analysis, last) /\ DraftValid(c.challenge, last) /\ DecisionValid(c.decision, last, c.challenge)
Accepts(c) ==
    LET initial == EvidenceRecord(c.request.filing, c.lookups[1])
        final == EvidenceRecord(c.request.filing, c.lookups[Len(c.lookups)])
        drivers == Selected(c.analysis, c.challenge, initial) IN
    /\ DraftValid(c.analysis, initial) /\ DraftValid(c.challenge, initial)
    /\ DecisionValid(c.decision, final, c.challenge)
    /\ Len(c.lookups) = (IF drivers # <<>> THEN 2 ELSE 1)
    /\ final.drivers = drivers /\ initial.drivers = <<>>
    /\ c.calls = << CallOf("analysis", EvidenceView(initial), {}, c.analysis),
                    CallOf("challenge", EvidenceView(initial), {}, c.challenge),
                    CallOf("synthesis", EvidenceView(final), Required(c.challenge, final), c.decision) >>

\* _comparison(): None where it raises.
Comparison(request, decision, prior) ==
    IF prior = None THEN [kind |-> "initial", known |-> FALSE]
    ELSE IF \/ ~request.filing.interim /\ prior.request.filing.interim
            \/ prior.request.subject # request.subject \/ prior.request.cutoff > request.cutoff
    THEN None
    ELSE [kind |-> IF prior.decision.outlook # decision.outlook THEN "changed" ELSE "retained",
          known |-> request.filing.interim /\ request.filing.published <= prior.request.cutoff]

Explains(request, prior) == request.filing.interim /\ prior # None

\* load() of the Case itself.
CaseReads(c) ==
    /\ \A i \in DOMAIN c.lookups : <<c.request.filing, c.lookups[i]>> \in audits
    /\ Accepts(c)
    /\ c.comparison # None /\ c.comparison = Comparison(c.request, c.decision, c.prior)
    /\ IF Explains(c.request, c.prior) THEN UpdateValid(c.update, c.prior) ELSE c.update = None

\* A Case, its prior Case, and so on: every Case of a chain took an execution.
ChainOf(c) ==
    LET chain[n \in 0 .. MaxRuns] ==
            IF n = 0 THEN c ELSE IF chain[n - 1] = None THEN None ELSE chain[n - 1].prior
    IN chain

\* load(), which reads the prior Case by load().
CaseLoads(c) == \A n \in 0 .. MaxRuns : ChainOf(c)[n] # None => CaseReads(ChainOf(c)[n])

---------------------------------------------------------------------------
(* One execution. *)

NoRun == [stage |-> "idle"]

ResearchInit ==
    /\ audits = {} /\ decisions = {} /\ cases = {}
    /\ run = NoRun /\ runs = 0

Evidence == EvidenceRecord(run.request.filing, run.lookups[Len(run.lookups)])
Moves(stage, new) == run' = [new EXCEPT !.stage = stage]
Fails == Moves("failed", run)

\* run(): the prior Case must at least have its file; audited(()).
StartResearch ==
    /\ run.stage \in {"idle", "failed", "delivered"} /\ runs < MaxRuns
    /\ runs' = runs + 1
    /\ \E q \in Requests, checks \in BOOLEAN, prior \in cases \union {None} :
          /\ audits' = audits \union {<<q.filing, <<>>>>}
          /\ run' = [stage |-> IF q.filing.readable THEN "analysis" ELSE "failed",
                     request |-> q, checks |-> checks, prior |-> prior, lookups |-> << <<>> >>,
                     analysis |-> None, challenge |-> None, decision |-> None, calls |-> <<>>,
                     comparison |-> None, update |-> None]
    /\ UNCHANGED <<decisions, cases>>

\* first(): the payload has the evidence only.
DraftStage(stage, next) ==
    /\ run.stage = stage
    /\ \E d \in Drafts :
          LET drafted == [run EXCEPT ![stage] = d,
                              !.calls = Append(@, CallOf(stage, EvidenceView(Evidence), {}, d))] IN
          Moves(IF run.checks /\ ~DraftValid(d, Evidence) THEN "failed" ELSE next, drafted)
    /\ UNCHANGED <<audits, decisions, cases, runs>>

\* audited(): at most one lookup after the first audit; a repeated or unlisted
\* driver is not admissible.
Audit(drivers) ==
    IF drivers = <<>> \/ ~(ToSet(drivers) \subseteq ToSet(First(Evidence.rows)))
       \/ Len(drivers) > MaxLookups
    THEN Fails /\ UNCHANGED audits
    ELSE /\ audits' = audits \union {<<run.request.filing, drivers>>}
         /\ Moves("synthesis", [run EXCEPT !.lookups = Append(@, drivers)])

\* retrieve()
Lookup ==
    /\ run.stage = "lookup"
    /\ IF run.checks
       THEN LET drivers == Selected(run.analysis, run.challenge, Evidence) IN
            IF drivers = <<>> THEN Moves("synthesis", run) /\ UNCHANGED audits ELSE Audit(drivers)
       ELSE \/ Moves("synthesis", run) /\ UNCHANGED audits
            \/ \E d \in ToSet(run.request.filing.rows) : Audit(<<d>>)
    /\ UNCHANGED <<decisions, cases, runs>>

\* synthesize(): the model is shown the evidence and what it has to answer.
\* _validate_result() follows at once; the decision is saved before anything of
\* a prior Case is read.
Synthesize ==
    /\ run.stage = "synthesis"
    /\ \E d \in Decisions(EvidenceView(Evidence), Required(run.challenge, Evidence)) :
          LET formed == [run EXCEPT !.decision = d,
                  !.calls = Append(@, CallOf("synthesis", EvidenceView(Evidence),
                                            Required(run.challenge, Evidence), d))] IN
          IF (run.checks => DecisionValid(d, Evidence, run.challenge)) /\ Accepts(formed)
          THEN /\ decisions' = decisions \union {<<run.request, d>>}
               /\ Moves("compare", formed)
          ELSE Moves("failed", formed) /\ UNCHANGED decisions
    /\ UNCHANGED <<audits, cases, runs>>

\* read_case(previous_case_ref), then _comparison().
Compare ==
    /\ run.stage = "compare"
    /\ LET comparison == Comparison(run.request, run.decision, run.prior) IN
       IF (run.prior # None => CaseLoads(run.prior)) /\ comparison # None
       THEN Moves(IF Explains(run.request, run.prior) THEN "explain" ELSE "save",
                  [run EXCEPT !.comparison = comparison])
       ELSE Fails
    /\ UNCHANGED <<audits, decisions, cases, runs>>

\* explain_update(): the fourth call, once; the saved decision stays.
\* Bug: an explanation need not be complete.
ExplainsSome(u, prior) == ToSet(u) \subseteq DOMAIN prior.decision.claims
UpdateTaken(u, prior) == UpdateValid(u, prior)

Explain ==
    /\ run.stage = "explain"
    /\ \E u \in Updates :
          Moves(IF UpdateTaken(u, run.prior) THEN "save" ELSE "failed", [run EXCEPT !.update = u])
    /\ UNCHANGED <<audits, decisions, cases, runs>>

\* case.json, named by its content, and read again.
SaveCase ==
    /\ run.stage = "save"
    /\ LET case == [n \in DOMAIN run \ {"stage", "checks"} |-> run[n]] IN
       /\ cases' = cases \union {case}
       /\ Moves(IF CaseLoads(case) THEN "delivered" ELSE "failed", run)
    /\ UNCHANGED <<audits, decisions, runs>>

\* The process is killed.
KillResearch ==
    /\ run.stage \notin {"idle", "failed", "delivered"}
    /\ run' = NoRun
    /\ UNCHANGED <<audits, decisions, cases, runs>>

ResearchNext ==
    \/ StartResearch \/ DraftStage("analysis", "challenge") \/ DraftStage("challenge", "lookup")
    \/ Lookup \/ Synthesize \/ Compare \/ Explain \/ SaveCase \/ KillResearch

ResearchSpec == ResearchInit /\ [][ResearchNext]_researchVars

---------------------------------------------------------------------------
(* Properties. *)

\* What the model is shown and what is demanded of its answer are computed by
\* different code, before and after a lookup: whatever the drafts cite, a
\* decision can be given from the page shown, and an execution of the
\* program's own researcher fails only for an answer that its own page refutes,
\* an unreadable filing, a prior Case of another matter, or an incomplete
\* explanation.
DraftHonest(call) ==
    /\ Cited(call.proposal.claims) \subseteq EvidenceIds(call.sees)
    /\ ToSet(call.proposal.wants) \subseteq ToSet(First(call.sees.rows))
    /\ IsInjective(call.proposal.wants) /\ Len(call.proposal.wants) <= MaxLookups
Honest(call) ==
    IF call.stage = "synthesis"
    THEN /\ Cited(call.proposal.claims) \union ToSet(call.proposal.replies) \subseteq EvidenceIds(call.sees)
         /\ call.required \subseteq ToSet(call.proposal.replies)
         /\ IsInjective(call.proposal.replies) /\ Len(call.proposal.replies) \in 1 .. MaxReplies
    ELSE DraftHonest(call)
PriorFits == run.prior # None => Comparison(run.request, run.decision, run.prior) # None
ShownIsEnough ==
    /\ run.stage = "synthesis" /\ run.checks =>
          LET required == Required(run.challenge, Evidence) IN
          /\ required \subseteq EvidenceIds(EvidenceView(Evidence))
          /\ Cardinality(required) <= MaxReplies
    /\ run.stage = "failed" /\ run.checks =>
          \/ ~run.request.filing.readable
          \/ \E i \in DOMAIN run.calls : ~Honest(run.calls[i])
          \/ Len(run.calls) = 3 /\ ~PriorFits
          \/ run.update # None /\ ~UpdateValid(run.update, run.prior)

\* Whatever the researcher checks: a stored Case still loads after all that
\* happens later, its decision was saved before a prior Case was read, the
\* drivers looked up are those the two drafts asked for, in order and at most
\* two, every reference of the challenge and the first note of every lookup is
\* answered, and each Case down its chain is of the same matter and not later,
\* every claim of it accounted for where the change is explained.
Answers(c) ==
    /\ \A d \in ToSet(c.lookups[Len(c.lookups)]) :
          /\ d \in ToSet(c.analysis.wants) \union ToSet(c.challenge.wants)
          /\ c.request.filing.hits[d] # <<>> => Head(c.request.filing.hits[d]) \in ToSet(c.decision.replies)
    /\ \A d \in ToSet(c.analysis.wants) \union ToSet(c.challenge.wants) :
          d \in ToSet(c.lookups[Len(c.lookups)]) \/ Len(c.lookups[Len(c.lookups)]) = MaxLookups
    /\ Cited(c.challenge.claims) \subseteq ToSet(c.decision.replies)
Follows(c) ==
    c.prior # None =>
       /\ c.prior \in cases
       /\ c.prior.request.subject = c.request.subject /\ c.prior.request.cutoff <= c.request.cutoff
       /\ Explains(c.request, c.prior) => ToSet(c.update) = DOMAIN c.prior.decision.claims
CasesStand ==
    \A c \in cases : CaseLoads(c) /\ <<c.request, c.decision>> \in decisions /\ Answers(c) /\ Follows(c)

\* What a researcher is shown suffices for what is demanded of it, and every
\* stored Case stands with the Cases it follows.
ResearchSound == ShownIsEnough /\ CasesStand
=============================================================================
