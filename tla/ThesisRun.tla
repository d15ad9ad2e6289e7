----------------------------- MODULE ThesisRun -----------------------------
(***************************************************************************)
(* What the stages of a thesis run are given to read, and what a Case      *)
(* shows of it (protocol 24; src/finauditgate/adapters/thesis_protocol.py, *)
(* thesis_correction.py, thesis_halted.py, and the reader in               *)
(* application/thesis_case_v11.py and thesis_halted.py).                   *)
(*                                                                         *)
(* The session's fields hold the answers of the stages before; a request   *)
(* is a selection of them.  The reader keeps no session: it rebuilds every *)
(* request from the fields of the record, from which a halted run withheld *)
(* the answer its last stage refused.                                      *)
(*                                                                         *)
(* An answer is the set of its parts: a text, and a rating where it has    *)
(* one.  A view is what it leaves of the parts.  StageRecovery models how  *)
(* a stage comes to its answer.                                            *)
(***************************************************************************)
EXTENDS Nothing, Integers, SequencesExt

CONSTANTS Analysts, Researchers, Risks  \* who writes, in the order of the code

ASSUME RolesAssumption ==
    /\ \A roles \in {Analysts, Researchers, Risks} : roles \in Seq(ToSet(roles)) /\ IsInjective(roles)
    /\ Len(Researchers) = 2

VARIABLES
    at,         \* how many stages are done
    fields,     \* the session's field of each stage, None until it is set
    exchanges,  \* the stages that were answered, and their requests
    ended       \* running; completed; halted

thesisVars == <<at, fields, exchanges, ended>>

Stage(kind, node) == [kind |-> kind, node |-> node]
Each(kind, roles) == [i \in DOMAIN roles |-> Stage(kind, roles[i])]
ResearchManager == "Research Manager"
Trader == "Trader"
PortfolioManager == "Portfolio Manager"

\* main_stages()
Stages ==
    Each("AnalystReport", Analysts) \o Each("InitialBrief", Researchers) \o Each("RevisionBrief", Researchers)
    \o <<Stage("ResearchEvaluation", ResearchManager), Stage("ExecutionReview", Trader)>>
    \o Each("RiskBrief", Risks)
    \o <<Stage("IndependentAssessment", PortfolioManager), Stage("UnderwritingDraft", PortfolioManager),
         Stage("ForwardRevision", PortfolioManager), Stage("FinalResearchReport", PortfolioManager)>>

AllStages == ToSet(Stages)
Left(s) == s.kind \in {"AnalystReport", "ExecutionReview"}

\* The parts of an answer: the plan, the proposal, the decision and the report rate.
AnswerOf(s) ==
    {<<s, "text">>} \union
    IF s.kind \in {"ResearchEvaluation", "ExecutionReview", "IndependentAssessment", "FinalResearchReport"}
    THEN {<<s, "rating">>} ELSE {}

\* A field that is not set differs from a placeholder and from every answer.
ASSUME NoneAssumption == None \notin {{}} \union {AnswerOf(s) : s \in AllStages}

---------------------------------------------------------------------------
(* Fields, and the views of them. *)

Field(f, kind, node) == f[Stage(kind, node)]
Union(f, kind, roles) == UNION {Field(f, kind, n) : n \in ToSet(roles)}
Set(f, kind, roles) == \A n \in ToSet(roles) : Field(f, kind, n) # None

\* updated_claims(), rebuilt_claims(): from both initial briefs and revisions.
UpdatedClaims(f) == Union(f, "InitialBrief", Researchers) \union Union(f, "RevisionBrief", Researchers)

\* belief_view(), risk_view(), claim_view()
\* Bug: the beliefs are shown as they were answered.
WholeView(answer) == answer
BeliefView(answer) == {part \in answer : part[2] # "rating"}

\* rule_view(): what the program computes, no model's part.
Computed == {}

\* payload.update()
Extended(payload, more) ==
    [name \in DOMAIN payload \union DOMAIN more |->
        IF name \in DOMAIN more THEN more[name] ELSE payload[name]]

\* corpus(): the request and the sources, and for most stages the reports of
\* all analysts, the ones left out as placeholders.
Sources == [sources |-> Computed]
Corpus(f) == Extended(Sources, [analysts |-> Union(f, "AnalystReport", Analysts)])

Opponent(node) == CHOOSE n \in ToSet(Researchers) : n # node

\* run_node(), analyst() and complete_corrected_report(): the request of a stage.
Request(s, f) ==
    CASE s.kind \in {"AnalystReport", "IndependentAssessment"} -> Sources
      [] s.kind = "InitialBrief" -> Corpus(f)
      [] s.kind = "RevisionBrief" ->
            Extended(Corpus(f), [own |-> Field(f, "InitialBrief", s.node),
                                 opponent |-> Field(f, "InitialBrief", Opponent(s.node))])
      [] s.kind \in {"ResearchEvaluation", "RiskBrief"} -> Extended(Corpus(f), [claims |-> UpdatedClaims(f)])
      [] s.kind = "ExecutionReview" ->
            Extended(Corpus(f), [claims |-> UpdatedClaims(f),
                                 evaluation |-> Field(f, "ResearchEvaluation", ResearchManager)])
      [] s.kind = "UnderwritingDraft" ->
            Extended(Corpus(f), [claims |-> UpdatedClaims(f), risks |-> Union(f, "RiskBrief", Risks)])
      [] s.kind = "ForwardRevision" ->
            Extended(Corpus(f), [beliefs |-> BeliefView(Field(f, "IndependentAssessment", PortfolioManager)),
                                 claims |-> UpdatedClaims(f), risks |-> Union(f, "RiskBrief", Risks),
                                 draft |-> Field(f, "UnderwritingDraft", PortfolioManager)])
      [] s.kind = "FinalResearchReport" ->
            Extended(Corpus(f), [draft |-> Field(f, "UnderwritingDraft", PortfolioManager)
                                           \union Field(f, "ForwardRevision", PortfolioManager),
                                 resolution |-> Field(f, "ForwardRevision", PortfolioManager), rule |-> Computed])

---------------------------------------------------------------------------
(* The run. *)

ThesisInit ==
    /\ at = 0 /\ exchanges = <<>> /\ ended = "running"
    /\ fields = [s \in AllStages |-> None]

Current == Stages[at + 1]
Running == ended = "running" /\ at < Len(Stages)
Exchanged == Append(exchanges, [stage |-> Current, request |-> Request(Current, fields)])

\* ask(): the stage's answer is kept, and passes the checks of its stage.
Answered ==
    /\ Running
    /\ exchanges' = Exchanged
    /\ fields' = [fields EXCEPT ![Current] = AnswerOf(Current)]
    /\ at' = at + 1
    /\ ended' = IF at + 1 = Len(Stages) THEN "completed" ELSE ended

\* degradable(): a placeholder, and no exchange.
LeaveOut ==
    /\ Running /\ Left(Current)
    /\ fields' = [fields EXCEPT ![Current] = {}]
    /\ at' = at + 1
    /\ UNCHANGED <<exchanges, ended>>

\* The answer is parsed and exchanged, and refused by a check that follows: a
\* coverage, the ids, the forward draft, the numbers of the report.  Two
\* fields are set before their check.
Refused ==
    /\ Running
    /\ exchanges' = Exchanged
    /\ \/ /\ Current.kind \in {"IndependentAssessment", "UnderwritingDraft"}
          /\ fields' = [fields EXCEPT ![Current] = AnswerOf(Current)]
       \/ /\ Current.kind \in {"AnalystReport", "RevisionBrief", "ForwardRevision", "FinalResearchReport"}
          /\ UNCHANGED fields
    /\ ended' = "halted"
    /\ UNCHANGED at

\* The call itself fails for good, or is not allowed.
Halted ==
    /\ Running
    /\ ended' = "halted"
    /\ UNCHANGED <<at, fields, exchanges>>

ThesisNext == Answered \/ LeaveOut \/ Refused \/ Halted

ThesisSpec == ThesisInit /\ [][ThesisNext]_thesisVars

---------------------------------------------------------------------------
(* The record and its reader. *)

\* halted_record(): the answer the stopped stage refused is withheld.
\* Bug: what the session holds is delivered.
DeliverAll == fields
Delivered == IF ended = "halted" THEN [fields EXCEPT ![Current] = None] ELSE fields

\* The claims of a halted record, once both researchers have revised.
ClaimsOf(record) == IF Set(record, "RevisionBrief", Researchers) THEN UpdatedClaims(record) ELSE {}

\* bind_exchanges(): what it asks of the request of an exchange.
Binds(exchange, record) ==
    LET s == exchange.stage
        request == exchange.request
        base == Extended(Sources, [analysts |-> Union(record, "AnalystReport", Analysts)])
        assessment == Field(record, "IndependentAssessment", PortfolioManager)
        forward == Field(record, "UnderwritingDraft", PortfolioManager)
    IN CASE s.kind \in {"AnalystReport", "IndependentAssessment"} -> request = Sources
         [] s.kind = "InitialBrief" -> request = base
         [] s.kind = "RevisionBrief" ->
               request = Extended(base, [own |-> Field(record, "InitialBrief", s.node),
                                         opponent |-> Field(record, "InitialBrief", Opponent(s.node))])
         [] s.kind \in {"ResearchEvaluation", "RiskBrief"} -> request = Extended(base, [claims |-> ClaimsOf(record)])
         [] s.kind = "ExecutionReview" ->
               request = Extended(base, [claims |-> ClaimsOf(record),
                                         evaluation |-> Field(record, "ResearchEvaluation", ResearchManager)])
         [] s.kind = "UnderwritingDraft" ->
               request = Extended(base, [claims |-> ClaimsOf(record), risks |-> Union(record, "RiskBrief", Risks)])
         [] s.kind = "ForwardRevision" ->
               request = Extended(base, [beliefs |-> {p \in assessment : p[2] # "rating"},
                                         claims |-> ClaimsOf(record), risks |-> Union(record, "RiskBrief", Risks),
                                         draft |-> forward])
         [] s.kind = "FinalResearchReport" ->
               request = Extended(base, [draft |-> forward \union Field(record, "ForwardRevision", PortfolioManager),
                                         resolution |-> Field(record, "ForwardRevision", PortfolioManager), rule |-> Computed])

\* validate() of a halted record: a delivered field is what its stage answered.
FieldsProven(record) ==
    \A s \in AllStages :
        LET answered == \E i \in DOMAIN exchanges : exchanges[i].stage = s
            refused == ended = "halted" /\ s = Current
        IN CASE answered /\ ~refused -> record[s] = AnswerOf(s)
             [] s \in {Stages[i] : i \in 1 .. at} /\ ~answered -> record[s] = {}
             [] OTHER -> record[s] = None

---------------------------------------------------------------------------
(* Properties. *)

\* The parts that an answer may rest on, over any number of stages between:
\* what each stage's answer rests on after so many exchanges.
Content(request) == UNION {request[name] : name \in DOMAIN request}
Influence[n \in 0 .. Len(exchanges)] ==
    IF n = 0 THEN [s \in AllStages |-> {}]
    ELSE LET sofar == Influence[n - 1]
             read == Content(exchanges[n].request)
         IN [sofar EXCEPT ![exchanges[n].stage] = read \union UNION {sofar[p[1]] : p \in read}]

\* Researchers write their briefs and revisions without each other's, the risk
\* roles without each other; the first judgment of the portfolio manager rests
\* on no other role, the forward draft not on that judgment; and no rating
\* reaches the draft, its revision or the report, directly or through others.
RolesIndependent ==
    LET influence == Influence[Len(exchanges)]
        Rests(s) == {p[1] : p \in influence[s]}
    IN /\ \A s, t \in AllStages :
              s.kind = t.kind /\ s.kind \in {"AnalystReport", "InitialBrief", "RevisionBrief", "RiskBrief"}
              => t \notin Rests(s)
       /\ Rests(Stage("IndependentAssessment", PortfolioManager)) = {}
       /\ Stage("IndependentAssessment", PortfolioManager) \notin Rests(Stage("UnderwritingDraft", PortfolioManager))
       /\ \A s \in AllStages : s.kind \in {"RiskBrief", "UnderwritingDraft", "ForwardRevision", "FinalResearchReport"} =>
              \A p \in influence[s] : p[2] # "rating"

\* Whether a run completed, left stages out, or stopped at any stage with or
\* without an answer that stage refused: the reader rebuilds every request it
\* made from the record alone, every field of the record is what was answered,
\* and no stage rests on another that it is to be independent of.
RunRebuilds ==
    ended # "running" =>
        /\ \A i \in DOMAIN exchanges : Binds(exchanges[i], Delivered)
        /\ FieldsProven(Delivered)
        /\ RolesIndependent
=============================================================================
