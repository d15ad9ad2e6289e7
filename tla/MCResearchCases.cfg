SPECIFICATION MCSpec
CONSTANTS
    Prompt = {"short", "long", "oversized"}
    InputPrice <- MCInputPrice
    TooLong = {"oversized"}
    Base = 4
    Report = {0, 3, 8}
    Ceiling = 20
    NoCeiling = none
    MaxCalls = 3
    None = none
    Writers = {"p", "q"}
    Versions = {1, 2}
    MaxLosses = 1
    Runners = {"p", "q"}
    Tasks = {"t"}
    Outputs = {1, 2}
    MaxDamage = 1
    MaxQa = 1
    Forests <- MCForests
    Managers = {3}
    Sentences = 3
    SpotsOf <- MCSpots
    MaxSentences = 2
    Contracts <- MCContracts
    Analysts <- MCAnalysts
    Researchers <- MCResearchers
    Risks <- MCRisks
    Statements <- MCStatements
    MaxSearches = 3
    Shown = 3
    Requests <- MCRequests
    Drafts <- MCProposals
    Decisions <- MCDecisions
    Updates <- MCUpdates
    Listed = 2
    MaxLookups = 2
    MaxReplies = 4
    MaxRuns = 2
    Scale = 8
    MaxEdits = 2
    Rounds = 2
    Forecasts <- MCForecasts
    Replacements <- MCReplacements
INVARIANTS
    EveryCallCovered
    ReceiptRestorable
    CeilingKept
    RunRebuilds
    MaskingPasses
    TreeSound
    InvestigationSound
    RevisionExplained
    
    CaseStays
    ResearchSound
    PairsAssessable
PROPERTIES
    OverrunIsFinal
    SpendingOnlyGrows
CHECK_DEADLOCK FALSE
