SPECIFICATION MCSpec
CONSTANTS
    None = None
    Torn = Torn
    Processes = {"p", "q", "r"}
    Contents = {1, 2}
    MaxPowerLosses = 1
    s1 = s1
    s2 = s2
    Security = {s1, s2}
    Sessions = 4
    Streak = 2
    Manifests <- MCManifests
    Raw <- MCRaw
    CommitEvery = 2
    Horizon = 2
    Lookback = 2
    Warmup = 0
    Member = {m1, m2}
    Days = 8
    HorizonOf = 1
    OutcomeMaps <- MCOutcomes
    Windows <- MCWindows
    KnowledgeCutoffs <- MCKnowledgeCutoffs
    m1 = m1
    m2 = m2
    m3 = m3
    m4 = m4
    Workers = {"p"}
    Halves = 8
    First = 2
    Annual = {7, 8}
    Calendars <- MCCalendars
    MaxTorn = 1
    Count = 5
    Groups = {1, 2}
    Dates = {1, 2, 3}
    Ks = {2, 3}
    Divisor = 2
    Widen = 1
INVARIANTS
    ChainsSound
    StoreSound
    LabelsAgree
    FoldsSound
    BoundsHold
    StudySound
    PublicationStays
    SearchExact
CHECK_DEADLOCK FALSE
