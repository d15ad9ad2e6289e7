SPECIFICATION Spec
CONSTANTS
    None = None
    Gate = {g1, g2}
    Private = {g1}
    Task <- MCTask
    Proposal <- UnfitProposal
    End = {"unfinished"}
    MaxRuns = 2
INVARIANTS
    UnfitReplays
CHECK_DEADLOCK FALSE
