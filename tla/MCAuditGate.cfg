SPECIFICATION Spec
CONSTANTS
    None = None
    Gate = {g1, g2}
    Private = {g1}
    Task <- MCTask
    Proposal <- MCProposal
    End = {"unfinished"}
    MaxRuns = 2
INVARIANTS
    CommittedReplays
    NeverConflicts
    UncoveredGoesToReview
    ReviewedIsTraced
CHECK_DEADLOCK FALSE
