SPECIFICATION Spec
CONSTANTS
    Proc = {p1, p2}
    Free = free
    None = none
    Output = {good, odd}
    Accepted = {good}
    Reason = {why}
    Stamp = {t1, t2}
    Ops = {"create", "analyse", "review"}
    MaxAnalyses = 1
SYMMETRY Symmetry
INVARIANTS
    Readable
    AckIsForCommand
PROPERTIES
    ResumeNeverRefused
    ImplementsLifecycle
