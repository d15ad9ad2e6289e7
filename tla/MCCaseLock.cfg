SPECIFICATION FairSpec
CONSTANTS
    Proc = {p1, p2}
    Free = free
    None = none
    Output = {good}
    Accepted = {good}
    Reason = {why}
    Stamp = {t1}
    Ops = {"create", "analyse", "review"}
    MaxAnalyses = 1
PROPERTIES
    LockReleased
