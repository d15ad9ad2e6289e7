SPECIFICATION Spec
CONSTANTS
    Proc = {p1, p2}
    Free = free
    None = none
    Output = {good}
    Accepted = {good}
    Reason = {why}
    Stamp = {t1}
    Ops = {"create", "read", "analyse", "review", "export", "replay"}
    MaxAnalyses = 1
SYMMETRY ProcSymmetry
INVARIANTS
    ObservationsStable
    FoundStaysOwned
    PacketIsFinal
