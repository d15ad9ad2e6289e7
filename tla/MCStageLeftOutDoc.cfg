SPECIFICATION Spec
CONSTANTS
    LastStage = 3
    Degradable = {1}
    MaxExtra = 3
    None = none
    MaxProcesses = 1
    ResumesMasked = FALSE
    ResumesForgotten = FALSE
INVARIANT
    LeftOutRunContinues
CHECK_DEADLOCK FALSE
