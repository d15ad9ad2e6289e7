SPECIFICATION Spec
CONSTANTS
    LastStage = 3
    Degradable = {1}
    MaxExtra = 3
    None = none
    MaxProcesses = 2
    ResumesMasked = FALSE
    ResumesForgotten = FALSE
PROPERTY
    CallsAccumulate
CHECK_DEADLOCK FALSE
