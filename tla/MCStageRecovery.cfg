SPECIFICATION Spec
CONSTANTS
    LastStage = 3
    Degradable = {1}
    MaxExtra = 2
    None = none
    MaxProcesses = 4
    ResumesMasked = FALSE
    ResumesForgotten = FALSE
INVARIANTS
    
    CompleteProven
    HaltedProven
    TakesOverInOrder
PROPERTIES
    
    HaltIsFinal
CHECK_DEADLOCK FALSE
