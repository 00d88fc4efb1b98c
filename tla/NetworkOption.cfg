SPECIFICATION Spec
CONSTANTS
    Iterations = 1
    MaxSessions = 2
    MaxFaults = 1
INVARIANTS ShownIsThisSession NoServerBeforeLastStop
PROPERTY FinishesUnlessPipeHeld
CHECK_DEADLOCK FALSE
