SPECIFICATION Spec
CONSTANTS
    Iterations = 2
    FnIterations = 1
    MaxRuns = 2
    MaxSessions = 4
INVARIANTS FreshWhenMeasured WholeOrOldFigure FirstValueRepeated
PROPERTIES KeepsPromise FunctionsKeepPromise
CHECK_DEADLOCK FALSE
