SPECIFICATION FairSpec
CONSTANTS
    MaxWorkers = 2
    MaxWorks = 3
INVARIANTS CarriedOutOnce IdleMeansNothingToDo NoWakeupLost
PROPERTIES ImplementsWorkQueue CallsReturn WorksAreHandled
CHECK_DEADLOCK FALSE
