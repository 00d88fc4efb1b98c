SPECIFICATION FairSpec
CONSTANTS
    MaxWorkers = 2
    MaxWorks = 0
PROPERTY InitReturns
CHECK_DEADLOCK FALSE
