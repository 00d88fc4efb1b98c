SPECIFICATION FairSpec
CONSTANTS
    NProc = 4
    FProc = 2
    Rounds = 8
    Areas = 4
INVARIANTS AverageOverThisRound WorkInStep EveryCloneFindsASlot NeverStuck
PROPERTY Terminates
CHECK_DEADLOCK FALSE
