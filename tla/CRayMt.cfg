SPECIFICATION FairSpec
CONSTANTS
    YRes = 6
    ThreadNum = 3
    MaxSpurious = 2
INVARIANTS WholeImage NoLineTwice RenderingIsTimed NeverStuck
PROPERTY Finishes
CHECK_DEADLOCK FALSE
