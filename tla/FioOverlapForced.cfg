SPECIFICATION Spec
CONSTANTS
    NumJobs = 2
    w1 = w1
    w2 = w2
    w3 = w3
    Workers = {w1, w2, w3}
    JobOf <- MCJobOf
    RampJobs = {1}
    Size = 2
    MaxIos = 3
    Free = Free
INVARIANT NothingFreedIsChecked
CHECK_DEADLOCK FALSE
