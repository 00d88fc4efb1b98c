SPECIFICATION Spec
CONSTANTS
    Streams = {s1}
    CounterMod = 4
    MaxPackets = 4
    MaxDuplicates = 1
INVARIANTS LossIsWhatIsMissing PrintedAddsUp ReportsAgree
CHECK_DEADLOCK FALSE
