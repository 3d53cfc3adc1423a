\* One worker, with and without a browser that saves, on a disk that may fail.
SPECIFICATION FairSpec
CONSTANTS
    Workers = {w1}
    Numbers = {n1}
    Blank = blank
    MaxId = 3
    MaxRev = 1
    Dests = {bark}
    Gaps = {1}
    Quiet = 1
    MaxWait = 2
    MaxSaves = 1
    MaxCrashes = 0
    CountTo = 2
    DiskFails = TRUE
    Mangled = Mangled
    None = None
INVARIANTS TypeOK AtMostOnce NewestNeverSkipped
PROPERTIES BaselineOnce EveryMessageHandled
CHECK_DEADLOCK FALSE
