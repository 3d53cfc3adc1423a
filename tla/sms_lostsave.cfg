\* A browser saves a new target while the worker polls.
SPECIFICATION Spec
CONSTANTS
    Workers = {w1}
    Numbers = {n1}
    Blank = blank
    MaxId = 2
    MaxRev = 0
    Dests = {bark, telegram}
    Gaps = {1}
    Quiet = 1
    MaxWait = 1
    MaxSaves = 1
    MaxCrashes = 0
    CountTo = 1
    DiskFails = FALSE
    Mangled = Mangled
    None = None
INVARIANTS SavedConfigStays
CHECK_DEADLOCK FALSE
