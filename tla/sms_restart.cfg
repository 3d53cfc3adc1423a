\* A worker restarted while the old one still polls, and a crash.
SPECIFICATION Spec
CONSTANTS
    Workers = {w1, w2}
    Numbers = {n1}
    Blank = blank
    MaxId = 3
    MaxRev = 1
    Dests = {bark}
    Gaps = {1}
    Quiet = 1
    MaxWait = 2
    MaxSaves = 0
    MaxCrashes = 1
    CountTo = 1
    DiskFails = FALSE
    Mangled = Mangled
    None = None
INVARIANTS NewestNeverSkipped Stoppable
CHECK_DEADLOCK FALSE
SYMMETRY Symmetry
