\* Two SysInit requests at a time, a crash, two database files.  The model rests
\* when the system is initialised and the sshd serves.
SPECIFICATION Spec
CONSTANTS
    Requests = {r1, r2}
    Names = {root, admin}
    Dbs = {d1, d2}
    None = None
    MaxCrashes = 1
INVARIANTS TypeOK InitialisedIsUsable SignalTaken SignalPending
SYMMETRY Symmetry
CHECK_DEADLOCK FALSE
