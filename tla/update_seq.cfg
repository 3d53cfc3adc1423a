\* One update request at a time, with retries and cancels.
\* The model ends with the restarted server or the last task.
CONSTANTS
    Requests = {r1}
    Cancelers = {x1}
    Tasks = {t1, t2}
    Lines = 2
    Chunks = 2
    None = None
SPECIFICATION FairSpec
CHECK_DEADLOCK FALSE
INVARIANTS
    TypeOK
    OneDownload
    InstalledIsOneResponse
PROPERTY Unwedged
