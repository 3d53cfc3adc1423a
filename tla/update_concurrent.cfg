\* Two update requests at the same time.
CONSTANTS
    Requests = {r1, r2}
    Cancelers = {x1}
    Tasks = {t1, t2}
    Lines = 2
    Chunks = 2
    None = None
SPECIFICATION Spec
CHECK_DEADLOCK FALSE
INVARIANT OneDownload
