\* One task, one cancel request.
CONSTANTS
    Requests = {r1}
    Cancelers = {x1}
    Tasks = {t1}
    Lines = 2
    Chunks = 2
    None = None
SPECIFICATION Spec
CHECK_DEADLOCK FALSE
INVARIANT CanceledNeverInstalls
