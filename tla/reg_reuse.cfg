\* Clients reconnect under an id they were given before.
CONSTANTS
    SessionIds = {s1}
    SuppliedIds = {s1}
    Conns = {c1, c2}
    Handlers = {h1, h2}
    Cleaner = cleaner
    SftpResults = {"open"}
    NoConn = NoConn
    NoId = NoId
    NoWs = NoWs
SPECIFICATION Spec
INVARIANTS
    ClosedIsBeingRemoved
    OrphanOnlyByReuse
SYMMETRY Symmetry
