\* Every session id is a fresh random one.
CONSTANTS
    SessionIds = {s1}
    SuppliedIds = {}
    Conns = {c1}
    Handlers = {h1, h2}
    Cleaner = cleaner
    SftpResults = {"open", "nil"}
    NoConn = NoConn
    NoId = NoId
    NoWs = NoWs
SPECIFICATION FairSpec
INVARIANTS
    TypeOK
    RemovedIsReleased
PROPERTIES
    RefinesLifecycle
    CloseCompletes
    TerminalDrains
    InactiveReaped
