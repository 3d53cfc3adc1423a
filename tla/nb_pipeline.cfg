\* Two requests at a time, process ids that are used again, one crash of the server.
SPECIFICATION FairSpec
CONSTANTS
    Pids = {p1, p2, p3}
    NoPid = NoPid
    Requests = {r1, r2}
    MaxCrashes = 1
    MaxBlind = 1
INVARIANTS TypeOK OneCollector ChildIsManaged
PROPERTIES CollectionEnds
