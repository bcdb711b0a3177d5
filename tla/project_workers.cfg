SPECIFICATION FairSpec
CONSTANTS
    q1 = q1
    q2 = q2
    q3 = q3
    r1 = r1
    r2 = r2
    start = start
    ender = ender
    disposer = disposer
    Requests = {q1}
    Start = start
    Reloads = {r1, r2}
    Ender = ender
    Disposer = disposer
    Allowed = {"update", "init", "start", "deaf", "end", "dispose"}
    MaxTroubles = 2
INVARIANTS
    CacheIsCoherent
    NotStale
    WorkersAreKnown
    NoWorkerLost
PROPERTIES
    EveryoneReturns

\* Every request answered and every server ended is an end.
CHECK_DEADLOCK FALSE
