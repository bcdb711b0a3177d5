SPECIFICATION FairSpec
CONSTANTS
    c1 = c1
    c2 = c2
    c3 = c3
    s1 = s1
    s2 = s2
    s3 = s3
    Conns = {c1, c2, c3}
    NoConn = NoConn
    Scopes = {s1, s2, s3}
    MaxConnections = 2
    MaxConnecting = 2
    MaxIdle = 1
    RateLimit = 2
    MaxUses = 0
    Ages = TRUE
    Allowed = {"recoverable", "fatal", "lost", "timeout", "closeIdle", "end"}
    MaxTroubles = 2
INVARIANTS
    AtMostMaxConnections
    NeverShared
    SomebodyWillServe
    NothingLeaks
PROPERTIES
    NoOvertaking
    EveryItemServed

\* A closed pool stops once everything is settled.
CHECK_DEADLOCK FALSE
