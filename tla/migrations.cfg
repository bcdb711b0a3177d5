SPECIFICATION FairSpec
CONSTANTS
    c1 = c1
    c2 = c2
    c3 = c3
    a = a
    b = b
    c = c
    s = s
    Callers = {c1, c2, c3}
    Versions = {1, 2, 3}
    Entities = {a, b, c}
    States = {s}
    Operations <- Mixed
    MaxAttempts = 2
    Allowed = {"sql", "conflict", "connection"}
    MaxTroubles = 2
INVARIANTS
    SchemaIsReplay
    TablesMatchSchema
PROPERTIES
    OkMeansExecuted
    CallsReturn

\* Each caller makes one call.
CHECK_DEADLOCK FALSE
