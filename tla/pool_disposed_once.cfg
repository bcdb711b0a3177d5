SPECIFICATION Spec
CONSTANTS
    c1 = c1
    c2 = c2
    c3 = c3
    s1 = s1
    s2 = s2
    s3 = s3
    Conns = {c1, c2}
    NoConn = NoConn
    Scopes = {s1, s2}
    MaxConnections = 2
    MaxConnecting = 1
    MaxIdle = 2
    RateLimit = 5
    MaxUses = 0
    Ages = FALSE
    Allowed = {"lost"}
    MaxTroubles = 1
SYMMETRY Alike
INVARIANTS
    DisposedOnce
