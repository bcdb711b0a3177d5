SPECIFICATION FairSpec
CONSTANTS
    r1 = r1
    r2 = r2
    r3 = r3
    Requests = {r1, r2}
    MaxTokens = 2
    Allowed = {"claim", "call", "persist", "revoke", "slow", "off", "signOut"}
    MaxTroubles = 2
INVARIANTS
    SingleFlight
    RevokedForAReason
PROPERTIES
    EndIsNoticed

\* A disabled session is at its end.
CHECK_DEADLOCK FALSE
