SPECIFICATION FairSpec
CONSTANTS
    e1 = e1
    e2 = e2
    t1 = t1
    t2 = t2
    v1 = v1
    d1 = d1
    d2 = d2
    a1 = a1
    Events = {e1, e2}
    Targets = {t1, t2}
    NoTarget = NoTarget
    Dispatchers = {d1, d2}
    Admins = {a1}
    Vars = {v1}
    TargetOf <- TwoTargets
    UsedVars <- UsesOne
    BatchSize = 2
    MaxAttempts = 2
    DefaultMaxAttempts = 3
    Allowed = {"crash", "lapse", "variables"}
    MaxDisturbances = 2
INVARIANTS
    NoForgottenHold
PROPERTIES
    EventuallySettled
