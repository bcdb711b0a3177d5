SPECIFICATION FairSpec
CONSTANTS
    top = top
    a = a
    a1 = a1
    b = b
    k0 = k0
    ka = ka
    ka1 = ka1
    Frames = {top, a, a1, b}
    Top = top
    Parent <- Nested
    Above <- NestedAbove
    Kind <- WithScope
    Flows = {k0, ka, ka1}
    Home <- Three
    Abandons = {top, a}
    MaxStatements = 1
    Allowed = {"error", "lost"}
    MaxTroubles = 2
INVARIANTS
    Serialized
    SavepointsNested
    AllOrNothing
PROPERTIES
    NobodyHangs

\* A transaction that is over stays so.
CHECK_DEADLOCK FALSE
