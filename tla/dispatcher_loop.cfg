SPECIFICATION FairSpec
CONSTANTS
    StartupMax = 2
    MaxWork = 2
    Allowed = {"start", "error", "lost"}
    MaxTroubles = 4
INVARIANTS
    OneLoop
    NoSleepOnWork
    GivesUpForAReason
    EndedIsQuiet
PROPERTIES
    DueIsFetched
    EndStops

\* A worker that was ended stops.
CHECK_DEADLOCK FALSE
