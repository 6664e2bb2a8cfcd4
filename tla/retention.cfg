SPECIFICATION FairSpec
CONSTANTS
    P1 = P1
    P2 = P2
    Pruners = {P1, P2}
    Parts = {"index", "gz"}
    Keep = 2
    Batch = FALSE
    None = None
    MaxKey = 4
INVARIANTS
    PruneInvariant
    MissedMeansNewer
PROPERTIES
    NewestAreKept
    ExcessIsPruned
