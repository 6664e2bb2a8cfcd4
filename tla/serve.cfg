SPECIFICATION FairSpec
CONSTANTS
    Period = 4
    Ticks <- MCTicks
    Grace = 2
    Settings <- MCSettings
    Faults = {"crash", "stop", "outage", "step", "disk_lost"}
INVARIANTS
    TypeOK
    WaitsForNextTick
    NeverKilledMidUpload
PROPERTIES
    OneRunPerTick
    FailureRetried
    PublishesRecur
