SPECIFICATION FairSpec
CONSTANTS
    Period = 4
    Ticks <- MCTicks
    Grace = 2
    Settings <- MCSeeded
    Faults = {"outage"}
PROPERTIES
    RecoversFromBackup
