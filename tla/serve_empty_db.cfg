SPECIFICATION FairSpec
CONSTANTS
    Period = 4
    Ticks <- MCTicks
    Grace = 2
    Settings <- MCRestored
    Faults = {"export"}
PROPERTIES
    PublishesRecur
