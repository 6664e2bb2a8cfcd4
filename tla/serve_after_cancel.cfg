SPECIFICATION Spec
CONSTANTS
    Period = 4
    Ticks <- MCTicks
    Grace = 2
    Settings <- MCSeeded
    Faults = {"stop"}
PROPERTIES
    NoRunAfterCancel
