SPECIFICATION Spec
CONSTANTS
    PipeSize = 1
    Faults <- MCNoFaults
    MaxLines = 3
INVARIANTS
    TerminalHasAll
CHECK_DEADLOCK FALSE
