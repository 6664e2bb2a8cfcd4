SPECIFICATION Spec
CONSTANTS
    PipeSize = 1
    Faults <- MCNoFaults
    MaxLines = 3
INVARIANTS
    LibraryOutputCaptured
CHECK_DEADLOCK FALSE
