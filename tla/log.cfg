SPECIFICATION FairSpec
CONSTANTS
    PipeSize = 1
    Faults <- MCDiskFull
    MaxLines = 3
INVARIANTS
    TypeOK
    LibraryOnceInOrder
    OwnLinesOutliveClose
PROPERTIES
    CommandEnds
CHECK_DEADLOCK FALSE
