SPECIFICATION Spec
CONSTANTS
    Empty = Empty
    Large = Large
    Small = Small
    Scant = Scant
    Absent = Absent
    Torn = Torn
    EmptyFile = EmptyFile
    Bundles = {Empty, Large, Small, Scant}
    NoRows = Empty
    CountNames <- MCCountNames
    Counts <- MCCounts
    Malformed = {Scant}
    FetchProdDB = FALSE
    ProdDBSrc = FALSE
    AutoBootstrap = TRUE
    RunPCGWSync = FALSE
    ForcePublish = FALSE
    DBBackup = TRUE
    DBBackupKeep = 1
    R2Cleanup = TRUE
    R2Keep = 2
    Commands = {"weekly"}
    Faults = {}
    History = 9
    MaxVersion = 10
    MaxBackups = 2
PROPERTY
    OldestPrunedFirst
