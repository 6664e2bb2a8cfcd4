SPECIFICATION Spec
CONSTANTS
    Empty = Empty
    Large = Large
    Small = Small
    Scant = Scant
    Absent = Absent
    Torn = Torn
    EmptyFile = EmptyFile
    Bundles = {Empty, Large, Small, Scant}
    NoRows = Empty
    CountNames <- MCCountNames
    Counts <- MCCounts
    Malformed = {Scant}
    FetchProdDB = TRUE
    ProdDBSrc = TRUE
    AutoBootstrap = TRUE
    RunPCGWSync = TRUE
    ForcePublish = FALSE
    DBBackup = TRUE
    DBBackupKeep = 2
    R2Cleanup = TRUE
    R2Keep = 2
    Commands = {"weekly", "export"}
    Faults = {"sigterm", "step", "put", "live_get"}
    History = 0
    MaxVersion = 4
    MaxBackups = 3
INVARIANTS
    CounterInvariant
    ReportedPublishIsLive
PROPERTIES
    BackupIsPublished
