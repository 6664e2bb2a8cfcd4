SPECIFICATION Spec
CONSTANTS
    Empty = Empty
    Large = Large
    Small = Small
    Scant = Scant
    Absent = Absent
    Torn = Torn
    EmptyFile = EmptyFile
    Bundles = {Empty, Large, Small, Scant}
    NoRows = Empty
    CountNames <- MCCountNames
    Counts <- MCCounts
    Malformed = {Scant}
    FetchProdDB = FALSE
    ProdDBSrc = FALSE
    AutoBootstrap = TRUE
    RunPCGWSync = FALSE
    ForcePublish = FALSE
    DBBackup = FALSE
    DBBackupKeep = 1
    R2Cleanup = FALSE
    R2Keep = 1
    Commands = {"weekly"}
    Faults = {}
    History = 1
    MaxVersion = 2
    MaxBackups = 2
PROPERTY
    IndexNamesUploadedBundle
