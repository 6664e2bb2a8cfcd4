SPECIFICATION GSpec
CONSTANTS
    Empty = Empty
    Large = Large
    Small = Small
    Scant = Scant
    Absent = Absent
    Torn = Torn
    EmptyFile = EmptyFile
    Bundles = {Empty, Large, Small, Scant}
    NoRows = Empty
    CountNames <- MCCountNames
    Counts <- MCCounts
    Malformed = {}
    FetchProdDB = FALSE
    ProdDBSrc = FALSE
    AutoBootstrap = TRUE
    RunPCGWSync = FALSE
    ForcePublish = FALSE
    DBBackup = FALSE
    DBBackupKeep = 2
    R2Cleanup = TRUE
    R2Keep = 1
    Commands = {"weekly", "export"}
    Faults = {"crash", "step", "write", "put", "outdir_lost"}
    History = 1
    MaxVersion = 3
    MaxBackups = 3
PROPERTIES
    CollapseNeedsDrift
