SPECIFICATION Spec
CONSTANTS
    Empty = Empty
    Large = Large
    Small = Small
    Scant = Scant
    Absent = Absent
    Torn = Torn
    EmptyFile = EmptyFile
    Bundles = {Empty, Large, Small, Scant}
    NoRows = Empty
    CountNames <- MCCountNames
    Counts <- MCCounts
    Malformed = {Scant}
    FetchProdDB = FALSE
    ProdDBSrc = FALSE
    AutoBootstrap = TRUE
    RunPCGWSync = FALSE
    ForcePublish = FALSE
    DBBackup = TRUE
    DBBackupKeep = 1
    R2Cleanup = TRUE
    R2Keep = 1
    Commands = {"weekly", "export"}
    Faults = {"crash", "step", "write", "put", "outdir_lost"}
    History = 0
    MaxVersion = 3
    MaxBackups = 2
INVARIANTS
    TypeOK
    RunInvariant
    PublishIsArchived
    ArchiveIsServed
PROPERTIES
    CutoverNamesBundle
    Implements
