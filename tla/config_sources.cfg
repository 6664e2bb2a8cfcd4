SPECIFICATION Spec
CONSTANTS
    cleanup = cleanup
    keep = keep
    accessKey = accessKey
    Default = Default
    Keys <- MCKeys
    Kind <- MCKind
    Environments <- MCEnvironments
    MaxSecrets = 2
    MaxDotEnv = 1
INVARIANTS
    TypeOK
    FirstSourceWins
CHECK_DEADLOCK FALSE
