SPECIFICATION FairSpec
CONSTANTS
    s1 = s1
    s2 = s2
    None = None
    Servers <- MCServers
    IndexAge = 2
    BundleAge = 3
    MaxVersion = 3
    MaxContent = 2
INVARIANTS
    TypeOK
    IndexNeverAhead
PROPERTIES
    ServersCatchUp
CHECK_DEADLOCK FALSE
