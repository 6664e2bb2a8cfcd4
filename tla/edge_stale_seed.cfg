SPECIFICATION Spec
CONSTANTS
    s1 = s1
    s2 = s2
    None = None
    Servers <- MCServers
    IndexAge = 1
    BundleAge = 2
    MaxVersion = 3
    MaxContent = 3
PROPERTIES
    SeedIsPublished
CHECK_DEADLOCK FALSE
