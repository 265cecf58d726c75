\* Fair tasks, one backend, crashes.
SPECIFICATION FairSpec
CONSTANTS
    Labels = {"v1", "v2"}
    VersionOf <- MCVersionOf
    GenesisVersion = 1
    NetChain <- MCShortChain
    Readonly = FALSE
    ResetBlocks = {}
    DbLimit = 9
    MaxBacklog = 2
    MaxCrashes = 2
    MaxStoreErrors = 0
    MaxStateErrors = 0
    MaxForks = 0
    MaxWipes = 0
PROPERTIES
    EveryBlockArchived
