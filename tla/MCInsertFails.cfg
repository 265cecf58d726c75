\* One failed insert.
SPECIFICATION Spec
CONSTANTS
    Labels = {"v1", "v2"}
    VersionOf <- MCVersionOf
    GenesisVersion = 1
    NetChain <- MCShortChain
    Readonly = FALSE
    ResetBlocks = {}
    DbLimit = 9
    MaxBacklog = 2
    MaxCrashes = 0
    MaxStoreErrors = 1
    MaxStateErrors = 0
    MaxForks = 0
    MaxWipes = 0
INVARIANT NothingSkipped
