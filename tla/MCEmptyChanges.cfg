\* A read-only backend ahead of the main one.
SPECIFICATION Spec
CONSTANTS
    Labels = {"v1", "v2"}
    VersionOf <- MCVersionOf
    GenesisVersion = 1
    NetChain <- MCShortChain
    Readonly = TRUE
    ResetBlocks = {}
    DbLimit = 9
    MaxBacklog = 2
    MaxCrashes = 1
    MaxStoreErrors = 0
    MaxStateErrors = 0
    MaxForks = 0
    MaxWipes = 1
INVARIANT MainStorageNotEmpty
