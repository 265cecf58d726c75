\* The read-only strategy: two backends that advance apart, a fork in either,
\* failed calls and reset_force.
SPECIFICATION Spec
CONSTANTS
    Labels = {"v1", "v2"}
    VersionOf <- MCVersionOf
    GenesisVersion = 1
    NetChain <- MCShortChain
    Readonly = TRUE
    ResetBlocks = {0}
    DbLimit = 9
    MaxBacklog = 2
    MaxCrashes = 0
    MaxStoreErrors = 1
    MaxStateErrors = 1
    MaxForks = 1
    MaxWipes = 0
INVARIANTS
    TypeOK
    OneToken
    NoForeignKeyError
    MqAfterDb
    MetadataSound
    RowSound
    OnlyGenesisSkipped
