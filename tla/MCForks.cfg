\* One backend, no failed call: crashes, re-organisations, a full partition table.
SPECIFICATION Spec
CONSTANTS
    Labels = {"v1", "v2"}
    VersionOf <- MCVersionOf
    GenesisVersion = 1
    NetChain <- MCNetChain
    Readonly = FALSE
    ResetBlocks = {}
    DbLimit = 3
    MaxBacklog = 2
    MaxCrashes = 1
    MaxStoreErrors = 0
    MaxStateErrors = 0
    MaxForks = 1
    MaxWipes = 1
INVARIANTS
    RowSound
    ChainLinked
    MetadataAtFirstBlock
    RowsContiguous
    NothingSkipped
    NoGapInv
    UnpublishedIsNewest
    OnlyNewestRewritten
PROPERTIES
    ImplementsArchiveLog
