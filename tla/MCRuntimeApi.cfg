\* The scan for local runtimes, then both tasks on a tree of two branches.
SPECIFICATION Spec
CONSTANTS
    worker = worker
    notifier = notifier
    f1 = f1
    f2 = f2
    f3 = f3
    bad = bad
    text = text
    Workers = {worker}
    Notifiers = {notifier}
    Files <- MCFiles
    WasmFiles <- MCWasm
    SpecOf <- MCSpecOf
    Labels = {"a", "b"}
    VersionOf <- MCVersionOf
    GenesisVersion = 1
    MaxHeight = 2
    MaxBlocks = 4
    WithOverrides = TRUE
INVARIANTS
    TypeOK
    OverridesExact
    RefusedForCause
    TransactionsBalanced
    ChangesAreTheBlocks
    MetadataInitialized
\* A client that is refused stops.
CHECK_DEADLOCK FALSE
