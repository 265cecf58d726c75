\* The metadata of a number, local runtimes, and a fork.
SPECIFICATION Spec
CONSTANTS
    worker = worker
    notifier = notifier
    f1 = f1
    f2 = f2
    f3 = f3
    bad = bad
    text = text
    Workers = {}
    Notifiers = {notifier}
    Files <- MCFiles
    WasmFiles <- MCWasm
    SpecOf <- MCSpecOf
    Labels = {"a", "b"}
    VersionOf <- MCVersionOf
    GenesisVersion = 1
    MaxHeight = 2
    MaxBlocks = 4
    WithOverrides = TRUE
INVARIANT OverrideMatches
CHECK_DEADLOCK FALSE
