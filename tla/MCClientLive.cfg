\* Fair callers and a fair network task, a fork rule, blocks of both origins.
SPECIFICATION FairSpec
CONSTANTS
    queue = queue
    voter = voter
    Callers = {queue, voter}
    Labels = {"a", "b"}
    MaxHeight = 2
    BadBlocks <- MCBadChild
    ForkBlocks <- MCForkBlocks
    Origins = {"broadcast", "sync"}
    MaxToNotify = 1
INVARIANTS
    NoBadAncestor
PROPERTIES
    ImportingCleared
    NetworkLearnsFinality
