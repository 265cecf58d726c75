\* One caller clears the marker another has set.
SPECIFICATION Spec
CONSTANTS
    queue = queue
    voter = voter
    Callers = {queue, voter}
    Labels = {"a", "b"}
    MaxHeight = 2
    BadBlocks <- MCBadBlocks
    ForkBlocks <- NoForkBlocks
    Origins = {"broadcast"}
    MaxToNotify = 1
INVARIANT ImportingIsCurrent
