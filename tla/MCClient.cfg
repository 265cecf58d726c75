\* Two callers on a tree with two branches, every block announced.
SPECIFICATION Spec
CONSTANTS
    queue = queue
    voter = voter
    Callers = {queue, voter}
    Labels = {"a", "b"}
    MaxHeight = 3
    BadBlocks <- MCBadBlocks
    ForkBlocks <- NoForkBlocks
    Origins = {"broadcast"}
    MaxToNotify = 2
SYMMETRY CallerSymmetry
INVARIANTS
    TypeOK
    FinalizedOnBest
    ParentStored
    FinalityNoticesInOrder
    AnnouncedOnce
    BestAnnounced
PROPERTIES
    ImplementsChainSource
