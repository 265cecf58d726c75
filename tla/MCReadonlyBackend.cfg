\* A secondary behind a primary that grows and re-organises once, and one
\* failed read.
SPECIFICATION FairSpec
CONSTANTS
    Labels = {"c1", "c2"}
    GenesisCode = "c1"
    SpecOf <- MCSpecOf
    Blocks <- MCBlocks
    Justifiable <- MCJustifiable
    MaxHeight = 2
    MaxFaults = 1
    MaxReorgs = 1
INVARIANTS
    TypeOK
    BlockIsWhole
    ReadIsStable
PROPERTIES
    EveryBlockRead
