\* A 12-bit word, every seed, a few operations from each; the ladder has not one
\* level to spare.
SPECIFICATION GenSpec
CONSTANTS
    Bits = 12
    WalkEvery = 7
    Kinds = 20
    Limits = 17
    Passive = 11
    MidMin = 3
    MidMax = 5
    MidStart = 4
    AggrSpan = 2
    PassSpan = 3
    QtyMax = 4
    BackSpan = 3
    LadderSize = 9
    TotalOps = 4
INVARIANTS
    OnLadder
    InOrderArray
    SameStream
PROPERTIES
    ImplementsWorkload
