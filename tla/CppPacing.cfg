\* Due every tick, every second tick, every fourth; rates 0 and above a billion too.
SPECIFICATION Spec
CONSTANTS
    Capacity = 2
    TotalOps = 5
    WarmupOps = 1
    Rates = {0, 1, 2, 4, 8}
    OneSecond = 4
    SampleMax = 7
    Word = 64
    MaxClock = 22
INVARIANTS
    StallsCharged
    NothingEarly
    PercentileRank
    SamplesComplete
