\* A ring of two slots; operations due every tick, every second one, or not paced.
SPECIFICATION Spec
CONSTANTS
    RingSize = 2
    TotalOps = 5
    WarmupOps = 1
    Intervals = {0, 1, 2}
    MaxClock = 12
INVARIANTS
    ReportComplete
    StallsCharged
PROPERTIES
    RunEnds
