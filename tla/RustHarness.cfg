\* A ring of two slots; all operations due at once, every second tick, or not paced.
SPECIFICATION Spec
CONSTANTS
    RingSize = 2
    TotalOps = 5
    WarmupOps = 1
    Unpaced = Unpaced
    Intervals = {Unpaced, 0, 2}
    MaxClock = 13
INVARIANTS
    ReportComplete
PROPERTIES
    ImplementsChannel
