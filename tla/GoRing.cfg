\* A ring of four slots, lapped more than twice; two operations are warmup. Paced and
\* unpaced runs (Init chooses).
SPECIFICATION Spec
CONSTANTS
    RingSize = 4
    TotalOps = 9
    WarmupOps = 2
INVARIANTS
    RaceFree
    ReturnedReport
PROPERTIES
    ImplementsChannel
