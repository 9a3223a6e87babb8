\* All modes, any setting of the variables; one core they name does not exist.
SPECIFICATION RunSpec
CONSTANTS
    Cores = {c1, c2, c3}
    Named = {c1, c2, c4}
    NoPin = NoPin
    Modes = {"throughput", "latency", "all", "other"}
    RunOps = 3
    GrowthMax = 2
INVARIANTS
    PinnedAsAsked
    AllocsCovered
