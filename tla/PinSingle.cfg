\* One measured run per process, any setting of the two variables.
SPECIFICATION PinSpec
CONSTANTS
    Cores = {c1, c2, c3}
    Named = {c1, c2, c4}
    NoPin = NoPin
    Modes = {"throughput", "latency"}
INVARIANTS
    RefusedForCause
    PinnedAsAsked
