\* Mode all: two measured runs in one process.
SPECIFICATION PinSpec
CONSTANTS
    Cores = {c1, c2, c3}
    Named = {c1, c2, c4}
    NoPin = NoPin
    Modes = {"all"}
INVARIANTS
    RefusedForCause
