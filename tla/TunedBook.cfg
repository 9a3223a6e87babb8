\* A ladder of three levels, both ends in use; best_ask without asks is the end
\* of the ladder (Go, Java) or beyond it (C++).
SPECIFICATION Spec
CHECK_DEADLOCK FALSE
CONSTANTS
    Prices = {0, 1, 2}
    Qtys = {1, 2}
    MaxOps = 4
    LadderLen = 3
    NoAsks = {3, 100}
INVARIANTS
    QueueDiscipline
    BestExact
    LiveExact
    ChecksumCanonical
PROPERTIES
    ImplementsClob
