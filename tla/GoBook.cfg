\* Two prices and five calls: a cancel inside a level, a sweep over two levels.
SPECIFICATION Spec
CHECK_DEADLOCK FALSE
CONSTANTS
    Prices = {1, 2}
    Qtys = {1, 2}
    MaxOps = 5
INVARIANTS
    TreeMatchesMap
    ChecksumCanonical
PROPERTIES
    ImplementsClob
