SPECIFICATION Spec
CONSTANTS
    Threads = {w1, w2}
    Tables = {t1}
    MaxWrites = 3
    MaxVersion = 1
    Uncommitted = Uncommitted
SYMMETRY Symmetry
INVARIANTS
    ReadIsFresh
PROPERTIES
    KeepsThePromise
