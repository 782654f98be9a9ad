SPECIFICATION Spec
CONSTANTS
    Workers = {w1, w2}
    OrderKeys = {o1, o2, o3}
    MaxSerial = 3
    Bills <- SomeBills
    DailySeries = {"challan"}
SYMMETRY Symmetry
INVARIANTS
    SerialsNeverClash
    FormNumbersAreUnique
