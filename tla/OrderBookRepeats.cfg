SPECIFICATION Spec
CONSTANTS
    Workers = {w1, w2}
    OrderKeys = {o1, o2}
    MaxSerial = 3
    Bills <- SomeBills
    DailySeries = {"challan"}
SYMMETRY Symmetry
INVARIANTS
    NumbersDoNotRepeat
