SPECIFICATION Spec
CONSTANTS
    Workers = {w1, w2}
    EntryIds = {e1, e2}
    Amounts = {1}
    TypedAmounts = {}
    Null = Null
    Deliveries = {"open", "cancelled"}
    Modes <- Both
    CashierModes <- Both
    Split <- SplitBoth
SYMMETRY Symmetry
INVARIANTS
    ConfirmedMoneyIsStaged
    OneEntryPerLeg
    EntriesCarryTheMerge
PROPERTIES
    ApprovedIsOnlyFlagged
CHECK_DEADLOCK FALSE
