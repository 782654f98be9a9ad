SPECIFICATION Spec
CONSTANTS
    Workers = {w1, w2}
    EntryIds = {e1, e2}
    Amounts = {1}
    TypedAmounts = {}
    Null = Null
    Deliveries = {"open", "delivered", "cancelled"}
    Modes <- Both
    CashierModes <- Both
    Split <- SplitBoth
SYMMETRY Symmetry
PROPERTIES
    MergedMoneyCanBeApproved
CHECK_DEADLOCK FALSE
