SPECIFICATION LiveSpec
CONSTANTS
    Workers = {w1, w2}
    EntryIds = {e1}
    Amounts = {1}
    TypedAmounts = {}
    Null = Null
    Deliveries = {"open", "delivered"}
    Modes <- Cash
    CashierModes <- Cash
    Split <- SplitCash
PROPERTIES
    RequestsEnd
CHECK_DEADLOCK FALSE
