SPECIFICATION RecordsSpec
CONSTANTS
    OrderKeys = {o1}
    Statuses = {keep, send, canc}
    Returned = {}
    Cancelled = canc
    NoStatus = NoStatus
    Absent = Absent
    Savers = {s1}
    Workers = {w1}
    Forms <- FieldsSaved
    MaxQueue = 1
    Rest = Rest
    BillKeys = {b1, b2}
    BillTypes = {t1}
    BillNumbers = {1, 2, 3}
    OldPairs <- BothSeries
    BillDays = {1, 2}
    Settings = {"Challan", "Both", "GoodsReturn", "SalesReturnInvoice", NoBill}
    SuspectJump = 1
    SuspectRatio = 2
    SuspectMinMedian = 3
    MaxVoids = 1
    NoBill = NoBill
    Documents = {d1, d2}
    Papers <- SomePapers
    Numbers = {1, 2}
    BillDates = {1, 2}
    Readers = {r1}
    Keys = {k1, k2, k3, k4}
    PlainNames = {n1, n2}
    Orders = {o1}
    Gone = Gone
    LastDay = 4
    OffDays = {3}
    HolidayDays = {2, 3}
    Times = {10, 20}
    LateAfter = 12
    HalfCheckin = 15
    AbsentBefore = 11
    HalfBefore = 18
    FullUntil = 19
    AutoOut = 20
INVARIANTS
    RecordsTypeOK
    OneScreenAtATime
    GroupsAreTold
    NumbersAreReadAlike
    PerfectIsTrue
    OrdersFollowTheMerges
    MonthBooksAgree
CHECK_DEADLOCK FALSE
