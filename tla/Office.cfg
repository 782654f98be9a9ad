SPECIFICATION OfficeSpec
CONSTANTS
    LastDay = 2
    Staff = {a, b}
    Admin = Admin
    TaskIds = {t1}
    ExtraIds = {e1}
    OnTime = 10
    Late <- PointsForLate
    Revise <- PointsForRevise
    Extend <- PointsForExtend
    ExtraPoints = {5}
    MaxPenalties = 1
    NoScore = NoScore
    Workers = {x1, x2}
    Spenders = {a}
    Manager = m
    EntryKeys = {1, 2}
    ExpenseAmounts = {10, 25}
    OpeningBalance = 5
    People = {x1, x2}
    EmployeeKeys = {y1, y2}
    NamesOfPeople = {n1, n2}
    Places = {p1, p2}
    Owners = {x1, x2}
    Nobody = Nobody
    Elsewhere = Elsewhere
    Sites = {x1, x2}
    NoJob = NoJob
    PerformaNos <- OneQuotation
    JobAmounts = {1}
    MaxContract = 2
    MaxItems = 1
    Amounts = {1, 2}
    TypedAmounts <- DearerAmounts
    EntryIds = {y1, y2}
    Null = Null
    Sellers = {s1, s2}
    Owner = s1
SYMMETRY Same
INVARIANTS
    OfficeTypeOK
    ScoresAreRight
    BalanceIsExplained
    EmployeesInOrder
    ContractAddsUp
    DecorMoneyIsStaged
CHECK_DEADLOCK FALSE
