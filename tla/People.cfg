SPECIFICATION PeopleSpec
CONSTANTS
    MemberKeys = {x1, x2}
    Clerks = {y1, y2}
    Roles = {"admin", "shop"}
    Names = {n1}
    Addresses = {x1, x2}
    Clients = {y1, y2}
    MaxFailures = 2
    PinAttempts = 2
    PinIpMaxFails = 3
    Askers = {x1, x2}
    MaxSaves = 2
    Viewers = {x1, x2}
    Changers = {y1, y2}
    MaxCommits = 3
    FileIds = {x1, x2, f3}
    Challans = {h1}
    Orders = {o1}
    Purchases = {p1}
    Workers = {y1, y2}
    MaxPerKind = 1
    NoFile = NoFile
    LastDay = 2
    Assignees = {a, b}
    Lookers = {x1, x2}
    Schedules <- AnySchedule
    LookBack = 2
    OffDays <- OneDayOff
SYMMETRY Same
INVARIANTS
    PeopleTypeOK
    AdminRemains
    HoldersAgree
    TriesAreLimited
    CopyFollowsSaves
    ScreenIsFresh
    FilesAndRowsAgree
    OpenItemsFollow
PROPERTIES
    MarkedItemsSurvive
CHECK_DEADLOCK FALSE
