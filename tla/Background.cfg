SPECIFICATION BackgroundSpec
CONSTANTS
    Conns = {k1, k2}
    Requests = {r1}
    Jobs = {j1, j2}
    MaxDepth = 1
    LastReportDay = 2
    Copies = {c1, c2}
    People = {p1}
    Pending = Pending
    MaxFailures = 1
    MaxRowNumber = 5
    Forms = {f1, f2}
    UploadFiles <- TwoUploads
    Clerks = {c1, c2}
    ImportIds = {b1, b2}
    RowNames = {n1}
INVARIANTS
    LocksComeBack
    BatchesAreSentOnce
    NextNumberIsFree
    ImportsKeepWork
PROPERTIES
    EveryoneIsAnswered
    DueBatchesRun
CHECK_DEADLOCK FALSE
