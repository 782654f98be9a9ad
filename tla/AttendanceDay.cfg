SPECIFICATION LiveSpec
CONSTANTS
    Workers = {w1, w2}
    MaxPunches = 1
    MaxCheckOuts = 2
    MaxLost = 1
INVARIANTS
    MessagesAreCounted
PROPERTIES
    MessagesGoOut
    OpenDayIsClosed
