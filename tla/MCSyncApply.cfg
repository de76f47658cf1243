\* One store taking every sequence of frames of three foreign ops.
CONSTANTS
    default = default
    plain = plain
    refused = refused
    null = null
    tomb = tomb
    absent = absent
    r1 = r1
    c1 = c1
    c2 = c2
    c3 = c3
    Device <- MCDevice
    Row <- MCRow
    Col <- MCCol
    Val <- MCVal
    Default = default
    Null = null
    Tomb = tomb
    Absent = absent
    Me = 3
    Known = {c1, c3}
    Refuses = {refused}
    Worlds <- MCGoodWorlds
    FrameCap = 3
SPECIFICATION ApplySpec
INVARIANTS
    LogIsLastWords
    RowsFollowLog
PROPERTIES
    CommitIsMerge
    ClocksKeepUp
