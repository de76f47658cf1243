SPECIFICATION FairSpec
CONSTANTS
    Table <- TwoTables
    Query <- TwoQueries
    Reads <- BothRead
    Panels <- TwoLists
    MaxEvents = 1
PROPERTIES
    ScreenSettles
CHECK_DEADLOCK FALSE
