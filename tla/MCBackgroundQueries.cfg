SPECIFICATION FairSpec
CONSTANTS
    Table <- TwoTables
    Query <- Page
    Reads <- PageReads
    Panels <- OneList
    MaxEvents = 2
INVARIANTS
    CurrentIsCurrent
    OneAnswer
    OnePage
PROPERTIES
    ScreenSettles
CHECK_DEADLOCK FALSE
