\* Two devices that know each other, meet on a ticket or fail to, and one thing
\* that goes wrong or is asked for at any moment.
CONSTANTS
    Device <- TwoDevices
    MaxLinks = 3
    MaxEvents = 1
    Starts <- FourStarts
SPECIFICATION FairSpec
INVARIANTS
    OnlyTheRoster
    PanelTellsTruth
PROPERTIES
    Meets
    StraysGo
CHECK_DEADLOCK FALSE
