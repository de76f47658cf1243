\* Three operations of any kind, a worker's handover among them, and a quit at
\* any time: edits that are refused, and a walk that takes the tree down with it.
CONSTANTS
    MaxOps = 3
    MaxWork = 2
    MaxPublished = 1
    Serial = FALSE
    Faults = {"refused", "dies"}
SPECIFICATION FairSpec
INVARIANTS
    TreeTellsWorld
    ClosedIsDrained
PROPERTIES
    Settles
CHECK_DEADLOCK FALSE
