\* Two registrations that share the one permit, refuted: the edit of the first
\* queues behind a walk and keeps the permit the second is waiting for.
CONSTANTS
    MaxOps = 4
    MaxWork = 2
    MaxPublished = 0
    Serial = TRUE
    Faults = {}
SPECIFICATION FairSpec
PROPERTIES
    Settles
CHECK_DEADLOCK FALSE
