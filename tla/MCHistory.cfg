\* Undo, redo and travel over a tree that branches and is trimmed, with claims
\* that refuse, fail half way and panic.
CONSTANTS
    Keep = 3
    MaxNode = 4
    MaxActs = 5
    MaxTorn = 1
    Travels = TRUE
    Fates = {"clean", "refuses", "breaks", "panics"}
SPECIFICATION Spec
INVARIANTS
    ClaimsMatch
    OnPath
    TornExpired
PROPERTIES
    TravelKeepsItsWord
CHECK_DEADLOCK FALSE
