\* A chat of two runs whose rounds hold a read and a native command, or a call
\* that asks, and two things the person does or that go wrong: two presses of
\* one panel, for one, neither of which knows of the other.
CONSTANTS
    Rounds <- Small
    MaxRuns = 2
    MaxRounds = 1
    MaxEvents = 2
SPECIFICATION FairSpec
INVARIANTS
    EditOnce
PROPERTIES
    InTurn
    RequestsWhole
    
CHECK_DEADLOCK FALSE
