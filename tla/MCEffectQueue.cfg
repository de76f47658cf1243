\* Two workers that may both claim both jobs, one safe to repeat and one not:
\* claims race claims, cancels, crashes and refused writes; and, under the
\* fairness of running workers, every job ends.
CONSTANTS
    w1 = w1
    w2 = w2
    None = None
    Worker = {w1, w2}
    Job = {1, 2}
    Idempotent = {1}
    Claims <- EachEither
    MaxAttempts = 2
    MaxTries = 4
    MaxFaults = 2
SPECIFICATION FairSpec
INVARIANTS
    TypeOK
    AtMostOnce
    OneWinner
PROPERTIES
    CancelWins
    Settles
CHECK_DEADLOCK FALSE
