\* A letter sent, retried, undone and redone, against a relay that may lose its
\* answer, crashes and refused writes: it never leaves more often than somebody
\* asked, and under the fairness of a running sender it ends.  And the same with
\* errors that are what they say and no undo: then no retry replaces an active send.
CONSTANTS
    sender = sender
    None = None
    Worker = {sender}
    Job = {1, 2, 3}
    Idempotent = {}
    Claims <- SenderClaims
    MaxAttempts = 6
    MaxTries = 6
    MaxFaults = 2
    MaxAsks = 3
    Scenes <- RoughOrPlain
SPECIFICATION FairOutSpec
INVARIANTS
    NeverUnasked
    SentIsTrue
    SendingHasJob
PROPERTIES
    LetterEnds
    RetryFindsNoneActive
CHECK_DEADLOCK FALSE
