\* What Sent says of its race with the sender, refuted: the row is taken between
\* the question and the reversal.
CONSTANTS
    sender = sender
    None = None
    Worker = {sender}
    Job = {1, 2}
    Idempotent = {}
    Claims <- SenderClaims
    MaxAttempts = 6
    MaxTries = 6
    MaxFaults = 0
    MaxAsks = 2
    Scenes <- Undoing
SPECIFICATION OutSpec
PROPERTIES
    UndoWins
CHECK_DEADLOCK FALSE
