\* Two devices and a row of two cells from before the store had a log: reconnects,
\* a lost end or a restart that backfills again, every place a wake or a have could
\* go missing or come twice, frames cut at every op by the budget; and, under the
\* fairness of a running service, the two come to agree.
CONSTANTS
    default = default
    typed = typed
    null = null
    tomb = tomb
    absent = absent
    r1 = r1
    c1 = c1
    c2 = c2
    Device <- Two
    Row <- MCRow
    Col = {c1, c2}
    Val <- MCVal
    Default = default
    Null = null
    Tomb = tomb
    Absent = absent
    Links <- AllLinks
    Legacy <- FirstHasLegacy
    LegacyVal <- MCLegacyVal
    LegacySeq <- MCLegacySeq
    Batch = 3
    Counter = 2
    PipeCap = 1
    Now = {0}
    MaxSeq <- Seq32
    MaxFaults = 1
SPECIFICATION FairSpec
INVARIANTS
    LastWordHeld
    OneWordPerCell
    IdleOwesNothing
    InTurn
    QuietAgree
PROPERTIES
    Refines
    Converges
CHECK_DEADLOCK FALSE
