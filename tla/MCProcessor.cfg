CONSTANTS
    g = g
    a1 = a1
    a2 = a2
    a3 = a3
    b1 = b1
    b2 = b2
    b3 = b3
    c2 = c2
    c3 = c3
    d3 = d3
    Counts <- MCCounts
    Genesis = g
    Path <- MCPath
    Body <- MCBody
    MaxHeight = 3
    Considerations <- MCConsiderations
    Keys = {"k1", "k2"}
    By <- MCBy
    For <- MCFor
    Series <- MCSeries
    Matures <- MCMatures
    Expires <- MCExpires
    CycleProne = {}
    MAX_CONSIDERATION_QUEUE_LENGTH = 3
    NoCount = NoCount
    NoKey = "none"
    NoEntry = NoEntry
    COUNTERPOINT_MATURITY = 1
    COUNTS_UNTIL_NEW_SERIES = 1
    Prune = TRUE
    PointWork <- MCPointWork
    IdOrder <- MCIdOrder
    NotStored = NotStored
    NoJob = NoJob
    MaxTime = 1
    Restarts = FALSE
SPECIFICATION Spec
CHECK_DEADLOCK FALSE
INVARIANTS
    ProcessorTypeOK
    TipIsBest
    BranchTypesMatch
    QueueIsRenderable
PROPERTIES
    ImplementsPoint
