CONSTANTS
    g = g
    a1 = a1
    a2 = a2
    b1 = b1
    b2 = b2
    b3 = b3
    Counts <- MCCounts
    Genesis = g
    Path <- MCPath
    Body <- MCBody
    MaxHeight = 3
    Considerations <- MCConsiderations
    Keys = {"k1", "k2", "place", "alias"}
    By <- MCBy
    For <- MCFor
    Series <- MCSeries
    Matures <- MCNone
    Expires <- MCNone
    Dimensions <- MCDimensions
    Pseudonyms = {"alias"}
    CycleProne = {}
    MAX_CONSIDERATION_QUEUE_LENGTH = 3
    NoCount = NoCount
    NoKey = "none"
    NoEntry = NoEntry
    COUNTERPOINT_MATURITY = 1
    COUNTS_UNTIL_NEW_SERIES = 4
    Prune = FALSE
    PointWork <- MCPointWork
    IdOrder <- MCIdOrder
    NotStored = NotStored
    NoJob = NoJob
    MaxTime = 0
    Restarts = FALSE
SPECIFICATION IndexerSpec
CHECK_DEADLOCK FALSE
INVARIANTS
    IndexerInv
PROPERTIES
    DriftIsFixed
    IndexerFollows
