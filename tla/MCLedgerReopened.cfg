CONSTANTS
    g = g
    a1 = a1
    a2 = a2
    a3 = a3
    a4 = a4
    a5 = a5
    a6 = a6
    b2 = b2
    b3 = b3
    b4 = b4
    c5 = c5
    d4 = d4
    e3 = e3
    f3 = f3
    r6 = r6
    Counts <- MCCounts
    Genesis = g
    Path <- MCPath
    Body <- MCBody
    MaxHeight = 6
    Considerations <- MCConsiderations
    Keys = {"k1", "k2", "k3"}
    By <- MCBy
    For <- MCFor
    Series <- MCSeries
    NoCount = NoCount
    NoKey = "none"
    NoEntry = NoEntry
    COUNTERPOINT_MATURITY = 2
    COUNTS_UNTIL_NEW_SERIES = 2
SPECIFICATION Spec
INVARIANTS
    UndoNeverPanics
    ImbalanceIsSettled
    HistoryAgrees
