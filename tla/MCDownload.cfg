CONSTANTS
    g = g
    c1 = c1
    c2 = c2
    c3 = c3
    d2 = d2
    p1 = p1
    p2 = p2
    Peers = {p1, p2}
    Counts <- MCCounts
    Genesis = g
    Path <- MCPath
    Invalid = {d2}
    NoCount = NoCount
    Tips <- MCTips
    maxCountsPerInv = 2
    inflightQueueMax = 2
    downloadQueueMax = 2
    RecentHeight = 3
    MaxDrops = 1
    MaxExpiries = 1
SPECIFICATION Spec
CHECK_DEADLOCK FALSE
INVARIANTS
    DownloadInv
    InFlightIsUnderWay
    OneRequestPerCount
PROPERTY
    EventuallySynced
