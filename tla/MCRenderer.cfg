CONSTANTS
    x = x
    R = R
    W = W
    Others = Others
    None = None
    i1 = i1
    i2 = i2
    i3 = i3
    i4 = i4
    Considerations = {x}
    WorkIDs <- MCWorkIDs
    Clients <- MCClients
    TipBuffer <- MCTipBuffer
    MAX_CONSIDERATIONS_TO_INCLUDE_PER_COUNT = 3
    MaxCounts = 3
SPECIFICATION Spec
CHECK_DEADLOCK FALSE
INVARIANTS
    WorkIsCurrent
    SubmittedIsWhole
PROPERTY
    QueuedIsRendered
