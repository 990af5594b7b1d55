CONSTANTS
    r1 = r1
    r2 = r2
    h1 = h1
    h2 = h2
    main0 = main0
    o1 = o1
    o2 = o2
    Addresses = {r1, r2}
    NoRow = NoRow
    Goroutines = {main0, h1, h2, o1, o2}
    NoOperation = NoOperation
    Epoch = 2
    NewPositions = {0}
    Elapses = {11520}
    MaxTime = 12000
    Main = main0
    Handlers = {h1, h2}
    Outbound = {o1, o2}
    Nobody = Nobody
    Never = Nobody
    Host <- MCHost
    Advertised <- MCAdvertised
    Banned = {"host2"}
    MAX_OUTBOUND_PEER_CONNECTIONS = 1
    MAX_INBOUND_PEER_CONNECTIONS_FROM_SAME_HOST = 2
    inboundLimit = 2
    MAX_TIP_AGE = 4320
SPECIFICATION PeersSpec
INVARIANTS
    PeersTypeOK
    EveryPeerIsListed
    MarkedIsConnected
    OneConnectionEach
    OutboundReadersStopped
PROPERTY
    ShutdownEnds
