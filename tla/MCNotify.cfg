CONSTANTS
    Renderers = {r1}
    Peers = {p1}
    Indexer = Indexer
    Workers = {}
    MaxTips = 2
    TipBuffer <- MCOneEach
    TxBuffer <- MCOneEach
    CountChan = 1
    CnChan = 1
    Nobody = Nobody
SPECIFICATION Spec
CHECK_DEADLOCK FALSE
INVARIANTS
    NotifyInv
    OneAnswerPerCall
PROPERTIES
    EndsUnlessStuck
    ShutdownUnlessStuck
