SPECIFICATION Spec
CONSTANTS
    NbLinks = 2
    NbIngressServers = 1
    NbEgressServers = 1
    MAX_PKT_BURST = 2
    CounterMod = 8
    TxDesc = 2
    RxDesc = 2
    NbMbuf = 5
    MaxFrames = 3
    MaxRestarts = 1
    MaxFlaps = 0
INVARIANTS
    MbufConservation
    SeqIdentifiesFrame
    SeqsContiguous
    InOrderOnce
PROPERTIES
    ImplementsOrderedDelivery
