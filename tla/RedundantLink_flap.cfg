SPECIFICATION FairSpec
CONSTANTS
    NbLinks = 2
    NbIngressServers = 2
    NbEgressServers = 1
    MAX_PKT_BURST = 2
    CounterMod = 8
    TxDesc = 1
    RxDesc = 2
    NbMbuf = 3
    MaxFrames = 1
    MaxRestarts = 0
    MaxFlaps = 1
INVARIANTS
    NoHealthyLinkMasked
PROPERTIES
    ArrivedIsExamined
