CONSTANTS
    c1 = c1
    c2 = c2
    s1 = s1
    s2 = s2
    Cores = {c1, c2}
    Streams = {s1, s2}
    NbMbufs = 4
    NbPktPerBurst = 2
    BurstTxRetryNum = 1
    TxPktNbSegs = 2
    NbFlows = 3
    MaxPackets = 2
    GroFlushCycles = 2
    WordMod = 16
    Confs <- MCConfs
    Packets <- MCPackets
    Offloads <- MCOffloads
    BurstLen = 2

SPECIFICATION Spec

INVARIANTS
    
    ReceivedIsAccountedFor
    FlowsFollow
    EachAlone
    
    ChecksumsFinal

CHECK_DEADLOCK FALSE
