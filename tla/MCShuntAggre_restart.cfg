SPECIFICATION Spec
CONSTANTS
    s1 = s1
    s2 = s2
    c1 = c1
    c2 = c2
    Streams = {s1, s2}
    Cores = {c1, c2}
    NoStream = NoStream
    NoCore = NoCore
    NbSlots = 2
    HashOf <- MCHash
    CoresOf <- Affine
    Asked = {s1, s2}
    NbPktPerBurst = 1
    BurstTxRetryNum = 0
    MaxSeq = 2
    MaxSendRuns = 0
    MaxBegins = 1
    Traffics = {"numbered"}
    VideoPorts = {5002}
    VideoWord <- MCVideoWord
    VideoTries = 2
    VideoIds <- MCVideoIds
    MaxVideo = 0
    MaxVideoAsked = 0
INVARIANTS
    TableSuffices
    
