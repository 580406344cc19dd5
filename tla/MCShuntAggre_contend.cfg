SPECIFICATION FairSpec
CONSTANTS
    s1 = s1
    s2 = s2
    c1 = c1
    c2 = c2
    Streams = {s1, s2}
    Cores = {c1, c2}
    NoStream = NoStream
    NoCore = NoCore
    NbSlots = 2
    HashOf <- MCHash
    CoresOf <- Anywhere
    Asked = {}
    NbPktPerBurst = 2
    BurstTxRetryNum = 1
    MaxSeq = 2
    MaxSendRuns = 1
    MaxBegins = 0
    Traffics = {"numbered", "video"}
    VideoPorts = {5002, 12341}
    VideoWord <- MCVideoWord
    VideoTries = 2
    VideoIds <- MCVideoIds
    MaxVideo = 2
    MaxVideoAsked = 2
INVARIANTS
    CountedOnce
    NumbersAccounted
    VideoReportsReal
PROPERTIES
    CoreFinishes
CHECK_DEADLOCK FALSE
