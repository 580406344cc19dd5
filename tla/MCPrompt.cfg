SPECIFICATION Spec
CONSTANTS
    CTX_STACK_SIZE = 16
    ACTION_RSS_QUEUE_NUM = 2
    Room = 4
    MaxIds = 2
    AskedRules <- MCRules
    MaxSerial = 3
    MaxFlowLines = 4
    ConfValues = {1, 2}
    MaxSets = 2
    MCAST_POOL_INC = 2
    McAddrs = {"a", "b", "c"}
    MaxMcastLines = 7
    SetPorts = {0, 1}
    SetQueues = {0, 1}
    Capa <- MCCapa
    Families <- MCFamilies
    MaxSettings = 3
INVARIANTS
    StoredWhereMeant
    LinesHoldTogether
    ListsMatchDevice
    RulesAreAsAsked
    HeaderAsSet
    PoolIsWhatWasAsked
    
    
PROPERTIES
    ListedInOrder
CHECK_DEADLOCK FALSE
