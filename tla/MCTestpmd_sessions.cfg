CONSTANTS
    MaxRxQueues = 2
    MaxTxQueues = 2
    MaxPorts = 3
    NbLcores = 3
    Options <- MCOptions
    MaxCommands = 3

SPECIFICATION Spec

INVARIANTS
    PolledQueuesExist
    QueuesNotShared
    StopTellsEveryCore
    
    ListsMatchPorts
    QuitLeavesNothing

CHECK_DEADLOCK FALSE
