CONSTANTS
    MaxRxQueues = 2
    MaxTxQueues = 2
    MaxPorts = 2
    NbLcores = 2
    Options <- MCFileOptions
    MaxCommands = 4

SPECIFICATION Spec

INVARIANTS
    StreamsExist

CHECK_DEADLOCK FALSE
