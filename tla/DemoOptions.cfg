SPECIFICATION Spec
CONSTANTS
    NbDevices = 2
    MaxItems = 2
    MaxPairs = 4
INVARIANTS
    AcceptedLinesStart
CHECK_DEADLOCK FALSE
