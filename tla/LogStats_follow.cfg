SPECIFICATION LFairSpec
CONSTANTS
    NbLinks = 2
    Requests = {h1}
    MaxLines = 3
    MaxClears = 1
INVARIANTS
    PoisonSpreadsDown
PROPERTIES
    
    ShownCatchesUp
