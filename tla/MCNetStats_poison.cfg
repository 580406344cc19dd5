SPECIFICATION Spec
CONSTANTS
    Instances = {i1}
    Handlers = {h1, h2}
    CounterMod = 8
    MaxReading = 3
    MaxDrops = 0
    NoInstance = NoInstance
INVARIANTS
    NeverPoisoned
