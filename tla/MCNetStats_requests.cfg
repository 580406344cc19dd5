SPECIFICATION Spec
CONSTANTS
    Instances = {i1, i2}
    Handlers = {h1, h2, h3}
    CounterMod = 8
    MaxReading = 3
    MaxDrops = 1
    NoInstance = NoInstance
SYMMETRY Sym
INVARIANTS
    NeverPoisonedSerially
    OneDocument
    DifferencesAddUp

