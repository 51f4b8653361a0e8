SPECIFICATION Spec
CONSTANTS
    None = None
    Fp = {f1, f2, f3, f4, f5, f6}
    Address = {a1}
    TopThreshold = 5
    MaxFreq = 3
INVARIANTS
    BackPointers
PROPERTIES
    ImplementsTopK
