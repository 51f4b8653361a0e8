SPECIFICATION Spec
CONSTANTS
    Sizes <- MCSizes
    UintMod = 16
    MaxError = 3
INVARIANTS
    Framing
PROPERTIES
    Delivered
