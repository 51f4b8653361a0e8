SPECIFICATION Spec
CONSTANTS
    Sizes <- MCSizes
    UintMod = 16
    MaxError = 3
PROPERTIES
    LossIsReported
