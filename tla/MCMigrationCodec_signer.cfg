CONSTANTS
    Docs <- MCDocs
    AddrLen <- MCAddrLen
    Multiplier <- MCMultiplier
    UintBound <- MCUintBound
    GasPerEntry <- MCGasPerEntry
    DefaultGasLimit <- MCDefaultGasLimit
SPECIFICATION Spec
INVARIANT
    ConfiguredProducerSigns
