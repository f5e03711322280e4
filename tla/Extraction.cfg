SPECIFICATION ExtractionSpec
CONSTANTS
    k1 = k1
    k2 = k2
    Key <- TwoKeys
    NoKey = NoKey
    MaxErrors = 1
    MaxMsgs = 3
    MaxTicks = 2
SYMMETRY Symmetry
INVARIANTS ExtractionSound NoneMissed
