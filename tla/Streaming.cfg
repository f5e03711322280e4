SPECIFICATION StreamSpec
CONSTANTS
    Setups <- MCSetups
    Cap = 1
    TextCap = 1
    MaxIterations = 2
    MaxPieces = 3
    MaxShown = 2
    MaxFails = 2
    Texts <- MCTexts
    MaxLength = 4
INVARIANTS ShownWhole DeliveredWhole RecordedWhole
PROPERTY StreamEnds
CHECK_DEADLOCK FALSE
