CONSTANTS
    gain = gain
    wah = wah
    short = short
    medium = medium
    long = long
    NoName = none
    none = none
    NameBytes <- Lengths
    TagBytes <- Tags
    RestBytes = 58
    Names <- ThreeNames
    Params <- TwoParams
    Ids <- ThreeIds
    DataBytes <- ThreeBytes
    Parameters <- ManyParameters
    MaxRounds = 3

SPECIFICATION ExchangeSpec

INVARIANTS
    ContentSurvives
    OnlyLongNamesAreLost
    EveryPresetFits

CHECK_DEADLOCK FALSE
