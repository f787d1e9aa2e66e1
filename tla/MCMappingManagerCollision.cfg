CONSTANTS
    d1 = d1
    d2 = d2
    Data <- MCData
    NoData = NoData
    MaxId = 3
    MaxMappings = 2
    MaxFaults = 0

SPECIFICATION Spec

SYMMETRY DataSymmetry

INVARIANT
    CreatedIsShown
