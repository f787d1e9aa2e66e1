CONSTANTS
    a = a
    b = b
    gain = gain
    bass = bass
    low = low
    high = high
    lead = lead
    Clients <- TwoClients
    Params <- TwoParams
    Values <- TwoValues
    Names <- OneName
    Starts <- AllLow
    Stored <- AllHigh
    MaxId = 2
    MaxActs = 3
    MaxFaults = 1

SYMMETRY ClientSymmetry

SPECIFICATION Spec

INVARIANTS
    TypeOK
    PresetsAgree
    SelectionAgrees
    KnobsAgree

CHECK_DEADLOCK FALSE
