CONSTANTS
    p1 = p1
    p2 = p2
    low = low
    high = high
    wild = wild
    Params <- MCParams
    Valid <- MCValid
    Invalid <- MCInvalid
    NoValue = NoValue
    Default = low
    MaxPending = 2
    MaxStarts = 2
    MaxFaults = 0

SPECIFICATION Spec

INVARIANT
    LiveInRange
