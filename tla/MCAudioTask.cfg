SPECIFICATION Spec
CONSTANTS
    BufferSize = 2
    Half = 8388608
    Inputs <- InputsDef
    Outputs <- OutputsDef
    Attacks = {1, 2}
    Holds = {1}
    Releases = {2}
    Full = 2
    MaxStarts = 1
INVARIANTS TypeOK
PROPERTIES GateFollows HysteresisHolds ClipIsReported
