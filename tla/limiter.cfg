SPECIFICATION LimSpec
CONSTANTS
    k1 = k1
    k2 = k2
    Keys = {k1, k2}
    Limit = 2
    Window = 3
    MaxEntries = 1
    MaxTime = 7
    MaxCalls = 4
SYMMETRY Symmetry
INVARIANT AdmissionsBounded
INVARIANT RefusalsDeserved
CHECK_DEADLOCK FALSE
