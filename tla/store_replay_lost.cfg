SPECIFICATION Spec
CONSTANTS
    q1 = q1
    q2 = q2
    h1 = h1
    h2 = h2
    Empty = Empty
    RequestIDs = {q1, q2}
    RequestHashes = {h1, h2}
    PlainRequestIDs = {}
    MaxNodes = 3
    ProcessCrashes = TRUE
    PowerLosses = TRUE
    IOErrors = FALSE
INVARIANT AcksSurvive
