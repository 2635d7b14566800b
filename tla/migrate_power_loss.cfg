SPECIFICATION MigrationSpec
CONSTANTS
    h1 = h1
    x1 = x1
    Leftover = Leftover
    Empty = Empty
    RequestIDs = {}
    RequestHashes = {h1}
    PlainRequestIDs = {Empty}
    MaxNodes = 2
    ProcessCrashes = TRUE
    PowerLosses = TRUE
    IOErrors = TRUE
    Names = {x1}
    MaxAttempts = 2
INVARIANT CutoverPointStays
