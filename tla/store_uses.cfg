SPECIFICATION UsesSpec
CONSTANTS
    h1 = h1
    x1 = x1
    Leftover = Leftover
    Empty = Empty
    RequestIDs = {}
    RequestHashes = {h1}
    PlainRequestIDs = {Empty}
    MaxNodes = 3
    ProcessCrashes = TRUE
    PowerLosses = TRUE
    IOErrors = TRUE
    Names = {x1}
    Limits = {1, 2}
    MaxAttempts = 2
    MaxMigrated = 2
    Slack = 1
    Capacity = 5
    MinFree = 2
    Width = 3
    Retain = 1
    MaxClock = 3
VIEW Unanswered
INVARIANT NamedRefsResolve
INVARIANT ViewIsChain
INVARIANT ScanEndsAtRoot
INVARIANT PayloadsStayReadable
INVARIANT ManifestIsComplete
INVARIANT PartialIsPrefix
INVARIANT StrayRefNeedsFault
INVARIANT ArchivesRestore
INVARIANT PinnedRootPresent
INVARIANT AnsweredArchiveKept
INVARIANT ReserveKept
