SPECIFICATION FairLockSpec
CONSTANTS
    s1 = s1
    s2 = s2
    s3 = s3
    s4 = s4
    p1 = p1
    p2 = p2
    Nobody = Nobody
    Stores = {s1, s2, s3, s4}
    Processes = {p1, p2}
    ProcessOf <- MCProcessOf
INVARIANT LockInv
INVARIANT OneOwner
INVARIANT NothingStranded
PROPERTY AttemptEnds
