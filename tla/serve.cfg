SPECIFICATION LifeSpec
CONSTANTS
    p1 = p1
    p2 = p2
    g1 = g1
    g2 = g2
    k1 = k1
    k2 = k2
    Nobody = Nobody
    Procs = {p1, p2}
    Handlers = {g1, g2}
    Keys = {k1, k2}
    MaxNodes = 3
SYMMETRY Symmetry
INVARIANT ServingOwnsVolume
PROPERTY LinearHistory
INVARIANT RetriesAgree
