SPECIFICATION CatSpec
CONSTANTS
    t1 = t1
    t2 = t2
    t3 = t3
    c1 = c1
    e1 = e1
    e2 = e2
    Types = {t1, t2, t3}
    Commands = {c1}
    Editors = {e1, e2}
    MaxEntries = 2
SYMMETRY Symmetry
INVARIANT CatTypeOK
INVARIANT AckedEditsSurvive
INVARIANT CopyIsCurrent
INVARIANT FileLoads
