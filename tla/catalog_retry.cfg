SPECIFICATION AppendSpec
CONSTANTS
    t1 = t1
    t2 = t2
    c1 = c1
    e1 = e1
    Types = {t1, t2}
    Commands = {c1}
    Editors = {e1}
    MaxEntries = 2
INVARIANT CommittedRetryReplayed
