SPECIFICATION CredSpec
CONSTANTS
    k1 = k1
    k2 = k2
    k3 = k3
    e1 = e1
    e2 = e2
    Tokens = {k1, k2, k3}
    Issues <- SmallIssues
    FirstFiles <- SmallFirstFiles
    Operations <- SmallOperations
    Editors = {e1, e2}
    MaxTime = 3
SYMMETRY Symmetry
INVARIANT CredentialEditsHold
INVARIANT NeverLockedOut
INVARIANT ServedAreEntitled
INVARIANT EntitledAreServed
