CONSTANTS
    n1 = n1
    n2 = n2
    p1 = p1
    p2 = p2
    Nil = Nil
    Nodes = {n1, n2}
    Procs = {p1, p2}
    MaxKeys = 3
    MaxMasters = 2
    MaxMishaps = 2
SPECIFICATION Spec
INVARIANTS DataReadable Unsealable UpgradeWillGo
PROPERTIES TakeoverSucceeds
SYMMETRY Symmetry
CHECK_DEADLOCK FALSE
