CONSTANTS
    a = a
    b = b
    w1 = w1
    r1 = r1
    x1 = x1
    f1 = f1
    g1 = g1
    Main = Main
    None = None
    Existing = {a}
    Registered = {b}
    Registering = {a}
    Bucket <- OneBucket
    RestoreWorkers = {w1}
    Requests = {r1}
    Prefixes = {x1}
    Failures = {f1}
    Fetches = {g1}
    MaxCalls = 2
    StorageFaults = TRUE
SPECIFICATION FairSpec
INVARIANTS LoadedOnce NoNilLocks AllRestored
PROPERTIES RestoreEnds
CHECK_DEADLOCK FALSE
