CONSTANTS
    a = a
    b = b
    w1 = w1
    r1 = r1
    x1 = x1
    f1 = f1
    g1 = g1
    Main = Main
    None = None
    Existing = {a}
    Registered = {}
    Registering = {a}
    Bucket <- OneBucket
    RestoreWorkers = {w1}
    Requests = {}
    Prefixes = {}
    Failures = {f1}
    Fetches = {}
    MaxCalls = 1
    StorageFaults = TRUE
SPECIFICATION FairSpec
PROPERTIES StopReturns
CHECK_DEADLOCK FALSE
