CONSTANTS
    s1 = s1
    t1 = t1
    p1 = p1
    p2 = p2
    w1 = w1
    w2 = w2
    None = None
    Secrets = {s1}
    Tokens = {t1}
    RootTokens = {}
    ClientToken <- Owned
    BatchSecrets = {}
    Procs = {p1}
    Workers = {w1}
    Ops = {"register", "registerAuth", "revokeToken"}
    Faults = {"backend", "storage"}
    TTL = 1
    MaxRequests = 3
    MaxTime = 1
    MaxJobs = 1
    MaxRestarts = 0
    maxRevokeAttempts = 1
SPECIFICATION Spec
INVARIANTS LiveSecretIndexed
SYMMETRY Symmetry
CHECK_DEADLOCK FALSE
