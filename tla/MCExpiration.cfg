CONSTANTS
    s1 = s1
    t1 = t1
    p1 = p1
    p2 = p2
    w1 = w1
    w2 = w2
    None = None
    Secrets = {s1}
    Tokens = {}
    RootTokens = {}
    ClientToken <- Orphan
    BatchSecrets = {s1}
    Procs = {p1, p2}
    Workers = {w1}
    Ops = {"register", "renew", "lazyRevoke", "revoke", "revokeForce", "fetch"}
    Faults = {"backend"}
    TTL = 1
    MaxRequests = 4
    MaxTime = 2
    MaxJobs = 1
    MaxRestarts = 1
    maxRevokeAttempts = 2
SPECIFICATION Spec
INVARIANTS TypeOK LiveSecretTracked LiveSecretWatched LeaseCountCovers
SYMMETRY Symmetry
CHECK_DEADLOCK FALSE
