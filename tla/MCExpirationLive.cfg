CONSTANTS
    s1 = s1
    t1 = t1
    p1 = p1
    p2 = p2
    w1 = w1
    w2 = w2
    None = None
    Secrets = {s1}
    Tokens = {t1}
    RootTokens = {t1}
    ClientToken <- Owned
    BatchSecrets = {}
    Procs = {p1}
    Workers = {w1}
    Ops = {"register", "registerAuth", "revokeToken", "fetch", "renew", "revoke"}
    Faults = {"backend"}
    TTL = 1
    MaxRequests = 4
    MaxTime = 1
    MaxJobs = 1
    MaxRestarts = 1
    maxRevokeAttempts = 2
SPECIFICATION FairSpec
INVARIANTS RootTokenKept
PROPERTIES ExpiredSecretRevoked
CHECK_DEADLOCK FALSE
