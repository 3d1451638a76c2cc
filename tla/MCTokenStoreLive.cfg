CONSTANTS
    t0 = t0
    t1 = t1
    t2 = t2
    t3 = t3
    r1 = r1
    r2 = r2
    w1 = w1
    Nil = Nil
    Tokens = {t0, t1, t2}
    Existing = {t0, t1}
    Parent <- Family
    NumUses <- FewUses
    Requests = {r1, r2}
    Workers = {w1}
    Calls <- AllCalls
    Expiring = {t0}
    Root = {t2}
    MaxMishaps = 0
SPECIFICATION FairSpec
PROPERTIES CallsReturn
CHECK_DEADLOCK FALSE
