CONSTANTS
    t0 = t0
    t1 = t1
    t2 = t2
    t3 = t3
    r1 = r1
    r2 = r2
    w1 = w1
    Nil = Nil
    Tokens = {t0, t1, t2, t3}
    Existing = {t0, t1, t3}
    Parent <- Family
    NumUses <- FewUses
    Requests = {r1, r2}
    Workers = {w1}
    Calls <- AllCalls
    Expiring = {t1}
    Root = {t3}
    MaxMishaps = 1
SPECIFICATION Spec
INVARIANTS UsesBoundedUnlessOrphaned TreeRevoked
PROPERTIES RevokedStaysRevoked
SYMMETRY Symmetry
CHECK_DEADLOCK FALSE
