CONSTANTS
    p1 = p1
    Paths = {p1}
    a1 = a1
    a2 = a2
    Attempts = {a1, a2}
    c1 = c1
    c2 = c2
    Callers = {c1, c2}
    Writers = {c1}
    Core = Core
    Nobody = Nobody
SPECIFICATION FairSpec
INVARIANTS RouteProtected StopQuiesces NilMeansAnswered NoLockLeft
PROPERTIES RollbackReturns WritersGetLock StopReturns
