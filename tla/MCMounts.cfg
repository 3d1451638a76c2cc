CONSTANTS
    m1 = m1
    m2 = m2
    a = a
    ab = ab
    x = x
    p1 = p1
    p2 = p2
    p3 = p3
    p4 = p4
    Nil = Nil
    Mounts = {m1, m2}
    Local = {m2}
    Paths = {a, ab, x}
    Below <- Nesting
    Initially <- FirstMount
    Procs = {p1, p2, p3, p4}
    Calls <- AllCalls
    MaxMishaps = 2
SPECIFICATION Spec
INVARIANTS RouterMatchesTable StorageMatchesTable WipedOutOfService LeaseLeadsHome DisabledLeavesNothing
SYMMETRY Symmetry
CHECK_DEADLOCK FALSE
