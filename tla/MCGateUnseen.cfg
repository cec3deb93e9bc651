SPECIFICATION Spec
CONSTANTS
    t1 = t1
    t2 = t2
    r1 = r1
    r2 = r2
    Identities = {t1, t2}
    Reasons = {r1, r2}
    Invocations = {i1}
    Pids = {p1}
    Trees <- UnseenTrees
    Environments <- MCEnvironments
    MaxEdits = 0
    None = None
SYMMETRY Symmetric
INVARIANT PolicyFailsClosed
CHECK_DEADLOCK FALSE
