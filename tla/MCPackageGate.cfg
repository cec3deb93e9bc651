SPECIFICATION Spec
CONSTANTS
    t1 = t1
    t2 = t2
    r1 = r1
    r2 = r2
    Identities = {t1, t2}
    Reasons = {r1, r2}
    Invocations = {i1, i2}
    Pids = {p1, p2}
    Trees <- MCTrees
    Environments <- MCEnvironments
    MaxEdits = 1
    None = None
SYMMETRY Symmetric
INVARIANT TypeOK
INVARIANT GreenIsEvidence
INVARIANT CleanIsNotRefused
INVARIANT TestsItsOwnBuild
INVARIANT OnlyStuckStays
PROPERTY OthersAreLeftAlone
CHECK_DEADLOCK FALSE
