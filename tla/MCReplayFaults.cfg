SPECIFICATION Spec
CONSTANTS
    Threads = {t1, t2}
    MaxDepth = 1
    Keys = {k1, k2}
    Digests = {d1, d2}
    Values = {Failed, applied}
    Failed = Failed
    Unusable = Unusable
    Capacity = 1
    Retention = 1
    MaxClock = 2
    Faults = {"clock", "backward", "control"}
SYMMETRY ThreadSymmetry
INVARIANT TypeOK
INVARIANT CapacityBounded
INVARIANT AnswersMatchIntent
PROPERTY TerminalsOutliveTheirWindow
PROPERTY ImplementsContract
