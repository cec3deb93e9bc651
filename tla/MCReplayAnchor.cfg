SPECIFICATION Spec
CONSTANTS
    Threads = {t1, t2}
    MaxDepth = 1
    Keys = {k1}
    Digests = {d1}
    Values = {Failed, applied}
    Failed = Failed
    Unusable = Unusable
    Capacity = 1
    Retention = 1
    MaxClock = 2
    Faults = {}
INVARIANT RetentionBeginsAfterPublication
