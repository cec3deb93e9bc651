SPECIFICATION FairSpec
CONSTANTS
    k1 = k1
    d1 = d1
    d2 = d2
    None = None
    Clients = {c1, c2}
    Workers = {w1, w2}
    Messages <- Retries
    Keys <- MCKeys
    Digests <- MCDigests
    Values = {Failed, applied}
    Failed = Failed
    Unusable = Unusable
    Capacity = 1
    Retention = 1
    MaxClock = 0
    Faults = {"clock"}
INVARIANT PoolKeepsAnOwner
INVARIANT RetriesAgree
PROPERTY EveryMessageIsAnswered
