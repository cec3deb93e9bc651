SPECIFICATION Spec
CONSTANTS
    Threads = {t1, t2}
    MaxDepth = 2
    Keys = {k1, k2}
    Digests = {d1}
    Values = {Failed, applied}
    Failed = Failed
    Unusable = Unusable
    Capacity = 2
    Retention = 1
    MaxClock = 1
    Faults = {"control"}
SYMMETRY ThreadSymmetry
INVARIANT ReservationNeverLost
INVARIANT OneOwnerPerReservation
INVARIANT WaitersHaveALiveOwner
CHECK_DEADLOCK FALSE
