SPECIFICATION Spec
CONSTANTS
    d1 = d1
    d2 = d2
    s1 = s1
    s2 = s2
    Threads = {t1, t2}
    Strangers = {x1}
    Keys = {k1}
    Capacity = 1
    Retention = 1
    MaxClock = 1
    Faults = {"clock"}
    Digests <- MCDigests
    States <- MCStates
    Hostile = {}
    MaxVersion = 2
    Ids = {i1, i2, i3, i4}
    CommandOf <- MCCommandOf
SYMMETRY Symmetric
INVARIANT AppliedAtMostOnce
INVARIANT AppliedIsTrue
INVARIANT EffectIsRecorded
INVARIANT VariableRunsUnderReservation
