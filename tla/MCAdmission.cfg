SPECIFICATION Spec
CONSTANTS
    Calls = {c1}
    KeyIds = {i1, i2}
    Materials = {m1, m2}
    Variables = {v1, v2}
    Bodies = {b1}
    i1 = i1
    i2 = i2
    m1 = m1
    m2 = m2
    v1 = v1
    v2 = v2
    b1 = b1
    MaxClock = 2
    Supplied <- MCSupplied
    Asks <- MCAsks
    NoBody = NoBody
    NoCandidate = NoCandidate
    Undecodable = Undecodable
INVARIANT TypeOK
INVARIANT AuthenticBeforeTrusted
INVARIANT AdmittedWithinWindow
INVARIANT AdmittedIsWhatWasSigned
