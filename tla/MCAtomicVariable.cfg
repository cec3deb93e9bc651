SPECIFICATION Spec
CONSTANTS
    Callers = {c1, c2}
    States = {s1, s2, s3}
    Hostile = {s3}
    MaxVersion = 2
    Ids = {i1, i2, i3, i4}
SYMMETRY IdSymmetry
INVARIANT TypeOK
INVARIANT IdentityIsVersion
INVARIANT FailsOnlyAtTheLimit
PROPERTY VersionCountsChanges
PROPERTY ImplementsCell
