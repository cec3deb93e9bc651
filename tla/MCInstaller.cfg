SPECIFICATION Spec
CONSTANTS
    Calls = {c1, c2}
    HostRoutes <- MCHostRoutes
    MaxHostRoutes = 2
    MaxVariables = 1
    Removals <- MCRemovals
    Live = Live
    NoList = NoList
SYMMETRY Symmetric
INVARIANT TypeOK
INVARIANT AtMostOneFamily
INVARIANT FamilyIsWhole
INVARIANT RetainedRoutesReportInstalled
INVARIANT ClassifiedRoutesLeaveControl
PROPERTY HostRoutesSurvive
