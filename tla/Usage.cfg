CONSTANTS
    DayHours = 2
    WeekDays = 2
    MonthDays = 3
    YearMonths = 2
    Types <- MCTypes
    NoThreshold = NoThreshold
    Unresolved = Unresolved
    NoBound = NoBound
    Procs = {p1, p2}
    Users <- MCUsers
    Amounts = {1, 3}
    Objects <- MCObjects
    Requests <- MCRequests
    NoSlab = NoSlab
    Redundancy = 1
    MaxInt = 4
    MaxSharedWith = 1000
    Precision = 0
    Deployments <- MCDeployments
    NoRow = NoRow
    Retentions = {0, 1}
    Moments = {1, 4}
    MaxCalls = 2
    MaxFailures = 1
SPECIFICATION Spec
INVARIANT TypeOK
INVARIANT DailyAgrees
INVARIANT StoredIsCovered
INVARIANT WholeIsShared
INVARIANT GroupIsRight
INVARIANT HealthIsBacked
PROPERTY GroupShrinks

SYMMETRY Symmetry
