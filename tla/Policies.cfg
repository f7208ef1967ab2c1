CONSTANTS
    DayHours = 2
    WeekDays = 2
    MonthDays = 3
    YearMonths = 2
    Types <- MCTypes
    NoThreshold = NoThreshold
    Unresolved = Unresolved
    NoBound = NoBound
    Rows <- MCRows
    Amounts = {1, 2}
    Hours <- MCHours
    MaxRequests = 2
SPECIFICATION Spec
INVARIANT TypeOK
INVARIANT WindowIsPeriod
INVARIANT NoPeriodOverLimit
INVARIANT StatusAgreesWithCheck
