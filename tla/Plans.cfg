CONSTANTS
    Procs = {p1, p2}
    Users <- MCUsers
    PlanIds = {1, 2}
    Terms = {a, b}
    Pointers = {}
    Own = {none}
    NoOwn = none
    Batch = 1
    NoRow = NoRow
    NoPlan = 0
    Starts <- MCStarts
    MaxCalls = 3
SPECIFICATION Spec
INVARIANT TypeOK
INVARIANT OneDefault
INVARIANT AssignedPlansStand
INVARIANT ToldIsCurrent
PROPERTY BatchCovers
SYMMETRY Symmetry
