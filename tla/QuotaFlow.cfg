CONSTANTS
    Procs = {p1, p2}
    Users = {u1}
    Types = {up}
    Plans = {default}
    Ids = {r1, r2}
    Sizes = {1}
    Limits = {0, 1}
    Policies = {TRUE, FALSE}
    Racy = {u1}
    MaxInt = 1
    NoRes = NoRes
    Nobody = Nobody
    NoType = NoType
    NoPlan = NoPlan
    MaxUsage = 1
SPECIFICATION Spec
SYMMETRY Symmetry
INVARIANT TypeOK
INVARIANT WithinLimit
INVARIANT ChargedOnce
INVARIANT NeverCountedTwice
