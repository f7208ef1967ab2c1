CONSTANTS
    Ids = {r1, r2}
    Users = {u1, u2}
    Types = {up, down}
    Sizes <- MCSizes
    NoRes = NoRes
    NoScan = NoScan
    MaxInt <- MCMaxInt
SPECIFICATION FairSpec
INVARIANT TypeOK
INVARIANT IndexAgrees
INVARIANT HeldIsFound
INVARIANT SumIsBracketed
PROPERTY ImplementsLedger
PROPERTY ReleasedIsForgotten
