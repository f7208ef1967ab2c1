CONSTANTS
    Ids = {r1, r2}
    Users = {u1}
    Types = {up}
    Sizes <- MCSizes
    NoRes = NoRes
    NoScan = NoScan
    MaxInt <- MCMaxInt
SPECIFICATION TickingSpec
PROPERTY AbandonedIsForgotten
