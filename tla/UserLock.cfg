CONSTANTS
    Procs = {p1, p2}
    Users = {u1}
    Objs = {o1, o2, o3}
    NoObj = NoObj
    Anonymous = Anonymous
SPECIFICATION FairSpec
INVARIANT TypeOK
INVARIANT ExclusiveUnlessRaced
INVARIANT NoEntryLeak
INVARIANT LockedMeansHeld
PROPERTY ImplementsMutex
PROPERTY FreeLockIsTaken
