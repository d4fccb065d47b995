CONSTANTS
    p1 = p1
    p2 = p2
    p3 = p3
    i1 = i1
    i2 = i2
    i3 = i3
    i4 = i4
    None = None
    Processes = {p1, p2, p3}
    Inodes = {i1, i2, i3, i4}
    FirstFiles <- MCFirstFiles
    MaxServes = 5
    MaxCrashes = 1
    MaxFailures = 1
SPECIFICATION FairSpec
INVARIANTS
    TypeOK
    SignedWithKeyOnDisk
    OthersKept
PROPERTY EveryRequestEnds
