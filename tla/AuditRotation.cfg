CONSTANTS
    MaxBackups = 3
    PerFile = 2
    MaxEvents = 14
    MaxFaults = 3
SPECIFICATION Spec
INVARIANTS
    TypeOK
    InOrder
    LostOldestFirst
    SizeIsBounded
