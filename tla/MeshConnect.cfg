CONSTANTS
    alpha = alpha
    beta = beta
    gamma = gamma
    Registry <- MCRegistry
    Outage = 3
    OverflowAttempt = 4
    CloseAllowed = {"idle", "fetching", "done"}
    LoopAtFirst = {TRUE, FALSE}
SPECIFICATION FairStartupSpec
INVARIANTS
    StartupTypeOK
    NoPeerIsForgotten
    ConnectedOnce
    StartedOnce
    ClosedForGood
PROPERTIES
    EveryPeerConnects
