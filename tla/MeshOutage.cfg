CONSTANTS
    alpha = alpha
    beta = beta
    gamma = gamma
    Registry <- MCRegistry
    Outage = 4
    OverflowAttempt = 3
    CloseAllowed = {}
SPECIFICATION Spec
PROPERTIES
    RetryEndsOnSuccessOrClose
