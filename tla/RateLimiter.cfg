CONSTANTS
    alice = alice
    bob = bob
    Headers = {alice, bob}
    RateLimit = 2
    Window = 3
    LastTick = 5
SPECIFICATION Spec
INVARIANTS
    NoWindowAboveLimit
    RetryAfterIsEnough
PROPERTY RefusedOnlyAtLimit
