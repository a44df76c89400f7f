SPECIFICATION Spec
CONSTANTS
    CacheLife = 1
    MaxTime = 2
    MaxCalls = 2
    Vaults <- MCOneVault
INVARIANTS UpdateRepairs RecentWhenIdle PriceBoundWhenIdle
PROPERTIES NeverOlder CatchesUp
CHECK_DEADLOCK FALSE
