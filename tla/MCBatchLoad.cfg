SPECIFICATION Spec
CONSTANTS
    Sol = sol
    Usdc = usdc
    Usdt = usdt
    P1 = p1
    P2 = p2
    P3 = p3
    Unknown = unknown
    PoolData <- MCPoolData
    Mints = {sol, usdc}
    Lists <- MCLists
    ChunkSize = 8
    MaxTime = 2
INVARIANTS SearchComplete RightAccounts OneMoment
CHECK_DEADLOCK FALSE
