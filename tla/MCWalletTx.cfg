SPECIFICATION Spec
CONSTANTS
    Native = sol
    Usdc = usdc
    Usdt = usdt
    KeyOrder <- MCKeyOrder
    Pools <- MCPools
    Users = {u1, u2}
    Owners = {u1}
    Partner = u2
    Temp = tmp
    Amount = 2
    Draws <- MCDraws
    MinOut = 2
    InitSol = 3
    MaxCalls = 2
INVARIANTS PaidToTheRightWallet NothingLost QuietTxLands SignedByParties MinimumsKept
CHECK_DEADLOCK FALSE
