SPECIFICATION Spec
CONSTANTS
    Native = sol
    Usdc = usdc
    Memecoin = meme
    KeyOrder <- MCKeyOrder
    Pairs <- MCPairs
    Creators = {c1, c2}
    AmountA = 5
    AmountB = 2
    SwapIn = 1
    RatioSteps = 2
    U64Max = 1000
    Held = 8
    MaxCalls = 2
INVARIANTS OnePoolPerPair LpAsAsked SpentAsLanded QuietCreationLands
SYMMETRY CreatorSymmetry
CHECK_DEADLOCK FALSE
