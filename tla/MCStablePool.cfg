SPECIFICATION Spec
CONSTANTS
    Amp = 5
    Precision = 2
    VirtualPrices = {3}
    FeeNum = 0
    FeeDen = 10
    MaxIters = 20
    Reserves = {60, 100, 140}
    Amounts = {0, 1, 12, 30}
    SwapFees <- MCSwapFees
    MaxSteps = 3
INVARIANTS NewtonNearExact NoFreeTokens MaxSwapInAccepted
CHECK_DEADLOCK FALSE
