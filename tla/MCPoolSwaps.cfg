SPECIFICATION Spec
CONSTANTS
    MaxU64 = 90
    DegradationDenominator = 2
    TradeFeeNumerator = 0
    TradeFeeDenominator = 4
    ProtocolFeeNumerator = 1
    ProtocolFeeDenominator = 5
    ActivationType = "Timestamp"
    ActivationPoint = 1
    InitVault <- MCVault
    InitLp = 10
    SwapAmounts = {1, 3, 7}
    DepositAmounts = {5}
    WithdrawAmounts = {}
    ProfitAmounts = {}
    LendAmounts = {}
    MaxSlot = 8
INVARIANT NoFreeTokens
CHECK_DEADLOCK FALSE
