SPECIFICATION Spec
CONSTANTS
    MaxU64 = 90
    DegradationDenominator = 2
    TradeFeeNumerator = 1
    TradeFeeDenominator = 4
    ProtocolFeeNumerator = 1
    ProtocolFeeDenominator = 2
    ActivationType = "Slot"
    ActivationPoint = 1
    InitVault <- MCVault
    InitLp = 10
    SwapAmounts = {3, 9, 20}
    DepositAmounts = {5}
    WithdrawAmounts = {2}
    ProfitAmounts = {3}
    LendAmounts = {9}
    MaxSlot = 4
    WhitelistedVault = wv
    Initiators = {wv, user}
CHECK_DEADLOCK FALSE
INVARIANT QuotedIsReceived
