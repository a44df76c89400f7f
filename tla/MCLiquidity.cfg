SPECIFICATION Spec
CONSTANTS
    MaxU64 = 320
    DegradationDenominator = 2
    TradeFeeNumerator = 1
    TradeFeeDenominator = 20
    ProtocolFeeNumerator = 1
    ProtocolFeeDenominator = 2
    ActivationType = "Slot"
    ActivationPoint = 1
    InitVault <- MCVault
    InitLp = 100
    SwapAmounts = {30, 90}
    DepositAmounts = {50}
    WithdrawAmounts = {20}
    ProfitAmounts = {31}
    LendAmounts = {90}
    MaxSlot = 4
    WhitelistedVault = wv
    Initiators = {wv, user}
    Amp = 5
    LpSupplies = {0, 97, 293}
    InAmounts = {0, 1, 7, 10, 41, 100}
    Slippages = {0, 1000}
INVARIANTS TypeOK VaultsPriceable SharesBacked QuotesAgree QuotesPayable RoundTripNoGain SingleSideNoGain
PROPERTIES ProductKept NotDiluted
CHECK_DEADLOCK FALSE
