------------------------------- MODULE TsQuote -------------------------------
(***************************************************************************)
(* The TypeScript client's quote, calculateSwapQuote in                    *)
(* ts-client/src/amm/utils.ts, for a constant-product pool, next to the    *)
(* Rust one of module SwapMath, on every state the pool reaches.           *)
(*                                                                         *)
(* The client computes with BN: unbounded integers whose div truncates     *)
(* toward zero.  The share conversions come from @mercurial-finance/       *)
(* vault-sdk and are external.                                             *)
(***************************************************************************)
EXTENDS Pool

CONSTANTS WhitelistedVault,  \* Bootstrapping.whitelisted_vault
          Initiators         \* swapInitiator arguments

\* BN.div
Magnitude(n) == IF n < 0 THEN -n ELSE n
BnDiv(x, y) ==
    LET quotient == Magnitude(x) \div Magnitude(y)
    IN  IF (x < 0) # (y < 0) THEN -quotient ELSE quotient

\* calculateWithdrawableAmount of the vault SDK
CalculateWithdrawableAmount(now, v) ==
    LET ratio  == (now - v.lastReport) * v.degradation
        locked == IF ratio > DegradationDenominator THEN 0
                  ELSE BnDiv(v.lastProfit * (DegradationDenominator - ratio),
                             DegradationDenominator)
    IN  v.totalAmount - locked

\* getAmountByShare and getUnmintAmount of the vault SDK
TsAmountByShare(share, total, supply) == IF supply = 0 THEN 0 ELSE BnDiv(share * total, supply)
TsUnmintAmount(out, total, supply)    == BnDiv(out * supply, total)

\* Mutant: the fee is rounded up.
TsTradingFeeUp(amount) == CeilDiv(amount * TradeFeeNumerator, TradeFeeDenominator)

\* calculateTradingFee and calculateProtocolTradingFee: plain division
TsTradingFee(amount)  == BnDiv(amount * TradeFeeNumerator, TradeFeeDenominator)
TsProtocolFee(amount) == BnDiv(amount * ProtocolFeeNumerator, ProtocolFeeDenominator)

\* ceilDiv of a natural number.  It throws on a quotient of zero, and when adding
\* one to a negative quotient (the fee is more than the pool owns) gives zero.
TsCeilDiv(k, n) == BnDiv(k, n) + (IF k % Magnitude(n) > 0 THEN 1 ELSE 0)

\* ConstantProductSwap.computeOutAmount, and when it or its ceilDiv throws
TsComputeOutAmount(source, swapSource, swapDestination) ==
    swapDestination - TsCeilDiv(swapSource * swapDestination, swapSource + source)
TsComputeThrows(source, swapSource, swapDestination) ==
    \/ swapSource + source = 0
    \/ BnDiv(swapSource * swapDestination, swapSource + source) = 0
    \/ TsCeilDiv(swapSource * swapDestination, swapSource + source) = 0
    \/ TsComputeOutAmount(source, swapSource, swapDestination) = 0

\* Mutant: the vault's reserve is not considered.
MaxSwapOutOwned(total, reserve) == total

\* calculateMaxSwapOutAmount
CalculateMaxSwapOutAmount(total, reserve) == IF total > reserve THEN reserve ELSE total

\* What the pool owns of a token, as calculateSwapQuote computes it.
TsPoolTokens(q, t) ==
    TsAmountByShare(q.lp[t], CalculateWithdrawableAmount(q.clock.time, q.vault[t]), q.vault[t].supply)

\* sourceAmountWithFee of calculateSwapQuote: what the deposit adds to the pool's
\* tokens, less the fee.  Nothing keeps it from being negative.
SourceAmountWithFee(q, inMint, inAmount) ==
    LET v           == q.vault[inMint]
        unlocked    == CalculateWithdrawableAmount(q.clock.time, v)
        grossFee    == TsTradingFee(inAmount)
        protocolFee == TsProtocolFee(grossFee)
        deposited   == inAmount - protocolFee
        inLp        == TsUnmintAmount(deposited, unlocked, v.supply)
        after       == TsAmountByShare(inLp + q.lp[inMint], unlocked + deposited, v.supply + inLp)
    IN  (after - TsPoolTokens(q, inMint)) - (grossFee - protocolFee)

\* calculateSwapQuote; an error when an invariant(..), a division by
\* zero or the curve throws
CalculateSwapQuote(q, inMint, inAmount, initiator) ==
    LET outMint     == Other(inMint)
        v           == q.vault[outMint]
        unlocked    == CalculateWithdrawableAmount(q.clock.time, v)
        inTotal     == TsPoolTokens(q, inMint)
        outTotal    == TsPoolTokens(q, outMint)
        grossFee    == TsTradingFee(inAmount)
        source      == SourceAmountWithFee(q, inMint, inAmount)
        destination == TsComputeOutAmount(source, inTotal, outTotal)
        outLp       == TsUnmintAmount(destination, unlocked, v.supply)
        amountOut   == TsAmountByShare(outLp, unlocked, v.supply)
    IN  IF /\ inMint \in Tokens
           /\ q.enabled
           /\ initiator = WhitelistedVault \/ Activated(q.clock)
           /\ CalculateWithdrawableAmount(q.clock.time, q.vault[inMint]) # 0
           /\ ~TsComputeThrows(source, inTotal, outTotal)
           /\ amountOut < CalculateMaxSwapOutAmount(outTotal, v.reserve)
        THEN [ok |-> TRUE, fee |-> grossFee - TsProtocolFee(grossFee), outAmount |-> amountOut]
        ELSE QuoteError

-----------------------------------------------------------------------------
(* Properties                                                              *)

\* No fee of this trade is rounded down to nothing.
FeesVisible(amount) ==
    /\ TsTradingFee(amount) > 0 \/ TradeFeeNumerator = 0
    /\ TsProtocolFee(TsTradingFee(amount)) > 0 \/ ProtocolFeeNumerator = 0

\* Whenever the Rust quote succeeds, and no fee vanishes in the division, the
\* TypeScript quote succeeds too and gives the same amount and the same fee,
\* whoever asks: its looser checks and different order of operations
\* (withdrawable amount plus deposit instead of a credited vault) make no
\* difference.
QuotesAgree ==
    \A m \in Mints, a \in SwapAmounts, i \in Initiators :
        LET rust == ComputeQuote(Snapshot, m, a)
            ts   == CalculateSwapQuote(Snapshot, m, a, i)
        IN  rust.ok /\ FeesVisible(a) =>
                ts.ok /\ ts.outAmount = rust.outAmount /\ ts.fee = rust.fee

\* An amount the TypeScript client quotes is less than the reserve that pays it
\* and than what the pool owns of the out token, and it is not negative, though
\* its BN subtractions are unchecked, unless the fee is more than what the deposit
\* adds to the pool.
QuotesPayable ==
    \A m \in Mints, a \in SwapAmounts, i \in Initiators :
        LET ts == CalculateSwapQuote(Snapshot, m, a, i)
        IN  ts.ok => /\ SourceAmountWithFee(Snapshot, m, a) \in Nat => ts.outAmount >= 0
                     /\ ts.outAmount < vault[Other(m)].reserve
                     /\ ts.outAmount < Owned(Other(m))

\* What getSwapQuote promises (ts-client/src/amm/index.ts:1983, "The amount of
\* the destination token that will be received after the swap"): the program,
\* which pays what the Rust quote says, pays the amount the client quoted.
QuotedIsReceived ==
    \A m \in Mints, a \in SwapAmounts, i \in Initiators :
        LET paid == ComputeQuote(Snapshot, m, a)
            ts   == CalculateSwapQuote(Snapshot, m, a, i)
        IN  paid.ok /\ ts.ok => ts.outAmount = paid.outAmount
=============================================================================
