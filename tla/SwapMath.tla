------------------------------ MODULE SwapMath -------------------------------
(***************************************************************************)
(* The quote of a swap against a constant-product pool, computed by        *)
(* compute_quote in dynamic-amm-quote/src/lib.rs from a snapshot of the    *)
(* accounts: the fees of programs/dynamic-amm/src/state.rs, the deposit of *)
(* the in token into its vault, the curve, and the withdrawal from the     *)
(* vault of the out token.  A `.context(..)?' or `ensure!' that fails      *)
(* makes the quote a QuoteError.                                           *)
(*                                                                         *)
(* For a constant-product pool update_base_virtual_price does nothing; the *)
(* depeg cache of stable pools is modelled in module AmmClient.            *)
(***************************************************************************)
EXTENDS VaultMath

CONSTANTS
    TradeFeeNumerator, TradeFeeDenominator,        \* PoolFees.trade_fee_*
    ProtocolFeeNumerator, ProtocolFeeDenominator,  \* PoolFees.protocol_trade_fee_*
    ActivationType,                                \* "Slot" or "Timestamp"
    ActivationPoint                                \* Bootstrapping.activation_point

ASSUME FeeConstants ==
    /\ TradeFeeNumerator \in Nat
    /\ TradeFeeDenominator \in Nat \ {0}
    /\ ProtocolFeeNumerator \in Nat
    /\ ProtocolFeeDenominator \in Nat \ {0}

ASSUME ActivationConstants ==
    /\ ActivationType \in {"Slot", "Timestamp"}
    /\ ActivationPoint \in Nat

\* The two tokens of the pool, and the mint of a third token.
Tokens == {"A", "B"}
Other(t) == IF t = "A" THEN "B" ELSE "A"
Mints  == Tokens \cup {"unrelated"}

-----------------------------------------------------------------------------
(* Fees                                                                    *)

\* calculate_fee: rounded down, but never to nothing
CalculateFee(amount, numerator, denominator) ==
    LET fee == (amount * numerator) \div denominator
    IN  IF numerator = 0 \/ amount = 0 THEN 0
        ELSE IF fee = 0 THEN 1 ELSE fee

\* PoolFees::trading_fee
TradingFee(amount) ==
    CalculateFee(amount, TradeFeeNumerator, TradeFeeDenominator)

\* PoolFees::protocol_trading_fee
ProtocolTradingFee(amount) ==
    CalculateFee(amount, ProtocolFeeNumerator, ProtocolFeeDenominator)

-----------------------------------------------------------------------------
(* The constant-product curve                                              *)

CeilDiv(x, y) == (x + y - 1) \div y

\* Mutant: the destination balance is rounded down.
ConstantProductSwapDown(source, swapSource, swapDestination) ==
    LET product     == swapSource * swapDestination
        newSource   == swapSource + source
        destination == swapDestination - (product \div newSource)
    IN  IF newSource = 0 \/ product < newSource \/ destination <= 0
        THEN None ELSE destination

\* ConstantProduct::swap over spl_token_swap's swap: the destination balance
\* is rounded up, a quotient below one and a swap that yields nothing fail.
ConstantProductSwap(source, swapSource, swapDestination) ==
    LET product     == swapSource * swapDestination
        newSource   == swapSource + source
        destination == swapDestination - CeilDiv(product, newSource)
    IN  IF newSource = 0 \/ product < newSource \/ destination <= 0
        THEN None ELSE destination

-----------------------------------------------------------------------------
(* compute_quote.  A snapshot q holds the accounts it reads:               *)
(*   q.enabled, q.clock = [slot, time], q.vault and q.lp by token, where   *)
(*   q.lp[t] is the pool's balance of LP of the vault of t.                *)

\* ensure!(current_point >= activation_point)
Activated(clock) ==
    ActivationPoint <= IF ActivationType = "Slot" THEN clock.slot ELSE clock.time

\* compute_pool_tokens, one side of it: what the pool owns of token t
PoolTokens(q, t) ==
    GetAmountByShare(q.vault[t], q.clock.time, q.lp[t], q.vault[t].supply)

\* The vault of the in token with the amount of a deposit added.
Credited(v, amount) == [v EXCEPT !.totalAmount = @ + amount]

\* Depositing an amount into vault v mints LP to a pool that holds lp of it:
\* the LP minted and what the pool then owns (in_lp, after_in_token_total_amount).
DepositSide(v, now, lp, amount) ==
    LET minted == GetUnmintAmount(v, now, amount, v.supply)
    IN  IF \/ amount < 0 \/ minted = None
           \/ v.totalAmount + amount \notin U64
           \/ minted + lp \notin U64 \/ v.supply + minted \notin U64
        THEN [lp |-> None, total |-> None]
        ELSE [lp    |-> minted,
              total |-> GetAmountByShare(Credited(v, amount), now,
                                         minted + lp, v.supply + minted)]

\* Taking `amount' of token out of vault v: the LP burnt and the tokens paid
\* (out_vault_lp, out_amount).
WithdrawSide(v, now, amount) ==
    LET burnt == IF amount = None THEN None ELSE GetUnmintAmount(v, now, amount, v.supply)
    IN  IF burnt = None THEN [lp |-> None, amount |-> None]
        ELSE [lp |-> burnt, amount |-> GetAmountByShare(v, now, burnt, v.supply)]

QuoteError == [ok |-> FALSE]

\* compute_quote; besides fee and out_amount the record keeps the movements of
\* LP and tokens the quoted swap consists of.
ComputeQuote(q, inMint, inAmount) ==
    LET now         == q.clock.time
        outMint     == Other(inMint)
        inTotal     == PoolTokens(q, inMint)
        outTotal    == PoolTokens(q, outMint)
        grossFee    == TradingFee(inAmount)
        protocolFee == ProtocolTradingFee(grossFee)
        tradeFee    == grossFee - protocolFee
        deposited   == inAmount - protocolFee
        in          == DepositSide(q.vault[inMint], now, q.lp[inMint], deposited)
        source      == (in.total - inTotal) - tradeFee
        destination == ConstantProductSwap(source, inTotal, outTotal)
        out         == WithdrawSide(q.vault[outMint], now, destination)
    IN  IF /\ q.enabled /\ Activated(q.clock)
           /\ inMint \in Tokens
           /\ inTotal # None /\ outTotal # None
           /\ tradeFee >= 0
           /\ in.total # None /\ in.total >= inTotal
           /\ source >= 0
           /\ out.amount # None
           /\ out.amount < q.vault[outMint].reserve
        THEN [ok |-> TRUE, fee |-> tradeFee, outAmount |-> out.amount,
              deposited |-> deposited, inLp |-> in.lp, outLp |-> out.lp]
        ELSE QuoteError
=============================================================================
