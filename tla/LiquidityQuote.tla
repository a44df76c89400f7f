---------------------------- MODULE LiquidityQuote ---------------------------
(***************************************************************************)
(* The deposit and withdraw quotes of the TypeScript client,               *)
(* getDepositQuote and getWithdrawQuote of AmmImpl, for constant-product   *)
(* and stable pools, on every state of the vaults that Pool reaches.  The  *)
(* quotes only read balances; which curve moved them makes no difference.  *)
(*                                                                         *)
(* A quote is a record of the pool tokens (LP) and of the amounts of A and *)
(* B, with the bounds after slippage.  A slippage is in basis points, a    *)
(* whole per cent: the client's floating-point product is exact for these. *)
(***************************************************************************)
EXTENDS TsQuote

CONSTANTS
    Amp,          \* amp of a stable pool
    LpSupplies,   \* accountsInfo.poolLpSupply
    InAmounts,    \* amounts of a token brought to the pool
    Slippages     \* slippage arguments

\* Slippages, in basis points
Rates == 0..10000

ASSUME LiquidityConstants ==
    /\ Amp \in Nat \ {0}
    /\ LpSupplies \subseteq Nat /\ InAmounts \subseteq Nat /\ Slippages \subseteq Rates

Curve == INSTANCE StableCurve WITH
    MultiplierA <- 1, MultiplierB <- 1, Depegged <- FALSE, Precision <- 1, VirtualPrice <- 1,
    FeeNum <- TradeFeeNumerator, FeeDen <- TradeFeeDenominator, MaxIters <- 20

\* BN.divRound: to the nearest, halves up
DivRound(x, y) == (2 * x + y) \div (2 * y)

\* AmmImpl.getShareByAmount and getAmountByShare, and both with roundUp
ShareByAmount(amount, tokens, supply)   == IF tokens = 0 THEN 0 ELSE BnDiv(amount * supply, tokens)
ShareByAmountUp(amount, tokens, supply) == IF tokens = 0 THEN 0 ELSE DivRound(amount * supply, tokens)
AmountByShare(share, tokens, supply)    == IF supply = 0 THEN 0 ELSE BnDiv(share * tokens, supply)
AmountByShareUp(share, tokens, supply)  == IF supply = 0 THEN 0 ELSE DivRound(share * tokens, supply)

GetMaxAmountWithSlippage(amount, bps) == BnDiv(amount * (10000 + bps), 10000)
GetMinAmountWithSlippage(amount, bps) == BnDiv(amount * (10000 - bps), 10000)

\* UNLOCK_AMOUNT_BUFFER, 0.998, is used as a slippage in per cent: the factor
\* 9900.2 over 10_000 that follows becomes the integer 9900.
UnlockAmountBuffer == 100

Withdrawable(q, t) == CalculateWithdrawableAmount(q.clock.time, q.vault[t])
TokenAmount(q, t)  == TsAmountByShare(q.lp[t], Withdrawable(q, t), q.vault[t].supply)

\* Mutant: tokens and supply of the vault are swapped.
ComputeActualInAmountSwapped(q, supply, poolTokens, t) ==
    AmountByShareUp(ShareByAmountUp(poolTokens, supply, q.lp[t]), q.vault[t].supply, Withdrawable(q, t))

\* computeActualInAmount, of one token
ComputeActualInAmount(q, supply, poolTokens, t) ==
    AmountByShareUp(ShareByAmountUp(poolTokens, supply, q.lp[t]), Withdrawable(q, t), q.vault[t].supply)

\* Mutant: the whole balance after the deposit.
ComputeActualDepositAfter(q, amount, t) ==
    LET minted == BnDiv(amount * q.vault[t].supply, Withdrawable(q, t))
    IN  IF amount = 0 THEN 0
        ELSE BnDiv((q.lp[t] + minted) * (Withdrawable(q, t) + amount), q.vault[t].supply + minted)

\* What the pool owns more of after a deposit
ComputeActualDepositAmount(q, amount, t) ==
    LET minted == BnDiv(amount * q.vault[t].supply, Withdrawable(q, t))
    IN  IF amount = 0 THEN 0
        ELSE BnDiv((q.lp[t] + minted) * (Withdrawable(q, t) + amount), q.vault[t].supply + minted)
               - TokenAmount(q, t)

Quoted(lpOut, min, a, b) == [ok |-> TRUE, lp |-> lpOut, minLp |-> min, in |-> [A |-> a, B |-> b]]

\* A balanced deposit for an amount of one token, and what the other costs.  On a
\* stable pool that owns nothing of the token, the other's amount divides by zero.
BalancedDeposit(q, supply, stable, t, amount, slippage) ==
    LET lpOut  == ShareByAmount(amount, TokenAmount(q, t), supply)
        less   == GetMinAmountWithSlippage(lpOut, UnlockAmountBuffer)
        other  == BnDiv(amount * TokenAmount(q, Other(t)), TokenAmount(q, t))
        cost(u) == IF ~stable THEN GetMaxAmountWithSlippage(ComputeActualInAmount(q, supply, lpOut, u), slippage)
                   ELSE IF u = t THEN amount ELSE other
    IN  IF stable /\ TokenAmount(q, t) = 0 THEN QuoteError
        ELSE Quoted(less, GetMinAmountWithSlippage(less, slippage), cost("A"), cost("B"))

ImbalancedDeposit(q, supply, a, b, slippage) ==
    LET lpOut == Curve!ComputeImbalanceDeposit(ComputeActualDepositAmount(q, a, "A"),
                     ComputeActualDepositAmount(q, b, "B"), TokenAmount(q, "A"), TokenAmount(q, "B"), supply)
    IN  Quoted(lpOut, GetMinAmountWithSlippage(lpOut, slippage), a, b)

\* ConstantProductSwap.computeD
ConstantProductD(a, b) == CHOOSE r \in 0..(a + b) : r * r <= a * b /\ (r + 1) * (r + 1) > a * b

\* The first deposit mints D; computeD of the stable curve divides by either amount.
FirstDeposit(stable, a, b) ==
    LET d == IF stable THEN Curve!PoolD(a, b) ELSE ConstantProductD(a, b)
    IN  IF stable /\ (a = 0) # (b = 0) THEN QuoteError ELSE Quoted(d, d, a, b)

\* The constant-product curve throws on an imbalanced deposit.
GetDepositQuote(q, supply, stable, a, b, balance, slippage) ==
    LET both == a # 0 /\ b # 0
    IN  CASE both /\ (balance \/ (~stable /\ supply # 0)) -> QuoteError
          [] ~both /\ balance /\ supply # 0 -> IF a = 0 THEN BalancedDeposit(q, supply, stable, "B", b, slippage)
                                                ELSE BalancedDeposit(q, supply, stable, "A", a, slippage)
          [] ~balance /\ stable /\ supply # 0 -> ImbalancedDeposit(q, supply, a, b, slippage)
          [] supply = 0 /\ ~(both /\ balance) -> FirstDeposit(stable, a, b)
          [] OTHER -> QuoteError

\* The balanced withdrawal, of each token
GetWithdrawQuote(q, supply, lpIn, slippage) ==
    LET out == [t \in Tokens |->
                  AmountByShare(ShareByAmount(lpIn, supply, q.lp[t]), Withdrawable(q, t), q.vault[t].supply)]
    IN  [out |-> out, min |-> [t \in Tokens |-> GetMinAmountWithSlippage(out[t], slippage)]]

\* The withdrawal of one token of a stable pool
GetSingleSideQuote(q, supply, lpIn, slippage, t) ==
    LET out  == Curve!ComputeWithdrawOne(t, lpIn, supply, TokenAmount(q, "A"), TokenAmount(q, "B"))
        burn == BnDiv(out * q.vault[t].supply, Withdrawable(q, t))
        real == BnDiv(burn * Withdrawable(q, t), q.vault[t].supply)
    IN  [out |-> real, min |-> GetMinAmountWithSlippage(real, slippage)]

-----------------------------------------------------------------------------
(* Properties                                                              *)

\* In every state of the vaults, the LP that getDepositQuote promises for a
\* balanced deposit are quoted at no more, by getWithdrawQuote on the same state,
\* than the amounts the deposit is quoted to cost, of either token: the two quotes
\* together offer nothing for free, and a slippage only widens the distance.  On a
\* stable pool, where the other token's amount follows from the rounded balances, they
\* are within one token for a deposit of up to the pool's balance.
RoundTripNoGain ==
    \A supply \in LpSupplies, stable \in BOOLEAN, x \in InAmounts, s \in Slippages, t \in Tokens :
      LET in  == GetDepositQuote(Snapshot, supply, stable, IF t = "A" THEN x ELSE 0,
                                 IF t = "B" THEN x ELSE 0, TRUE, s)
          out == GetWithdrawQuote(Snapshot, supply, in.lp, s)
      IN  in.ok /\ (stable => x <= TokenAmount(Snapshot, t)) =>
            /\ in.minLp <= in.lp
            /\ \A u \in Tokens :
                 /\ out.min[u] <= out.out[u]
                 /\ out.out[u] <= in.in[u] + (IF stable /\ u # t THEN 1 ELSE 0)

\* The accounts after a deposit of an amount of each token that minted LP of the
\* vaults to the pool.
AfterDeposit(q, in) ==
    LET minted == [t \in Tokens |-> BnDiv(in[t] * q.vault[t].supply, Withdrawable(q, t))]
    IN  [q EXCEPT !.vault = [t \in Tokens |-> Deposited(q.vault[t], in[t], minted[t])],
                  !.lp    = [t \in Tokens |-> q.lp[t] + minted[t]]]

\* On a stable pool, tokens deposited on one side for the quoted LP and withdrawn
\* again on that side, at the quote for the state the deposit leaves, are no more than
\* were brought: the roundings of the vault and the curve together favour the pool.
SingleSideNoGain ==
    \A supply \in LpSupplies \ {0}, x \in InAmounts \ {0}, t \in Tokens :
      LET in    == GetDepositQuote(Snapshot, supply, TRUE, IF t = "A" THEN x ELSE 0,
                                   IF t = "B" THEN x ELSE 0, FALSE, 0)
          after == AfterDeposit(Snapshot, in.in)
      IN  in.ok /\ in.lp > 0 =>
            GetSingleSideQuote(after, supply + in.lp, in.lp, 0, t).out <= x
=============================================================================
