----------------------------- MODULE StableCurve -----------------------------
(***************************************************************************)
(* The stable swap curve of the TypeScript client: computeD, computeY and  *)
(* normalizedTradeFee (ts-client/src/amm/curve/stable-swap-math/           *)
(* calculator.ts) and the computations of StableSwap over them             *)
(* (curve/stable-swap.ts).  BigInt and BN division truncate.  Newton's     *)
(* iterations are a function of the iteration, cut off at MaxIters.  The   *)
(* price impact is left out.                                               *)
(***************************************************************************)
EXTENDS Integers

CONSTANTS
    Amp,           \* amp
    MultiplierA,   \* tokenMultiplier.tokenAMultiplier
    MultiplierB,   \* tokenMultiplier.tokenBMultiplier
    Depegged,      \* depegType is not none
    Precision,     \* PRECISION: 1_000_000
    VirtualPrice,  \* depeg.baseVirtualPrice, over Precision
    FeeNum,        \* fees.tradeFeeNumerator
    FeeDen,        \* fees.tradeFeeDenominator
    MaxIters       \* MAX_ITERS: 20

Abs(x) == IF x > 0 THEN x ELSE -x

\* Division of BN and BigInt, towards zero.
Quot(x, y) == IF x >= 0 THEN x \div y ELSE -((-x) \div y)

\* Fraction.toFixed(0)
RoundHalfUp(num, den) == (2 * num + den) \div (2 * den)

Ann == Amp * 2

-----------------------------------------------------------------------------
(* Newton's method                                                         *)

\* Mutant: a term of Newton's step is forgotten.
NextDShort(d, a, b) ==
    LET p == (((d * d) \div (a * 2)) * d) \div (b * 2)
    IN  (d * (Ann * (a + b) + p * 2)) \div (d * (Ann - 1) + p * 2)

NextD(d, a, b) ==
    LET p == (((d * d) \div (a * 2)) * d) \div (b * 2)
    IN  (d * (Ann * (a + b) + p * 2)) \div (d * (Ann - 1) + p * 3)

\* The iteration as a pair of the present and the previous value.
IterationsD(a, b) ==
    LET at[i \in 0..MaxIters] ==
          IF i = 0 THEN <<a + b, 0>>
          ELSE LET p == at[i - 1]
               IN  IF Abs(p[1] - p[2]) > 1 THEN <<NextD(p[1], a, b), p[1]>> ELSE p
    IN  at[MaxIters]

ComputeD(a, b) == IF a + b = 0 THEN 0 ELSE IterationsD(a, b)[1]

NextY(y, b, c) == (y * y + c) \div (2 * y + b)

IterationsY(x, d) ==
    LET b == x + d \div Ann - d
        c == (d * d * d) \div (2 * (2 * (x * Ann)))
        at[i \in 0..MaxIters] ==
          IF i = 0 THEN <<d, 0>>
          ELSE LET p == at[i - 1]
               IN  IF Abs(p[1] - p[2]) > 1 THEN <<NextY(p[1], b, c), p[1]>> ELSE p
    IN  at[MaxIters]

ComputeY(x, d) == IterationsY(x, d)[1]

-----------------------------------------------------------------------------
(* Scaling                                                                 *)

UpscaleTokenA(x) == x * MultiplierA * (IF Depegged THEN Precision ELSE 1)
UpscaleTokenB(x) == x * MultiplierB * (IF Depegged THEN VirtualPrice ELSE 1)

DownscaleTokenA(x) ==
    LET y == Quot(x, MultiplierA) IN IF Depegged THEN Quot(y, Precision) ELSE y
DownscaleTokenB(x) ==
    LET y == Quot(x, MultiplierB) IN IF Depegged THEN Quot(y, VirtualPrice) ELSE y

\* A token of a trade direction: "A" or "B".
Upscale(token, x)   == IF token = "A" THEN UpscaleTokenA(x) ELSE UpscaleTokenB(x)
Downscale(token, x) == IF token = "A" THEN DownscaleTokenA(x) ELSE DownscaleTokenB(x)
Other(token)        == IF token = "A" THEN "B" ELSE "A"

-----------------------------------------------------------------------------
(* Swaps                                                                   *)

\* Mutant: without the unit that is kept back.
ComputeOutAmountExact(in, amount, source, destination) ==
    LET s == Upscale(in, source)
        t == Upscale(Other(in), destination)
        y == ComputeY(s + Upscale(in, amount), ComputeD(s, t))
    IN  Downscale(Other(in), t - y)

ComputeOutAmount(in, amount, source, destination) ==
    LET s == Upscale(in, source)
        t == Upscale(Other(in), destination)
        y == ComputeY(s + Upscale(in, amount), ComputeD(s, t))
    IN  Downscale(Other(in), t - y - 1)

\* The difference is taken to the source amount before it was scaled.
ComputeInAmount(in, amount, source, destination) ==
    LET s == Upscale(in, source)
        t == Upscale(Other(in), destination)
        y == ComputeY(t - Upscale(Other(in), amount), ComputeD(s, t))
    IN  Downscale(in, y - source)

\* calculateMaxSwapOutAmount: what the pool owns, or what the vault has at hand
CalculateMaxSwapOutAmount(total, reserve) == IF total > reserve THEN reserve ELSE total

\* The fees of swaps are [trade, protocol |-> <<numerator, denominator>>].
\* calculateTradingFee and calculateProtocolTradingFee, in AmmImpl and in utils.ts
CalculateFee(amount, rate) == Quot(amount * rate[1], rate[2])

\* getMaxSwapInAmount before the fees: what moves the largest out amount, one token
\* of which stays when it is all the pool owns
MaxInAmountBeforeFees(in, source, destination, reserve) ==
    LET most == CalculateMaxSwapOutAmount(destination, reserve)
        out  == IF most = destination THEN most - 1 ELSE most
    IN  ComputeInAmount(in, out, source, destination)

\* Mutant: the protocol fee is not taken off.
GetMaxSwapInAmountNoProtocol(in, source, destination, reserve, fees) ==
    LET max == MaxInAmountBeforeFees(in, source, destination, reserve)
    IN  max - CalculateFee(max, fees.trade)

\* AmmImpl.getMaxSwapInAmount: both fees are of the whole amount.
GetMaxSwapInAmount(in, source, destination, reserve, fees) ==
    LET max == MaxInAmountBeforeFees(in, source, destination, reserve)
    IN  max - CalculateFee(max, fees.protocol) - CalculateFee(max, fees.trade)

\* calculateSwapQuote with vaults whose share price is one: the quote's out amount,
\* where the protocol's part of the trade fee is taken before the vault and the rest
\* of it after, and whether the last invariant lets the quote through.
QuotedOutAmount(in, amount, source, destination, fees) ==
    LET tradeFee    == CalculateFee(amount, fees.trade)
        protocolFee == CalculateFee(tradeFee, fees.protocol)
    IN  ComputeOutAmount(in, (amount - protocolFee) - (tradeFee - protocolFee),
                         source, destination)
QuoteAccepted(in, amount, source, destination, reserve, fees) ==
    QuotedOutAmount(in, amount, source, destination, fees)
      < CalculateMaxSwapOutAmount(destination, reserve)

-----------------------------------------------------------------------------
(* Liquidity                                                               *)

\* StableSwap.computeD
PoolD(a, b) ==
    LET d == ComputeD(UpscaleTokenA(a), UpscaleTokenB(b)) IN IF Depegged THEN d \div Precision ELSE d

\* normalizedTradeFee of an amount, as a numerator over 2 * FeeDen
NormalizedTradeFee(amount) == amount * FeeNum

\* A balance after a deposit, less the fee on its distance from what it would be
\* if the reserves had grown in proportion.
AdjustedBalance(new, old, d1, d0) ==
    LET distance == RoundHalfUp(Abs(d1 * old - new * d0), d0)
    IN  new - RoundHalfUp(NormalizedTradeFee(distance), 2 * FeeDen)

\* computeImbalanceDeposit and calculateEstimatedMintAmount; nothing is minted when
\* the latter throws because D has become smaller.
ComputeImbalanceDeposit(depositA, depositB, a, b, supply) ==
    LET ua == UpscaleTokenA(a)
        ub == UpscaleTokenB(b)
        na == ua + UpscaleTokenA(depositA)
        nb == ub + UpscaleTokenB(depositB)
        d0 == ComputeD(ua, ub)
        d1 == ComputeD(na, nb)
        d2 == ComputeD(AdjustedBalance(na, ua, d1, d0), AdjustedBalance(nb, ub, d1, d0))
    IN  IF (depositA = 0 /\ depositB = 0) \/ d1 < d0 THEN 0 ELSE Quot(supply * (d2 - d0), d0)

\* computeWithdrawOne and calculateEstimatedWithdrawOneAmount, for the token that is
\* taken out.  The fees are over 2 * FeeDen.
ComputeWithdrawOne(out, lp, supply, a, b) ==
    LET base  == Upscale(out, IF out = "A" THEN a ELSE b)
        quote == Upscale(Other(out), IF out = "A" THEN b ELSE a)
        d0    == ComputeD(base, quote)
        d1    == d0 - (lp * d0) \div supply
        newY  == ComputeY(quote, d1)
        expectedBase  == (base * d1) \div d0 - newY
        expectedQuote == quote - (quote * d1) \div d0
        newQuote == RoundHalfUp(quote * 2 * FeeDen - NormalizedTradeFee(expectedQuote), 2 * FeeDen)
        dy       == base * 2 * FeeDen - NormalizedTradeFee(expectedBase)
                      - ComputeY(newQuote, d1) * 2 * FeeDen
    IN  IF lp = 0 THEN 0 ELSE Downscale(out, RoundHalfUp(dy, 2 * FeeDen))
=============================================================================
