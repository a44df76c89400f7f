------------------------------ MODULE StablePool -----------------------------
(***************************************************************************)
(* A trader who takes the quotes of a stable pool at their word: swaps,    *)
(* deposits of any two amounts and withdrawals of one token, each for what *)
(* the TypeScript client's curve computes from the reserves of the moment  *)
(* (StableCurve).  Vaults, the trade fee of swaps and refreshes of the     *)
(* price are left out: the curve alone must not lose tokens.               *)
(***************************************************************************)
EXTENDS Integers

CONSTANTS
    Amp,            \* amp
    Precision,      \* PRECISION: 1_000_000
    VirtualPrices,  \* prices of token B over Precision that a depegged pool may have
    FeeNum, FeeDen, \* the trade fee, which liquidity operations take a part of
    MaxIters,       \* MAX_ITERS: 20
    Reserves,       \* amounts of A and of B the pool may start with
    Amounts,        \* amounts a trader swaps or deposits
    SwapFees,       \* fees at which the largest swap is asked for: see CalculateFee
    MaxSteps        \* bound on the number of trades

ASSUME PoolConstants ==
    /\ {Amp, Precision, FeeDen} \cup VirtualPrices \subseteq Nat \ {0}
    /\ FeeNum \in 0..FeeDen
    /\ {MaxIters, MaxSteps} \subseteq Nat
    /\ Reserves \subseteq Nat \ {0}
    /\ Amounts \subseteq Nat
    /\ \A fees \in SwapFees : \A rate \in {fees.trade, fees.protocol} :
           rate[2] \in Nat \ {0} /\ rate[1] \in 0..rate[2]

VARIABLES
    price,     \* depeg.baseVirtualPrice, 0 for a pool without depeg
    a, b,      \* the pool's tokens
    supply,    \* its LP supply
    mine,      \* what the trader has won or lost, and the LP the trader holds
    steps      \* the number of trades

vars == <<price, a, b, supply, mine, steps>>

INSTANCE StableCurve WITH
    MultiplierA <- 1, MultiplierB <- 1, Depegged <- price # 0, VirtualPrice <- price

\* The first deposit mints D.
Init ==
    /\ price \in {0} \cup VirtualPrices
    /\ a \in Reserves /\ b \in Reserves
    /\ supply = PoolD(a, b)
    /\ mine = [A |-> 0, B |-> 0, lp |-> 0]
    /\ steps = 0

Step == steps < MaxSteps /\ steps' = steps + 1

Balance(token) == IF token = "A" THEN a ELSE b

\* A quote is less than calculateMaxSwapOutAmount.
Swap(in, x) ==
    LET out == ComputeOutAmount(in, x, Balance(in), Balance(Other(in)))
    IN  /\ Step
        /\ 0 < out /\ out < Balance(Other(in))
        /\ a' = IF in = "A" THEN a + x ELSE a - out
        /\ b' = IF in = "A" THEN b - out ELSE b + x
        /\ mine' = [mine EXCEPT ![in] = @ - x, ![Other(in)] = @ + out]
        /\ UNCHANGED <<price, supply>>

Deposit(x, y) ==
    LET minted == ComputeImbalanceDeposit(x, y, a, b, supply)
    IN  /\ Step
        /\ minted > 0
        /\ a' = a + x
        /\ b' = b + y
        /\ supply' = supply + minted
        /\ mine' = [A |-> mine.A - x, B |-> mine.B - y, lp |-> mine.lp + minted]
        /\ UNCHANGED price

WithdrawOne(out) ==
    LET got == ComputeWithdrawOne(out, mine.lp, supply, a, b)
    IN  /\ Step
        /\ mine.lp > 0
        /\ a' = IF out = "A" THEN a - got ELSE a
        /\ b' = IF out = "B" THEN b - got ELSE b
        /\ supply' = supply - mine.lp
        /\ mine' = [mine EXCEPT !.lp = 0, ![out] = @ + got]
        /\ UNCHANGED price

Next ==
    \/ \E in \in {"A", "B"}, x \in Amounts \ {0} : Swap(in, x)
    \/ \E x, y \in Amounts : Deposit(x, y)
    \/ \E out \in {"A", "B"} : WithdrawOne(out)

Spec == Init /\ [][Next]_vars

-----------------------------------------------------------------------------
(* Properties                                                              *)

\* D without rounding: the largest integer at which the invariant
\* Ann*(x + y) + D = Ann*D + D^3/(4xy) is not yet exceeded.
ReferenceD(x, y) ==
    LET Below(d) == 4 * x * y * (Ann - 1) * d + d * d * d <= 4 * x * y * Ann * (x + y)
    IN  CHOOSE d \in 0..(x + y) : Below(d) /\ ~Below(d + 1)

\* computeD (calculator.ts), whose every division truncates and which stops when two
\* iterations differ by one or after MAX_ITERS, is the true D or one above it, at all
\* reserves that trading on a pool without depeg leads to.
NewtonNearExact == price = 0 => ComputeD(a, b) - ReferenceD(a, b) \in 0..1

\* No sequence of swaps (computeOutAmount), imbalanced deposits
\* (computeImbalanceDeposit) and single-sided withdrawals (computeWithdrawOne), taken
\* at the curve's amounts without a fee, leaves a trader with more of one token and no
\* less of the other: what Newton's method is off by is kept back.
NoFreeTokens == mine.lp = 0 => ~(mine.A >= 0 /\ mine.B >= 0 /\ mine.A + mine.B > 0)

\* What computeInAmount adds to its result by subtracting the source amount as it is
\* from a scaled one (stable-swap.ts:209): nothing unless amounts are scaled.
ScalingSlip(in, source) == Downscale(in, Upscale(in, source) - source)

\* At any reserves trading leads to and whatever part of the out token the vault has at
\* hand, the largest swap that getMaxSwapInAmount offers is not refused by getSwapQuote
\* ('Out amount > vault reserve', an out amount equal to the reserve included), although
\* the one takes both fees of the whole amount and the other the protocol's part of the
\* trade fee.  On a pool with depeg the offer is too large and may be refused; what it
\* is too large by is the slip in scaling, and nothing else.  Without a token of fee the offer is only the
\* estimate its comment calls it: the quote for it can be all of the reserve.
MaxSwapInAccepted ==
    \A in \in {"A", "B"} :
        LET source      == Balance(in)
            destination == Balance(Other(in))
        IN  \A reserve \in {destination} \cup (Reserves \cap 1..destination) :
                LET full == MaxInAmountBeforeFees(in, source, destination, reserve)
                IN  \A fees \in SwapFees :
                        LET taken == CalculateFee(full, fees.protocol) + CalculateFee(full, fees.trade)
                            max   == GetMaxSwapInAmount(in, source, destination, reserve, fees)
                                       - ScalingSlip(in, source)
                        IN  (max > 0 /\ taken > 0) =>
                                QuoteAccepted(in, max, source, destination, reserve, fees)
=============================================================================
