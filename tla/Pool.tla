-------------------------------- MODULE Pool ---------------------------------
(***************************************************************************)
(* A constant-product pool over two dynamic vaults.                        *)
(*                                                                         *)
(* The pool keeps its two tokens as LP of two vaults that it shares with   *)
(* other depositors.  A swap deposits into one vault and withdraws from    *)
(* the other; between swaps other depositors come and go, the vaults lend  *)
(* their reserves, report profits that unlock over time, and the admin     *)
(* turns the pool off and on.                                              *)
(*                                                                         *)
(* The numbers of a swap are those of compute_quote (module SwapMath):     *)
(* dynamic-amm-quote/tests/test_quote.rs requires that the deployed program*)
(* pays exactly them.  The programs' handlers are stubs in this repository,*)
(* so how an instruction moves the balances is external, read off the way  *)
(* compute_quote and the vault's accounting use them.                      *)
(***************************************************************************)
EXTENDS SwapMath, FiniteSets

CONSTANTS
    InitVault,        \* the vault every token starts with
    InitLp,           \* the LP the pool starts with in each vault
    SwapAmounts,      \* in amounts that traders try
    DepositAmounts,   \* token amounts other depositors bring to a vault
    WithdrawAmounts,  \* LP amounts other depositors redeem
    ProfitAmounts,    \* profits a rebalance reports
    LendAmounts,      \* reserves a rebalance sends to a strategy
    MaxSlot           \* bound on the number of transactions and clock ticks

ASSUME PoolConstants ==
    /\ InitVault \in Vault
    /\ InitVault.reserve <= InitVault.totalAmount
    /\ InitVault.lastProfit <= InitVault.totalAmount
    /\ InitLp \in 1..InitVault.supply
    /\ SwapAmounts \subseteq U64
    /\ DepositAmounts \subseteq U64
    /\ WithdrawAmounts \subseteq U64
    /\ ProfitAmounts \subseteq U64
    /\ LendAmounts \subseteq U64
    /\ MaxSlot \in U64

VARIABLES
    enabled,   \* Pool.enabled
    clock,     \* the clock sysvar: slot and unix timestamp
    vault,     \* the vault of each token
    lp,        \* the pool's balance of LP of each vault
    trader     \* what all traders together gained (or lost) of each token

vars == <<enabled, clock, vault, lp, trader>>

\* QuoteData of the current accounts
Snapshot == [enabled |-> enabled, clock |-> clock, vault |-> vault, lp |-> lp]

Init ==
    /\ enabled = TRUE
    /\ clock = [slot |-> 0, time |-> InitVault.lastReport]
    /\ vault = [t \in Tokens |-> InitVault]
    /\ lp = [t \in Tokens |-> InitLp]
    /\ trader = [t \in Tokens |-> 0]

\* Transactions are serialised by the chain; slots number them, which is all
\* that the order of slots is used for.  The timestamp moves in Tick only.
NextSlot ==
    /\ clock.slot < MaxSlot
    /\ clock' = [clock EXCEPT !.slot = @ + 1]

\* Mutant: the LP minted are not added to the supply.
DepositedNoMint(v, amount, minted) ==
    [v EXCEPT !.totalAmount = @ + amount, !.reserve = @ + amount]

\* The vault after a deposit that minted LP, after a withdrawal that burnt it, and
\* after a report of profit, all of which is locked at first.
Deposited(v, amount, minted) ==
    [v EXCEPT !.totalAmount = @ + amount, !.reserve = @ + amount, !.supply = @ + minted]
Withdrawn(v, amount, burnt) ==
    [v EXCEPT !.totalAmount = @ - amount, !.reserve = @ - amount, !.supply = @ - burnt]
Reported(v, profit, locked, now) ==
    [v EXCEPT !.totalAmount = @ + profit, !.lastProfit = locked + profit, !.lastReport = now]

\* swap(in_amount, 0): the protocol's cut leaves, the rest enters the vault of
\* the in token, the out amount leaves the other vault.
Swap(inMint, inAmount) ==
    LET quote == ComputeQuote(Snapshot, inMint, inAmount)
        outMint == Other(inMint)
    IN  /\ quote.ok
        /\ vault' = [vault EXCEPT
                        ![inMint]  = Deposited(@, quote.deposited, quote.inLp),
                        ![outMint] = Withdrawn(@, quote.outAmount, quote.outLp)]
        /\ lp' = [lp EXCEPT ![inMint] = @ + quote.inLp, ![outMint] = @ - quote.outLp]
        /\ trader' = [trader EXCEPT ![inMint] = @ - inAmount,
                                    ![outMint] = @ + quote.outAmount]
        /\ NextSlot
        /\ UNCHANGED enabled

\* Another depositor of the vault brings tokens.
VaultDeposit(t, amount) ==
    LET in == DepositSide(vault[t], clock.time, 0, amount)
    IN  /\ in.lp # None
        /\ vault' = [vault EXCEPT ![t] = Deposited(@, amount, in.lp)]
        /\ NextSlot
        /\ UNCHANGED <<enabled, lp, trader>>

\* Another depositor redeems LP, of which the pool's own are not theirs.
VaultWithdraw(t, burnt) ==
    LET out == GetAmountByShare(vault[t], clock.time, burnt, vault[t].supply)
    IN  /\ burnt <= vault[t].supply - lp[t]
        /\ out # None
        /\ out <= vault[t].reserve
        /\ vault' = [vault EXCEPT ![t] = Withdrawn(@, out, burnt)]
        /\ NextSlot
        /\ UNCHANGED <<enabled, lp, trader>>

\* A rebalance reports a profit: it is locked together with what is still
\* locked of the profits before it, and decays from now on.
ReportProfit(t, profit) ==
    LET locked == CalculateLockedProfit(vault[t], clock.time)
    IN  /\ locked # None
        /\ vault[t].totalAmount + profit \in U64
        /\ locked + profit \in U64
        /\ vault' = [vault EXCEPT ![t] = Reported(@, profit, locked, clock.time)]
        /\ NextSlot
        /\ UNCHANGED <<enabled, lp, trader>>

\* Mutant: more than the reserve is lent.
LendUnchecked(t, amount) ==
    /\ vault' = [vault EXCEPT ![t].reserve = @ - amount]
    /\ NextSlot
    /\ UNCHANGED <<enabled, lp, trader>>

\* A rebalance moves reserves into a strategy; total_amount counts them still.
Lend(t, amount) ==
    /\ amount <= vault[t].reserve
    /\ vault' = [vault EXCEPT ![t].reserve = @ - amount]
    /\ NextSlot
    /\ UNCHANGED <<enabled, lp, trader>>

\* enable_or_disable_pool
EnableOrDisablePool ==
    /\ enabled' = ~enabled
    /\ NextSlot
    /\ UNCHANGED <<vault, lp, trader>>

\* Time passes between transactions.
Tick ==
    /\ clock.slot < MaxSlot
    /\ clock.time + 1 \in U64
    /\ clock' = [slot |-> clock.slot + 1, time |-> clock.time + 1]
    /\ UNCHANGED <<enabled, vault, lp, trader>>

Next ==
    \/ \E m \in Mints, a \in SwapAmounts : Swap(m, a)
    \/ \E t \in Tokens, a \in DepositAmounts : VaultDeposit(t, a)
    \/ \E t \in Tokens, b \in WithdrawAmounts : VaultWithdraw(t, b)
    \/ \E t \in Tokens, p \in ProfitAmounts : ReportProfit(t, p)
    \/ \E t \in Tokens, a \in LendAmounts : Lend(t, a)
    \/ EnableOrDisablePool
    \/ Tick

Spec == Init /\ [][Next]_vars

-----------------------------------------------------------------------------
(* Properties                                                              *)

\* The accounts hold u64 amounts and the traders' ledger integers.
TypeOK ==
    /\ enabled \in BOOLEAN
    /\ clock \in [slot : U64, time : U64]
    /\ vault \in [Tokens -> Vault]
    /\ lp \in [Tokens -> U64]
    /\ trader \in [Tokens -> Int]

\* The profit that is still locked never exceeds what the vault holds, at
\* whatever moment it is asked: get_unlocked_amount (its checked_sub) never
\* fails, so a vault can always be priced.
VaultsPriceable ==
    \A t \in Tokens : GetUnlockedAmount(vault[t], clock.time) # None

\* Swaps never use up the pool's LP of a vault, these LP are part of the
\* supply, and the reserve that pays withdrawals part of the total.
SharesBacked ==
    \A t \in Tokens : /\ lp[t] > 0
                      /\ lp[t] <= vault[t].supply
                      /\ vault[t].reserve <= vault[t].totalAmount

\* What the pool owns of token t (calculatePoolInfo's and compute_quote's
\* token amounts).
Owned(t) == PoolTokens(Snapshot, t)

\* A swap never lowers the product of what the pool owns of the two tokens:
\* every rounding on the way (fees, vault LP minted and burnt, curve, vault
\* amounts) goes the pool's way.
ProductKept ==
    [][trader' # trader => (Owned("A") * Owned("B"))' >= Owned("A") * Owned("B")]_vars

\* A step that leaves the pool's LP of a vault alone (other depositors, time,
\* rebalances, the admin) never lowers what these LP are worth.
NotDiluted ==
    [][\A t \in Tokens : lp'[t] = lp[t] => Owned(t)' >= Owned(t)]_vars

\* Traders together never gain of one token without giving of the other,
\* however many swaps they make in whatever directions.
NoFreeTokens ==
    \/ \A t \in Tokens : trader[t] = 0
    \/ \E t \in Tokens : trader[t] < 0
=============================================================================
