------------------------------ MODULE VaultMath ------------------------------
(***************************************************************************)
(* The arithmetic of a dynamic vault, programs/dynamic-vault/src/state.rs: *)
(* the locked profit that decays with time, the amount that is unlocked,   *)
(* and the conversions between vault LP shares and underlying tokens.      *)
(*                                                                         *)
(* A vault is a record; `supply' is the supply of its LP mint and          *)
(* `reserve' the balance of its token account, which the code reads from   *)
(* accounts of their own and passes beside the Vault.  An Option<u64> is a *)
(* natural number or None.  u128 intermediates never overflow (they are    *)
(* products of two u64), u64 results are checked against MaxU64.           *)
(***************************************************************************)
EXTENDS Integers

CONSTANTS
    MaxU64,                 \* u64::MAX, small in the models so that it is met
    DegradationDenominator  \* LOCKED_PROFIT_DEGRADATION_DENOMINATOR

ASSUME VaultConstants ==
    /\ MaxU64 \in Nat
    /\ DegradationDenominator \in Nat \ {0}

U64 == 0..MaxU64

None == -1

\* u64::try_from(x).ok(), checked_add, checked_sub and checked_div
TryU64(x)        == IF x \in U64 THEN x ELSE None
CheckedAdd(x, y) == TryU64(x + y)
CheckedSub(x, y) == TryU64(x - y)
CheckedDiv(x, y) == IF y = 0 THEN None ELSE TryU64(x \div y)

Vault == [totalAmount  : U64,   \* Vault.total_amount
          lastProfit   : U64,   \* locked_profit_tracker.last_updated_locked_profit
          lastReport   : U64,   \* locked_profit_tracker.last_report
          degradation  : U64,   \* locked_profit_tracker.locked_profit_degradation
          supply       : U64,   \* supply of Vault.lp_mint
          reserve      : U64]   \* amount of Vault.token_vault

\* Mutant: the elapsed fraction is not capped at one.
CalculateLockedProfitUncapped(v, now) ==
    LET ratio == (now - v.lastReport) * v.degradation
    IN  IF now < v.lastReport THEN None
        ELSE TryU64((v.lastProfit * (DegradationDenominator - ratio))
                    \div DegradationDenominator)

\* LockedProfitTracker::calculate_locked_profit
CalculateLockedProfit(v, now) ==
    LET ratio == (now - v.lastReport) * v.degradation
    IN  IF now < v.lastReport THEN None
        ELSE IF ratio > DegradationDenominator THEN 0
        ELSE TryU64((v.lastProfit * (DegradationDenominator - ratio))
                    \div DegradationDenominator)

\* Vault::get_unlocked_amount
GetUnlockedAmount(v, now) ==
    LET locked == CalculateLockedProfit(v, now)
    IN  IF locked = None THEN None ELSE CheckedSub(v.totalAmount, locked)

\* Vault::get_amount_by_share
GetAmountByShare(v, now, share, totalSupply) ==
    LET total == GetUnlockedAmount(v, now)
    IN  IF total = None THEN None ELSE CheckedDiv(share * total, totalSupply)

\* Mutant: LP are rounded up, for the depositor.
GetUnmintAmountUp(v, now, outToken, totalSupply) ==
    LET total == GetUnlockedAmount(v, now)
    IN  IF total = None THEN None ELSE CheckedDiv(outToken * totalSupply + total - 1, total)

\* Vault::get_unmint_amount
GetUnmintAmount(v, now, outToken, totalSupply) ==
    LET total == GetUnlockedAmount(v, now)
    IN  IF total = None THEN None ELSE CheckedDiv(outToken * totalSupply, total)

=============================================================================
