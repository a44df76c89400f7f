----------------------------- MODULE PoolProofs ------------------------------
(***************************************************************************)
(* Proofs about module Pool: the accounts stay well typed, the vaults can  *)
(* always be priced, the pool's shares are always backed and traders       *)
(* cannot win, for every choice of the constants; and, on every state the  *)
(* pool reaches, about the quotes of modules TsQuote and LiquidityQuote,   *)
(* for all fees, vaults and amounts.                                       *)
(***************************************************************************)
EXTENDS LiquidityQuote, TLAPS

-----------------------------------------------------------------------------
(* Integer arithmetic                                                      *)

\* A floor division of naturals lies within one divisor of the exact quotient.
LEMMA DivBounds ==
    ASSUME NEW a \in Nat, NEW b \in Nat \ {0}
    PROVE  /\ a \div b \in Nat
           /\ b * (a \div b) <= a
           /\ a < b * (a \div b) + b
  OBVIOUS

\* A common positive factor cancels from an inequality.
LEMMA MulCancel ==
    ASSUME NEW a \in Int, NEW b \in Int, NEW c \in Nat \ {0}
    PROVE  /\ a * c <= b * c => a <= b
           /\ a * c < b * c => a < b
  OBVIOUS

\* Multiplication by a natural number is monotone.
LEMMA MulMono ==
    ASSUME NEW a \in Nat, NEW b \in Nat, NEW c \in Nat, a <= b
    PROVE  a * c <= b * c /\ a * c \in Nat
  OBVIOUS

\* A floor division is below every c that is at least the exact quotient.
LEMMA DivLe ==
    ASSUME NEW a \in Nat, NEW b \in Nat \ {0}, NEW c \in Nat, a <= c * b
    PROVE  a \div b <= c
<1>1. b * (a \div b) <= a /\ a \div b \in Nat
  BY DivBounds
<1>2. (a \div b) * b <= c * b
  BY <1>1
<1> QED
  BY <1>1, <1>2, MulCancel

\* A floor division is above every integer the exact quotient is above.
LEMMA DivGe ==
    ASSUME NEW a \in Nat, NEW b \in Nat \ {0}, NEW c \in Nat, c * b <= a
    PROVE  c <= a \div b
<1>1. a < b * (a \div b) + b /\ a \div b \in Nat
  BY DivBounds
<1>2. c * b < ((a \div b) + 1) * b
  BY <1>1
<1>3. c < (a \div b) + 1
  BY <1>1, <1>2, MulCancel
<1> QED
  BY <1>1, <1>3

-----------------------------------------------------------------------------
(* The vault's arithmetic                                                  *)

\* Whoever can be priced has a locked profit within the total amount, and the
\* unlocked amount is the rest (get_unlocked_amount of the vault).
LEMMA UnlockedFacts ==
    ASSUME NEW v \in Vault, NEW now \in U64, GetUnlockedAmount(v, now) # None
    PROVE  /\ v.lastReport <= now
           /\ CalculateLockedProfit(v, now) \in U64
           /\ GetUnlockedAmount(v, now) = v.totalAmount - CalculateLockedProfit(v, now)
           /\ GetUnlockedAmount(v, now) \in U64
<1>1. CalculateLockedProfit(v, now) # None
  BY DEF GetUnlockedAmount
<1>2. v.lastReport <= now
  BY <1>1 DEF CalculateLockedProfit, Vault, U64
<1>3. CalculateLockedProfit(v, now) \in U64
  BY <1>1, VaultConstants DEF CalculateLockedProfit, TryU64, U64
<1>4. GetUnlockedAmount(v, now) = CheckedSub(v.totalAmount, CalculateLockedProfit(v, now))
  BY <1>1 DEF GetUnlockedAmount
<1> QED
  BY <1>2, <1>3, <1>4 DEF CheckedSub, TryU64

\* The locked profit depends on the tracker and the time only, the unlocked
\* amount on the total amount too.
LEMMA UnlockedDepends ==
    ASSUME NEW v \in Vault, NEW w \in Vault, NEW now \in U64,
           w.lastProfit = v.lastProfit, w.lastReport = v.lastReport,
           w.degradation = v.degradation
    PROVE  /\ CalculateLockedProfit(w, now) = CalculateLockedProfit(v, now)
           /\ GetUnlockedAmount(v, now) # None /\ w.totalAmount >= CalculateLockedProfit(v, now)
                => GetUnlockedAmount(w, now) = w.totalAmount - CalculateLockedProfit(v, now)
<1>1. CalculateLockedProfit(w, now) = CalculateLockedProfit(v, now)
  BY DEF CalculateLockedProfit
<1>2. ASSUME GetUnlockedAmount(v, now) # None,
             w.totalAmount >= CalculateLockedProfit(v, now)
      PROVE  GetUnlockedAmount(w, now) = w.totalAmount - CalculateLockedProfit(v, now)
  <2>1. CalculateLockedProfit(v, now) \in U64
    BY <1>2, UnlockedFacts
  <2>2. CalculateLockedProfit(v, now) # None
    BY <2>1, VaultConstants DEF U64, None
  <2>3. w.totalAmount - CalculateLockedProfit(v, now) \in U64
    BY <1>2, <2>1, VaultConstants DEF Vault, U64
  <2> QED
    BY <1>1, <2>2, <2>3 DEF GetUnlockedAmount, CheckedSub, TryU64
<1> QED
  BY <1>1, <1>2

\* Locked profit only decays while time passes (calculate_locked_profit).
LEMMA LockedDecays ==
    ASSUME NEW v \in Vault, NEW now \in U64, NEW later \in U64, now <= later,
           CalculateLockedProfit(v, now) # None
    PROVE  /\ CalculateLockedProfit(v, later) # None
           /\ CalculateLockedProfit(v, later) <= CalculateLockedProfit(v, now)
<1> DEFINE D == DegradationDenominator
           Ratio(t) == (t - v.lastReport) * v.degradation
           Locked(t) == (v.lastProfit * (D - Ratio(t))) \div D
<1>1. /\ D \in Nat \ {0} /\ MaxU64 \in Nat
      /\ v.lastReport \in Nat /\ v.degradation \in Nat
      /\ v.lastProfit \in Nat /\ v.lastProfit <= MaxU64
      /\ now \in Nat /\ later \in Nat
  BY VaultConstants DEF Vault, U64
<1>2. v.lastReport <= now
  BY <1>1 DEF CalculateLockedProfit
<1>3. Ratio(now) \in Nat /\ Ratio(later) \in Nat /\ Ratio(now) <= Ratio(later)
  <2>1. now - v.lastReport \in Nat /\ later - v.lastReport \in Nat
        /\ now - v.lastReport <= later - v.lastReport
    BY <1>1, <1>2
  <2> HIDE DEF D
  <2> QED
    BY <2>1, <1>1, MulMono
<1> HIDE DEF Ratio, D
<1>4. ASSUME NEW t \in {now, later}, Ratio(t) <= D
      PROVE  /\ CalculateLockedProfit(v, t) = Locked(t)
             /\ Locked(t) \in Nat
             /\ v.lastProfit * (D - Ratio(t)) \in Nat
  <2>1. D - Ratio(t) \in Nat /\ D - Ratio(t) <= D
    BY <1>1, <1>3, <1>4
  <2>2. v.lastProfit * (D - Ratio(t)) \in Nat
        /\ v.lastProfit * (D - Ratio(t)) <= v.lastProfit * D
    BY <1>1, <2>1, MulMono
  <2>3. Locked(t) \in Nat /\ Locked(t) <= v.lastProfit
    BY <1>1, <2>2, DivBounds, DivLe
  <2>4. Locked(t) \in U64
    BY <1>1, <2>3 DEF U64
  <2>5. v.lastReport <= t /\ ~(Ratio(t) > D)
    BY <1>1, <1>2, <1>3, <1>4
  <2> QED
    BY <1>1, <2>2, <2>3, <2>4, <2>5 DEF CalculateLockedProfit, TryU64, Ratio, D
<1>5. CASE Ratio(later) <= D
  <2>1. Ratio(now) <= D
    BY <1>1, <1>3, <1>5
  <2>2. D - Ratio(later) \in Nat /\ D - Ratio(now) \in Nat /\ D - Ratio(later) <= D - Ratio(now)
    BY <1>1, <1>3, <1>5, <2>1
  <2>3. v.lastProfit * (D - Ratio(later)) <= v.lastProfit * (D - Ratio(now))
    BY <1>1, <2>2, MulMono
  <2>4. Locked(later) <= Locked(now)
    <3>1. D * Locked(later) <= v.lastProfit * (D - Ratio(later))
      BY <1>1, <1>4, <1>5, DivBounds
    <3>2. Locked(later) * D <= v.lastProfit * (D - Ratio(now))
      BY <1>1, <1>4, <1>5, <2>1, <2>3, <3>1
    <3> QED
      BY <1>1, <1>4, <1>5, <2>1, <3>2, DivGe
  <2> QED
    BY <1>4, <1>5, <2>1, <2>4 DEF None
<1>6. CASE ~(Ratio(later) <= D)
  <2>1. CalculateLockedProfit(v, later) = 0
    BY <1>1, <1>2, <1>3, <1>6 DEF CalculateLockedProfit, Ratio, D
  <2>2. CalculateLockedProfit(v, now) \in Nat
    BY <1>1 DEF CalculateLockedProfit, TryU64, U64
  <2> QED
    BY <2>1, <2>2 DEF None
<1> QED
  BY <1>5, <1>6

\* At the moment of the report the whole profit is locked.
LEMMA FreshLock ==
    ASSUME NEW v \in Vault, NEW now \in U64, v.lastReport = now
    PROVE  CalculateLockedProfit(v, now) = v.lastProfit
<1> DEFINE D == DegradationDenominator
           n == v.lastProfit
<1>1. /\ n \in Nat /\ n \in U64 /\ D \in Nat \ {0} /\ now \in Nat /\ v.degradation \in Nat
  BY VaultConstants DEF Vault, U64
<1>2. (now - v.lastReport) * v.degradation = 0
  BY <1>1
<1>3. (n * (D - 0)) \div D = n
  <2> HIDE DEF n, D
  <2>1. n * D \in Nat /\ n * (D - 0) = n * D
    BY <1>1
  <2>2. (n * D) \div D <= n /\ n <= (n * D) \div D
    BY <1>1, <2>1, DivLe, DivGe
  <2>3. (n * D) \div D \in Nat
    BY <1>1, <2>1, DivBounds
  <2> QED
    BY <1>1, <2>1, <2>2, <2>3
<1> QED
  BY <1>1, <1>2, <1>3 DEF CalculateLockedProfit, TryU64

\* A vault of which the pool holds `share' is in order at time now.
VaultOK(v, now, share) ==
    /\ v \in Vault
    /\ share \in U64
    /\ share > 0
    /\ share <= v.supply
    /\ v.reserve <= v.totalAmount
    /\ GetUnlockedAmount(v, now) # None

\* What a share amounts to in a vault that can be priced (get_amount_by_share).
LEMMA ShareValue ==
    ASSUME NEW v, NEW now \in U64, NEW share, VaultOK(v, now, share)
    PROVE  /\ GetAmountByShare(v, now, share, v.supply)
                = (share * GetUnlockedAmount(v, now)) \div v.supply
           /\ GetAmountByShare(v, now, share, v.supply) \in U64
           /\ GetAmountByShare(v, now, share, v.supply) * v.supply
                <= share * GetUnlockedAmount(v, now)
           /\ GetAmountByShare(v, now, share, v.supply) <= GetUnlockedAmount(v, now)
<1> DEFINE U == GetUnlockedAmount(v, now)
           S == v.supply
<1>1. /\ U \in U64 /\ U # None /\ U \in Nat /\ U <= MaxU64
      /\ S \in Nat \ {0} /\ share \in Nat /\ share <= S /\ MaxU64 \in Nat
  BY UnlockedFacts, VaultConstants DEF VaultOK, Vault, U64, None
<1> HIDE DEF U
<1>2. share * U \in Nat /\ share * U <= U * S
  <2> HIDE DEF S
  <2> QED
    BY <1>1, MulMono
<1>3. /\ (share * U) \div S \in Nat
      /\ ((share * U) \div S) * S <= share * U
      /\ (share * U) \div S <= U
  <2> HIDE DEF S
  <2>1. (share * U) \div S \in Nat /\ S * ((share * U) \div S) <= share * U
    BY <1>1, <1>2, DivBounds
  <2>2. (share * U) \div S <= U
    BY <1>1, <1>2, DivLe
  <2> QED
    BY <1>1, <2>1, <2>2
<1>4. (share * U) \div S \in U64
  BY <1>1, <1>3 DEF U64
<1>5. GetAmountByShare(v, now, share, S) = (share * U) \div S
  BY <1>1, <1>4 DEF GetAmountByShare, CheckedDiv, TryU64, U
<1> QED
  BY <1>3, <1>4, <1>5 DEF U

\* Of two priced vaults, the one with the higher ratio of unlocked amount to
\* supply gives the same share at least as much.
LEMMA ValueGrows ==
    ASSUME NEW share \in Nat, NEW u1 \in Nat, NEW u2 \in Nat,
           NEW s1 \in Nat \ {0}, NEW s2 \in Nat \ {0}, u1 * s2 <= u2 * s1
    PROVE  (share * u1) \div s1 <= (share * u2) \div s2
<1> DEFINE d == (share * u1) \div s1
<1>1. share * u1 \in Nat /\ share * u2 \in Nat
  OBVIOUS
<1>2. d \in Nat /\ s1 * d <= share * u1
  BY <1>1, DivBounds
<1> HIDE DEF d
<1>3. (s1 * d) * s2 <= (share * u1) * s2
  BY <1>1, <1>2, MulMono
<1>4. share * (u1 * s2) <= share * (u2 * s1)
  BY MulMono
<1>5. (d * s2) * s1 <= (share * u2) * s1
  <2>1. (s1 * d) * s2 = (d * s2) * s1 /\ (share * u1) * s2 = share * (u1 * s2)
        /\ share * (u2 * s1) = (share * u2) * s1
    BY <1>2
  <2> QED
    BY <1>1, <1>2, <1>3, <1>4, <2>1
<1>6. d * s2 <= share * u2
  BY <1>1, <1>2, <1>5, MulCancel
<1> QED
  BY <1>1, <1>2, <1>6, DivGe DEF d

\* A deposit leaves the vault in order for a pool that gets up to all of the LP
\* minted, and adds its amount to what is unlocked.
LEMMA DepositKeeps ==
    ASSUME NEW v, NEW now \in U64, NEW share, VaultOK(v, now, share),
           NEW amount \in Nat, NEW minted \in Nat, NEW got \in Nat, got <= minted,
           v.totalAmount + amount \in U64, v.supply + minted \in U64
    PROVE  /\ VaultOK(Deposited(v, amount, minted), now, share + got)
           /\ GetUnlockedAmount(Deposited(v, amount, minted), now)
                = GetUnlockedAmount(v, now) + amount
           /\ Deposited(v, amount, minted).supply = v.supply + minted
<1> DEFINE w == Deposited(v, amount, minted)
<1>0. v \in Vault /\ share \in U64 /\ MaxU64 \in Nat
  BY VaultConstants DEF VaultOK
<1>1. /\ w.totalAmount = v.totalAmount + amount /\ w.supply = v.supply + minted
      /\ w.reserve = v.reserve + amount /\ w.lastProfit = v.lastProfit
      /\ w.lastReport = v.lastReport /\ w.degradation = v.degradation
      /\ w.reserve <= w.totalAmount
  BY <1>0 DEF Deposited, Vault, VaultOK, U64
<1>2. w \in Vault
  <2>1. /\ v.totalAmount + amount \in U64 /\ v.supply + minted \in U64
        /\ v.reserve + amount \in U64
    BY <1>0, <1>1 DEF Vault, VaultOK, U64
  <2> QED
    BY <1>0, <2>1 DEF Deposited, Vault
<1>3. share + got \in U64 /\ share + got <= w.supply /\ share + got > 0
  BY <1>0, <1>1 DEF Vault, VaultOK, U64
<1>4. /\ GetUnlockedAmount(v, now) = v.totalAmount - CalculateLockedProfit(v, now)
      /\ CalculateLockedProfit(v, now) \in U64
      /\ GetUnlockedAmount(v, now) \in U64
  BY <1>0, UnlockedFacts DEF VaultOK
<1>5. w.totalAmount >= CalculateLockedProfit(v, now)
  BY <1>0, <1>1, <1>4 DEF Vault, U64
<1> HIDE DEF w
<1>6. GetUnlockedAmount(w, now) = w.totalAmount - CalculateLockedProfit(v, now)
  BY <1>0, <1>1, <1>2, <1>5, UnlockedDepends DEF VaultOK
<1>7. GetUnlockedAmount(w, now) = GetUnlockedAmount(v, now) + amount
  BY <1>0, <1>1, <1>4, <1>6 DEF Vault, U64
<1>8. GetUnlockedAmount(w, now) # None
  BY <1>4, <1>7, VaultConstants DEF U64, None
<1> QED
  BY <1>1, <1>2, <1>3, <1>7, <1>8 DEF w, VaultOK

\* A withdrawal of no more than is unlocked and in reserve leaves the vault in
\* order for a pool whose LP survive it, and takes its amount from what is
\* unlocked.
LEMMA WithdrawKeeps ==
    ASSUME NEW v, NEW now \in U64, NEW share, VaultOK(v, now, share),
           NEW amount \in Nat, NEW burnt \in Nat, NEW left \in Nat,
           amount <= v.reserve, amount <= GetUnlockedAmount(v, now),
           left > 0, left <= v.supply - burnt
    PROVE  /\ VaultOK(Withdrawn(v, amount, burnt), now, left)
           /\ GetUnlockedAmount(Withdrawn(v, amount, burnt), now)
                = GetUnlockedAmount(v, now) - amount
           /\ Withdrawn(v, amount, burnt).supply = v.supply - burnt
<1> DEFINE w == Withdrawn(v, amount, burnt)
<1>0. v \in Vault /\ share \in U64 /\ MaxU64 \in Nat
  BY VaultConstants DEF VaultOK
<1>1. /\ w.totalAmount = v.totalAmount - amount /\ w.supply = v.supply - burnt
      /\ w.reserve = v.reserve - amount /\ w.lastProfit = v.lastProfit
      /\ w.lastReport = v.lastReport /\ w.degradation = v.degradation
      /\ w.reserve <= w.totalAmount
  BY <1>0 DEF Withdrawn, Vault, VaultOK, U64
<1>2. w \in Vault
  <2>1. /\ v.totalAmount - amount \in U64 /\ v.supply - burnt \in U64
        /\ v.reserve - amount \in U64
    BY <1>0, <1>1 DEF Vault, VaultOK, U64
  <2> QED
    BY <1>0, <2>1 DEF Withdrawn, Vault
<1>3. left \in U64 /\ left <= w.supply
  BY <1>0, <1>1 DEF Vault, U64
<1>4. /\ GetUnlockedAmount(v, now) = v.totalAmount - CalculateLockedProfit(v, now)
      /\ CalculateLockedProfit(v, now) \in U64
      /\ GetUnlockedAmount(v, now) \in U64
  BY <1>0, UnlockedFacts DEF VaultOK
<1>5. w.totalAmount >= CalculateLockedProfit(v, now)
  BY <1>0, <1>1, <1>4 DEF Vault, U64
<1> HIDE DEF w
<1>6. GetUnlockedAmount(w, now) = w.totalAmount - CalculateLockedProfit(v, now)
  BY <1>0, <1>1, <1>2, <1>5, UnlockedDepends DEF VaultOK
<1>7. GetUnlockedAmount(w, now) = GetUnlockedAmount(v, now) - amount
  BY <1>0, <1>1, <1>4, <1>6 DEF Vault, U64
<1>8. GetUnlockedAmount(w, now) # None
  BY <1>4, <1>7, VaultConstants DEF U64, None
<1> QED
  BY <1>1, <1>2, <1>3, <1>7, <1>8 DEF w, VaultOK

-----------------------------------------------------------------------------
(* The two sides of a swap                                                 *)

\* A deposit that succeeds mints LP worth no more than its amount, and the
\* total it reports is the value of the pool's LP after it.
LEMMA DepositSideFacts ==
    ASSUME NEW v, NEW now \in U64, NEW share, VaultOK(v, now, share),
           NEW amount \in Int, NEW lpBefore \in {0, share},
           DepositSide(v, now, lpBefore, amount).lp # None
    PROVE  LET minted == DepositSide(v, now, lpBefore, amount).lp
           IN  /\ amount \in Nat /\ minted \in Nat
               /\ v.totalAmount + amount \in U64
               /\ v.supply + minted \in U64
               /\ lpBefore + minted \in U64
               /\ minted * GetUnlockedAmount(v, now) <= amount * v.supply
               /\ DepositSide(v, now, lpBefore, amount).total
                    = GetAmountByShare(Credited(v, amount), now,
                                       minted + lpBefore, v.supply + minted)
<1> DEFINE U == GetUnlockedAmount(v, now)
           m == GetUnmintAmount(v, now, amount, v.supply)
<1>1. /\ amount >= 0 /\ m # None /\ v.totalAmount + amount \in U64
      /\ m + lpBefore \in U64 /\ v.supply + m \in U64
      /\ DepositSide(v, now, lpBefore, amount).lp = m
      /\ DepositSide(v, now, lpBefore, amount).total
           = GetAmountByShare(Credited(v, amount), now, m + lpBefore, v.supply + m)
  BY DEF DepositSide, None
<1>2. /\ U \in Nat /\ U # None /\ v.supply \in Nat /\ amount \in Nat /\ share \in Nat
      /\ MaxU64 \in Nat
  BY <1>1, UnlockedFacts, VaultConstants DEF VaultOK, Vault, U64, None
<1> HIDE DEF U
<1>3. m = CheckedDiv(amount * v.supply, U)
  BY <1>2 DEF GetUnmintAmount, U
<1>4. U # 0 /\ m = (amount * v.supply) \div U /\ m \in U64
  BY <1>1, <1>2, <1>3 DEF CheckedDiv, TryU64
<1> HIDE DEF m
<1>5. m \in Nat /\ m * U <= amount * v.supply
  <2>1. amount * v.supply \in Nat
    BY <1>2
  <2>2. U * m <= amount * v.supply /\ m \in Nat
    BY <1>2, <1>4, <2>1, DivBounds
  <2> QED
    BY <1>2, <2>2
<1>6. lpBefore + m \in U64 /\ lpBefore \in Nat
  BY <1>1, <1>2, <1>5
<1> QED
  BY <1>1, <1>2, <1>5, <1>6 DEF U

\* A withdrawal of less than the pool owns burns less than the pool's LP, and
\* pays no more than what the LP burnt are worth and no more than was asked.
LEMMA WithdrawSideFacts ==
    ASSUME NEW v, NEW now \in U64, NEW share, VaultOK(v, now, share),
           NEW amount \in Nat,
           amount < GetAmountByShare(v, now, share, v.supply),
           WithdrawSide(v, now, amount).amount # None
    PROVE  LET burnt == WithdrawSide(v, now, amount).lp
               paid  == WithdrawSide(v, now, amount).amount
           IN  /\ burnt \in Nat /\ burnt < share
               /\ paid \in Nat /\ paid <= GetUnlockedAmount(v, now)
               /\ paid * v.supply <= burnt * GetUnlockedAmount(v, now)
               /\ burnt * GetUnlockedAmount(v, now) <= amount * v.supply
<1> DEFINE U == GetUnlockedAmount(v, now)
           S == v.supply
           b == GetUnmintAmount(v, now, amount, S)
           p == GetAmountByShare(v, now, b, S)
           T == GetAmountByShare(v, now, share, S)
<1>1. amount # None
  BY DEF None
<1>2. b # None /\ p # None /\ WithdrawSide(v, now, amount).lp = b
      /\ WithdrawSide(v, now, amount).amount = p
  BY <1>1 DEF WithdrawSide
<1>3. /\ U \in Nat /\ U # None /\ S \in Nat \ {0} /\ share \in Nat /\ share <= S
      /\ T \in Nat /\ T * S <= share * U
  BY UnlockedFacts, ShareValue, VaultConstants DEF VaultOK, Vault, U64, None
<1>4. b = CheckedDiv(amount * S, U) /\ p = CheckedDiv(b * U, S)
  BY <1>3 DEF GetUnmintAmount, GetAmountByShare
<1>5. U # 0 /\ b = (amount * S) \div U /\ p = (b * U) \div S /\ b \in U64 /\ p \in U64
  <2> HIDE DEF b, p
  <2> QED
    BY <1>2, <1>3, <1>4 DEF CheckedDiv, TryU64
<1>5a. amount < T
  OBVIOUS
<1>5b. b \in Nat /\ p \in Nat
  BY <1>5, VaultConstants DEF U64
<1> HIDE DEF U, S, b, p, T
<1>6. U * b <= amount * S
  <2>1. amount * S \in Nat
    BY <1>3
  <2> QED
    BY <1>3, <1>5, <2>1, DivBounds
<1>7. S * p <= b * U
  <2>1. b * U \in Nat
    BY <1>3, <1>5b
  <2> QED
    BY <1>3, <1>5, <2>1, DivBounds
<1>8. b < share
  <2>1. amount * S < T * S
    BY <1>3, <1>5a
  <2>2. b * U < share * U
    BY <1>3, <1>5b, <1>6, <2>1
  <2> QED
    BY <1>3, <1>5, <1>5b, <2>2, MulCancel
<1>9. p <= U
  <2>1. b * U <= U * S
    BY <1>3, <1>5b, <1>8, MulMono
  <2>2. p * S <= U * S
    BY <1>3, <1>5b, <1>7, <2>1
  <2> QED
    BY <1>3, <1>5b, <2>2, MulCancel
<1> QED
  BY <1>2, <1>3, <1>5b, <1>6, <1>7, <1>8, <1>9 DEF U, S

\* The curve gives out less than the destination holds and does not lower the
\* product of the two balances (ConstantProduct::swap).
LEMMA CurveFacts ==
    ASSUME NEW source \in Nat, NEW x \in Nat, NEW y \in Nat,
           ConstantProductSwap(source, x, y) # None
    PROVE  LET d == ConstantProductSwap(source, x, y)
           IN  d \in Nat /\ d < y /\ x * y <= (x + source) * (y - d)
<1> DEFINE n == x + source
           k == x * y
           c == CeilDiv(k, n)
           d == ConstantProductSwap(source, x, y)
<1>1. d = y - c /\ n # 0 /\ ~(k < n) /\ ~(y - c <= 0)
  BY DEF ConstantProductSwap
<1>2. n \in Nat \ {0} /\ k \in Nat /\ n <= k
  BY <1>1
<1> HIDE DEF n, k, d
<1>3. k + n - 1 \in Nat /\ n * 1 <= k + n - 1
  BY <1>2
<1>4. c \in Nat /\ k + n - 1 < n * c + n
  BY <1>2, <1>3, DivBounds DEF CeilDiv
<1>5. 1 <= c
  BY <1>2, <1>3, DivGe DEF CeilDiv
<1> HIDE DEF c
<1>6. k <= n * c
  BY <1>2, <1>4
<1>7. d \in Nat /\ d < y /\ c = y - d
  BY <1>1, <1>4, <1>5
<1>8. k <= n * (y - d)
  BY <1>6, <1>7
<1> QED
  BY <1>7, <1>8 DEF n, k, d

\* What is left to the pool after a withdrawal: at least what it owned less
\* what the curve gave out, all floors included.
LEMMA LeftOver ==
    ASSUME NEW share \in Nat, NEW U \in Nat, NEW S \in Nat \ {0}, share <= S,
           NEW T \in Nat, T * S <= share * U,
           NEW d \in Nat, d < T,
           NEW burnt \in Nat, burnt < share, burnt * U <= d * S,
           NEW paid \in Nat, paid <= U, paid * S <= burnt * U
    PROVE  T - d <= ((share - burnt) * (U - paid)) \div (S - burnt)
<1> DEFINE h == share - burnt
           u == U - paid
           s == S - burnt
           r == T - d
<1>1. h \in Nat /\ u \in Nat /\ s \in Nat \ {0} /\ r \in Nat
  OBVIOUS
<1>2. s * U <= u * S
  <2>1. s * U = S * U - burnt * U /\ u * S = U * S - paid * S
    OBVIOUS
  <2> QED
    BY <2>1
<1>3. r * S <= h * U
  <2>1. r * S = T * S - d * S /\ h * U = share * U - burnt * U
    OBVIOUS
  <2> QED
    BY <2>1
<1> HIDE DEF h, u, s, r
<1>4. (r * S) * s <= (h * U) * s
  BY <1>1, <1>3, MulMono
<1>5. (s * U) * h <= (u * S) * h
  BY <1>1, <1>2, MulMono
<1>6. (r * s) * S <= (h * u) * S
  <2>1. /\ (r * s) * S = (r * S) * s /\ (h * U) * s = (s * U) * h
        /\ (u * S) * h = (h * u) * S
    BY <1>1
  <2> QED
    BY <1>1, <1>4, <1>5, <2>1
<1>7. r * s <= h * u
  BY <1>1, <1>6, MulCancel
<1>8. r <= (h * u) \div s
  BY <1>1, <1>7, DivGe
<1> QED
  BY <1>8 DEF h, u, s, r

-----------------------------------------------------------------------------
(* compute_quote on accounts that are in order                             *)

Accounts == [enabled : BOOLEAN, clock : [slot : U64, time : U64],
             vault : [Tokens -> Vault], lp : [Tokens -> U64]]

AccountsOK(q) ==
    /\ q \in Accounts
    /\ \A t \in Tokens : VaultOK(q.vault[t], q.clock.time, q.lp[t])

\* Fees are naturals.
LEMMA FeeType ==
    ASSUME NEW a \in Nat
    PROVE  TradingFee(a) \in Nat /\ ProtocolTradingFee(a) \in Nat
<1>1. ASSUME NEW n \in Nat, NEW d \in Nat \ {0}
      PROVE  CalculateFee(a, n, d) \in Nat
  <2>1. a * n \in Nat
    OBVIOUS
  <2>2. (a * n) \div d \in Nat
    BY <2>1, DivBounds
  <2> QED
    BY <2>2 DEF CalculateFee
<1> QED
  BY <1>1, FeeConstants DEF TradingFee, ProtocolTradingFee

\* How a quoted swap moves the unlocked amounts and the supplies of the two vaults:
\* LP are minted for no more, and burnt for no less, than they are worth.
SharePrices(q, m, a) ==
    LET quote == ComputeQuote(q, m, a)
        o     == Other(m)
        now   == q.clock.time
        vin   == Deposited(q.vault[m], quote.deposited, quote.inLp)
        vout  == Withdrawn(q.vault[o], quote.outAmount, quote.outLp)
        Ui    == GetUnlockedAmount(q.vault[m], now)
        Uo    == GetUnlockedAmount(q.vault[o], now)
    IN  /\ quote.deposited \in Nat /\ quote.inLp \in Nat /\ quote.deposited <= a
        /\ quote.inLp * Ui <= quote.deposited * q.vault[m].supply
        /\ GetUnlockedAmount(vin, now) = Ui + quote.deposited
        /\ vin.supply = q.vault[m].supply + quote.inLp
        /\ quote.outAmount \in Nat /\ quote.outLp \in Nat /\ quote.outLp < q.lp[o]
        /\ quote.outAmount * q.vault[o].supply <= quote.outLp * Uo
        /\ GetUnlockedAmount(vout, now) = Uo - quote.outAmount
        /\ vout.supply = q.vault[o].supply - quote.outLp
        /\ PoolTokens(q, m) * PoolTokens(q, o) # 0

\* A quote that succeeds describes a deposit and a withdrawal the two vaults can
\* make, after which the product of what the pool owns is no lower.
LEMMA QuoteFacts ==
    ASSUME NEW q, AccountsOK(q), NEW m \in Mints, NEW a \in U64,
           ComputeQuote(q, m, a).ok
    PROVE  LET quote == ComputeQuote(q, m, a)
               o     == Other(m)
               now   == q.clock.time
               vin   == Deposited(q.vault[m], quote.deposited, quote.inLp)
               vout  == Withdrawn(q.vault[o], quote.outAmount, quote.outLp)
           IN  /\ m \in Tokens /\ o \in Tokens /\ m # o
               /\ quote.outAmount \in Int
               /\ q.lp[m] + quote.inLp \in U64
               /\ q.lp[o] - quote.outLp \in U64
               /\ VaultOK(vin, now, q.lp[m] + quote.inLp)
               /\ VaultOK(vin, now, q.lp[m])
               /\ VaultOK(vout, now, q.lp[o] - quote.outLp)
               /\ PoolTokens(q, m) * PoolTokens(q, o)
                    <= GetAmountByShare(vin, now, q.lp[m] + quote.inLp, vin.supply)
                       * GetAmountByShare(vout, now, q.lp[o] - quote.outLp, vout.supply)
               /\ PoolTokens(q, m) <= GetAmountByShare(vin, now, q.lp[m], vin.supply)
               /\ quote.outLp \in Nat
               /\ quote.outLp = 0 =>
                    PoolTokens(q, o)
                      = GetAmountByShare(vout, now, q.lp[o] - quote.outLp, vout.supply)
               /\ SharePrices(q, m, a)
<1> DEFINE now == q.clock.time
           o == Other(m)
           vi == q.vault[m]
           vo == q.vault[o]
           si == q.lp[m]
           so == q.lp[o]
           X == PoolTokens(q, m)
           T == PoolTokens(q, o)
           grossFee == TradingFee(a)
           protocolFee == ProtocolTradingFee(grossFee)
           fee == grossFee - protocolFee
           dep == a - protocolFee
           in == DepositSide(vi, now, si, dep)
           source == (in.total - X) - fee
           d == ConstantProductSwap(source, X, T)
           out == WithdrawSide(vo, now, d)
           quote == ComputeQuote(q, m, a)
<1>1. /\ m \in Tokens /\ X # None /\ T # None /\ fee >= 0
      /\ in.total # None /\ in.total >= X /\ source >= 0
      /\ out.amount # None /\ out.amount < vo.reserve
      /\ quote = [ok |-> TRUE, fee |-> fee, outAmount |-> out.amount,
                  deposited |-> dep, inLp |-> in.lp, outLp |-> out.lp]
  BY DEF ComputeQuote, QuoteError
<1>2. quote.outAmount = out.amount /\ quote.deposited = dep
      /\ quote.inLp = in.lp /\ quote.outLp = out.lp
  BY <1>1
<1>3. o \in Tokens /\ m # o
  BY <1>1 DEF Other, Tokens
<1>4. now \in U64 /\ VaultOK(vi, now, si) /\ VaultOK(vo, now, so)
  BY <1>1, <1>3 DEF AccountsOK, Accounts
<1>5. X = GetAmountByShare(vi, now, si, vi.supply) /\ T = GetAmountByShare(vo, now, so, vo.supply)
  BY DEF PoolTokens
<1>6. fee \in Nat /\ dep \in Int /\ dep <= a
  <2>1. a \in Nat
    BY VaultConstants DEF U64
  <2>2. grossFee \in Nat
    BY <2>1, FeeType
  <2>3. protocolFee \in Nat
    BY <2>2, FeeType
  <2> QED
    BY <1>1, <2>1, <2>2, <2>3
<1> HIDE DEF now, o, vi, vo, si, so, X, T, fee, dep, in, d, out, quote, grossFee, protocolFee
<1> DEFINE Ui == GetUnlockedAmount(vi, now)
           Uo == GetUnlockedAmount(vo, now)
           vin == Deposited(vi, dep, in.lp)
           vout == Withdrawn(vo, out.amount, out.lp)
<1>7. /\ MaxU64 \in Nat /\ vi.supply \in Nat \ {0} /\ vo.supply \in Nat \ {0}
      /\ si \in Nat \ {0} /\ so \in Nat \ {0} /\ so <= vo.supply /\ si <= vi.supply
      /\ Ui \in Nat /\ Uo \in Nat /\ so <= MaxU64 /\ vo.reserve \in Nat
  BY <1>4, UnlockedFacts, VaultConstants DEF VaultOK, Vault, U64
<1>8. X \in Nat /\ T \in Nat /\ T * vo.supply <= so * Uo
      /\ X = (si * Ui) \div vi.supply
  BY <1>4, <1>5, ShareValue, VaultConstants DEF U64
\* The deposit
<1>9. in.lp # None
  BY <1>1 DEF DepositSide, in, None
<1>10. /\ dep \in Nat /\ in.lp \in Nat /\ vi.totalAmount + dep \in U64
       /\ vi.supply + in.lp \in U64 /\ si + in.lp \in U64
       /\ in.lp * Ui <= dep * vi.supply
       /\ in.total = GetAmountByShare(Credited(vi, dep), now, in.lp + si, vi.supply + in.lp)
  BY <1>4, <1>6, <1>9, DepositSideFacts DEF in
<1>11. /\ VaultOK(vin, now, si + in.lp) /\ VaultOK(vin, now, si)
       /\ GetUnlockedAmount(vin, now) = Ui + dep
       /\ vin.supply = vi.supply + in.lp
  <2>1. VaultOK(vin, now, si + in.lp) /\ GetUnlockedAmount(vin, now) = Ui + dep
        /\ vin.supply = vi.supply + in.lp
    BY <1>4, <1>10, DepositKeeps
  <2>2. VaultOK(vin, now, si + 0)
    BY <1>4, <1>10, DepositKeeps
  <2> QED
    BY <1>7, <2>1, <2>2
<1>12. in.total = GetAmountByShare(vin, now, si + in.lp, vin.supply)
  <2>1. vi \in Vault
    BY <1>4 DEF VaultOK
  <2>2. /\ Credited(vi, dep) \in Vault /\ vin \in Vault
        /\ Credited(vi, dep).totalAmount = vin.totalAmount
        /\ Credited(vi, dep).lastProfit = vin.lastProfit
        /\ Credited(vi, dep).lastReport = vin.lastReport
        /\ Credited(vi, dep).degradation = vin.degradation
    BY <1>10, <1>11, <2>1 DEF Credited, Deposited, Vault, VaultOK
  <2>3. CalculateLockedProfit(Credited(vi, dep), now) = CalculateLockedProfit(vin, now)
    BY <1>4, <2>2, UnlockedDepends
  <2>4. GetUnlockedAmount(Credited(vi, dep), now) = GetUnlockedAmount(vin, now)
    BY <2>2, <2>3 DEF GetUnlockedAmount
  <2>5. in.lp + si = si + in.lp
    BY <1>7, <1>10
  <2> QED
    BY <1>10, <1>11, <2>4, <2>5 DEF GetAmountByShare
<1>13. X <= GetAmountByShare(vin, now, si, vin.supply)
  <2>1. Ui * (vi.supply + in.lp) <= (Ui + dep) * vi.supply
    <3>1. Ui * (vi.supply + in.lp) = Ui * vi.supply + in.lp * Ui
          /\ (Ui + dep) * vi.supply = Ui * vi.supply + dep * vi.supply
      BY <1>7, <1>10
    <3> HIDE DEF Ui
    <3> QED
      BY <1>7, <1>10, <3>1
  <2>2. vi.supply + in.lp \in Nat \ {0} /\ Ui + dep \in Nat
    BY <1>7, <1>10
  <2>3. (si * Ui) \div vi.supply <= (si * (Ui + dep)) \div (vi.supply + in.lp)
    <3> HIDE DEF Ui
    <3> QED
      BY <1>7, <2>1, <2>2, ValueGrows
  <2>4. GetAmountByShare(vin, now, si, vin.supply)
           = (si * (Ui + dep)) \div (vi.supply + in.lp)
    BY <1>4, <1>11, ShareValue
  <2> QED
    BY <1>8, <2>3, <2>4
\* The curve and the withdrawal
<1>14. d # None
  BY <1>1 DEF WithdrawSide, out
<1>15. in.total \in Nat /\ source \in Nat /\ X + source <= in.total
  <2>1. in.total \in U64
    BY <1>4, <1>11, <1>12, ShareValue
  <2>2. in.total \in Nat
    BY <2>1, VaultConstants DEF U64
  <2> QED
    BY <1>1, <1>6, <1>8, <2>2
<1>16. d \in Nat /\ d < T /\ X * T <= (X + source) * (T - d)
  <2>1. d = ConstantProductSwap(source, X, T)
    BY DEF d
  <2> HIDE DEF source
  <2> QED
    BY <1>8, <1>14, <1>15, <2>1, CurveFacts
<1>17. /\ out.lp \in Nat /\ out.lp < so /\ out.amount \in Nat /\ out.amount <= Uo
       /\ out.amount * vo.supply <= out.lp * Uo /\ out.lp * Uo <= d * vo.supply
  BY <1>1, <1>4, <1>5, <1>16, WithdrawSideFacts DEF out
<1>18. so - out.lp \in Nat /\ so - out.lp > 0 /\ so - out.lp <= vo.supply - out.lp
       /\ so - out.lp \in U64
  BY <1>7, <1>17 DEF U64
<1>19. /\ VaultOK(vout, now, so - out.lp)
       /\ GetUnlockedAmount(vout, now) = Uo - out.amount
       /\ vout.supply = vo.supply - out.lp
  <2>1. out.amount <= vo.reserve
    BY <1>1, <1>7, <1>17
  <2> QED
    BY <1>4, <1>17, <1>18, <2>1, WithdrawKeeps
<1>20. T - d <= GetAmountByShare(vout, now, so - out.lp, vout.supply)
  <2>1. GetAmountByShare(vout, now, so - out.lp, vout.supply)
           = ((so - out.lp) * (Uo - out.amount)) \div (vo.supply - out.lp)
    BY <1>4, <1>19, ShareValue
  <2>2. T - d <= ((so - out.lp) * (Uo - out.amount)) \div (vo.supply - out.lp)
    <3> HIDE DEF Uo
    <3> QED
      BY <1>7, <1>8, <1>16, <1>17, LeftOver
  <2> QED
    BY <2>1, <2>2
<1>21. X * T <= in.total * GetAmountByShare(vout, now, so - out.lp, vout.supply)
  <2> DEFINE r == GetAmountByShare(vout, now, so - out.lp, vout.supply)
  <2>1. r \in Nat
    BY <1>4, <1>19, ShareValue, VaultConstants DEF U64
  <2>2. T - d \in Nat
    BY <1>8, <1>16
  <2> HIDE DEF r, source
  <2>3. (X + source) * (T - d) <= in.total * (T - d)
    BY <1>8, <1>15, <2>2, MulMono
  <2>4. (T - d) * in.total <= r * in.total
    BY <1>15, <1>20, <2>1, <2>2, MulMono DEF r
  <2>5. X * T <= in.total * r
    BY <1>8, <1>15, <1>16, <2>1, <2>2, <2>3, <2>4
  <2> QED
    BY <2>5 DEF r
<1>22. out.lp = 0 => T = GetAmountByShare(vout, now, so - out.lp, vout.supply)
  <2> SUFFICES ASSUME out.lp = 0
               PROVE  T = GetAmountByShare(vout, now, so - out.lp, vout.supply)
    OBVIOUS
  <2>1. out.amount = 0
    <3> HIDE DEF Uo
    <3> QED
      BY <1>7, <1>17
  <2>2. so - out.lp = so /\ vout.supply = vo.supply /\ GetUnlockedAmount(vout, now) = Uo
    BY <1>7, <1>19, <2>1
  <2> HIDE DEF vout
  <2> QED
    BY <1>4, <1>5, <1>19, <2>2, ShareValue
<1>23. si + in.lp \in U64 /\ out.amount \in Int /\ out.lp \in Nat
  BY <1>10, <1>17
<1>24. SharePrices(q, m, a)
  <2>1. X * T # 0
    <3>1. X + source # 0 /\ ~(X * T < X + source)
      BY <1>14 DEF ConstantProductSwap, d
    <3> HIDE DEF source
    <3> QED
      BY <1>8, <1>15, <3>1
  <2> HIDE DEF vin, vout, Ui, Uo
  <2> QED
    BY <1>2, <1>6, <1>10, <1>11, <1>17, <1>19, <2>1
       DEF SharePrices, now, o, vi, vo, si, so, X, T, quote, vin, vout, Ui, Uo
<1> QED
  BY <1>1, <1>2, <1>3, <1>11, <1>12, <1>13, <1>18, <1>19, <1>21, <1>22, <1>23, <1>24
     DEF now, o, vi, vo, si, so, X, T, quote

-----------------------------------------------------------------------------
(* The inductive invariant and its steps                                   *)

\* The three invariants hold each other up: a withdrawal keeps the reserve a
\* u64 because the reserve is part of the total, the pool's LP stay positive
\* because what they are worth can be computed, and so on.
IInv == TypeOK /\ VaultsPriceable /\ SharesBacked

\* The invariant is that the accounts are in order.
LEMMA IInvAccounts ==
    IInv <=> AccountsOK(Snapshot) /\ trader \in [Tokens -> Int]
<1>1. /\ Snapshot.enabled = enabled /\ Snapshot.clock = clock
      /\ Snapshot.vault = vault /\ Snapshot.lp = lp
  BY DEF Snapshot
<1>2. Snapshot \in Accounts <=> /\ enabled \in BOOLEAN
                                /\ clock \in [slot : U64, time : U64]
                                /\ vault \in [Tokens -> Vault]
                                /\ lp \in [Tokens -> U64]
  BY DEF Snapshot, Accounts
<1> QED
  BY <1>1, <1>2 DEF IInv, TypeOK, VaultsPriceable, SharesBacked, AccountsOK, VaultOK

\* The shape in which every action shows that the invariant survives it.
LEMMA StepKeeps ==
    ASSUME IInv, enabled' \in BOOLEAN, trader' \in [Tokens -> Int],
           clock' \in [slot : U64, time : U64],
           vault' \in [Tokens -> Vault], lp' \in [Tokens -> U64],
           \A t \in Tokens : VaultOK(vault'[t], clock'.time, lp'[t])
    PROVE  IInv'
  BY DEF IInv, TypeOK, VaultsPriceable, SharesBacked, VaultOK

\* A transaction advances the slot and leaves the time alone.
LEMMA SlotStep ==
    ASSUME IInv, NextSlot
    PROVE  clock' \in [slot : U64, time : U64] /\ clock'.time = clock.time
<1>1. clock \in [slot : U64, time : U64]
  BY DEF IInv, TypeOK
<1>2. clock.slot + 1 \in U64
  BY <1>1, VaultConstants, PoolConstants DEF NextSlot, U64
<1> QED
  BY <1>1, <1>2 DEF NextSlot

\* A step that changes at most the vault of token t, in order.
LEMMA OneVault ==
    ASSUME IInv, NextSlot, UNCHANGED <<enabled, lp, trader>>,
           NEW t \in Tokens, NEW w, vault' = [vault EXCEPT ![t] = w],
           VaultOK(w, clock.time, lp[t])
    PROVE  IInv' /\ vault'[t] = w /\ \A s \in Tokens \ {t} : vault'[s] = vault[s]
<1>1. AccountsOK(Snapshot) /\ trader \in [Tokens -> Int]
  BY IInvAccounts
<1>2. vault \in [Tokens -> Vault] /\ lp \in [Tokens -> U64] /\ enabled \in BOOLEAN
  BY DEF IInv, TypeOK
<1>3. w \in Vault
  BY DEF VaultOK
<1>4. vault' \in [Tokens -> Vault] /\ vault'[t] = w
      /\ \A s \in Tokens \ {t} : vault'[s] = vault[s]
  BY <1>2, <1>3
<1>5. \A s \in Tokens : VaultOK(vault[s], clock.time, lp[s])
  BY <1>1 DEF AccountsOK, Snapshot
<1>6. \A s \in Tokens : VaultOK(vault'[s], clock'.time, lp'[s])
  BY <1>4, <1>5, SlotStep
<1> QED
  BY <1>1, <1>2, <1>4, <1>6, SlotStep, StepKeeps

\* Swap keeps the accounts in order and the product no lower.
LEMMA SwapStep ==
    ASSUME IInv, NEW m \in Mints, NEW a \in SwapAmounts, Swap(m, a)
    PROVE  /\ IInv'
           /\ (Owned("A") * Owned("B"))' >= Owned("A") * Owned("B")
           /\ \A t \in Tokens : lp'[t] = lp[t] => Owned(t)' >= Owned(t)
<1> DEFINE q == Snapshot
           quote == ComputeQuote(q, m, a)
           o == Other(m)
           now == clock.time
           vin == Deposited(vault[m], quote.deposited, quote.inLp)
           vout == Withdrawn(vault[o], quote.outAmount, quote.outLp)
<1>1. AccountsOK(q) /\ trader \in [Tokens -> Int] /\ a \in U64
  BY IInvAccounts, PoolConstants
<1>2. q.clock = clock /\ q.vault = vault /\ q.lp = lp
  BY DEF Snapshot
<1>3. /\ quote.ok
      /\ vault' = [vault EXCEPT ![m] = vin, ![o] = vout]
      /\ lp' = [lp EXCEPT ![m] = lp[m] + quote.inLp, ![o] = lp[o] - quote.outLp]
      /\ trader' = [trader EXCEPT ![m] = trader[m] - a, ![o] = trader[o] + quote.outAmount]
      /\ NextSlot /\ enabled' = enabled
  BY DEF Swap
<1> HIDE DEF q, quote, vin, vout, o, now
<1>4. /\ m \in Tokens /\ o \in Tokens /\ m # o
      /\ quote.outAmount \in Int
      /\ lp[m] + quote.inLp \in U64
      /\ lp[o] - quote.outLp \in U64
      /\ VaultOK(vin, now, lp[m] + quote.inLp)
      /\ VaultOK(vin, now, lp[m])
      /\ VaultOK(vout, now, lp[o] - quote.outLp)
      /\ PoolTokens(q, m) * PoolTokens(q, o)
           <= GetAmountByShare(vin, now, lp[m] + quote.inLp, vin.supply)
              * GetAmountByShare(vout, now, lp[o] - quote.outLp, vout.supply)
      /\ PoolTokens(q, m) <= GetAmountByShare(vin, now, lp[m], vin.supply)
      /\ quote.outLp \in Nat
      /\ quote.outLp = 0 =>
           PoolTokens(q, o) = GetAmountByShare(vout, now, lp[o] - quote.outLp, vout.supply)
  BY <1>1, <1>2, <1>3, QuoteFacts DEF quote, o, now, vin, vout
<1>5. Tokens = {m, o}
  BY <1>4 DEF Tokens
<1>6. vault \in [Tokens -> Vault] /\ lp \in [Tokens -> U64] /\ enabled \in BOOLEAN
  BY DEF IInv, TypeOK
<1>7. vin \in Vault /\ vout \in Vault
  BY <1>4 DEF VaultOK
<1>8. vault' \in [Tokens -> Vault] /\ vault'[m] = vin /\ vault'[o] = vout
  BY <1>3, <1>4, <1>5, <1>6, <1>7
<1>9. lp' \in [Tokens -> U64] /\ lp'[m] = lp[m] + quote.inLp /\ lp'[o] = lp[o] - quote.outLp
  BY <1>3, <1>4, <1>5, <1>6
<1>10. trader' \in [Tokens -> Int]
  <2>1. a \in Int
    BY <1>1, VaultConstants DEF U64
  <2>2. trader[m] - a \in Int /\ trader[o] + quote.outAmount \in Int
    BY <1>1, <1>4, <2>1
  <2> QED
    BY <1>1, <1>3, <2>2
<1>11. clock' \in [slot : U64, time : U64] /\ clock'.time = now
  BY <1>3, SlotStep DEF now
<1>12. IInv'
  <2>1. \A t \in Tokens : VaultOK(vault'[t], clock'.time, lp'[t])
    BY <1>4, <1>5, <1>8, <1>9, <1>11
  <2> QED
    BY <1>3, <1>6, <1>8, <1>9, <1>10, <1>11, <2>1, StepKeeps
<1>13. /\ \A t \in Tokens : Owned(t) = PoolTokens(q, t)
       /\ \A t \in Tokens :
             Owned(t)' = GetAmountByShare(vault'[t], clock'.time, lp'[t], vault'[t].supply)
  BY DEF Owned, PoolTokens, Snapshot, q
<1>14. /\ Owned(m)' = GetAmountByShare(vin, now, lp[m] + quote.inLp, vin.supply)
       /\ Owned(o)' = GetAmountByShare(vout, now, lp[o] - quote.outLp, vout.supply)
       /\ Owned(m)' \in Nat /\ Owned(o)' \in Nat
  <2>1. now \in U64 /\ U64 \subseteq Nat
    BY <1>11, VaultConstants DEF U64
  <2>2. /\ Owned(m)' = GetAmountByShare(vin, now, lp[m] + quote.inLp, vin.supply)
        /\ Owned(o)' = GetAmountByShare(vout, now, lp[o] - quote.outLp, vout.supply)
    BY <1>4, <1>8, <1>9, <1>11, <1>13
  <2>3. /\ GetAmountByShare(vin, now, lp[m] + quote.inLp, vin.supply) \in U64
        /\ GetAmountByShare(vout, now, lp[o] - quote.outLp, vout.supply) \in U64
    BY <1>4, <2>1, ShareValue
  <2> QED
    BY <2>1, <2>2, <2>3
<1>15. Owned(m) \in Nat /\ Owned(o) \in Nat
  <2>1. now \in U64 /\ \A t \in Tokens : VaultOK(vault[t], now, lp[t])
    BY <1>1, <1>2, <1>11 DEF AccountsOK, now
  <2>2. \A t \in Tokens : Owned(t) = GetAmountByShare(vault[t], now, lp[t], vault[t].supply)
    BY DEF Owned, PoolTokens, Snapshot, now
  <2>3. \A t \in Tokens : Owned(t) \in U64
    BY <2>1, <2>2, ShareValue
  <2> QED
    BY <1>4, <2>3, VaultConstants DEF U64
<1>16. Owned(m) * Owned(o) <= Owned(m)' * Owned(o)'
  BY <1>4, <1>13, <1>14
<1>17. (Owned("A") * Owned("B"))' >= Owned("A") * Owned("B")
  <2>1. CASE m = "A" /\ o = "B"
    BY <1>14, <1>15, <1>16, <2>1
  <2>2. CASE m = "B" /\ o = "A"
    BY <1>14, <1>15, <1>16, <2>2
  <2> QED
    BY <1>4, <2>1, <2>2 DEF Tokens
<1>18. lp'[m] = lp[m] => Owned(m)' >= Owned(m)
  BY <1>4, <1>8, <1>9, <1>11, <1>13, <1>14, <1>15
<1>19. lp'[o] = lp[o] => Owned(o)' >= Owned(o)
  <2> SUFFICES ASSUME lp'[o] = lp[o]
               PROVE  Owned(o)' >= Owned(o)
    OBVIOUS
  <2>1. lp[o] \in Nat
    BY <1>4, <1>6, VaultConstants DEF U64
  <2>2. quote.outLp = 0
    BY <1>4, <1>9, <2>1
  <2> QED
    BY <1>4, <1>13, <1>14, <1>15, <2>2
<1> QED
  BY <1>5, <1>12, <1>17, <1>18, <1>19

\* What the pool owns, for accounts in order, and that it grows with the ratio
\* of unlocked amount to supply.
LEMMA OwnedGrows ==
    ASSUME IInv, IInv', NEW t \in Tokens, lp'[t] = lp[t],
           GetUnlockedAmount(vault[t], clock.time) * vault'[t].supply
             <= GetUnlockedAmount(vault'[t], clock'.time) * vault[t].supply
    PROVE  Owned(t)' >= Owned(t)
<1>1. VaultOK(vault[t], clock.time, lp[t]) /\ clock.time \in U64
  BY DEF IInv, TypeOK, VaultsPriceable, SharesBacked, VaultOK
<1>2. VaultOK(vault'[t], clock'.time, lp[t]) /\ clock'.time \in U64
  BY DEF IInv, TypeOK, VaultsPriceable, SharesBacked, VaultOK
<1> DEFINE u1 == GetUnlockedAmount(vault[t], clock.time)
           u2 == GetUnlockedAmount(vault'[t], clock'.time)
           s1 == vault[t].supply
           s2 == vault'[t].supply
<1>3. Owned(t) = (lp[t] * u1) \div s1 /\ Owned(t) \in U64
  BY <1>1, ShareValue DEF Owned, PoolTokens, Snapshot
<1>4. Owned(t)' = (lp[t] * u2) \div s2 /\ Owned(t)' \in U64
  BY <1>2, ShareValue DEF Owned, PoolTokens, Snapshot
<1>5. lp[t] \in Nat /\ s1 \in Nat \ {0} /\ s2 \in Nat \ {0}
  BY <1>1, <1>2, VaultConstants DEF VaultOK, Vault, U64
<1>6. u1 \in U64 /\ u2 \in U64
  BY <1>1, <1>2, UnlockedFacts DEF VaultOK
<1>7. u1 \in Nat /\ u2 \in Nat /\ u1 * s2 <= u2 * s1
  BY <1>6, VaultConstants DEF U64
<1> HIDE DEF u1, u2, s1, s2
<1>8. (lp[t] * u1) \div s1 <= (lp[t] * u2) \div s2
  BY <1>5, <1>7, ValueGrows
<1> QED
  BY <1>3, <1>4, <1>8, VaultConstants DEF U64

\* The accounts in order, unfolded for one token.
LEMMA TokenFacts ==
    ASSUME IInv, NEW t \in Tokens
    PROVE  /\ VaultOK(vault[t], clock.time, lp[t])
           /\ clock.time \in U64
           /\ GetUnlockedAmount(vault[t], clock.time) \in Nat
           /\ vault[t].supply \in Nat \ {0} /\ lp[t] \in Nat \ {0}
<1>1. VaultOK(vault[t], clock.time, lp[t]) /\ clock.time \in U64
  BY DEF IInv, TypeOK, VaultsPriceable, SharesBacked, VaultOK
<1>2. GetUnlockedAmount(vault[t], clock.time) \in U64
  BY <1>1, UnlockedFacts DEF VaultOK
<1> QED
  BY <1>1, <1>2, VaultConstants DEF VaultOK, Vault, U64

\* A vault nobody touches at an unchanged time is worth the same to the pool.
LEMMA OwnedSame ==
    ASSUME IInv, NEW t \in Tokens, lp'[t] = lp[t], vault'[t] = vault[t],
           clock'.time = clock.time
    PROVE  Owned(t)' >= Owned(t)
<1>1. Owned(t)' = Owned(t)
  BY DEF Owned, PoolTokens, Snapshot
<1>2. Owned(t) \in U64
  BY TokenFacts, ShareValue DEF Owned, PoolTokens, Snapshot
<1> QED
  BY <1>1, <1>2, VaultConstants DEF U64

\* A deposit of someone else keeps the accounts in order and dilutes nobody.
LEMMA VaultDepositStep ==
    ASSUME IInv, NEW t \in Tokens, NEW a \in DepositAmounts, VaultDeposit(t, a)
    PROVE  IInv' /\ \A s \in Tokens : lp'[s] = lp[s] => Owned(s)' >= Owned(s)
<1> DEFINE in == DepositSide(vault[t], clock.time, 0, a)
           w == Deposited(vault[t], a, in.lp)
           U == GetUnlockedAmount(vault[t], clock.time)
<1>1. in.lp # None /\ vault' = [vault EXCEPT ![t] = w] /\ NextSlot
      /\ UNCHANGED <<enabled, lp, trader>>
  BY DEF VaultDeposit
<1>2. a \in Int
  BY PoolConstants, VaultConstants DEF U64
<1>3. /\ a \in Nat /\ in.lp \in Nat
      /\ vault[t].totalAmount + a \in U64 /\ vault[t].supply + in.lp \in U64
      /\ in.lp * U <= a * vault[t].supply
  BY <1>1, <1>2, TokenFacts, DepositSideFacts
<1> HIDE DEF in
<1>4. /\ VaultOK(w, clock.time, lp[t] + 0)
      /\ GetUnlockedAmount(w, clock.time) = U + a
      /\ w.supply = vault[t].supply + in.lp
  BY <1>3, TokenFacts, DepositKeeps
<1> HIDE DEF w
<1>5. VaultOK(w, clock.time, lp[t])
  BY <1>4, TokenFacts
<1>6. IInv' /\ vault'[t] = w /\ \A s \in Tokens \ {t} : vault'[s] = vault[s]
  BY <1>1, <1>5, OneVault
<1>7. clock'.time = clock.time /\ lp' = lp
  BY <1>1, SlotStep
<1>8. U * w.supply <= GetUnlockedAmount(w, clock.time) * vault[t].supply
  <2>1. U \in Nat /\ vault[t].supply \in Nat
    BY TokenFacts
  <2> HIDE DEF U
  <2>2. U * w.supply = U * vault[t].supply + in.lp * U
        /\ (U + a) * vault[t].supply = U * vault[t].supply + a * vault[t].supply
    BY <1>3, <1>4, <2>1
  <2> QED
    BY <1>3, <1>4, <2>1, <2>2
<1>9. Owned(t)' >= Owned(t)
  BY <1>6, <1>7, <1>8, OwnedGrows
<1>10. \A s \in Tokens \ {t} : Owned(s)' >= Owned(s)
  BY <1>6, <1>7, OwnedSame
<1> QED
  BY <1>6, <1>9, <1>10

\* A withdrawal of someone else keeps the accounts in order and takes nothing
\* from the pool.
LEMMA VaultWithdrawStep ==
    ASSUME IInv, NEW t \in Tokens, NEW b \in WithdrawAmounts, VaultWithdraw(t, b)
    PROVE  IInv' /\ \A s \in Tokens : lp'[s] = lp[s] => Owned(s)' >= Owned(s)
<1> DEFINE U == GetUnlockedAmount(vault[t], clock.time)
           S == vault[t].supply
           out == GetAmountByShare(vault[t], clock.time, b, S)
           w == Withdrawn(vault[t], out, b)
<1>1. /\ b <= S - lp[t] /\ out # None /\ out <= vault[t].reserve
      /\ vault' = [vault EXCEPT ![t] = w] /\ NextSlot
      /\ UNCHANGED <<enabled, lp, trader>>
  BY DEF VaultWithdraw
<1>2. /\ b \in Nat /\ U \in Nat /\ U # None /\ S \in Nat \ {0} /\ lp[t] \in Nat \ {0}
      /\ VaultOK(vault[t], clock.time, lp[t]) /\ clock.time \in U64
  BY TokenFacts, PoolConstants, VaultConstants DEF U64, VaultOK
<1>3. out = (b * U) \div S /\ out \in Nat
  <2>1. out = CheckedDiv(b * U, S)
    BY <1>2 DEF GetAmountByShare
  <2> HIDE DEF out
  <2> QED
    BY <1>1, <1>2, <2>1, VaultConstants DEF CheckedDiv, TryU64, U64
<1> HIDE DEF out, U, S
<1>4. S * out <= b * U /\ out <= U
  <2>1. b * U \in Nat /\ b <= S /\ b * U <= U * S
    BY <1>1, <1>2, MulMono
  <2>2. S * out <= b * U
    BY <1>2, <1>3, <2>1, DivBounds
  <2>3. out <= U
    BY <1>2, <1>3, <2>1, DivLe
  <2> QED
    BY <2>2, <2>3
<1>5. lp[t] <= S - b
  BY <1>1, <1>2
<1>6. /\ VaultOK(w, clock.time, lp[t])
      /\ GetUnlockedAmount(w, clock.time) = U - out
      /\ w.supply = S - b
  BY <1>1, <1>2, <1>3, <1>4, <1>5, WithdrawKeeps DEF U, S
<1> HIDE DEF w
<1>7. IInv' /\ vault'[t] = w /\ \A s \in Tokens \ {t} : vault'[s] = vault[s]
  BY <1>1, <1>6, OneVault
<1>8. clock'.time = clock.time /\ lp' = lp
  BY <1>1, SlotStep
<1>9. U * w.supply <= GetUnlockedAmount(w, clock.time) * S
  <2>1. U * w.supply = U * S - b * U /\ (U - out) * S = U * S - S * out
    BY <1>2, <1>3, <1>6
  <2> QED
    BY <1>2, <1>3, <1>4, <1>6, <2>1
<1>10. Owned(t)' >= Owned(t)
  BY <1>7, <1>8, <1>9, OwnedGrows DEF U, S
<1>11. \A s \in Tokens \ {t} : Owned(s)' >= Owned(s)
  BY <1>7, <1>8, OwnedSame
<1> QED
  BY <1>7, <1>10, <1>11

\* Reporting a profit changes nothing of what is unlocked at that moment: the
\* whole of it is locked first.
LEMMA ReportProfitStep ==
    ASSUME IInv, NEW t \in Tokens, NEW p \in ProfitAmounts, ReportProfit(t, p)
    PROVE  IInv' /\ \A s \in Tokens : lp'[s] = lp[s] => Owned(s)' >= Owned(s)
<1> DEFINE v == vault[t]
           now == clock.time
           locked == CalculateLockedProfit(v, now)
           w == Reported(v, p, locked, now)
<1>1. /\ locked # None /\ v.totalAmount + p \in U64 /\ locked + p \in U64
      /\ NextSlot /\ UNCHANGED <<enabled, lp, trader>>
  BY DEF ReportProfit
<1>2. /\ VaultOK(v, now, lp[t]) /\ now \in U64 /\ v \in Vault /\ p \in Nat
      /\ vault \in [Tokens -> Vault] /\ MaxU64 \in Nat
  BY TokenFacts, PoolConstants, VaultConstants DEF U64, VaultOK, IInv, TypeOK
<1>3. vault' = [vault EXCEPT ![t] = w]
  BY <1>2 DEF ReportProfit
<1>4. /\ locked \in U64 /\ GetUnlockedAmount(v, now) = v.totalAmount - locked
      /\ GetUnlockedAmount(v, now) \in U64
  BY <1>2, UnlockedFacts DEF VaultOK
<1> HIDE DEF locked
<1>5. /\ w \in Vault /\ w.totalAmount = v.totalAmount + p /\ w.lastProfit = locked + p
      /\ w.lastReport = now /\ w.degradation = v.degradation
      /\ w.supply = v.supply /\ w.reserve = v.reserve
  BY <1>1, <1>2 DEF Vault, Reported
<1> HIDE DEF w
<1>6. CalculateLockedProfit(w, now) = locked + p
  BY <1>2, <1>5, FreshLock
<1>7. GetUnlockedAmount(w, now) = GetUnlockedAmount(v, now) /\ GetUnlockedAmount(w, now) # None
  <2>1. locked + p # None /\ v.totalAmount \in Nat /\ locked \in Nat
    BY <1>1, <1>2, <1>4 DEF U64, None, Vault
  <2>2. w.totalAmount - (locked + p) = v.totalAmount - locked
    BY <1>2, <1>5, <2>1
  <2>3. GetUnlockedAmount(w, now) = v.totalAmount - locked
    BY <1>4, <1>6, <2>1, <2>2 DEF GetUnlockedAmount, CheckedSub, TryU64
  <2> QED
    BY <1>2, <1>4, <2>3 DEF VaultOK
<1>8. VaultOK(w, now, lp[t])
  <2>1. w.reserve <= w.totalAmount
    BY <1>2, <1>5 DEF VaultOK, Vault, U64
  <2> QED
    BY <1>2, <1>5, <1>7, <2>1 DEF VaultOK
<1>9. IInv' /\ vault'[t] = w /\ \A s \in Tokens \ {t} : vault'[s] = vault[s]
  BY <1>1, <1>3, <1>8, OneVault
<1>10. clock'.time = clock.time /\ lp' = lp
  BY <1>1, SlotStep
<1>11. Owned(t)' >= Owned(t)
  <2>1. GetUnlockedAmount(v, now) * w.supply <= GetUnlockedAmount(w, now) * v.supply
    BY <1>5, <1>7, TokenFacts
  <2> QED
    BY <1>9, <1>10, <2>1, OwnedGrows
<1>12. \A s \in Tokens \ {t} : Owned(s)' >= Owned(s)
  BY <1>9, <1>10, OwnedSame
<1> QED
  BY <1>9, <1>11, <1>12

\* Lending moves reserves only.
LEMMA LendStep ==
    ASSUME IInv, NEW t \in Tokens, NEW a \in LendAmounts, Lend(t, a)
    PROVE  IInv' /\ \A s \in Tokens : lp'[s] = lp[s] => Owned(s)' >= Owned(s)
<1> DEFINE v == vault[t]
           w == [v EXCEPT !.reserve = @ - a]
<1>1. /\ VaultOK(v, clock.time, lp[t]) /\ clock.time \in U64 /\ v \in Vault /\ a \in Nat
      /\ vault \in [Tokens -> Vault] /\ MaxU64 \in Nat
  BY TokenFacts, PoolConstants, VaultConstants DEF U64, VaultOK, IInv, TypeOK
<1>2. /\ a <= v.reserve /\ NextSlot /\ UNCHANGED <<enabled, lp, trader>>
      /\ vault' = [vault EXCEPT ![t] = w]
  BY <1>1 DEF Lend
<1>3. v.reserve - a \in U64
  BY <1>1, <1>2 DEF Vault, U64
<1>4. /\ w \in Vault /\ w.totalAmount = v.totalAmount /\ w.lastProfit = v.lastProfit
      /\ w.lastReport = v.lastReport /\ w.degradation = v.degradation
      /\ w.supply = v.supply /\ w.reserve = v.reserve - a
  BY <1>1, <1>3 DEF Vault
<1> HIDE DEF w
<1>5. GetUnlockedAmount(w, clock.time) = GetUnlockedAmount(v, clock.time)
  BY <1>4 DEF GetUnlockedAmount, CalculateLockedProfit
<1>6. VaultOK(w, clock.time, lp[t])
  <2>1. w.reserve <= w.totalAmount
    BY <1>1, <1>4 DEF VaultOK, Vault, U64
  <2> QED
    BY <1>1, <1>4, <1>5, <2>1 DEF VaultOK
<1>7. IInv' /\ vault'[t] = w /\ \A s \in Tokens \ {t} : vault'[s] = vault[s]
  BY <1>2, <1>6, OneVault
<1>8. clock'.time = clock.time /\ lp' = lp
  BY <1>2, SlotStep
<1>9. Owned(t)' >= Owned(t)
  <2>1. GetUnlockedAmount(v, clock.time) * w.supply <= GetUnlockedAmount(w, clock.time) * v.supply
    BY <1>4, <1>5, TokenFacts
  <2> QED
    BY <1>7, <1>8, <2>1, OwnedGrows
<1>10. \A s \in Tokens \ {t} : Owned(s)' >= Owned(s)
  BY <1>7, <1>8, OwnedSame
<1> QED
  BY <1>7, <1>9, <1>10

\* Turning the pool off or on touches no balance.
LEMMA EnableOrDisableStep ==
    ASSUME IInv, EnableOrDisablePool
    PROVE  IInv' /\ \A s \in Tokens : lp'[s] = lp[s] => Owned(s)' >= Owned(s)
<1>1. /\ enabled' = ~enabled /\ NextSlot /\ vault' = vault /\ lp' = lp /\ trader' = trader
  BY DEF EnableOrDisablePool
<1>2. clock' \in [slot : U64, time : U64] /\ clock'.time = clock.time
  BY <1>1, SlotStep
<1>3. /\ enabled \in BOOLEAN /\ vault \in [Tokens -> Vault] /\ lp \in [Tokens -> U64]
      /\ trader \in [Tokens -> Int]
  BY DEF IInv, TypeOK
<1>4. \A t \in Tokens : VaultOK(vault'[t], clock'.time, lp'[t])
  BY <1>1, <1>2, TokenFacts
<1>5. IInv'
  BY <1>1, <1>2, <1>3, <1>4, StepKeeps
<1>6. \A s \in Tokens : Owned(s)' >= Owned(s)
  BY <1>1, <1>2, OwnedSame
<1> QED
  BY <1>5, <1>6

\* Time only unlocks profit.
LEMMA TickStep ==
    ASSUME IInv, Tick
    PROVE  IInv' /\ \A s \in Tokens : lp'[s] = lp[s] => Owned(s)' >= Owned(s)
<1>1. /\ clock.slot < MaxSlot /\ clock.time + 1 \in U64
      /\ clock' = [slot |-> clock.slot + 1, time |-> clock.time + 1]
      /\ enabled' = enabled /\ vault' = vault /\ lp' = lp /\ trader' = trader
  BY DEF Tick
<1>2. /\ enabled \in BOOLEAN /\ vault \in [Tokens -> Vault] /\ lp \in [Tokens -> U64]
      /\ trader \in [Tokens -> Int] /\ clock \in [slot : U64, time : U64]
  BY DEF IInv, TypeOK
<1>3. clock.slot + 1 \in U64
  BY <1>1, <1>2, VaultConstants, PoolConstants DEF U64
<1>4. clock' \in [slot : U64, time : U64] /\ clock'.time = clock.time + 1
  BY <1>1, <1>3
<1>5. clock.time \in U64 /\ clock'.time \in U64 /\ clock.time <= clock'.time
  BY <1>1, <1>2, <1>4, VaultConstants DEF U64
<1>6. \A t \in Tokens :
         /\ VaultOK(vault'[t], clock'.time, lp'[t])
         /\ GetUnlockedAmount(vault[t], clock.time) <= GetUnlockedAmount(vault[t], clock'.time)
         /\ GetUnlockedAmount(vault[t], clock'.time) \in Nat
  <2> SUFFICES ASSUME NEW t \in Tokens
               PROVE  /\ VaultOK(vault[t], clock'.time, lp[t])
                      /\ GetUnlockedAmount(vault[t], clock.time)
                           <= GetUnlockedAmount(vault[t], clock'.time)
                      /\ GetUnlockedAmount(vault[t], clock'.time) \in Nat
    BY <1>1
  <2> DEFINE v == vault[t]
             l1 == CalculateLockedProfit(v, clock.time)
             l2 == CalculateLockedProfit(v, clock'.time)
  <2>1. v \in Vault /\ VaultOK(v, clock.time, lp[t]) /\ GetUnlockedAmount(v, clock.time) # None
    BY TokenFacts DEF VaultOK
  <2>2. /\ l1 \in U64 /\ GetUnlockedAmount(v, clock.time) = v.totalAmount - l1
        /\ GetUnlockedAmount(v, clock.time) \in U64
    BY <1>5, <2>1, UnlockedFacts
  <2>3. l1 # None
    BY <2>2, VaultConstants DEF U64, None
  <2>4. l2 # None /\ l2 <= l1
    BY <1>5, <2>1, <2>3, LockedDecays
  <2>5. l2 \in U64
    <3>1. 0 \in U64
      BY VaultConstants DEF U64
    <3> QED
      BY <2>4, <3>1 DEF CalculateLockedProfit, TryU64
  <2> HIDE DEF l1, l2, v
  <2>6. v.totalAmount - l2 \in U64 /\ v.totalAmount - l1 <= v.totalAmount - l2
    BY <2>1, <2>2, <2>4, <2>5, VaultConstants DEF U64, Vault
  <2>7. GetUnlockedAmount(v, clock'.time) = v.totalAmount - l2
    BY <2>4, <2>6 DEF GetUnlockedAmount, CheckedSub, TryU64, l2
  <2>8. GetUnlockedAmount(v, clock'.time) # None /\ GetUnlockedAmount(v, clock'.time) \in Nat
    BY <2>6, <2>7, VaultConstants DEF U64, None
  <2>9. VaultOK(v, clock'.time, lp[t])
    BY <2>1, <2>8 DEF VaultOK
  <2> QED
    BY <2>2, <2>6, <2>7, <2>8, <2>9 DEF v
<1>7. IInv'
  BY <1>1, <1>2, <1>4, <1>6, StepKeeps
<1>8. ASSUME NEW s \in Tokens
      PROVE  Owned(s)' >= Owned(s)
  <2>1. /\ GetUnlockedAmount(vault[s], clock.time) \in Nat
        /\ vault[s].supply \in Nat
    BY TokenFacts
  <2>2. GetUnlockedAmount(vault[s], clock.time) * vault'[s].supply
          <= GetUnlockedAmount(vault'[s], clock'.time) * vault[s].supply
    BY <1>1, <1>6, <2>1, MulMono
  <2> QED
    BY <1>1, <1>7, <2>2, OwnedGrows
<1> QED
  BY <1>7, <1>8

\* The accounts start in order.
LEMMA InitInv == Init => IInv
<1> SUFFICES ASSUME Init
             PROVE  IInv
  OBVIOUS
<1> DEFINE v == InitVault
<1>1. /\ v \in Vault /\ v.reserve <= v.totalAmount /\ v.lastProfit <= v.totalAmount
      /\ InitLp \in 1..v.supply /\ MaxU64 \in Nat
  BY PoolConstants, VaultConstants
<1> HIDE DEF v
<1>2. v.lastReport \in U64 /\ v.totalAmount \in Nat /\ v.lastProfit \in Nat /\ v.supply \in U64
  BY <1>1 DEF Vault, U64
<1>3. CalculateLockedProfit(v, v.lastReport) = v.lastProfit
  BY <1>1, <1>2, FreshLock
<1>4. GetUnlockedAmount(v, v.lastReport) # None
  <2>1. v.totalAmount - v.lastProfit \in U64 /\ v.lastProfit # None
    BY <1>1, <1>2 DEF U64, Vault, None
  <2>2. GetUnlockedAmount(v, v.lastReport) = v.totalAmount - v.lastProfit
    BY <1>3, <2>1 DEF GetUnlockedAmount, CheckedSub, TryU64
  <2> QED
    BY <2>1, <2>2, <1>1 DEF U64, None
<1>5. InitLp \in U64 /\ InitLp > 0 /\ InitLp <= v.supply
  BY <1>1, <1>2 DEF U64
<1>6. 0 \in U64
  BY <1>1 DEF U64
<1>7. /\ enabled = TRUE /\ clock = [slot |-> 0, time |-> v.lastReport]
      /\ vault = [t \in Tokens |-> v] /\ lp = [t \in Tokens |-> InitLp]
      /\ trader = [t \in Tokens |-> 0]
  BY DEF Init, v
<1>8. TypeOK
  BY <1>1, <1>2, <1>5, <1>6, <1>7 DEF TypeOK
<1>9. VaultsPriceable
  BY <1>4, <1>7 DEF VaultsPriceable
<1>10. SharesBacked
  BY <1>1, <1>5, <1>7 DEF SharesBacked
<1> QED
  BY <1>8, <1>9, <1>10 DEF IInv

\* Every step keeps the accounts in order, dilutes nobody, and, when traders
\* took part, keeps the product.
LEMMA NextStep ==
    ASSUME IInv, Next
    PROVE  /\ IInv'
           /\ \A t \in Tokens : lp'[t] = lp[t] => Owned(t)' >= Owned(t)
           /\ trader' # trader => (Owned("A") * Owned("B"))' >= Owned("A") * Owned("B")
<1>1. CASE \E m \in Mints, a \in SwapAmounts : Swap(m, a)
  BY <1>1, SwapStep
<1>2. CASE \E t \in Tokens, a \in DepositAmounts : VaultDeposit(t, a)
  <2>1. trader' = trader
    BY <1>2 DEF VaultDeposit
  <2> QED
    BY <1>2, <2>1, VaultDepositStep
<1>3. CASE \E t \in Tokens, b \in WithdrawAmounts : VaultWithdraw(t, b)
  <2>1. trader' = trader
    BY <1>3 DEF VaultWithdraw
  <2> QED
    BY <1>3, <2>1, VaultWithdrawStep
<1>4. CASE \E t \in Tokens, p \in ProfitAmounts : ReportProfit(t, p)
  <2>1. trader' = trader
    BY <1>4 DEF ReportProfit
  <2> QED
    BY <1>4, <2>1, ReportProfitStep
<1>5. CASE \E t \in Tokens, a \in LendAmounts : Lend(t, a)
  <2>1. trader' = trader
    BY <1>5 DEF Lend
  <2> QED
    BY <1>5, <2>1, LendStep
<1>6. CASE EnableOrDisablePool
  BY <1>6, EnableOrDisableStep DEF EnableOrDisablePool
<1>7. CASE Tick
  BY <1>7, TickStep DEF Tick
<1> QED
  BY <1>1, <1>2, <1>3, <1>4, <1>5, <1>6, <1>7 DEF Next

\* IInv is an inductive invariant of the pool.
THEOREM Invariant == Spec => []IInv
<1>1. IInv /\ [Next]_vars => IInv'
  <2>1. ASSUME IInv, UNCHANGED vars
        PROVE  IInv'
    BY <2>1 DEF IInv, TypeOK, VaultsPriceable, SharesBacked, vars
  <2> QED
    BY <2>1, NextStep
<1> QED
  BY <1>1, InitInv, PTL DEF Spec

\* Amounts stay u64 whatever the vaults, fees, amounts and activation of the
\* pool: no instruction takes a balance below zero or past u64::MAX.
THEOREM TypeCorrect == Spec => []TypeOK
<1>1. IInv => TypeOK
  BY DEF IInv
<1> QED
  BY <1>1, Invariant, PTL

\* A vault can be priced at every moment: the profit still locked never
\* exceeds its total amount (get_unlocked_amount never returns None).
THEOREM AlwaysPriceable == Spec => []VaultsPriceable
<1>1. IInv => VaultsPriceable
  BY DEF IInv
<1> QED
  BY <1>1, Invariant, PTL

\* The pool's vault LP are never used up by swaps and never exceed the supply.
THEOREM AlwaysBacked == Spec => []SharesBacked
<1>1. IInv => SharesBacked
  BY DEF IInv
<1> QED
  BY <1>1, Invariant, PTL

\* No swap lowers the product of what the pool owns of its two tokens: the
\* roundings of compute_quote (fees, LP minted, curve, LP burnt, amount paid)
\* together favour the pool for every fee, vault and amount.
THEOREM SwapKeepsProduct == Spec => ProductKept
<1>1. IInv /\ [Next]_vars =>
        [trader' # trader => (Owned("A") * Owned("B"))' >= Owned("A") * Owned("B")]_vars
  BY NextStep
<1> QED
  BY <1>1, Invariant, PTL DEF Spec, ProductKept

\* Nobody else's deposit, withdrawal, rebalance or the passing of time lowers
\* what the pool's LP of a vault are worth.
THEOREM OthersDoNotDilute == Spec => NotDiluted
<1>1. IInv /\ [Next]_vars =>
        [\A t \in Tokens : lp'[t] = lp[t] => Owned(t)' >= Owned(t)]_vars
  BY NextStep
<1> QED
  BY <1>1, Invariant, PTL DEF Spec, NotDiluted

-----------------------------------------------------------------------------
(* No free tokens.  While nothing but swaps changes what the vaults are    *)
(* worth, traders cannot end up with more of one token and no less of the  *)
(* other.  The price of a vault's LP never falls, so the other depositors  *)
(* lose nothing; whatever traders gain of a token is therefore missing     *)
(* from what the pool owns, whose product does not fall either.            *)

\* What the pool's LP of a vault amount to falls by all that the traders gained,
\* if the others' LP stay as many and are worth no less each.
LEMMA ShareBound ==
    ASSUME NEW share \in Nat, NEW U \in Nat, NEW S \in Nat \ {0}, share <= S,
           NEW share0 \in Nat, NEW U0 \in Nat, NEW S0 \in Nat \ {0},
           S - share = S0 - share0, U0 * S <= U * S0,
           NEW gain \in Nat, U + gain <= U0
    PROVE  ((share * U) \div S) + gain <= (share0 * U0) \div S0
<1> DEFINE x == (share * U) \div S
           others == S - share
<1>1. x \in Nat /\ S * x <= share * U
  <2>1. share * U \in Nat
    OBVIOUS
  <2>. QED
    BY <2>1, DivBounds
<1>2. others \in Nat /\ share = S - others /\ share0 = S0 - others
  OBVIOUS
<1> HIDE DEF x, others
<1>3. others * U <= S * (U - x)
  BY <1>1, <1>2
<1>4. others * U * S0 <= S * (U - x) * S0
  <2>1. others * U \in Nat /\ S * (U - x) \in Int
    BY <1>1, <1>2
  <2>. QED
    BY <1>3, <2>1
<1>5. others * (U0 * S) <= others * (U * S0)
  <2>1. U0 * S \in Nat /\ U * S0 \in Nat
    OBVIOUS
  <2>. QED
    BY <1>2, <2>1, MulMono
<1>6. (others * U0) * S <= (S0 * (U - x)) * S
  BY <1>1, <1>2, <1>4, <1>5
<1>7. others * U0 <= S0 * (U - x)
  <2>1. others * U0 \in Int /\ S0 * (U - x) \in Int
    BY <1>1, <1>2
  <2>. QED
    BY <1>6, <2>1, MulCancel
<1>8. S0 * (U + gain) <= S0 * U0
  <2>1. U + gain \in Nat
    OBVIOUS
  <2>. QED
    BY <2>1, MulMono
<1>9. (x + gain) * S0 <= share0 * U0
  <2>1. share0 * U0 = S0 * U0 - others * U0
    BY <1>2
  <2>2. S0 * (U - x) = S0 * U - S0 * x /\ S0 * (U + gain) = S0 * U + S0 * gain
    BY <1>1
  <2>3. (x + gain) * S0 = S0 * x + S0 * gain
    BY <1>1
  <2>4. /\ S0 * x \in Int /\ S0 * gain \in Int /\ S0 * U \in Int /\ S0 * U0 \in Int
        /\ others * U0 \in Int
    BY <1>1, <1>2
  <2>. QED
    BY <1>7, <1>8, <2>1, <2>2, <2>3, <2>4
<1>10. x + gain <= (share0 * U0) \div S0
  <2>1. share0 * U0 \in Nat /\ x + gain \in Nat
    BY <1>1
  <2>. QED
    BY <1>9, <2>1, DivGe
<1>. QED
  BY <1>10 DEF x

\* LP minted for no more than they are worth do not lower the price of the others.
LEMMA MintKeepsPrice ==
    ASSUME NEW U \in Nat, NEW S \in Nat \ {0}, NEW U0 \in Nat, NEW S0 \in Nat \ {0},
           U0 * S <= U * S0, NEW amount \in Nat, NEW minted \in Nat,
           minted * U <= amount * S, U # 0
    PROVE  U0 * (S + minted) <= (U + amount) * S0
<1>1. U0 * (minted * U) <= U0 * (amount * S)
  <2>1. minted * U \in Nat /\ amount * S \in Nat
    OBVIOUS
  <2>. QED
    BY <2>1, MulMono
<1>2. (U + amount) * (U0 * S) <= (U + amount) * (U * S0)
  <2>1. U0 * S \in Nat /\ U * S0 \in Nat /\ U + amount \in Nat
    OBVIOUS
  <2>. QED
    BY <2>1, MulMono
<1>3. (U0 * (S + minted)) * U = U0 * S * U + U0 * (minted * U)
  OBVIOUS
<1>4. (U + amount) * (U0 * S) = U0 * S * U + U0 * (amount * S)
  OBVIOUS
<1>5. (U + amount) * (U * S0) = ((U + amount) * S0) * U
  OBVIOUS
<1>6. (U0 * (S + minted)) * U <= ((U + amount) * S0) * U
  <2>1. /\ U0 * S * U \in Int /\ U0 * (minted * U) \in Int /\ U0 * (amount * S) \in Int
        /\ ((U + amount) * S0) * U \in Int
    OBVIOUS
  <2>. QED
    BY <1>1, <1>2, <1>3, <1>4, <1>5, <2>1
<1>7. U0 * (S + minted) \in Int /\ (U + amount) * S0 \in Int
  OBVIOUS
<1>. QED
  BY <1>6, <1>7, MulCancel

\* LP burnt for no more than they are worth do not lower it either.
LEMMA BurnKeepsPrice ==
    ASSUME NEW U \in Nat, NEW S \in Nat \ {0}, NEW U0 \in Nat, NEW S0 \in Nat \ {0},
           U0 * S <= U * S0, NEW paid \in Nat, NEW burnt \in Nat, burnt <= S,
           paid * S <= burnt * U
    PROVE  U0 * (S - burnt) <= (U - paid) * S0
<1>1. (S - burnt) * (U0 * S) <= (S - burnt) * (U * S0)
  <2>1. U0 * S \in Nat /\ U * S0 \in Nat /\ S - burnt \in Nat
    OBVIOUS
  <2>. QED
    BY <2>1, MulMono
<1>2. S0 * (paid * S) <= S0 * (burnt * U)
  <2>1. paid * S \in Nat /\ burnt * U \in Nat
    OBVIOUS
  <2>. QED
    BY <2>1, MulMono
<1>3. (S - burnt) * (U0 * S) = (U0 * (S - burnt)) * S
  OBVIOUS
<1>4. (S - burnt) * (U * S0) = S * U * S0 - S0 * (burnt * U)
  OBVIOUS
<1>5. ((U - paid) * S0) * S = S * U * S0 - S0 * (paid * S)
  OBVIOUS
<1>6. (U0 * (S - burnt)) * S <= ((U - paid) * S0) * S
  <2>1. /\ (U0 * (S - burnt)) * S \in Int /\ S * U * S0 \in Int
        /\ S0 * (burnt * U) \in Int /\ S0 * (paid * S) \in Int
    OBVIOUS
  <2>. QED
    BY <1>1, <1>2, <1>3, <1>4, <1>5, <2>1
<1>7. U0 * (S - burnt) \in Int /\ (U - paid) * S0 \in Int
  OBVIOUS
<1>. QED
  BY <1>6, <1>7, MulCancel

Unlocked(t) == GetUnlockedAmount(vault[t], clock.time)

\* Unlocked amounts, supplies, the pool's LP and the traders' gains, by token, at
\* the moment from which gains are counted, and that it is now.
Start(u, s, l, g) ==
    /\ u \in [Tokens -> Nat] /\ s \in [Tokens -> Nat \ {0}]
    /\ l \in [Tokens -> Nat] /\ g \in [Tokens -> Int]
    /\ \A t \in Tokens : l[t] <= s[t]

At(u, s, l, g) ==
    \A t \in Tokens : /\ Unlocked(t) = u[t] /\ vault[t].supply = s[t]
                      /\ lp[t] = l[t] /\ trader[t] = g[t]

\* A swap, or a step that touches neither LP nor unlocked amounts: reserves are lent,
\* the pool is turned off or on, time passes in which no profit unlocks.
Quiet ==
    /\ trader' = trader
    /\ \A t \in Tokens : /\ Unlocked(t)' = Unlocked(t) /\ vault'[t].supply = vault[t].supply
                         /\ lp'[t] = lp[t]

SwapsOnly == (\E m \in Mints, a \in SwapAmounts : Swap(m, a)) \/ (Next /\ Quiet)

\* What holds since then: the others' LP are as many, the vault is short of what the
\* traders gained and of the protocol's fees, the price of its LP has not fallen,
\* nor has the product of what the pool owns; a pool without a product never swaps.
SinceThen(u, s, l, g) ==
    LET worth(t) == (l[t] * u[t]) \div s[t]
    IN  /\ \A t \in Tokens : /\ vault[t].supply - lp[t] = s[t] - l[t]
                            /\ Unlocked(t) + trader[t] <= u[t] + g[t]
                            /\ u[t] * vault[t].supply <= Unlocked(t) * s[t]
        /\ worth("A") * worth("B") <= Owned("A") * Owned("B")
        /\ worth("A") * worth("B") = 0 => Owned("A") * Owned("B") = 0 /\ trader = g

NoGain(g) == (\A t \in Tokens : trader[t] = g[t]) \/ (\E t \in Tokens : trader[t] < g[t])

\* What the pool owns of a token is its part of what is unlocked.
LEMMA OwnedValue ==
    ASSUME IInv, NEW t \in Tokens
    PROVE  Owned(t) = (lp[t] * Unlocked(t)) \div vault[t].supply /\ Owned(t) \in Nat
<1>1. VaultOK(vault[t], clock.time, lp[t]) /\ clock.time \in U64
  BY TokenFacts
<1>2. Owned(t) = (lp[t] * Unlocked(t)) \div vault[t].supply /\ Owned(t) \in U64
  BY <1>1, ShareValue DEF Owned, PoolTokens, Snapshot, Unlocked
<1>. QED
  BY <1>2, VaultConstants DEF U64

\* The numbers of a token's accounts, then and now.
LEMMA ThenAndNow ==
    ASSUME IInv, NEW CONSTANT u, NEW CONSTANT s, NEW CONSTANT l, NEW CONSTANT g,
           Start(u, s, l, g), NEW t \in Tokens
    PROVE  /\ u[t] \in Nat /\ s[t] \in Nat \ {0} /\ l[t] \in Nat /\ l[t] <= s[t] /\ g[t] \in Int
           /\ Unlocked(t) \in Nat /\ vault[t].supply \in Nat \ {0} /\ lp[t] \in Nat
           /\ lp[t] <= vault[t].supply /\ trader[t] \in Int
<1>1. /\ u[t] \in Nat /\ s[t] \in Nat \ {0} /\ l[t] \in Nat /\ l[t] <= s[t] /\ g[t] \in Int
  BY DEF Start
<1>2. /\ Unlocked(t) \in Nat /\ vault[t].supply \in Nat \ {0} /\ lp[t] \in Nat
      /\ lp[t] <= vault[t].supply
  BY TokenFacts DEF Unlocked, VaultOK
<1>3. trader[t] \in Int
  BY DEF IInv, TypeOK
<1>. QED
  BY <1>1, <1>2, <1>3

LEMMA GainStart ==
    ASSUME IInv, NEW CONSTANT u, NEW CONSTANT s, NEW CONSTANT l, NEW CONSTANT g,
           Start(u, s, l, g), At(u, s, l, g)
    PROVE  SinceThen(u, s, l, g)
<1> DEFINE worth(t) == (l[t] * u[t]) \div s[t]
<1>1. ASSUME NEW t \in Tokens
      PROVE  /\ vault[t].supply - lp[t] = s[t] - l[t]
             /\ Unlocked(t) + trader[t] <= u[t] + g[t]
             /\ u[t] * vault[t].supply <= Unlocked(t) * s[t]
             /\ Owned(t) = worth(t) /\ Owned(t) \in Nat
  <2>1. /\ Unlocked(t) = u[t] /\ vault[t].supply = s[t] /\ lp[t] = l[t] /\ trader[t] = g[t]
    BY DEF At
  <2>2. u[t] \in Nat /\ s[t] \in Nat /\ g[t] \in Int
    BY ThenAndNow
  <2>3. u[t] + g[t] \in Int /\ u[t] * s[t] \in Int
    BY <2>2
  <2>4. Unlocked(t) + trader[t] <= u[t] + g[t] /\ u[t] * vault[t].supply <= Unlocked(t) * s[t]
    BY <2>1, <2>3
  <2>. QED
    BY <2>1, <2>4, OwnedValue
<1>2. trader = g
  BY DEF At, IInv, TypeOK, Start
<1>3. worth("A") * worth("B") = Owned("A") * Owned("B") /\ Owned("A") * Owned("B") \in Nat
  BY <1>1 DEF Tokens
<1> HIDE DEF worth
<1>. QED
  BY <1>1, <1>2, <1>3 DEF SinceThen, worth

\* Steps that touch no value change nothing about the comparison.
LEMMA GainQuiet ==
    ASSUME IInv, IInv', NEW CONSTANT u, NEW CONSTANT s, NEW CONSTANT l, NEW CONSTANT g,
           SinceThen(u, s, l, g), Quiet
    PROVE  SinceThen(u, s, l, g)'
<1>1. ASSUME NEW t \in Tokens
      PROVE  Owned(t)' = Owned(t)
  <2>1. Owned(t) = (lp[t] * Unlocked(t)) \div vault[t].supply
    BY OwnedValue
  <2>2. Owned(t)' = (lp[t] * Unlocked(t)) \div vault[t].supply
    <3>1. Owned(t)' = (lp'[t] * Unlocked(t)') \div vault'[t].supply
      <4>1. VaultOK(vault'[t], clock'.time, lp'[t]) /\ clock'.time \in U64
        BY DEF IInv, TypeOK, VaultsPriceable, SharesBacked, VaultOK
      <4>. QED
        BY <4>1, ShareValue DEF Owned, PoolTokens, Snapshot, Unlocked
    <3>. QED
      BY <3>1 DEF Quiet
  <2>. QED
    BY <2>1, <2>2
<1>2. Owned("A")' = Owned("A") /\ Owned("B")' = Owned("B")
  BY <1>1 DEF Tokens
<1>3. \A t \in Tokens : /\ Unlocked(t)' = Unlocked(t) /\ vault'[t].supply = vault[t].supply
                        /\ lp'[t] = lp[t] /\ trader' = trader
  BY DEF Quiet
<1>4. trader' = trader
  BY DEF Quiet
<1>. QED
  BY <1>2, <1>3, <1>4 DEF SinceThen

\* How a swap moves the accounts of its two tokens.
LEMMA SwapMoves ==
    ASSUME IInv, NEW m \in Mints, NEW a \in SwapAmounts, Swap(m, a)
    PROVE  LET o == Other(m)
           IN  /\ Tokens = {m, o} /\ Owned("A") * Owned("B") # 0
               /\ \E dep \in Nat, minted \in Nat :
                    /\ minted * Unlocked(m) <= dep * vault[m].supply /\ Unlocked(m) # 0
                    /\ Unlocked(m)' = Unlocked(m) + dep
                    /\ vault'[m].supply = vault[m].supply + minted
                    /\ lp'[m] = lp[m] + minted
                    /\ trader'[m] \in Int /\ trader'[m] <= trader[m] - dep
               /\ \E paid \in Nat, burnt \in Nat :
                    /\ paid * vault[o].supply <= burnt * Unlocked(o) /\ burnt < lp[o]
                    /\ Unlocked(o)' = Unlocked(o) - paid
                    /\ vault'[o].supply = vault[o].supply - burnt
                    /\ lp'[o] = lp[o] - burnt
                    /\ trader'[o] = trader[o] + paid
<1> DEFINE q == Snapshot
           quote == ComputeQuote(q, m, a)
           o == Other(m)
           vin == Deposited(vault[m], quote.deposited, quote.inLp)
           vout == Withdrawn(vault[o], quote.outAmount, quote.outLp)
<1>1. AccountsOK(q) /\ trader \in [Tokens -> Int] /\ a \in U64 /\ a \in Nat
  BY IInvAccounts, PoolConstants, VaultConstants DEF U64
<1>2. q.clock = clock /\ q.vault = vault /\ q.lp = lp
  BY DEF Snapshot
<1>3. /\ quote.ok
      /\ vault' = [vault EXCEPT ![m] = vin, ![o] = vout]
      /\ lp' = [lp EXCEPT ![m] = lp[m] + quote.inLp, ![o] = lp[o] - quote.outLp]
      /\ trader' = [trader EXCEPT ![m] = trader[m] - a, ![o] = trader[o] + quote.outAmount]
      /\ NextSlot
  BY DEF Swap
<1>4. SharePrices(q, m, a) /\ m \in Tokens /\ o \in Tokens /\ m # o
  BY <1>1, <1>3, QuoteFacts
<1>5. /\ quote.deposited \in Nat /\ quote.inLp \in Nat /\ quote.deposited <= a
      /\ quote.inLp * Unlocked(m) <= quote.deposited * vault[m].supply
      /\ GetUnlockedAmount(vin, clock.time) = Unlocked(m) + quote.deposited
      /\ vin.supply = vault[m].supply + quote.inLp
      /\ quote.outAmount \in Nat /\ quote.outLp \in Nat /\ quote.outLp < lp[o]
      /\ quote.outAmount * vault[o].supply <= quote.outLp * Unlocked(o)
      /\ GetUnlockedAmount(vout, clock.time) = Unlocked(o) - quote.outAmount
      /\ vout.supply = vault[o].supply - quote.outLp
      /\ Owned(m) * Owned(o) # 0
  BY <1>2, <1>4 DEF SharePrices, Unlocked, Owned
<1> HIDE DEF q, quote, vin, vout, o
<1>6. Tokens = {m, o}
  BY <1>4 DEF Tokens
<1>7. /\ vault \in [Tokens -> Vault] /\ lp \in [Tokens -> U64] /\ trader[m] \in Int
      /\ trader[o] \in Int
  BY <1>1, <1>4 DEF IInv, TypeOK
<1>8. /\ vault'[m] = vin /\ vault'[o] = vout
      /\ lp'[m] = lp[m] + quote.inLp /\ lp'[o] = lp[o] - quote.outLp
      /\ trader'[m] = trader[m] - a /\ trader'[o] = trader[o] + quote.outAmount
  BY <1>1, <1>3, <1>4, <1>6, <1>7
<1>9. clock'.time = clock.time
  BY <1>3, SlotStep
<1>10. Unlocked(m)' = GetUnlockedAmount(vin, clock.time) /\ Unlocked(o)' = GetUnlockedAmount(vout, clock.time)
  BY <1>4, <1>8, <1>9 DEF Unlocked
<1>11. Owned("A") * Owned("B") # 0 /\ Owned(m) # 0
  <2>1. Owned(m) \in Nat /\ Owned(o) \in Nat
    BY <1>4, OwnedValue
  <2>2. Owned(m) # 0 /\ Owned(m) * Owned(o) = Owned(o) * Owned(m)
    BY <1>5, <2>1
  <2>. QED
    BY <1>4, <1>5, <2>2 DEF Tokens
<1>12. Unlocked(m) # 0
  <2> SUFFICES ASSUME Unlocked(m) = 0 PROVE FALSE
    OBVIOUS
  <2>1. Owned(m) = (lp[m] * 0) \div vault[m].supply
    BY <1>4, OwnedValue
  <2>2. lp[m] \in Nat /\ vault[m].supply \in Nat \ {0}
    BY <1>4, TokenFacts
  <2>3. lp[m] * 0 = 0 /\ 0 \div vault[m].supply = 0
    BY <2>2, DivBounds
  <2>. QED
    BY <1>11, <2>1, <2>3
<1>13. trader'[m] \in Int /\ trader'[m] <= trader[m] - quote.deposited
  BY <1>1, <1>5, <1>7, <1>8
<1>14. \E dep \in Nat, minted \in Nat :
          /\ minted * Unlocked(m) <= dep * vault[m].supply /\ Unlocked(m) # 0
          /\ Unlocked(m)' = Unlocked(m) + dep
          /\ vault'[m].supply = vault[m].supply + minted
          /\ lp'[m] = lp[m] + minted
          /\ trader'[m] \in Int /\ trader'[m] <= trader[m] - dep
  <2>1. /\ quote.inLp * Unlocked(m) <= quote.deposited * vault[m].supply /\ Unlocked(m) # 0
        /\ Unlocked(m)' = Unlocked(m) + quote.deposited
        /\ vault'[m].supply = vault[m].supply + quote.inLp
        /\ lp'[m] = lp[m] + quote.inLp
        /\ trader'[m] \in Int /\ trader'[m] <= trader[m] - quote.deposited
    BY <1>5, <1>8, <1>10, <1>12, <1>13
  <2>2. quote.deposited \in Nat /\ quote.inLp \in Nat
    BY <1>5
  <2>. QED
    BY <2>1, <2>2
<1>15. \E paid \in Nat, burnt \in Nat :
          /\ paid * vault[o].supply <= burnt * Unlocked(o) /\ burnt < lp[o]
          /\ Unlocked(o)' = Unlocked(o) - paid
          /\ vault'[o].supply = vault[o].supply - burnt
          /\ lp'[o] = lp[o] - burnt
          /\ trader'[o] = trader[o] + paid
  <2>1. /\ quote.outAmount * vault[o].supply <= quote.outLp * Unlocked(o) /\ quote.outLp < lp[o]
        /\ Unlocked(o)' = Unlocked(o) - quote.outAmount
        /\ vault'[o].supply = vault[o].supply - quote.outLp
        /\ lp'[o] = lp[o] - quote.outLp
        /\ trader'[o] = trader[o] + quote.outAmount
    BY <1>5, <1>8, <1>10
  <2>2. quote.outAmount \in Nat /\ quote.outLp \in Nat
    BY <1>5
  <2>. QED
    BY <2>1, <2>2
<1>. QED
  BY <1>6, <1>11, <1>14, <1>15 DEF o

\* A swap keeps the comparison.
LEMMA GainSwap ==
    ASSUME IInv, NEW CONSTANT u, NEW CONSTANT s, NEW CONSTANT l, NEW CONSTANT g,
           Start(u, s, l, g), SinceThen(u, s, l, g),
           NEW m \in Mints, NEW a \in SwapAmounts, Swap(m, a)
    PROVE  SinceThen(u, s, l, g)'
<1> DEFINE o == Other(m)
           worth(t) == (l[t] * u[t]) \div s[t]
           Kept(t) == /\ vault'[t].supply - lp'[t] = s[t] - l[t]
                      /\ Unlocked(t)' + trader'[t] <= u[t] + g[t]
                      /\ u[t] * vault'[t].supply <= Unlocked(t)' * s[t]
<1>1. Tokens = {m, o} /\ Owned("A") * Owned("B") # 0
  BY SwapMoves
<1>2. Kept(m)
  <2>1. PICK dep \in Nat, minted \in Nat :
          /\ minted * Unlocked(m) <= dep * vault[m].supply /\ Unlocked(m) # 0
          /\ Unlocked(m)' = Unlocked(m) + dep
          /\ vault'[m].supply = vault[m].supply + minted
          /\ lp'[m] = lp[m] + minted
          /\ trader'[m] \in Int /\ trader'[m] <= trader[m] - dep
    BY SwapMoves
  <2>2. /\ u[m] \in Nat /\ s[m] \in Nat \ {0} /\ l[m] \in Nat /\ g[m] \in Int
        /\ Unlocked(m) \in Nat /\ vault[m].supply \in Nat \ {0} /\ lp[m] \in Nat
        /\ trader[m] \in Int
    BY <1>1, ThenAndNow
  <2>3. /\ vault[m].supply - lp[m] = s[m] - l[m]
        /\ Unlocked(m) + trader[m] <= u[m] + g[m]
        /\ u[m] * vault[m].supply <= Unlocked(m) * s[m]
    BY <1>1 DEF SinceThen
  <2>4. u[m] * (vault[m].supply + minted) <= (Unlocked(m) + dep) * s[m]
    BY <2>1, <2>2, <2>3, MintKeepsPrice
  <2>5. vault'[m].supply - lp'[m] = s[m] - l[m]
    BY <2>1, <2>2, <2>3
  <2>6. Unlocked(m)' + trader'[m] <= u[m] + g[m]
    BY <2>1, <2>2, <2>3
  <2>. QED
    BY <2>1, <2>4, <2>5, <2>6
<1>3. Kept(o)
  <2>1. PICK paid \in Nat, burnt \in Nat :
          /\ paid * vault[o].supply <= burnt * Unlocked(o) /\ burnt < lp[o]
          /\ Unlocked(o)' = Unlocked(o) - paid
          /\ vault'[o].supply = vault[o].supply - burnt
          /\ lp'[o] = lp[o] - burnt
          /\ trader'[o] = trader[o] + paid
    BY SwapMoves
  <2>2. /\ u[o] \in Nat /\ s[o] \in Nat \ {0} /\ l[o] \in Nat /\ g[o] \in Int
        /\ Unlocked(o) \in Nat /\ vault[o].supply \in Nat \ {0} /\ lp[o] \in Nat
        /\ trader[o] \in Int /\ lp[o] <= vault[o].supply
    BY <1>1, ThenAndNow
  <2>3. /\ vault[o].supply - lp[o] = s[o] - l[o]
        /\ Unlocked(o) + trader[o] <= u[o] + g[o]
        /\ u[o] * vault[o].supply <= Unlocked(o) * s[o]
    BY <1>1 DEF SinceThen
  <2>4. burnt <= vault[o].supply
    BY <2>1, <2>2
  <2>5. u[o] * (vault[o].supply - burnt) <= (Unlocked(o) - paid) * s[o]
    BY <2>1, <2>2, <2>3, <2>4, BurnKeepsPrice
  <2>6. vault'[o].supply - lp'[o] = s[o] - l[o]
    <3>1. (vault[o].supply - burnt) - (lp[o] - burnt) = vault[o].supply - lp[o]
      BY <2>2
    <3>. QED
      BY <2>1, <2>3, <3>1
  <2>7. Unlocked(o)' + trader'[o] <= u[o] + g[o]
    BY <2>1, <2>2, <2>3
  <2>. QED
    BY <2>1, <2>5, <2>6, <2>7
<1>4. \A t \in Tokens : Kept(t)
  BY <1>1, <1>2, <1>3
<1>5. worth("A") * worth("B") # 0 /\ worth("A") * worth("B") <= Owned("A") * Owned("B")
  BY <1>1 DEF SinceThen
<1>6. worth("A") * worth("B") <= (Owned("A") * Owned("B"))'
  <2>1. (Owned("A") * Owned("B"))' >= Owned("A") * Owned("B") /\ IInv'
    BY SwapStep
  <2>2. worth("A") * worth("B") \in Nat
    <3>1. ASSUME NEW t \in Tokens PROVE worth(t) \in Nat
      <4>1. l[t] \in Nat /\ u[t] \in Nat /\ s[t] \in Nat \ {0}
        BY ThenAndNow
      <4>2. l[t] * u[t] \in Nat
        BY <4>1
      <4>. QED
        BY <4>1, <4>2, DivBounds
    <3>2. worth("A") \in Nat /\ worth("B") \in Nat
      BY <3>1 DEF Tokens
    <3> HIDE DEF worth
    <3>. QED
      BY <3>2
  <2>3. Owned("A") * Owned("B") \in Nat
    <3>1. Owned("A") \in Nat /\ Owned("B") \in Nat
      BY OwnedValue DEF Tokens
    <3>. QED
      BY <3>1
  <2>4. (Owned("A") * Owned("B"))' \in Nat
    <3>1. ASSUME NEW t \in Tokens PROVE Owned(t)' \in Nat
      <4>1. VaultOK(vault'[t], clock'.time, lp'[t]) /\ clock'.time \in U64
        BY <2>1 DEF IInv, TypeOK, VaultsPriceable, SharesBacked, VaultOK
      <4>2. Owned(t)' \in U64
        BY <4>1, ShareValue DEF Owned, PoolTokens, Snapshot
      <4>. QED
        BY <4>2, VaultConstants DEF U64
    <3>2. Owned("A")' \in Nat /\ Owned("B")' \in Nat
      BY <3>1 DEF Tokens
    <3>. QED
      BY <3>2
  <2> HIDE DEF worth
  <2>. QED
    BY <1>5, <2>1, <2>2, <2>3, <2>4
<1> HIDE DEF worth
<1>. QED
  BY <1>4, <1>5, <1>6 DEF SinceThen, worth

\* Who gains of one token and loses nothing of the other takes it from what the pool
\* owns, of which the product would be lower.
LEMMA GainBound ==
    ASSUME IInv, NEW CONSTANT u, NEW CONSTANT s, NEW CONSTANT l, NEW CONSTANT g,
           Start(u, s, l, g), SinceThen(u, s, l, g)
    PROVE  NoGain(g)
<1> DEFINE worth(t) == (l[t] * u[t]) \div s[t]
           gain(t) == trader[t] - g[t]
<1> SUFFICES ASSUME \A t \in Tokens : ~(trader[t] < g[t])
             PROVE  \A t \in Tokens : trader[t] = g[t]
  BY DEF NoGain
<1>1. ASSUME NEW t \in Tokens
      PROVE  /\ gain(t) \in Nat /\ Owned(t) \in Nat /\ worth(t) \in Nat
             /\ Owned(t) + gain(t) <= worth(t)
             /\ trader[t] \in Int /\ g[t] \in Int
  <2>1. /\ u[t] \in Nat /\ s[t] \in Nat \ {0} /\ l[t] \in Nat /\ l[t] <= s[t] /\ g[t] \in Int
        /\ Unlocked(t) \in Nat /\ vault[t].supply \in Nat \ {0} /\ lp[t] \in Nat
        /\ lp[t] <= vault[t].supply /\ trader[t] \in Int
    BY ThenAndNow
  <2>2. /\ vault[t].supply - lp[t] = s[t] - l[t]
        /\ Unlocked(t) + trader[t] <= u[t] + g[t]
        /\ u[t] * vault[t].supply <= Unlocked(t) * s[t]
    BY DEF SinceThen
  <2>3. gain(t) \in Nat /\ Unlocked(t) + gain(t) <= u[t]
    BY <2>1, <2>2
  <2> HIDE DEF gain
  <2>4. ((lp[t] * Unlocked(t)) \div vault[t].supply) + gain(t) <= worth(t)
    BY <2>1, <2>2, <2>3, ShareBound
  <2>5. Owned(t) = (lp[t] * Unlocked(t)) \div vault[t].supply /\ Owned(t) \in Nat
    BY OwnedValue
  <2>6. worth(t) \in Nat
    <3>1. l[t] * u[t] \in Nat
      BY <2>1
    <3>. QED
      BY <2>1, <3>1, DivBounds
  <2>. QED
    BY <2>1, <2>3, <2>4, <2>5, <2>6
<1>2. /\ worth("A") * worth("B") <= Owned("A") * Owned("B")
      /\ worth("A") * worth("B") = 0 => trader = g
  BY DEF SinceThen
<1>3. CASE worth("A") * worth("B") = 0
  BY <1>2, <1>3
<1>4. CASE worth("A") * worth("B") # 0
  <2> DEFINE x == Owned("A")
             y == Owned("B")
             i == gain("A")
             j == gain("B")
             wx == worth("A")
             wy == worth("B")
  <2>1. /\ x \in Nat /\ y \in Nat /\ i \in Nat /\ j \in Nat /\ wx \in Nat /\ wy \in Nat
        /\ x + i <= wx /\ y + j <= wy
    BY <1>1 DEF Tokens
  <2> HIDE DEF x, y, i, j, wx, wy
  <2>2. wx * wy <= x * y /\ wx * wy # 0
    BY <1>2, <1>4 DEF x, y, wx, wy
  <2>3. (x + i) * (y + j) <= wx * wy
    <3>1. x + i \in Nat /\ y + j \in Nat
      BY <2>1
    <3>2. (x + i) * (y + j) <= wx * (y + j)
      BY <2>1, <3>1, MulMono
    <3>3. (y + j) * wx <= wy * wx
      BY <2>1, <3>1, MulMono
    <3>. QED
      BY <2>1, <3>1, <3>2, <3>3
  <2>4. (x + i) * (y + j) = x * y + i * y + j * x + i * j
    BY <2>1
  <2>5. x * y \in Nat /\ i * y \in Nat /\ j * x \in Nat /\ i * j \in Nat
    BY <2>1
  <2>6. i * y = 0 /\ j * x = 0 /\ x * y # 0
    <3>1. wx * wy \in Nat
      BY <2>1
    <3>. QED
      BY <2>2, <2>3, <2>4, <2>5, <3>1
  <2>7. i = 0 /\ j = 0
    BY <2>1, <2>6
  <2>8. /\ trader["A"] \in Int /\ g["A"] \in Int /\ trader["B"] \in Int /\ g["B"] \in Int
    BY <1>1 DEF Tokens
  <2>9. trader["A"] = g["A"] /\ trader["B"] = g["B"]
    BY <2>7, <2>8 DEF i, j
  <2>. QED
    BY <2>9 DEF Tokens
<1>. QED
  BY <1>3, <1>4

\* From whatever state the pool has reached, as long as only swaps move the vaults'
\* unlocked amounts and LP, the traders together gain nothing of one token without
\* giving of the other, for every fee, vault, amount and number of swaps.
THEOREM TradersCannotWin ==
    ASSUME NEW CONSTANT u, NEW CONSTANT s, NEW CONSTANT l, NEW CONSTANT g, Start(u, s, l, g)
    PROVE  IInv /\ At(u, s, l, g) /\ [][SwapsOnly]_vars => []NoGain(g)
<1> DEFINE Since == IInv /\ SinceThen(u, s, l, g)
<1>1. IInv /\ At(u, s, l, g) => Since
  BY GainStart
<1>2. Since /\ [SwapsOnly]_vars => Since'
  <2>1. ASSUME Since, NEW m \in Mints, NEW a \in SwapAmounts, Swap(m, a)
        PROVE  Since'
    BY <2>1, SwapStep, GainSwap
  <2>2. ASSUME Since, Next, Quiet
        PROVE  Since'
    BY <2>2, NextStep, GainQuiet
  <2>3. ASSUME Since, UNCHANGED vars
        PROVE  Since'
    BY <2>3 DEF IInv, TypeOK, VaultsPriceable, SharesBacked, vars, SinceThen, Unlocked, Owned, Snapshot
  <2>. QED
    BY <2>1, <2>2, <2>3 DEF SwapsOnly
<1>3. Since => NoGain(g)
  BY GainBound
<1> HIDE DEF Since
<1>. QED
  BY <1>1, <1>2, <1>3, PTL

\* Nothing is locked in a vault that has reported no profit.
LEMMA NothingLocked ==
    ASSUME NEW v \in Vault, NEW now \in U64, v.lastProfit = 0, GetUnlockedAmount(v, now) # None
    PROVE  GetUnlockedAmount(v, now) = v.totalAmount
<1> DEFINE r == (now - v.lastReport) * v.degradation
           D == DegradationDenominator
<1>1. /\ CalculateLockedProfit(v, now) \in U64 /\ v.lastReport <= now
      /\ GetUnlockedAmount(v, now) = v.totalAmount - CalculateLockedProfit(v, now)
  BY UnlockedFacts
<1>2. v.totalAmount \in Nat /\ now \in Nat /\ v.lastReport \in Nat /\ v.degradation \in Nat
      /\ D \in Nat \ {0} /\ 0 \in U64
  BY VaultConstants DEF Vault, U64
<1>3. r \in Int
  BY <1>2
<1> HIDE DEF r, D
<1>4. (v.lastProfit * (D - r)) \div D = 0
  <2>1. v.lastProfit * (D - r) = 0
    BY <1>2, <1>3
  <2>2. 0 \div D = 0
    BY <1>2, DivBounds
  <2>. QED
    BY <2>1, <2>2
<1>5. CalculateLockedProfit(v, now) = 0
  BY <1>1, <1>2, <1>4 DEF CalculateLockedProfit, TryU64, r, D
<1>. QED
  BY <1>1, <1>2, <1>5

\* A pool whose vaults have reported no profit and have no other traffic: traders never
\* gain of one token without giving of the other.  (Profits, and the roundings that
\* other depositors leave in the vaults, are the pool's, and a trade at the right moment
\* takes part of them: without the assumptions the property is false.)
THEOREM NoFreeTokensAlways ==
    ASSUME DepositAmounts = {}, WithdrawAmounts = {}, ProfitAmounts = {}, InitVault.lastProfit = 0
    PROVE  Spec => []NoFreeTokens
<1> DEFINE u == [t \in Tokens |-> InitVault.totalAmount]
           s == [t \in Tokens |-> InitVault.supply]
           l == [t \in Tokens |-> InitLp]
           g == [t \in Tokens |-> 0]
           NoProfit == \A t \in Tokens : vault[t].lastProfit = 0
           Since == IInv /\ NoProfit /\ SinceThen(u, s, l, g)
<1>1. Start(u, s, l, g)
  <2>1. /\ InitVault.totalAmount \in Nat /\ InitVault.supply \in Nat /\ InitLp \in Nat
        /\ InitLp <= InitVault.supply /\ InitVault.supply # 0
    BY PoolConstants, VaultConstants DEF Vault, U64
  <2>. QED
    BY <2>1 DEF Start
<1>2. Init => Since
  <2> SUFFICES ASSUME Init PROVE Since
    OBVIOUS
  <2>1. IInv
    BY InitInv
  <2>2. NoProfit
    BY DEF Init
  <2>3. At(u, s, l, g)
    <3>1. ASSUME NEW t \in Tokens
          PROVE  Unlocked(t) = InitVault.totalAmount
      <4>1. vault[t] = InitVault
        BY DEF Init
      <4>2. InitVault \in Vault /\ clock.time \in U64 /\ GetUnlockedAmount(InitVault, clock.time) # None
        BY <2>1, <4>1, PoolConstants DEF IInv, TypeOK, VaultsPriceable
      <4>. QED
        BY <4>1, <4>2, NothingLocked DEF Unlocked
    <3>. QED
      BY <3>1 DEF At, Init
  <2> HIDE DEF u, s, l, g
  <2>. QED
    BY <1>1, <2>1, <2>2, <2>3, GainStart
<1>3. Since /\ [Next]_vars => Since'
  <2> HIDE DEF u, s, l, g
  <2> SUFFICES ASSUME Since, [Next]_vars PROVE Since'
    OBVIOUS
  <2>1. vault \in [Tokens -> Vault]
    BY DEF IInv, TypeOK
  <2>2. CASE UNCHANGED vars
    BY <2>2 DEF IInv, TypeOK, VaultsPriceable, SharesBacked, vars, SinceThen, Unlocked, Owned, Snapshot
  <2>3. ASSUME NEW m \in Mints, NEW a \in SwapAmounts, Swap(m, a)
        PROVE  Since'
    <3>1. \A t \in Tokens : vault'[t].lastProfit = vault[t].lastProfit
      BY <2>1, <2>3 DEF Swap, Deposited, Withdrawn, Vault
    <3>. QED
      BY <1>1, <2>3, <3>1, SwapStep, GainSwap
  <2>4. ASSUME Next, Quiet, \A t \in Tokens : vault'[t].lastProfit = vault[t].lastProfit
        PROVE  Since'
    BY <2>4, NextStep, GainQuiet
  <2>5. ASSUME NEW t \in Tokens, NEW a \in LendAmounts, Lend(t, a)
        PROVE  Since'
    <3>1. vault' = [vault EXCEPT ![t].reserve = @ - a] /\ NextSlot /\ UNCHANGED <<enabled, lp, trader>>
      BY <2>5 DEF Lend
    <3>2. clock'.time = clock.time
      BY <3>1, SlotStep
    <3>3. \A w \in Tokens : /\ vault'[w].lastProfit = vault[w].lastProfit
                            /\ vault'[w].lastReport = vault[w].lastReport
                            /\ vault'[w].degradation = vault[w].degradation
                            /\ vault'[w].totalAmount = vault[w].totalAmount
                            /\ vault'[w].supply = vault[w].supply
      BY <2>1, <3>1 DEF Vault
    <3>4. \A w \in Tokens : Unlocked(w)' = Unlocked(w)
      BY <3>2, <3>3 DEF Unlocked, GetUnlockedAmount, CalculateLockedProfit
    <3>5. Next
      BY <2>5 DEF Next
    <3>. QED
      BY <2>4, <3>1, <3>3, <3>4, <3>5 DEF Quiet
  <2>6. CASE EnableOrDisablePool
    <3>1. NextSlot /\ UNCHANGED <<vault, lp, trader>>
      BY <2>6 DEF EnableOrDisablePool
    <3>2. \A w \in Tokens : Unlocked(w)' = Unlocked(w)
      BY <3>1, SlotStep DEF Unlocked
    <3>3. Next
      BY <2>6 DEF Next
    <3>. QED
      BY <2>4, <3>1, <3>2, <3>3 DEF Quiet
  <2>7. CASE Tick
    <3>1. UNCHANGED <<enabled, vault, lp, trader>> /\ Next
      BY <2>7 DEF Tick, Next
    <3>2. IInv'
      BY <2>7, TickStep
    <3>3. ASSUME NEW w \in Tokens
          PROVE  Unlocked(w)' = Unlocked(w)
      <4>1. vault[w] \in Vault /\ vault'[w] = vault[w] /\ vault[w].lastProfit = 0
        BY <2>1, <3>1
      <4>2. clock.time \in U64 /\ GetUnlockedAmount(vault[w], clock.time) # None
        BY DEF IInv, TypeOK, VaultsPriceable
      <4>3. clock'.time \in U64 /\ GetUnlockedAmount(vault'[w], clock'.time) # None
        BY <3>2 DEF IInv, TypeOK, VaultsPriceable
      <4>4. GetUnlockedAmount(vault[w], clock.time) = vault[w].totalAmount
        BY <4>1, <4>2, NothingLocked
      <4>5. GetUnlockedAmount(vault[w], clock'.time) = vault[w].totalAmount
        BY <4>1, <4>3, NothingLocked
      <4>. QED
        BY <4>1, <4>4, <4>5 DEF Unlocked
    <3>. QED
      BY <2>4, <3>1, <3>3 DEF Quiet
  <2>. QED
    BY <2>2, <2>3, <2>5, <2>6, <2>7 DEF Next
<1>4. Since => NoFreeTokens
  <2>1. Since => NoGain(g)
    <3> HIDE DEF u, s, l, g
    <3>. QED
      BY <1>1, GainBound
  <2>2. \A t \in Tokens : g[t] = 0
    OBVIOUS
  <2> HIDE DEF g, Since
  <2>. QED
    BY <2>1, <2>2 DEF NoGain, NoFreeTokens
<1> HIDE DEF Since
<1>. QED
  BY <1>2, <1>3, <1>4, PTL DEF Spec

-----------------------------------------------------------------------------
(* The quotes of the TypeScript client.                                    *)
(*                                                                         *)
(* The swap quote agrees with the Rust quote: along compute_quote, each    *)
(* number of calculateSwapQuote is shown to be the same one, for a checked *)
(* operation that succeeds gives what BN computes, because no intermediate *)
(* result is negative where the quote succeeds.                            *)
(*                                                                         *)
(* The deposit and withdraw quotes together give nothing for free: what a  *)
(* withdrawal pays is bounded by the exact share, which each of the        *)
(* roundings of the deposit lies above.                                    *)

\* BN.div of a natural number is floor division.
LEMMA BnDivNat ==
    ASSUME NEW x \in Nat, NEW y \in Nat \ {0}
    PROVE  BnDiv(x, y) = x \div y
BY DEF BnDiv, Magnitude

\* BN.div of integers is an integer.
LEMMA BnDivInt ==
    ASSUME NEW x \in Int, NEW y \in Int, y # 0
    PROVE  BnDiv(x, y) \in Int
<1>1. Magnitude(x) \in Nat /\ Magnitude(y) \in Nat \ {0}
  BY DEF Magnitude
<1>2. Magnitude(x) \div Magnitude(y) \in Nat
  BY <1>1, DivBounds
<1>. QED
  BY <1>2 DEF BnDiv

\* The vault SDK's withdrawable amount is the vault's unlocked amount.
LEMMA WithdrawableIsUnlocked ==
    ASSUME NEW v, NEW now \in U64, NEW share, VaultOK(v, now, share)
    PROVE  CalculateWithdrawableAmount(now, v) = GetUnlockedAmount(v, now)
<1> DEFINE D == DegradationDenominator
           ratio == (now - v.lastReport) * v.degradation
           locked == CalculateLockedProfit(v, now)
<1>1. /\ v \in Vault /\ v.lastReport <= now /\ locked \in U64
      /\ GetUnlockedAmount(v, now) = v.totalAmount - locked
  BY UnlockedFacts DEF VaultOK
<1>2. /\ D \in Nat \ {0} /\ v.lastReport \in Nat /\ v.degradation \in Nat /\ now \in Nat
      /\ v.lastProfit \in Nat /\ locked \in Nat /\ now - v.lastReport \in Nat
  BY <1>1, VaultConstants DEF Vault, U64
<1>3. ratio \in Nat
  BY <1>2
<1>4. locked # None
  BY <1>2 DEF None
<1>5. CASE ratio > D
  <2>1. locked = 0
    BY <1>1, <1>2, <1>5 DEF CalculateLockedProfit
  <2>. QED
    BY <1>1, <1>5, <2>1 DEF CalculateWithdrawableAmount
<1>6. CASE ~(ratio > D)
  <2>1. locked = (v.lastProfit * (D - ratio)) \div D
    BY <1>1, <1>2, <1>4, <1>6 DEF CalculateLockedProfit, TryU64
  <2>2. D - ratio \in Nat
    BY <1>2, <1>3, <1>6
  <2>3. v.lastProfit * (D - ratio) \in Nat
    BY <1>2, <2>2
  <2>4. BnDiv(v.lastProfit * (D - ratio), D) = locked
    BY <1>2, <2>1, <2>3, BnDivNat
  <2>. QED
    BY <1>1, <1>6, <2>4 DEF CalculateWithdrawableAmount
<1>. QED
  BY <1>5, <1>6

\* A share that is worth something the vault can pay out.
LEMMA TsShareValue ==
    ASSUME NEW share \in Nat, NEW total \in Nat, NEW supply \in Nat \ {0}
    PROVE  TsAmountByShare(share, total, supply) = (share * total) \div supply
<1>1. share * total \in Nat
  OBVIOUS
<1>. QED
  BY <1>1, BnDivNat DEF TsAmountByShare

LEMMA TsUnmintValue ==
    ASSUME NEW out \in Nat, NEW total \in Nat \ {0}, NEW supply \in Nat
    PROVE  TsUnmintAmount(out, total, supply) = (out * supply) \div total
<1>1. out * supply \in Nat
  OBVIOUS
<1>. QED
  BY <1>1, BnDivNat DEF TsUnmintAmount

\* The client's ceilDiv is the program's, below a positive divisor.
LEMMA CeilSame ==
    ASSUME NEW k \in Nat, NEW n \in Nat \ {0}
    PROVE  TsCeilDiv(k, n) = CeilDiv(k, n) /\ (BnDiv(k, n) = 0 <=> k < n)
<1>1. BnDiv(k, n) = k \div n /\ Magnitude(n) = n
  BY BnDivNat DEF Magnitude
<1>2. CeilDiv(k, n) = (k \div n) + (IF k % n > 0 THEN 1 ELSE 0)
  BY DEF CeilDiv
<1>3. k \div n = 0 <=> k < n
  OBVIOUS
<1>. QED
  BY <1>1, <1>2, <1>3 DEF TsCeilDiv

\* Fees that do not vanish are those of the program (calculate_fee).
LEMMA FeesSame ==
    ASSUME NEW a \in Nat, FeesVisible(a)
    PROVE  /\ TsTradingFee(a) = TradingFee(a)
           /\ TsProtocolFee(TradingFee(a)) = ProtocolTradingFee(TradingFee(a))
<1>1. ASSUME NEW x \in Nat, NEW n \in Nat, NEW d \in Nat \ {0},
             BnDiv(x * n, d) > 0 \/ n = 0
      PROVE  BnDiv(x * n, d) = CalculateFee(x, n, d)
  <2>1. x * n \in Nat
    OBVIOUS
  <2>2. BnDiv(x * n, d) = (x * n) \div d
    BY <2>1, BnDivNat
  <2>3. CASE n = 0
    <3>1. x * n = 0
      BY <2>3
    <3>2. (x * n) \div d = 0
      BY <3>1, DivBounds
    <3>. QED
      BY <2>2, <2>3, <3>2 DEF CalculateFee
  <2>4. CASE n # 0
    <3>1. (x * n) \div d > 0
      BY <1>1, <2>2, <2>4
    <3>2. x # 0
      <4> SUFFICES ASSUME x = 0 PROVE FALSE
        OBVIOUS
      <4>1. x * n = 0
        OBVIOUS
      <4>2. (x * n) \div d = 0
        BY <4>1, DivBounds
      <4>. QED
        BY <3>1, <4>2
    <3>. QED
      BY <2>2, <2>4, <3>1, <3>2 DEF CalculateFee
  <2>. QED
    BY <2>3, <2>4
<1>2. TsTradingFee(a) = TradingFee(a)
  BY <1>1, FeeConstants DEF FeesVisible, TsTradingFee, TradingFee
<1>3. TradingFee(a) \in Nat
  BY FeeType
<1>. QED
  BY <1>1, <1>2, <1>3, FeeConstants DEF FeesVisible, TsProtocolFee, ProtocolTradingFee

\* Where the Rust quote succeeds and no fee vanishes, the TypeScript quote is the same.
LEMMA QuoteAgrees ==
    ASSUME NEW q, AccountsOK(q), NEW m \in Mints, NEW a \in U64, NEW i,
           ComputeQuote(q, m, a).ok, FeesVisible(a)
    PROVE  LET rust == ComputeQuote(q, m, a)
               ts   == CalculateSwapQuote(q, m, a, i)
           IN  ts.ok /\ ts.outAmount = rust.outAmount /\ ts.fee = rust.fee
<1> DEFINE now == q.clock.time
           o == Other(m)
           vi == q.vault[m]
           vo == q.vault[o]
           si == q.lp[m]
           so == q.lp[o]
           X == PoolTokens(q, m)
           T == PoolTokens(q, o)
           grossFee == TradingFee(a)
           protocolFee == ProtocolTradingFee(grossFee)
           fee == grossFee - protocolFee
           dep == a - protocolFee
           in == DepositSide(vi, now, si, dep)
           source == (in.total - X) - fee
           d == ConstantProductSwap(source, X, T)
           out == WithdrawSide(vo, now, d)
           rust == ComputeQuote(q, m, a)
           ts == CalculateSwapQuote(q, m, a, i)
\* What the Rust quote has checked
<1>1. /\ q.enabled /\ Activated(q.clock) /\ m \in Tokens /\ X # None /\ T # None /\ fee >= 0
      /\ in.total # None /\ in.total >= X /\ source >= 0
      /\ out.amount # None /\ out.amount < vo.reserve
      /\ rust.fee = fee /\ rust.outAmount = out.amount
  BY DEF ComputeQuote, QuoteError
<1>2. o \in Tokens /\ m # o
  BY <1>1 DEF Other, Tokens
<1>3. now \in U64 /\ VaultOK(vi, now, si) /\ VaultOK(vo, now, so)
  BY <1>1, <1>2 DEF AccountsOK, Accounts
<1>4. X = GetAmountByShare(vi, now, si, vi.supply) /\ T = GetAmountByShare(vo, now, so, vo.supply)
  BY DEF PoolTokens
<1>5. fee \in Nat /\ dep \in Int /\ grossFee \in Nat /\ protocolFee \in Nat
  <2>1. a \in Nat
    BY VaultConstants DEF U64
  <2>2. grossFee \in Nat
    BY <2>1, FeeType
  <2>3. protocolFee \in Nat
    BY <2>2, FeeType
  <2>. QED
    BY <1>1, <2>1, <2>2, <2>3
\* The TypeScript quote, with its numbers named
<1> DEFINE tUi == CalculateWithdrawableAmount(now, vi)
           tUo == CalculateWithdrawableAmount(now, vo)
           tX == TsAmountByShare(si, tUi, vi.supply)
           tT == TsAmountByShare(so, tUo, vo.supply)
           tGross == TsTradingFee(a)
           tProtocol == TsProtocolFee(tGross)
           tFee == tGross - tProtocol
           tDep == a - tProtocol
           tLp == TsUnmintAmount(tDep, tUi, vi.supply)
           tAfter == TsAmountByShare(tLp + si, tUi + tDep, vi.supply + tLp)
           tSource == (tAfter - tX) - tFee
           tOut == TsComputeOutAmount(tSource, tX, tT)
           tOutLp == TsUnmintAmount(tOut, tUo, vo.supply)
           tPaid == TsAmountByShare(tOutLp, tUo, vo.supply)
<1>6. ASSUME tUi # 0, ~TsComputeThrows(tSource, tX, tT), tPaid < CalculateMaxSwapOutAmount(tT, vo.reserve)
      PROVE  ts.ok /\ ts.fee = tFee /\ ts.outAmount = tPaid
  BY <1>1, <1>6 DEF CalculateSwapQuote, TsPoolTokens, SourceAmountWithFee
<1>7. tGross = grossFee /\ tProtocol = protocolFee
  <2>1. a \in Nat
    BY VaultConstants DEF U64
  <2>. QED
    BY <2>1, FeesSame
<1>8. tFee = fee /\ tDep = dep
  BY <1>7
<1> DEFINE Ui == GetUnlockedAmount(vi, now)
           Uo == GetUnlockedAmount(vo, now)
<1>9. tUi = Ui /\ tUo = Uo
  BY <1>3, WithdrawableIsUnlocked
<1> HIDE DEF now, o, vi, vo, si, so, X, T, fee, dep, in, d, out, rust, ts, grossFee, protocolFee,
             tUi, tUo, tX, tT, tGross, tProtocol, tFee, tDep, tLp, tAfter, tOut, tOutLp, tPaid
<1>10. /\ MaxU64 \in Nat /\ vi.supply \in Nat \ {0} /\ vo.supply \in Nat \ {0}
       /\ si \in Nat \ {0} /\ so \in Nat \ {0}
       /\ Ui \in Nat /\ Uo \in Nat /\ vo.reserve \in Nat /\ vi \in Vault /\ vo \in Vault
       /\ Ui # None /\ Uo # None
  BY <1>3, UnlockedFacts, VaultConstants DEF VaultOK, Vault, U64
<1> HIDE DEF Ui, Uo
\* What the pool owns
<1>11. tX = X /\ tT = T /\ X \in Nat /\ T \in Nat
  <2>1. X = (si * Ui) \div vi.supply /\ T = (so * Uo) \div vo.supply /\ X \in Nat /\ T \in Nat
    BY <1>3, <1>4, ShareValue, VaultConstants DEF U64, Ui, Uo
  <2>2. tX = (si * Ui) \div vi.supply /\ tT = (so * Uo) \div vo.supply
    <3>1. tX = TsAmountByShare(si, Ui, vi.supply) /\ tT = TsAmountByShare(so, Uo, vo.supply)
      BY <1>9 DEF tX, tT
    <3>2. TsAmountByShare(si, Ui, vi.supply) = (si * Ui) \div vi.supply
      BY ONLY <1>10, TsShareValue
    <3>3. TsAmountByShare(so, Uo, vo.supply) = (so * Uo) \div vo.supply
      BY ONLY <1>10, TsShareValue
    <3>. QED
      BY ONLY <3>1, <3>2, <3>3
  <2>. QED
    BY <2>1, <2>2
\* The deposit
<1>12. in.lp # None
  BY <1>1 DEF DepositSide, in, None
<1>13. /\ dep \in Nat /\ in.lp \in Nat /\ vi.totalAmount + dep \in U64
       /\ in.total = GetAmountByShare(Credited(vi, dep), now, in.lp + si, vi.supply + in.lp)
  <2>1. DepositSide(vi, now, si, dep).lp # None /\ si \in {0, si}
    BY <1>12 DEF in
  <2>2. VaultOK(vi, now, si) /\ now \in U64 /\ dep \in Int
    BY <1>3, <1>5
  <2>3. LET minted == DepositSide(vi, now, si, dep).lp
        IN  /\ dep \in Nat /\ minted \in Nat /\ vi.totalAmount + dep \in U64
            /\ DepositSide(vi, now, si, dep).total
                 = GetAmountByShare(Credited(vi, dep), now, minted + si, vi.supply + minted)
    BY ONLY <2>1, <2>2, DepositSideFacts
  <2>. QED
    BY <2>3 DEF in
<1>14. in.lp = GetUnmintAmount(vi, now, dep, vi.supply)
  BY <1>12 DEF DepositSide, in, None
<1>15. Ui # 0 /\ in.lp = (dep * vi.supply) \div Ui
  BY <1>10, <1>12, <1>14 DEF GetUnmintAmount, CheckedDiv, TryU64, Ui
<1>16. tLp = in.lp
  <2>1. tLp = TsUnmintAmount(dep, Ui, vi.supply)
    BY <1>8, <1>9 DEF tLp
  <2>2. Ui \in Nat \ {0} /\ vi.supply \in Nat
    BY <1>10, <1>15
  <2>3. TsUnmintAmount(dep, Ui, vi.supply) = (dep * vi.supply) \div Ui
    BY ONLY <1>13, <2>2, TsUnmintValue
  <2>. QED
    BY ONLY <1>15, <2>1, <2>3
<1>17. in.total = ((in.lp + si) * (Ui + dep)) \div (vi.supply + in.lp) /\ in.total \in Nat
  <2> DEFINE w == Credited(vi, dep)
  <2>1. /\ w \in Vault /\ w.lastProfit = vi.lastProfit /\ w.lastReport = vi.lastReport
        /\ w.degradation = vi.degradation /\ w.totalAmount = vi.totalAmount + dep
    BY <1>10, <1>13 DEF Credited, Vault
  <2> HIDE DEF w
  <2>2. /\ CalculateLockedProfit(vi, now) \in Nat
        /\ Ui = vi.totalAmount - CalculateLockedProfit(vi, now) /\ vi.totalAmount \in Nat
    BY <1>3, <1>10, UnlockedFacts, VaultConstants DEF U64, Ui, Vault
  <2>3. GetUnlockedAmount(w, now) = Ui + dep
    <3>1. w.totalAmount >= CalculateLockedProfit(vi, now)
      BY <1>10, <1>13, <2>1, <2>2
    <3>2. GetUnlockedAmount(w, now) = w.totalAmount - CalculateLockedProfit(vi, now)
      BY <1>3, <1>10, <2>1, <3>1, UnlockedDepends DEF Ui
    <3>. QED
      BY <1>10, <1>13, <2>1, <2>2, <3>2
  <2>4. in.total = CheckedDiv((in.lp + si) * (Ui + dep), vi.supply + in.lp)
    <3>1. Ui + dep # None
      BY <1>10, <1>13 DEF None
    <3>2. in.total = GetAmountByShare(w, now, in.lp + si, vi.supply + in.lp)
      BY <1>13 DEF w
    <3>. QED
      BY <2>3, <3>1, <3>2 DEF GetAmountByShare
  <2>5. vi.supply + in.lp # 0
    BY <1>10, <1>13
  <2>. QED
    BY <1>1, <1>10, <2>4, <2>5 DEF CheckedDiv, TryU64, U64
<1>18. tAfter = in.total
  <2>1. tLp + si \in Nat /\ Ui + dep \in Nat /\ vi.supply + tLp \in Nat \ {0}
    BY <1>10, <1>13, <1>16
  <2>2. TsAmountByShare(tLp + si, Ui + dep, vi.supply + tLp)
          = ((tLp + si) * (Ui + dep)) \div (vi.supply + tLp)
    BY <2>1, TsShareValue
  <2>. QED
    BY <1>8, <1>9, <1>16, <1>17, <2>2 DEF tAfter
<1>19. tSource = source /\ source \in Nat
  BY <1>1, <1>5, <1>8, <1>11, <1>17, <1>18
\* The curve
<1> HIDE DEF source, tSource
<1>20. d # None
  BY <1>1 DEF WithdrawSide, out
<1>21. d = ConstantProductSwap(source, X, T)
  BY DEF d
<1>22. d \in Nat /\ d < T
  BY <1>11, <1>19, <1>20, <1>21, CurveFacts
<1>23. ~TsComputeThrows(tSource, tX, tT) /\ tOut = d
  <2>1. /\ X + source # 0 /\ ~(X * T < X + source) /\ d = T - CeilDiv(X * T, X + source)
        /\ ~(d <= 0)
    BY <1>20, <1>21 DEF ConstantProductSwap
  <2>2. X * T \in Nat /\ X + source \in Nat \ {0}
    BY <1>11, <1>19, <2>1
  <2>3. TsComputeOutAmount(source, X, T) = d /\ BnDiv(X * T, X + source) # 0
    BY <2>1, <2>2, CeilSame DEF TsComputeOutAmount
  <2>4. TsCeilDiv(X * T, X + source) # 0
    <3>1. X * T + (X + source) - 1 \in Nat /\ 1 * (X + source) <= X * T + (X + source) - 1
      BY <2>1, <2>2
    <3>2. 1 <= CeilDiv(X * T, X + source)
      BY <2>2, <3>1, DivGe DEF CeilDiv
    <3>. QED
      BY <2>2, <3>2, CeilSame
  <2>. QED
    BY <1>11, <1>19, <1>22, <2>1, <2>3, <2>4 DEF TsComputeThrows, tOut
\* The withdrawal
<1>24. /\ out.lp \in Nat /\ out.amount \in Nat
       /\ out.amount * vo.supply <= out.lp * Uo /\ out.lp * Uo <= d * vo.supply
  BY <1>1, <1>3, <1>4, <1>22, WithdrawSideFacts DEF out, Uo
<1>25. out.lp = GetUnmintAmount(vo, now, d, vo.supply)
       /\ out.amount = GetAmountByShare(vo, now, out.lp, vo.supply)
  BY <1>1, <1>20 DEF WithdrawSide, out
<1>26. Uo # 0 /\ out.lp = (d * vo.supply) \div Uo
  BY <1>10, <1>24, <1>25 DEF GetUnmintAmount, CheckedDiv, TryU64, Uo, None
<1>27. out.amount = (out.lp * Uo) \div vo.supply
  BY <1>1, <1>10, <1>25 DEF GetAmountByShare, CheckedDiv, TryU64, Uo
<1>28. tOutLp = out.lp
  BY <1>9, <1>10, <1>22, <1>23, <1>26, TsUnmintValue DEF tOutLp
<1>29. tPaid = out.amount
  <2>1. tPaid = TsAmountByShare(out.lp, Uo, vo.supply)
    BY <1>9, <1>28 DEF tPaid
  <2>2. TsAmountByShare(out.lp, Uo, vo.supply) = (out.lp * Uo) \div vo.supply
    BY ONLY <1>10, <1>24, TsShareValue
  <2>. QED
    BY ONLY <1>27, <2>1, <2>2
<1>30. out.amount < T
  <2>1. out.amount * vo.supply <= d * vo.supply
    BY <1>10, <1>22, <1>24
  <2>2. out.amount <= d
    BY <1>10, <1>22, <1>24, <2>1, MulCancel
  <2>. QED
    BY <1>11, <1>22, <1>24, <2>2
<1>31. tPaid < CalculateMaxSwapOutAmount(tT, vo.reserve)
  BY <1>1, <1>11, <1>29, <1>30 DEF CalculateMaxSwapOutAmount
<1>32. ts.ok /\ ts.fee = tFee /\ ts.outAmount = tPaid
  <2>1. tUi # 0
    BY <1>9, <1>15
  <2>. QED
    BY <1>6, <1>23, <1>31, <2>1
<1>. QED
  BY <1>1, <1>8, <1>29, <1>32 DEF rust, ts

\* On every state of a pool, whatever its fees, vaults and history, calculateSwapQuote
\* of the TypeScript client gives the amount and the fee of compute_quote of the Rust
\* library whenever that succeeds and no fee truncates to zero.
THEOREM QuotesAgreeAlways == Spec => []QuotesAgree
<1>1. IInv => QuotesAgree
  <2> SUFFICES ASSUME IInv, NEW m \in Mints, NEW a \in SwapAmounts, NEW i \in Initiators,
                      ComputeQuote(Snapshot, m, a).ok, FeesVisible(a)
               PROVE  LET rust == ComputeQuote(Snapshot, m, a)
                          ts   == CalculateSwapQuote(Snapshot, m, a, i)
                      IN  ts.ok /\ ts.outAmount = rust.outAmount /\ ts.fee = rust.fee
    BY DEF QuotesAgree
  <2>1. AccountsOK(Snapshot) /\ a \in U64
    BY IInvAccounts, PoolConstants
  <2>. QED
    BY <2>1, QuoteAgrees
<1>2. Spec => []IInv
  BY Invariant
<1>. QED
  BY <1>1, <1>2, PTL

\* What calculateSwapQuote has checked of the amount it returns.
LEMMA QuoteCovered ==
    ASSUME NEW q, AccountsOK(q), NEW m, NEW a \in Int, NEW i, CalculateSwapQuote(q, m, a, i).ok
    PROVE  LET ts     == CalculateSwapQuote(q, m, a, i)
               o      == Other(m)
               source == SourceAmountWithFee(q, m, a)
           IN  /\ source \in Nat => ts.outAmount >= 0
               /\ ts.outAmount < q.vault[o].reserve
               /\ ts.outAmount < PoolTokens(q, o)
<1> DEFINE now == q.clock.time
           o == Other(m)
           vi == q.vault[m]
           vo == q.vault[o]
           U == GetUnlockedAmount(vo, now)
           S == vo.supply
           X == TsPoolTokens(q, m)
           T == TsPoolTokens(q, o)
           source == SourceAmountWithFee(q, m, a)
           d == TsComputeOutAmount(source, X, T)
           outLp == TsUnmintAmount(d, CalculateWithdrawableAmount(now, vo), S)
           paid == TsAmountByShare(outLp, CalculateWithdrawableAmount(now, vo), S)
           ts == CalculateSwapQuote(q, m, a, i)
<1>1. /\ m \in Tokens /\ ~TsComputeThrows(source, X, T) /\ ts.outAmount = paid
      /\ paid < CalculateMaxSwapOutAmount(T, vo.reserve)
      /\ CalculateWithdrawableAmount(now, vi) # 0
  BY DEF CalculateSwapQuote, QuoteError
<1>2. o \in Tokens
  BY <1>1 DEF Other, Tokens
<1>3. now \in U64 /\ VaultOK(vi, now, q.lp[m]) /\ VaultOK(vo, now, q.lp[o])
  BY <1>1, <1>2 DEF AccountsOK, Accounts
<1>4. ASSUME NEW t, VaultOK(q.vault[t], now, q.lp[t])
      PROVE  TsPoolTokens(q, t) = PoolTokens(q, t) /\ PoolTokens(q, t) \in Nat
  <2> DEFINE v == q.vault[t]
             W == GetUnlockedAmount(v, now)
  <2>1. W \in Nat /\ v.supply \in Nat \ {0} /\ q.lp[t] \in Nat
    BY <1>3, <1>4, UnlockedFacts, VaultConstants DEF VaultOK, Vault, U64
  <2>2. CalculateWithdrawableAmount(now, v) = W
    BY <1>3, <1>4, WithdrawableIsUnlocked
  <2> HIDE DEF W
  <2>3. TsPoolTokens(q, t) = (q.lp[t] * W) \div v.supply
    BY <2>1, <2>2, TsShareValue DEF TsPoolTokens
  <2>4. PoolTokens(q, t) = (q.lp[t] * W) \div v.supply /\ PoolTokens(q, t) \in Nat
    <3>1. GetAmountByShare(v, now, q.lp[t], v.supply) \in Nat
      <4>1. GetAmountByShare(v, now, q.lp[t], v.supply) \in U64
        BY <1>3, <1>4, ShareValue
      <4>. QED
        BY <4>1, VaultConstants DEF U64
    <3>2. GetAmountByShare(v, now, q.lp[t], v.supply) = (q.lp[t] * W) \div v.supply
      BY <1>3, <1>4, ShareValue DEF W
    <3>. QED
      BY <3>1, <3>2 DEF PoolTokens
  <2>. QED
    BY <2>3, <2>4
<1>5. X \in Nat /\ T \in Nat /\ T = PoolTokens(q, o)
  BY <1>3, <1>4
<1>6. /\ U \in Nat /\ S \in Nat \ {0} /\ CalculateWithdrawableAmount(now, vo) = U
      /\ vo.reserve \in Nat /\ q.lp[o] \in Nat
  BY <1>3, UnlockedFacts, WithdrawableIsUnlocked, VaultConstants DEF VaultOK, Vault, U64
<1>7. outLp = TsUnmintAmount(d, U, S) /\ paid = TsAmountByShare(outLp, U, S)
  BY <1>6
<1>8. T * S <= q.lp[o] * U
  BY <1>3, <1>5, ShareValue DEF PoolTokens
\* The fees, and what the deposit adds: all integers
<1>9. source \in Int
  <2> DEFINE Ui == CalculateWithdrawableAmount(now, vi)
             gross == TsTradingFee(a)
             protocol == TsProtocolFee(gross)
             dep == a - protocol
             inLp == TsUnmintAmount(dep, Ui, vi.supply)
             after == TsAmountByShare(inLp + q.lp[m], Ui + dep, vi.supply + inLp)
  <2>1. Ui \in Int /\ Ui # 0 /\ vi.supply \in Int /\ q.lp[m] \in Int
    BY <1>1, <1>3, UnlockedFacts, WithdrawableIsUnlocked, VaultConstants DEF VaultOK, Vault, U64
  <2>2. gross \in Int
    BY FeeConstants, BnDivInt DEF TsTradingFee
  <2>3. protocol \in Int
    BY <2>2, FeeConstants, BnDivInt DEF TsProtocolFee
  <2>4. source = (after - X) - (gross - protocol)
    BY DEF SourceAmountWithFee
  <2> HIDE DEF Ui, gross, protocol, X, source
  <2>5. dep \in Int
    BY <2>3
  <2>6. inLp \in Int
    BY <2>1, <2>5, BnDivInt DEF TsUnmintAmount
  <2> HIDE DEF dep, inLp
  <2>7. after \in Int
    <3>1. (inLp + q.lp[m]) * (Ui + dep) \in Int /\ vi.supply + inLp \in Int
      BY <2>1, <2>5, <2>6
    <3>. QED
      BY <3>1, BnDivInt DEF TsAmountByShare
  <2> HIDE DEF after
  <2>. QED
    BY <1>5, <2>2, <2>3, <2>4, <2>7
<1> HIDE DEF X, T, U, S, d, outLp, paid, source, ts
\* The curve
<1> DEFINE n == X + source
           k == X * T
<1>10. /\ n # 0 /\ BnDiv(k, n) # 0 /\ d # 0 /\ d = T - TsCeilDiv(k, n)
  BY <1>1 DEF TsComputeThrows, TsComputeOutAmount, d
<1>11. n \in Int /\ k \in Nat
  BY <1>5, <1>9
<1>12. T # 0 /\ U # 0
  <2>1. T # 0
    <3> SUFFICES ASSUME T = 0 PROVE FALSE
      OBVIOUS
    <3>1. k = 0
      BY <1>5
    <3>2. BnDiv(0, n) = 0
      <4>1. Magnitude(0) = 0 /\ Magnitude(n) \in Nat \ {0}
        BY <1>10, <1>11 DEF Magnitude
      <4>2. 0 \div Magnitude(n) = 0
        BY <4>1, DivBounds
      <4>. QED
        BY <4>1, <4>2 DEF BnDiv
    <3>. QED
      BY <1>10, <3>1, <3>2
  <2>. QED
    BY <1>5, <1>6, <1>8, <2>1
<1> HIDE DEF n, k
<1>13. TsCeilDiv(k, n) \in Int
  BY <1>10, <1>11, BnDivInt DEF TsCeilDiv
<1>14. d \in Int
  BY <1>5, <1>10, <1>13
<1>15. paid \in Int
  <2>1. outLp \in Int
    BY <1>6, <1>7, <1>12, <1>14, BnDivInt DEF TsUnmintAmount
  <2>. QED
    BY <1>6, <1>7, <2>1, BnDivInt DEF TsAmountByShare
<1>16. ASSUME source \in Nat
       PROVE  paid >= 0
  <2>1. n \in Nat \ {0} /\ X <= n
    BY <1>5, <1>10, <1>16 DEF n
  <2>2. k <= T * n
    <3>1. X * T <= n * T
      BY <1>5, <2>1, MulMono
    <3>. QED
      BY <1>5, <2>1, <3>1 DEF k
  <2>3. d = T - CeilDiv(k, n)
    BY <1>10, <1>11, <2>1, CeilSame
  <2>4. k + n - 1 \in Nat /\ k + n - 1 < (T + 1) * n
    BY <1>5, <1>11, <2>1, <2>2
  <2>5. CeilDiv(k, n) \in Nat /\ n * CeilDiv(k, n) <= k + n - 1
    BY <2>1, <2>4, DivBounds DEF CeilDiv
  <2>6. CeilDiv(k, n) < T + 1
    <3>1. CeilDiv(k, n) * n < (T + 1) * n
      BY <1>5, <1>11, <2>1, <2>4, <2>5
    <3>. QED
      BY <1>5, <2>1, <2>5, <3>1, MulCancel
  <2>7. d \in Nat
    BY <1>5, <2>3, <2>5, <2>6
  <2>8. outLp \in Nat
    <3>1. d * S \in Nat
      BY <1>6, <2>7
    <3>2. outLp = (d * S) \div U
      BY ONLY <1>6, <1>7, <1>12, <2>7, TsUnmintValue
    <3>. QED
      BY <1>6, <1>12, <3>1, <3>2, DivBounds
  <2>9. outLp * U \in Nat
    BY <1>6, <2>8
  <2>10. paid = (outLp * U) \div S
    BY ONLY <1>6, <1>7, <2>8, TsShareValue
  <2>11. paid \in Nat
    BY <1>6, <2>9, <2>10, DivBounds
  <2>. QED
    BY <2>11
<1>17. paid < vo.reserve /\ paid < T
  BY <1>1, <1>5, <1>6, <1>15 DEF CalculateMaxSwapOutAmount
<1>. QED
  BY <1>1, <1>5, <1>16, <1>17 DEF source, ts

\* On every state of a pool, what calculateSwapQuote returns is less than the reserve
\* that pays it and than what the pool owns, and it is not negative where the fee
\* leaves something of the deposit.
THEOREM QuotesPayableAlways == Spec => []QuotesPayable
<1>1. IInv => QuotesPayable
  <2> SUFFICES ASSUME IInv, NEW m \in Mints, NEW a \in SwapAmounts, NEW i \in Initiators,
                      CalculateSwapQuote(Snapshot, m, a, i).ok
               PROVE  LET ts == CalculateSwapQuote(Snapshot, m, a, i)
                      IN  /\ SourceAmountWithFee(Snapshot, m, a) \in Nat => ts.outAmount >= 0
                          /\ ts.outAmount < vault[Other(m)].reserve
                          /\ ts.outAmount < Owned(Other(m))
    BY DEF QuotesPayable
  <2>1. AccountsOK(Snapshot) /\ Snapshot.vault = vault
    BY IInvAccounts DEF Snapshot
  <2>2. a \in Int
    BY PoolConstants, VaultConstants DEF U64
  <2>. QED
    BY <2>1, <2>2, QuoteCovered DEF Owned
<1>2. Spec => []IInv
  BY Invariant
<1>. QED
  BY <1>1, <1>2, PTL

-----------------------------------------------------------------------------
(* The deposit and withdraw quotes                                         *)

\* A quotient by d rounded to the nearest is no less than that of a smaller dividend
\* rounded down.
LEMMA RoundedUp ==
    ASSUME NEW x \in Nat, NEW y \in Nat, NEW d \in Nat \ {0}, x <= y
    PROVE  BnDiv(x, d) \in Nat /\ DivRound(y, d) \in Nat /\ BnDiv(x, d) <= DivRound(y, d)
<1> DEFINE f == x \div d
<1>1. BnDiv(x, d) = f
  BY BnDivNat
<1>2. f \in Nat /\ d * f <= x
  BY DivBounds
<1>3. 2 * y + d \in Nat /\ 2 * d \in Nat \ {0}
  OBVIOUS
<1>4. DivRound(y, d) \in Nat
  BY <1>3, DivBounds DEF DivRound
<1> HIDE DEF f
<1>5. f * (2 * d) = 2 * (d * f)
  BY <1>2
<1>6. f * (2 * d) <= 2 * y + d
  BY <1>2, <1>5
<1>7. f <= DivRound(y, d)
  BY <1>2, <1>3, <1>6, DivGe DEF DivRound
<1>. QED
  BY <1>1, <1>2, <1>4, <1>7

\* n d-ths of an amount, rounded down
LEMMA Scaled ==
    ASSUME NEW amount \in Nat, NEW n \in Nat, NEW d \in Nat \ {0}
    PROVE  /\ BnDiv(amount * n, d) \in Nat
           /\ n <= d => BnDiv(amount * n, d) <= amount
           /\ d <= n => amount <= BnDiv(amount * n, d)
<1>1. amount * n \in Nat
  OBVIOUS
<1>2. BnDiv(amount * n, d) = (amount * n) \div d
  BY <1>1, BnDivNat
<1>3. n <= d => amount * n <= amount * d
  OBVIOUS
<1>4. d <= n => amount * d <= amount * n
  OBVIOUS
<1>5. BnDiv(amount * n, d) \in Nat
  BY <1>1, <1>2, DivBounds
<1>6. n <= d => BnDiv(amount * n, d) <= amount
  BY <1>1, <1>2, <1>3, DivLe
<1>7. d <= n => amount <= BnDiv(amount * n, d)
  BY <1>1, <1>2, <1>4, DivGe
<1>. QED
  BY <1>5, <1>6, <1>7

\* A slippage lowers a minimum and raises a maximum.
LEMMA SlippageFacts ==
    ASSUME NEW amount \in Nat, NEW bps \in Rates
    PROVE  /\ GetMinAmountWithSlippage(amount, bps) \in Nat
           /\ GetMinAmountWithSlippage(amount, bps) <= amount
           /\ GetMaxAmountWithSlippage(amount, bps) \in Nat
           /\ amount <= GetMaxAmountWithSlippage(amount, bps)
<1> DEFINE D == 10000
           less == D - bps
           more == D + bps
<1>1. D \in Nat \ {0} /\ bps \in Nat /\ bps <= D
  BY DEF Rates
<1> HIDE DEF D
<1>2. less \in Nat /\ more \in Nat /\ less <= D /\ D <= more
  BY <1>1
<1>3. /\ GetMinAmountWithSlippage(amount, bps) = BnDiv(amount * less, D)
      /\ GetMaxAmountWithSlippage(amount, bps) = BnDiv(amount * more, D)
  BY DEF D, GetMinAmountWithSlippage, GetMaxAmountWithSlippage
<1> HIDE DEF less, more
<1>4. BnDiv(amount * less, D) \in Nat /\ BnDiv(amount * less, D) <= amount
  BY <1>1, <1>2, Scaled
<1>5. BnDiv(amount * more, D) \in Nat /\ amount <= BnDiv(amount * more, D)
  BY <1>1, <1>2, Scaled
<1>. QED
  BY <1>3, <1>4, <1>5

\* The withdrawal of less LP than were minted: what each token pays is bounded by the
\* exact share, and by the amount that computeActualInAmount rounds to the nearest.
LEMMA WithdrawBounds ==
    ASSUME NEW lpIn \in Nat, NEW minted \in Nat, lpIn <= minted, NEW supply \in Nat \ {0},
           NEW L \in Nat, NEW U \in Nat, NEW V \in Nat \ {0}
    PROVE  LET out  == AmountByShare(ShareByAmount(lpIn, supply, L), U, V)
               cost == AmountByShareUp(ShareByAmountUp(minted, supply, L), U, V)
           IN  /\ out \in Nat /\ cost \in Nat /\ out <= cost
               /\ (out * V) * supply <= lpIn * (L * U)
<1> DEFINE burn == BnDiv(lpIn * L, supply)
           up   == DivRound(minted * L, supply)
           out  == BnDiv(burn * U, V)
           cost == DivRound(up * U, V)
<1>1. /\ AmountByShare(ShareByAmount(lpIn, supply, L), U, V) = out
      /\ AmountByShareUp(ShareByAmountUp(minted, supply, L), U, V) = cost
  BY DEF AmountByShare, AmountByShareUp, ShareByAmount, ShareByAmountUp
<1>2. lpIn * L \in Nat /\ minted * L \in Nat /\ lpIn * L <= minted * L
  BY MulMono
<1>3. burn \in Nat /\ up \in Nat /\ burn <= up
  BY <1>2, RoundedUp
<1>4. burn * supply <= lpIn * L
  <2>1. burn = (lpIn * L) \div supply
    BY <1>2, BnDivNat
  <2>2. supply * ((lpIn * L) \div supply) <= lpIn * L
    BY <1>2, DivBounds
  <2>. QED
    BY <1>3, <2>1, <2>2
<1> HIDE DEF burn, up
<1>5. burn * U \in Nat /\ up * U \in Nat /\ burn * U <= up * U
  BY <1>3, MulMono
<1>6. out \in Nat /\ cost \in Nat /\ out <= cost
  BY <1>5, RoundedUp
<1>7. out * V <= burn * U
  <2>1. out = (burn * U) \div V
    BY <1>5, BnDivNat
  <2>2. V * ((burn * U) \div V) <= burn * U
    BY <1>5, DivBounds
  <2>. QED
    BY <1>6, <2>1, <2>2
<1> HIDE DEF out, cost
<1>8. (out * V) * supply <= (burn * U) * supply
  BY <1>5, <1>6, <1>7, MulMono
<1>9. (burn * U) * supply = (burn * supply) * U
  BY <1>3
<1>10. (burn * supply) * U <= (lpIn * L) * U
  <2>1. burn * supply \in Nat
    BY <1>3
  <2>. QED
    BY <1>2, <1>4, <2>1, MulMono
<1>11. (lpIn * L) * U = lpIn * (L * U)
  OBVIOUS
<1>12. (out * V) * supply <= lpIn * (L * U)
  <2>1. (out * V) * supply \in Nat /\ (burn * U) * supply \in Nat /\ lpIn * (L * U) \in Nat
    BY <1>3, <1>6
  <2>. QED
    BY <1>8, <1>9, <1>10, <1>11, <2>1
<1>. QED
  BY <1>1, <1>6, <1>12

\* Multiplying by a positive number is strictly monotone.
LEMMA MulStrict ==
    ASSUME NEW a \in Nat, NEW b \in Nat, NEW c \in Nat \ {0}, a < b
    PROVE  a * c < b * c
  OBVIOUS

\* A share of a stable pool for x tokens, T of which it owns, pays at most x tokens of
\* them, and of the other token, of which it owns R, at most the proportional amount
\* and one: the balances are the shares of the vaults rounded down.
LEMMA StableShare ==
    ASSUME NEW x \in Nat, NEW T \in Nat \ {0}, x <= T, NEW supply \in Nat \ {0},
           NEW lpIn \in Nat, lpIn * T <= x * supply,
           NEW L \in Nat, NEW U \in Nat, NEW V \in Nat \ {0},
           NEW out \in Nat, (out * V) * supply <= lpIn * (L * U)
    PROVE  LET R == (L * U) \div V
           IN  /\ x = 0 => out = 0
               /\ R = T => out <= x
               /\ out <= (x * R) \div T + 1
<1> DEFINE R == (L * U) \div V
           c == (x * R) \div T
<1>1. L * U \in Nat
  OBVIOUS
<1>2. R \in Nat /\ L * U < V * R + V
  BY <1>1, DivBounds
<1> HIDE DEF R
<1>3. x * R \in Nat
  BY <1>2
<1>4. c \in Nat /\ x * R < T * c + T
  BY <1>3, DivBounds
<1> HIDE DEF c
<1>5. CASE out = 0
  BY <1>2, <1>4, <1>5
<1>6. CASE out # 0
  <2>1. lpIn # 0
    <3> SUFFICES ASSUME lpIn = 0 PROVE FALSE
      OBVIOUS
    <3>1. out * V \in Nat \ {0}
      BY <1>6
    <3>2. (out * V) * supply \in Nat \ {0}
      BY <3>1
    <3>3. lpIn * (L * U) = 0
      BY <1>1
    <3>. QED
      BY <3>2, <3>3
  <2>2. (L * U) * lpIn < ((R + 1) * V) * lpIn
    <3>1. (R + 1) * V \in Nat /\ L * U < (R + 1) * V
      BY <1>1, <1>2
    <3>. QED
      BY <1>1, <2>1, <3>1, MulStrict
  <2>3. (out * supply) * V < (lpIn * (R + 1)) * V
    <3>1. (out * V) * supply = (out * supply) * V /\ lpIn * (L * U) = (L * U) * lpIn
      BY <1>1
    <3>2. ((R + 1) * V) * lpIn = (lpIn * (R + 1)) * V
      BY <1>2
    <3>3. /\ (out * supply) * V \in Nat /\ (L * U) * lpIn \in Nat
          /\ (lpIn * (R + 1)) * V \in Nat
      BY <1>1, <1>2
    <3>. QED
      BY <2>2, <3>1, <3>2, <3>3
  <2>4. out * supply \in Nat /\ lpIn * (R + 1) \in Nat /\ out * supply < lpIn * (R + 1)
    <3>1. out * supply \in Nat /\ lpIn * (R + 1) \in Nat
      BY <1>2
    <3>. QED
      BY <2>3, <3>1, MulCancel
  <2>5. (out * supply) * T < (lpIn * (R + 1)) * T
    BY <2>4, MulStrict
  <2>6. (lpIn * T) * (R + 1) <= (x * supply) * (R + 1)
    <3>1. lpIn * T \in Nat /\ x * supply \in Nat /\ R + 1 \in Nat
      BY <1>2
    <3>. QED
      BY <3>1, MulMono
  <2>7. (out * T) * supply < (x * (R + 1)) * supply
    <3>1. (out * supply) * T = (out * T) * supply
      OBVIOUS
    <3>2. (lpIn * (R + 1)) * T = (lpIn * T) * (R + 1)
      BY <1>2
    <3>3. (x * supply) * (R + 1) = (x * (R + 1)) * supply
      BY <1>2
    <3>4. /\ (out * T) * supply \in Nat /\ (lpIn * T) * (R + 1) \in Nat
          /\ (x * (R + 1)) * supply \in Nat
      BY <1>2
    <3>. QED
      BY <2>5, <2>6, <3>1, <3>2, <3>3, <3>4
  <2>8. out * T < x * (R + 1)
    <3>1. out * T \in Int /\ x * (R + 1) \in Int
      BY <1>2
    <3>. QED
      BY <2>7, <3>1, MulCancel
  <2>9. out * T < x * R + x
    <3>1. x * (R + 1) = x * R + x
      BY <1>2
    <3>. QED
      BY <2>8, <3>1
  <2>10. ASSUME R = T PROVE out <= x
    <3>1. out * T < (x + 1) * T
      <4>1. out * T < x * T + x
        BY <2>9, <2>10
      <4>2. (x + 1) * T = x * T + T /\ x * T \in Nat /\ out * T \in Nat
        OBVIOUS
      <4>. QED
        BY <4>1, <4>2
    <3>2. out < x + 1
      BY <3>1, MulCancel
    <3>. QED
      BY <3>2
  <2>11. out <= c + 1
    <3>1. out * T < (c + 2) * T
      <4>1. (c + 2) * T = T * c + T + T /\ T * c \in Nat /\ out * T \in Nat
        BY <1>4
      <4>. QED
        BY <1>3, <1>4, <2>9, <4>1
    <3>2. out < c + 2
      <4>1. c + 2 \in Int
        BY <1>4
      <4>. QED
        BY <3>1, <4>1, MulCancel
    <3>. QED
      BY <1>4, <3>2
  <2>12. x # 0
    <3> SUFFICES ASSUME x = 0 PROVE FALSE
      OBVIOUS
    <3>1. out * T \in Nat /\ x * (R + 1) = 0
      BY <1>2
    <3>. QED
      BY <2>8, <3>1
  <2>. QED
    BY <2>10, <2>11, <2>12 DEF R, c
<1>. QED
  BY <1>5, <1>6

\* What a vault that backs the pool's share gives the quotes.
LEMMA SideFacts ==
    ASSUME NEW q, AccountsOK(q), NEW t \in Tokens
    PROVE  /\ q.lp[t] \in Nat /\ q.vault[t].supply \in Nat \ {0} /\ Withdrawable(q, t) \in Nat
           /\ TokenAmount(q, t) = (q.lp[t] * Withdrawable(q, t)) \div q.vault[t].supply
           /\ TokenAmount(q, t) \in Nat
<1> DEFINE v == q.vault[t]
           now == q.clock.time
           U == GetUnlockedAmount(v, now)
<1>1. now \in U64 /\ VaultOK(v, now, q.lp[t])
  BY DEF AccountsOK, Accounts
<1>2. Withdrawable(q, t) = U
  BY <1>1, WithdrawableIsUnlocked DEF Withdrawable
<1> HIDE DEF U
<1>3. q.lp[t] \in Nat /\ v.supply \in Nat \ {0} /\ U \in Nat
  BY <1>1, UnlockedFacts, VaultConstants DEF VaultOK, Vault, U64, U
<1>4. TokenAmount(q, t) = (q.lp[t] * U) \div v.supply
  BY <1>2, <1>3, TsShareValue DEF TokenAmount
<1>5. q.lp[t] * U \in Nat
  BY <1>3
<1>. QED
  BY <1>2, <1>3, <1>4, <1>5, DivBounds

\* What getWithdrawQuote pays of a token for no more LP than were minted, on a pool
\* with LP: never more than the constant-product deposit costs, nor, for a share of x
\* tokens on a stable pool, than x and the proportional amount of the other token.
LEMMA PaidBack ==
    ASSUME NEW q, AccountsOK(q), NEW supply \in Nat \ {0}, NEW minted \in Nat,
           NEW lpIn \in Nat, lpIn <= minted, NEW s \in Rates, NEW u \in Tokens
    PROVE  LET back == GetWithdrawQuote(q, supply, lpIn, s)
           IN  /\ back.out[u] \in Nat /\ back.min[u] <= back.out[u]
               /\ ComputeActualInAmount(q, supply, minted, u) \in Nat
               /\ back.out[u] <= ComputeActualInAmount(q, supply, minted, u)
               /\ (back.out[u] * q.vault[u].supply) * supply <= lpIn * (q.lp[u] * Withdrawable(q, u))
<1> DEFINE L == q.lp[u]
           U == Withdrawable(q, u)
           V == q.vault[u].supply
           out == AmountByShare(ShareByAmount(lpIn, supply, L), U, V)
<1>1. GetWithdrawQuote(q, supply, lpIn, s).out[u] = out
  BY DEF GetWithdrawQuote
<1>2. GetWithdrawQuote(q, supply, lpIn, s).min[u] = GetMinAmountWithSlippage(out, s)
  BY DEF GetWithdrawQuote
<1>3. L \in Nat /\ U \in Nat /\ V \in Nat \ {0}
  BY SideFacts
<1>4. ComputeActualInAmount(q, supply, minted, u)
        = AmountByShareUp(ShareByAmountUp(minted, supply, L), U, V)
  BY DEF ComputeActualInAmount
<1> HIDE DEF L, U, V
<1>5. /\ out \in Nat /\ AmountByShareUp(ShareByAmountUp(minted, supply, L), U, V) \in Nat
      /\ out <= AmountByShareUp(ShareByAmountUp(minted, supply, L), U, V)
      /\ (out * V) * supply <= lpIn * (L * U)
  BY <1>3, WithdrawBounds
<1> HIDE DEF out
<1>6. GetMinAmountWithSlippage(out, s) <= out
  BY <1>5, SlippageFacts
<1>. QED
  BY <1>1, <1>2, <1>4, <1>5, <1>6 DEF L, U, V

\* The LP of a balanced deposit are a fraction of a share for the amount.
LEMMA MintedFacts ==
    ASSUME NEW x \in Nat, NEW T \in Nat, NEW supply \in Nat, NEW s \in Rates
    PROVE  LET lpOut == ShareByAmount(x, T, supply)
               less  == GetMinAmountWithSlippage(lpOut, UnlockAmountBuffer)
           IN  /\ lpOut \in Nat /\ less \in Nat /\ less <= lpOut
               /\ GetMinAmountWithSlippage(less, s) <= less
               /\ T # 0 => less * T <= x * supply
<1> DEFINE lpOut == ShareByAmount(x, T, supply)
           less  == GetMinAmountWithSlippage(lpOut, UnlockAmountBuffer)
<1>1. x * supply \in Nat
  OBVIOUS
<1>2. T # 0 => lpOut = (x * supply) \div T
  BY <1>1, BnDivNat DEF ShareByAmount
<1>3. lpOut \in Nat
  BY <1>1, <1>2, DivBounds DEF ShareByAmount
<1>4. T # 0 => T * ((x * supply) \div T) <= x * supply
  BY <1>1, DivBounds
<1>5. T # 0 => lpOut * T <= x * supply
  BY <1>2, <1>3, <1>4
<1> HIDE DEF lpOut
<1>6. UnlockAmountBuffer \in Rates
  BY DEF UnlockAmountBuffer, Rates
<1>7. less \in Nat /\ less <= lpOut
  BY <1>3, <1>6, SlippageFacts
<1> HIDE DEF less
<1>8. GetMinAmountWithSlippage(less, s) <= less
  BY <1>7, SlippageFacts
<1>9. less * T <= lpOut * T /\ less * T \in Nat /\ lpOut * T \in Nat
  BY <1>3, <1>7, MulMono
<1>. QED
  BY <1>1, <1>3, <1>5, <1>7, <1>8, <1>9 DEF lpOut, less

\* On a pool with LP, the LP of a balanced deposit are paid back at most at their cost.
LEMMA BalancedNoGain ==
    ASSUME NEW q, AccountsOK(q), NEW supply \in Nat \ {0}, NEW stable \in BOOLEAN,
           NEW w \in Tokens, NEW x \in Nat, NEW s \in Rates,
           BalancedDeposit(q, supply, stable, w, x, s).ok, stable => x <= TokenAmount(q, w)
    PROVE  LET in   == BalancedDeposit(q, supply, stable, w, x, s)
               back == GetWithdrawQuote(q, supply, in.lp, s)
           IN  /\ in.minLp <= in.lp
               /\ \A u \in Tokens :
                    /\ back.min[u] <= back.out[u]
                    /\ back.out[u] \in Nat /\ in.in[u] \in Nat
                    /\ back.out[u] <= in.in[u] + (IF stable /\ u # w /\ x # 0 THEN 1 ELSE 0)
<1> DEFINE T == TokenAmount(q, w)
           lpOut == ShareByAmount(x, T, supply)
           less == GetMinAmountWithSlippage(lpOut, UnlockAmountBuffer)
           in == BalancedDeposit(q, supply, stable, w, x, s)
           back == GetWithdrawQuote(q, supply, less, s)
           cost(u) == ComputeActualInAmount(q, supply, lpOut, u)
<1>1. ~(stable /\ T = 0)
  BY DEF BalancedDeposit, QuoteError
<1>2. in.lp = less /\ in.minLp = GetMinAmountWithSlippage(less, s)
  BY <1>1 DEF BalancedDeposit, Quoted
<1>3. ASSUME ~stable, NEW u \in Tokens
      PROVE  in.in[u] = GetMaxAmountWithSlippage(cost(u), s)
  BY <1>1, <1>3 DEF BalancedDeposit, Quoted, Tokens
<1>4. ASSUME stable
      PROVE  in.in[w] = x /\ in.in[Other(w)] = BnDiv(x * TokenAmount(q, Other(w)), T)
  BY <1>1, <1>4 DEF BalancedDeposit, Quoted, Tokens, Other
<1>5. T \in Nat
  BY SideFacts
<1> HIDE DEF T, in
<1>6. /\ lpOut \in Nat /\ less \in Nat /\ less <= lpOut
      /\ GetMinAmountWithSlippage(less, s) <= less
      /\ T # 0 => less * T <= x * supply
  <2>1. supply \in Nat
    OBVIOUS
  <2>. QED
    BY <1>5, <2>1, MintedFacts
<1> HIDE DEF lpOut, less, back
<1>7. ASSUME NEW u \in Tokens
      PROVE  /\ back.out[u] \in Nat /\ back.min[u] <= back.out[u]
             /\ cost(u) \in Nat /\ back.out[u] <= cost(u)
             /\ (back.out[u] * q.vault[u].supply) * supply <= less * (q.lp[u] * Withdrawable(q, u))
  BY <1>6, PaidBack DEF back
<1>8. ASSUME NEW u \in Tokens
      PROVE  /\ in.in[u] \in Nat
             /\ back.out[u] <= in.in[u] + (IF stable /\ u # w /\ x # 0 THEN 1 ELSE 0)
  <2>1. CASE ~stable
    <3>1. in.in[u] \in Nat /\ cost(u) <= in.in[u]
      <4> HIDE DEF cost
      <4>. QED
        BY <1>3, <1>7, <2>1, SlippageFacts
    <3>. QED
      BY <1>7, <2>1, <3>1
  <2>2. CASE stable
    <3> DEFINE L == q.lp[u]
               U == Withdrawable(q, u)
               V == q.vault[u].supply
               R == TokenAmount(q, u)
               out == back.out[u]
    <3>1. L \in Nat /\ U \in Nat /\ V \in Nat \ {0} /\ R = (L * U) \div V /\ R \in Nat
      BY SideFacts
    <3>2. out \in Nat /\ (out * V) * supply <= less * (L * U)
      BY <1>7
    <3>3. T \in Nat \ {0} /\ x <= T /\ less * T <= x * supply
      BY <1>1, <1>5, <1>6, <2>2 DEF T
    <3>4. CASE u = w
      <4>1. R = T
        BY <3>4 DEF T
      <4> HIDE DEF L, U, V, R, out
      <4>2. out <= x
        BY <1>6, <3>1, <3>2, <3>3, <4>1, StableShare
      <4>. QED
        BY <1>4, <2>2, <3>2, <3>4, <4>2 DEF out
    <3>5. CASE u # w
      <4>1. in.in[u] = BnDiv(x * R, T)
        <5>1. u = Other(w)
          BY <3>5 DEF Other, Tokens
        <5>. QED
          BY <1>4, <2>2, <5>1
      <4> HIDE DEF L, U, V, R, out
      <4>2. x * R \in Nat
        BY <3>1
      <4>3. in.in[u] = (x * R) \div T /\ in.in[u] \in Nat
        BY <3>3, <4>1, <4>2, BnDivNat, DivBounds
      <4>4. (x = 0 => out = 0) /\ out <= (x * R) \div T + 1
        BY <1>6, <3>1, <3>2, <3>3, StableShare
      <4>. QED
        BY <2>2, <3>2, <3>5, <4>3, <4>4 DEF out
    <3>. QED
      BY <3>4, <3>5
  <2>. QED
    BY <2>1, <2>2
<1>. QED
  BY <1>2, <1>6, <1>7, <1>8 DEF back, in

\* On a pool without LP the first deposit is paid back with nothing: the withdrawal
\* divides by the supply, and is quoted at zero.
LEMMA FirstNoGain ==
    ASSUME NEW q, AccountsOK(q), NEW stable \in BOOLEAN, NEW a \in Nat, NEW b \in Nat,
           a = 0 \/ b = 0, NEW s \in Rates, FirstDeposit(stable, a, b).ok
    PROVE  LET in   == FirstDeposit(stable, a, b)
               back == GetWithdrawQuote(q, 0, in.lp, s)
           IN  /\ in.minLp <= in.lp
               /\ \A u \in Tokens : /\ back.min[u] <= back.out[u]
                                    /\ back.out[u] \in Nat /\ in.in[u] \in Nat
                                    /\ back.out[u] <= in.in[u]
<1> DEFINE d == IF stable THEN Curve!PoolD(a, b) ELSE ConstantProductD(a, b)
           in == FirstDeposit(stable, a, b)
           back == GetWithdrawQuote(q, 0, in.lp, s)
<1>1. ~(stable /\ (a = 0) # (b = 0))
  BY DEF FirstDeposit, QuoteError
<1>2. in = Quoted(d, d, a, b)
  BY <1>1 DEF FirstDeposit
<1>3. d \in Int
  <2>1. CASE stable
    <3>1. a = 0 /\ b = 0
      BY <1>1, <2>1
    <3>. QED
      BY <2>1, <3>1 DEF Curve!PoolD, Curve!ComputeD, Curve!UpscaleTokenA, Curve!UpscaleTokenB
  <2>2. CASE ~stable
    <3>1. a * b = 0 /\ 0 \in 0..(a + b)
      OBVIOUS
    <3>2. \E r \in 0..(a + b) : r * r <= a * b /\ (r + 1) * (r + 1) > a * b
      BY <3>1
    <3>3. ConstantProductD(a, b) \in 0..(a + b)
      BY <3>2 DEF ConstantProductD
    <3>. QED
      BY <2>2, <3>3
  <2>. QED
    BY <2>1, <2>2
<1> HIDE DEF d
<1>4. in.lp = d /\ in.minLp = d /\ in.in = [A |-> a, B |-> b]
  BY <1>2 DEF Quoted
<1> HIDE DEF in
<1>5. ASSUME NEW u \in Tokens
      PROVE  back.out[u] = 0 /\ back.min[u] <= 0 /\ in.in[u] \in Nat
  <2>1. q.vault[u].supply \in Nat \ {0} /\ Withdrawable(q, u) \in Nat
    BY SideFacts
  <2>2. BnDiv(0, q.vault[u].supply) = 0 /\ 0 * Withdrawable(q, u) = 0
    <3>1. 0 \div q.vault[u].supply = 0
      BY <2>1
    <3>. QED
      BY <2>1, <3>1, BnDivNat
  <2>3. back.out[u] = 0
    BY <2>1, <2>2 DEF GetWithdrawQuote, AmountByShare, ShareByAmount
  <2>4. back.min[u] = GetMinAmountWithSlippage(back.out[u], s)
    BY DEF GetWithdrawQuote
  <2>5. GetMinAmountWithSlippage(0, s) <= 0
    BY SlippageFacts
  <2>6. in.in[u] \in Nat
    BY <1>4 DEF Tokens
  <2>. QED
    BY <2>3, <2>4, <2>5, <2>6
<1>. QED
  BY <1>3, <1>4, <1>5 DEF in

\* On every state of a pool, whatever its vaults and history, the LP that a balanced
\* getDepositQuote promises are quoted by getWithdrawQuote at no more than their quoted
\* cost, within one token of the other side on a stable pool.
THEOREM RoundTripNoGainAlways == Spec => []RoundTripNoGain
<1>1. IInv => RoundTripNoGain
  <2> SUFFICES ASSUME IInv, NEW supply \in LpSupplies, NEW stable \in BOOLEAN, NEW x \in InAmounts,
                      NEW s \in Slippages, NEW t \in Tokens
               PROVE  LET in  == GetDepositQuote(Snapshot, supply, stable, IF t = "A" THEN x ELSE 0,
                                                 IF t = "B" THEN x ELSE 0, TRUE, s)
                          out == GetWithdrawQuote(Snapshot, supply, in.lp, s)
                      IN  in.ok /\ (stable => x <= TokenAmount(Snapshot, t)) =>
                            /\ in.minLp <= in.lp
                            /\ \A u \in Tokens :
                                 /\ out.min[u] <= out.out[u]
                                 /\ out.out[u] <= in.in[u] + (IF stable /\ u # t THEN 1 ELSE 0)
    BY DEF RoundTripNoGain
  <2> DEFINE q == Snapshot
             a == IF t = "A" THEN x ELSE 0
             b == IF t = "B" THEN x ELSE 0
             in == GetDepositQuote(q, supply, stable, a, b, TRUE, s)
             out == GetWithdrawQuote(q, supply, in.lp, s)
  <2>1. AccountsOK(q)
    BY IInvAccounts
  <2>2. supply \in Nat /\ x \in Nat /\ s \in Rates
    BY LiquidityConstants
  <2>3. a \in Nat /\ b \in Nat /\ (a = 0 \/ b = 0)
    BY <2>2
  <2> SUFFICES ASSUME in.ok, stable => x <= TokenAmount(q, t)
               PROVE  /\ in.minLp <= in.lp
                      /\ \A u \in Tokens :
                           /\ out.min[u] <= out.out[u]
                           /\ out.out[u] <= in.in[u] + (IF stable /\ u # t THEN 1 ELSE 0)
    OBVIOUS
  <2>4. /\ supply = 0 => in = FirstDeposit(stable, a, b)
        /\ supply # 0 /\ a = 0 => in = BalancedDeposit(q, supply, stable, "B", b, s)
        /\ supply # 0 /\ a # 0 => in = BalancedDeposit(q, supply, stable, "A", a, s)
    <3> HIDE DEF q, a, b
    <3>1. a = 0 \/ b = 0
      BY <2>3
    <3>2. CASE supply = 0
      BY <3>1, <3>2 DEF GetDepositQuote
    <3>3. CASE supply # 0
      BY <3>1, <3>3 DEF GetDepositQuote
    <3>. QED
      BY <3>2, <3>3
  <2>5. CASE supply = 0
    <3>1. in = FirstDeposit(stable, a, b)
      BY <2>4, <2>5
    <3> HIDE DEF q, a, b, in
    <3>2. out = GetWithdrawQuote(q, 0, in.lp, s)
      BY <2>5
    <3>3. /\ in.minLp <= in.lp
          /\ \A u \in Tokens : /\ out.min[u] <= out.out[u]
                               /\ out.out[u] \in Nat /\ in.in[u] \in Nat /\ out.out[u] <= in.in[u]
      BY <2>1, <2>2, <2>3, <3>1, <3>2, FirstNoGain
    <3> HIDE DEF out
    <3>. QED
      BY <3>3
  <2>6. CASE supply # 0
    <3> DEFINE w == IF a = 0 THEN "B" ELSE "A"
    <3>1. in = BalancedDeposit(q, supply, stable, w, x, s) /\ w \in Tokens /\ (x # 0 => w = t)
      BY <2>2, <2>4, <2>6 DEF Tokens
    <3>2. TokenAmount(q, w) \in Nat
      BY <2>1, <3>1, SideFacts
    <3>3. stable => x <= TokenAmount(q, w)
      BY <2>2, <3>1, <3>2
    <3> HIDE DEF q, in, w
    <3>4. supply \in Nat \ {0}
      BY <2>2, <2>6
    <3>5. /\ in.minLp <= in.lp
          /\ \A u \in Tokens :
               /\ out.min[u] <= out.out[u]
               /\ out.out[u] \in Nat /\ in.in[u] \in Nat
               /\ out.out[u] <= in.in[u] + (IF stable /\ u # w /\ x # 0 THEN 1 ELSE 0)
      BY <2>1, <2>2, <3>1, <3>3, <3>4, BalancedNoGain
    <3> HIDE DEF out
    <3>. QED
      BY <3>1, <3>5
  <2>. QED
    BY <2>5, <2>6
<1>2. Spec => []IInv
  BY Invariant
<1>. QED
  BY <1>1, <1>2, PTL

=============================================================================
