------------------------ MODULE PoolCreationProofs ---------------------------
(***************************************************************************)
(* Proofs about PoolCreation, for any creators, pairs, amounts and number  *)
(* of calls.                                                               *)
(*                                                                         *)
(* A pool's address does not depend on the order of its mints (PoolOfPair) *)
(* and is what the instruction that makes the pool creates (TxsFit, from   *)
(* the parts of each function's transactions).  Whatever instructions run, *)
(* what exists stays, and a transaction that makes a pool fails when it    *)
(* exists (RunMakes, by induction along the transaction).  The invariant   *)
(* Inv ties the pools that calls have made to the chain.                   *)
(*                                                                         *)
(* What is spent and where the LP is follow from what each instruction     *)
(* moves, each kind of transaction (MakeTx, FeeTx, FirstSwapTx, PrepsSame) *)
(* and each call (Shape, NextTx).  The invariant Money ties how far a call *)
(* has got to both.                                                        *)
(***************************************************************************)
EXTENDS PoolCreation, SequenceTheorems, FiniteSetTheorems, WellFoundedInduction, TLAPS

-----------------------------------------------------------------------------
(* Addresses                                                               *)

\* The keys of two different mints compare one way only.
LEMMA KeysOrdered ==
    ASSUME NEW x \in Mints, NEW y \in Mints
    PROVE  GetFirstKey(x, y) = GetFirstKey(y, x) /\ GetSecondKey(x, y) = GetSecondKey(y, x)
<1>1. CASE x = y
  BY <1>1
<1>2. CASE x # y
  <2>1. /\ Len(KeyOrder) \in Nat /\ DOMAIN KeyOrder = 1..Len(KeyOrder)
        /\ \A i, j \in DOMAIN KeyOrder : KeyOrder[i] = KeyOrder[j] => i = j
    BY CreationKeys DEF IsInjective
  <2>2. PICK i \in DOMAIN KeyOrder : KeyOrder[i] = x
    BY CreationKeys DEF ToSet
  <2>3. PICK j \in DOMAIN KeyOrder : KeyOrder[j] = y
    BY CreationKeys DEF ToSet
  <2>4. i \in Int /\ j \in Int /\ i # j
    BY <1>2, <2>1, <2>2, <2>3
  <2>5. Above(x, y) <=> i > j
    BY <2>1, <2>2, <2>3 DEF Above
  <2>6. Above(y, x) <=> j > i
    BY <2>1, <2>2, <2>3 DEF Above
  <2>7. Above(x, y) <=> ~Above(y, x)
    BY <2>4, <2>5, <2>6
  <2>. QED
    BY <2>7 DEF GetFirstKey, GetSecondKey
<1>. QED
  BY <1>1, <1>2

\* Calls for the same two mints, in either order, with a config or in the same way,
\* are calls for one address.
LEMMA PoolOfPair ==
    ASSUME NEW k, NEW l, {k.a, k.b, l.a, l.b} \subseteq Mints, {k.a, k.b} = {l.a, l.b},
           \/ k.flow = l.flow
           \/ {k.flow, l.flow} \subseteq {"config", "config2", "memecoin"}
    PROVE  PoolOf(k) = PoolOf(l)
<1>1. /\ GetFirstKey(k.a, k.b) = GetFirstKey(l.a, l.b)
      /\ GetSecondKey(k.a, k.b) = GetSecondKey(l.a, l.b)
  <2>1. CASE k.a = l.a /\ k.b = l.b
    BY <2>1
  <2>2. CASE k.a = l.b /\ k.b = l.a
    BY <2>2, KeysOrdered
  <2>. QED
    BY <2>1, <2>2
<1>2. /\ DeriveCustomizablePoolAddress(k.a, k.b) = DeriveCustomizablePoolAddress(l.a, l.b)
      /\ DerivePoolAddressWithConfig(k.a, k.b, Config) = DerivePoolAddressWithConfig(l.a, l.b, Config)
      /\ DerivePoolAddress(k.a, k.b, FALSE, ConstantProductDefaultFeeBps)
           = DerivePoolAddress(l.a, l.b, FALSE, ConstantProductDefaultFeeBps)
  BY <1>1 DEF DeriveCustomizablePoolAddress, DerivePoolAddressWithConfig, DerivePoolAddress
<1>3. CASE k.flow = l.flow
  BY <1>2, <1>3 DEF PoolOf
<1>4. CASE {k.flow, l.flow} \subseteq {"config", "config2", "memecoin"}
  <2>1. k.flow \notin {"customizable", "feeTier"} /\ l.flow \notin {"customizable", "feeTier"}
    BY <1>4
  <2>. QED
    BY <1>2, <2>1 DEF PoolOf
<1>. QED
  BY <1>3, <1>4

-----------------------------------------------------------------------------
(* Instructions                                                            *)

\* What a proof needs to know of a state of the chain during a transaction.
State(s) == {"bal", "made", "sol", "res", "draw"} \subseteq DOMAIN s

\* Nothing that was made is gone, and a failure stays one.  No failure looks like a
\* call that has not started or one that is done.
Grows(s, t) ==
    /\ State(t) /\ s.made \subseteq t.made /\ t.draw = s.draw
    /\ t.res = "ok" => s.res = "ok"
    /\ t.res \in {"unused", "done"} => s.res = t.res

LEMMA GrowsTrans ==
    ASSUME NEW s, NEW t, NEW u, Grows(s, t), Grows(t, u)
    PROVE  Grows(s, u)
BY DEF Grows

LEMMA FailGrows ==
    ASSUME NEW s, State(s), NEW why, why \notin {"ok", "unused", "done"}
    PROVE  Grows(s, Fail(s, why)) /\ Fail(s, why).res # "ok"
BY DEF Grows, State, Fail

LEMMA CheckGrows ==
    ASSUME NEW s, State(s), NEW holds, NEW why, why \notin {"ok", "unused", "done"}
    PROVE  LET t == Check(s, holds, why)
           IN  Grows(s, t) /\ (t.res = "ok" => holds /\ t = s)
<1>1. Grows(s, s)
  BY DEF Grows
<1>. QED
  BY <1>1, FailGrows DEF Check

\* A state with other balances or lamports.
LEMMA SameMade ==
    ASSUME NEW s, State(s), NEW bal
    PROVE  Grows(s, [s EXCEPT !.bal = bal])
BY DEF Grows, State

LEMMA MoveGrows ==
    ASSUME NEW s, State(s), NEW from, NEW to, NEW amount
    PROVE  Grows(s, Move(s, from, to, amount))
<1> DEFINE taken == [s.bal EXCEPT ![from] = @ - amount]
           paid == [taken EXCEPT ![to] = @ + amount]
<1>1. \/ Move(s, from, to, amount) \in {Fail(s, "missing"), Fail(s, "funds")}
      \/ Move(s, from, to, amount) = [s EXCEPT !.bal = paid]
  BY DEF Move
<1> HIDE DEF paid
<1>. QED
  BY <1>1, FailGrows, SameMade

LEMMA MintGrows ==
    ASSUME NEW s, State(s), NEW to, NEW amount
    PROVE  Grows(s, Mint(s, to, amount))
<1> DEFINE bal == [s.bal EXCEPT ![to] = @ + amount]
<1>1. Mint(s, to, amount) = Fail(s, "missing") \/ Mint(s, to, amount) = [s EXCEPT !.bal = bal]
  BY DEF Mint, State
<1> HIDE DEF bal
<1>. QED
  BY <1>1, FailGrows, SameMade

LEMMA BurnGrows ==
    ASSUME NEW s, State(s), NEW from, NEW amount
    PROVE  Grows(s, Burn(s, from, amount))
<1> DEFINE bal == [s.bal EXCEPT ![from] = @ - amount]
<1>1. \/ Burn(s, from, amount) \in {Fail(s, "missing"), Fail(s, "funds")}
      \/ Burn(s, from, amount) = [s EXCEPT !.bal = bal]
  BY DEF Burn, State
<1> HIDE DEF bal
<1>. QED
  BY <1>1, FailGrows, SameMade

LEMMA OpenGrows ==
    ASSUME NEW s, State(s), NEW account
    PROVE  Grows(s, Open(s, account))
<1> DEFINE bal == [a \in {account} |-> 0] ++ s.bal
<1>1. Open(s, account) = Fail(s, "exists") \/ Open(s, account) = [s EXCEPT !.bal = bal]
  BY DEF Open, State
<1> HIDE DEF bal
<1>. QED
  BY <1>1, FailGrows, SameMade

\* An account is made once.
LEMMA MakeGrows ==
    ASSUME NEW s, State(s), NEW account
    PROVE  LET t == Make(s, account)
           IN  Grows(s, t) /\ (t.res = "ok" => account \notin s.made /\ account \in t.made)
<1>1. CASE account \in s.made
  <2>1. Make(s, account) = Fail(s, "exists")
    BY <1>1 DEF Make
  <2>2. Fail(s, "exists").res # "ok"
    BY DEF Fail, State
  <2>. QED
    BY <2>1, <2>2, FailGrows
<1>2. CASE account \notin s.made
  <2>1. Make(s, account) = [s EXCEPT !.made = @ \cup {account}]
    BY <1>2 DEF Make
  <2>. QED
    BY <1>2, <2>1 DEF Grows, State
<1>. QED
  BY <1>1, <1>2

LEMMA WrapGrows ==
    ASSUME NEW s, State(s), NEW from, NEW to, NEW amount
    PROVE  Grows(s, Wrap(s, from, to, amount))
<1> DEFINE m == Mint(s, to, amount)
           sol == [m.sol EXCEPT ![from] = @ - amount]
<1>1. Wrap(s, from, to, amount) = Fail(s, "funds") \/ Wrap(s, from, to, amount) = [m EXCEPT !.sol = sol]
  <2>1. State(m)
    BY MintGrows DEF Grows
  <2>. QED
    BY <2>1 DEF Wrap, State
<1>2. Grows(s, m)
  BY MintGrows
<1> HIDE DEF sol, m
<1>3. Grows(m, [m EXCEPT !.sol = sol])
  BY <1>2 DEF Grows, State
<1>. QED
  BY <1>1, <1>2, <1>3, FailGrows, GrowsTrans

LEMMA CloseGrows ==
    ASSUME NEW s, State(s), NEW account, NEW receiver
    PROVE  Grows(s, Close(s, account, receiver))
<1> DEFINE bal == Restrict(s.bal, DOMAIN s.bal \ {account})
           sol == [s.sol EXCEPT ![receiver] = @ + s.bal[account]]
<1>1. \/ Close(s, account, receiver) \in {Fail(s, "missing"), Fail(s, "notEmpty")}
      \/ Close(s, account, receiver) = [s EXCEPT !.bal = bal, !.sol = sol]
  BY DEF Close, State
<1> HIDE DEF bal, sol
<1>2. Grows(s, [s EXCEPT !.bal = bal, !.sol = sol])
  BY DEF Grows, State
<1>. QED
  BY <1>1, <1>2, FailGrows

-----------------------------------------------------------------------------
(* The AMM program                                                         *)

\* Instructions that move tokens make nothing and undo nothing.
LEMMA TwoMoves ==
    ASSUME NEW s, State(s), NEW f1, NEW t1, NEW a1, NEW f2, NEW t2, NEW a2
    PROVE  Grows(s, Move(Move(s, f1, t1, a1), f2, t2, a2))
<1>1. Grows(s, Move(s, f1, t1, a1)) /\ State(Move(s, f1, t1, a1))
  BY MoveGrows DEF Grows
<1>. QED
  BY <1>1, MoveGrows, GrowsTrans

LEMMA SwapGrows ==
    ASSUME NEW s, State(s), NEW ix
    PROVE  Grows(s, Swap(s, ix))
<1> DEFINE a == ix.acc
           in == MintOf(a.userSourceToken)
           out == MintOf(a.userDestinationToken)
           c1 == Check(s, a.pool \in s.made, "missing")
           c2 == Check(c1, NamesVaults(a, {in, out})
                             /\ a.protocolTokenFee = DeriveProtocolTokenFee(a.pool, in), "constraint")
           ok == Check(c2, s.draw[1] >= ix.min, "slippage")
<1>1. Swap(s, ix) = Move(Move(ok, a.userSourceToken, TokenVault(in), ix.amount),
                         TokenVault(out), a.userDestinationToken, s.draw[1])
  BY DEF Swap
<1>2. Grows(s, c1) /\ State(c1)
  BY CheckGrows DEF Grows
<1> HIDE DEF c1
<1>3. Grows(c1, c2) /\ State(c2)
  BY <1>2, CheckGrows DEF Grows
<1> HIDE DEF c2
<1>4. Grows(c2, ok) /\ State(ok)
  BY <1>3, CheckGrows DEF Grows
<1> HIDE DEF ok
<1>5. Grows(ok, Swap(s, ix))
  BY <1>1, <1>4, TwoMoves
<1>. QED
  BY <1>2, <1>3, <1>4, <1>5, GrowsTrans

LEMMA AddLiquidityGrows ==
    ASSUME NEW s, State(s), NEW ix
    PROVE  Grows(s, AddLiquidity(s, ix))
<1> DEFINE a == ix.acc
           taken == IF ix.name = "addBalanceLiquidity" THEN s.draw ELSE <<ix.a, ix.b>>
           c1 == Check(s, a.pool \in s.made, "missing")
           ok == Check(c1, taken[1] <= ix.a /\ taken[2] <= ix.b, "slippage")
           moved == Move(Move(ok, a.userAToken, a.aTokenVault, taken[1]),
                         a.userBToken, a.bTokenVault, taken[2])
<1>1. AddLiquidity(s, ix) = Mint(moved, a.userPoolLp, ix.lp)
  BY DEF AddLiquidity
<1> HIDE DEF taken
<1>2. Grows(s, c1) /\ State(c1)
  BY CheckGrows DEF Grows
<1> HIDE DEF c1
<1>3. Grows(c1, ok) /\ State(ok)
  BY <1>2, CheckGrows DEF Grows
<1> HIDE DEF ok
<1>4. Grows(ok, moved) /\ State(moved)
  BY <1>3, TwoMoves DEF Grows
<1> HIDE DEF moved
<1>5. Grows(moved, AddLiquidity(s, ix))
  BY <1>1, <1>4, MintGrows
<1>. QED
  BY <1>2, <1>3, <1>4, <1>5, GrowsTrans

LEMMA RemoveBalancedGrows ==
    ASSUME NEW s, State(s), NEW ix
    PROVE  Grows(s, RemoveBalanced(s, ix))
<1> DEFINE a == ix.acc
           burnt == Burn(s, a.userPoolLp, ix.lp)
           ok == Check(burnt, s.draw[1] >= ix.minA /\ s.draw[2] >= ix.minB, "slippage")
<1>1. RemoveBalanced(s, ix) = Move(Move(ok, a.aTokenVault, a.userAToken, s.draw[1]),
                                   a.bTokenVault, a.userBToken, s.draw[2])
  BY DEF RemoveBalanced
<1>2. Grows(s, burnt) /\ State(burnt)
  BY BurnGrows DEF Grows
<1> HIDE DEF burnt
<1>3. Grows(burnt, ok) /\ State(ok)
  BY <1>2, CheckGrows DEF Grows
<1> HIDE DEF ok
<1>4. Grows(ok, RemoveBalanced(s, ix))
  BY <1>1, <1>3, TwoMoves
<1>. QED
  BY <1>2, <1>3, <1>4, GrowsTrans

LEMMA RemoveSingleSideGrows ==
    ASSUME NEW s, State(s), NEW ix
    PROVE  Grows(s, RemoveSingleSide(s, ix))
<1> DEFINE a == ix.acc
           burnt == Burn(s, a.userPoolLp, ix.lp)
           ok == Check(burnt, s.draw[1] >= ix.min, "slippage")
<1>1. RemoveSingleSide(s, ix)
        = Move(ok, TokenVault(MintOf(a.userDestinationToken)), a.userDestinationToken, s.draw[1])
  BY DEF RemoveSingleSide
<1>2. Grows(s, burnt) /\ State(burnt)
  BY BurnGrows DEF Grows
<1> HIDE DEF burnt
<1>3. Grows(burnt, ok) /\ State(ok)
  BY <1>2, CheckGrows DEF Grows
<1> HIDE DEF ok
<1>4. Grows(ok, RemoveSingleSide(s, ix))
  BY <1>1, <1>3, MoveGrows
<1>. QED
  BY <1>2, <1>3, <1>4, GrowsTrans

LEMMA ClaimFeeGrows ==
    ASSUME NEW s, State(s), NEW ix
    PROVE  Grows(s, ClaimFee(s, ix))
<1> DEFINE a == ix.acc
           ok == Check(s, a.lockEscrow \in s.made /\ {a.sourceTokens, a.escrowVault} \subseteq DOMAIN s.bal,
                       "missing")
<1>1. ClaimFee(s, ix) = Move(Move(ok, a.aTokenVault, a.userAToken, s.draw[1]),
                             a.bTokenVault, a.userBToken, s.draw[2])
  BY DEF ClaimFee
<1>2. Grows(s, ok) /\ State(ok)
  BY CheckGrows DEF Grows
<1> HIDE DEF ok
<1>3. Grows(ok, ClaimFee(s, ix))
  BY <1>1, <1>2, TwoMoves
<1>. QED
  BY <1>2, <1>3, GrowsTrans

LEMMA PartnerClaimGrows ==
    ASSUME NEW s, State(s), NEW ix
    PROVE  Grows(s, PartnerClaim(s, ix))
<1> DEFINE a == ix.acc
           forA == Min({ix.a, s.bal[a.protocolTokenAFee]})
           forB == Min({ix.b, s.bal[a.protocolTokenBFee]})
<1>1. PartnerClaim(s, ix) = Move(Move(s, a.protocolTokenAFee, a.partnerTokenA, forA),
                                 a.protocolTokenBFee, a.partnerTokenB, forB)
  BY DEF PartnerClaim
<1> HIDE DEF forA, forB
<1>. QED
  BY <1>1, TwoMoves

LEMMA LockGrows ==
    ASSUME NEW s, State(s), NEW ix
    PROVE  Grows(s, Lock(s, ix))
<1> DEFINE a == ix.acc
           c1 == Check(s, a.lockEscrow \in s.made, "missing")
           ok == Check(c1, a.sourceTokens \in DOMAIN s.bal, "missing")
           most == Min({ix.max, s.bal[a.sourceTokens]})
<1>1. Lock(s, ix) = IF ok.res = "ok" THEN Move(ok, a.sourceTokens, a.escrowVault, most) ELSE ok
  BY DEF Lock
<1> HIDE DEF most
<1>2. Grows(s, c1) /\ State(c1)
  BY CheckGrows DEF Grows
<1> HIDE DEF c1
<1>3. Grows(c1, ok) /\ State(ok)
  BY <1>2, CheckGrows DEF Grows
<1> HIDE DEF ok
<1>4. Grows(ok, ok) /\ Grows(ok, Move(ok, a.sourceTokens, a.escrowVault, most))
  BY <1>3, MoveGrows DEF Grows
<1>. QED
  BY <1>1, <1>2, <1>3, <1>4, GrowsTrans

LEMMA CreateLockEscrowGrows ==
    ASSUME NEW s, State(s), NEW ix
    PROVE  Grows(s, CreateLockEscrow(s, ix))
<1> DEFINE ok == Check(s, {ix.acc.pool, ix.acc.lpMint} \subseteq s.made, "missing")
<1>1. CreateLockEscrow(s, ix) = Make(ok, ix.acc.lockEscrow)
  BY DEF CreateLockEscrow
<1>2. Grows(s, ok) /\ State(ok)
  BY CheckGrows DEF Grows
<1> HIDE DEF ok
<1>. QED
  BY <1>1, <1>2, MakeGrows, GrowsTrans

\* The instruction that makes a pool fails when the pool exists.
LEMMA InitializePoolGrows ==
    ASSUME NEW s, State(s), NEW ix
    PROVE  LET t == InitializePool(s, ix)
           IN  Grows(s, t) /\ (t.res = "ok" => ix.acc.pool \notin s.made /\ ix.acc.pool \in t.made)
<1> DEFINE a == ix.acc
           c1 == Check(s, {a.aVault, a.bVault, a.tokenAMint, a.tokenBMint} \subseteq s.made, "missing")
           ok == Check(c1, "config" \in DOMAIN a => a.config \in s.made, "missing")
           paid == Move(Move(ok, a.payerTokenA, a.aTokenVault, ix.a), a.payerTokenB, a.bTokenVault, ix.b)
           pool == Make(paid, a.pool)
           lp == Make(pool, a.lpMint)
           opened == Open(lp, a.payerPoolLp)
           t == InitializePool(s, ix)
<1>1. t = Mint(opened, a.payerPoolLp, ix.lp)
  BY DEF InitializePool
<1>2. Grows(s, c1) /\ State(c1)
  BY CheckGrows DEF Grows
<1> HIDE DEF c1
<1>3. Grows(c1, ok) /\ State(ok)
  BY <1>2, CheckGrows DEF Grows
<1> HIDE DEF ok
<1>4. Grows(ok, paid) /\ State(paid)
  BY <1>3, TwoMoves DEF Grows
<1> HIDE DEF paid
<1>5. /\ Grows(paid, pool) /\ State(pool)
      /\ pool.res = "ok" => a.pool \notin paid.made /\ a.pool \in pool.made
  BY <1>4, MakeGrows DEF Grows
<1> HIDE DEF pool
<1>6. Grows(pool, lp) /\ State(lp)
  BY <1>5, MakeGrows DEF Grows
<1> HIDE DEF lp
<1>7. Grows(lp, opened) /\ State(opened)
  BY <1>6, OpenGrows DEF Grows
<1> HIDE DEF opened
<1>8. Grows(opened, t)
  BY <1>1, <1>7, MintGrows
<1> HIDE DEF t
<1>9. Grows(s, paid)
  BY <1>2, <1>3, <1>4, GrowsTrans
<1>10. Grows(pool, t)
  BY <1>6, <1>7, <1>8, GrowsTrans
<1>11. Grows(s, t)
  BY <1>5, <1>9, <1>10, GrowsTrans
<1>12. t.res = "ok" => a.pool \notin s.made /\ a.pool \in t.made
  BY <1>5, <1>9, <1>10 DEF Grows
<1>. QED
  BY <1>11, <1>12 DEF t

-----------------------------------------------------------------------------
(* Transactions                                                            *)

\* Whatever an instruction does, it makes more exist, and one that makes a pool
\* does not succeed on a chain that has it.
LEMMA ExecuteGrows ==
    ASSUME NEW s, State(s), NEW ix
    PROVE  LET t == Execute(s, ix)
           IN  /\ Grows(s, t)
               /\ ix.name \in PoolInstructions /\ t.res = "ok" =>
                    ix.acc.pool \notin s.made /\ ix.acc.pool \in t.made
<1>1. CASE s.res # "ok"
  BY <1>1 DEF Execute, Grows
<1>2. CASE s.res = "ok" /\ OfProgram(ix)
  <2> DEFINE t == Program(s, ix)
             holds == Changed(s, t) \subseteq {ix.acc[r] : r \in Idl[ix.name].writable}
  <2>1. Execute(s, ix) = Check(t, holds, "readonly")
    <3>1. ix.name \notin {"createAta", "wrap", "close", "createVault", "createMint",
                          "createMetadata", "mintTo", "createFeeVault"}
      BY <1>2 DEF OfProgram, Idl
    <3>. QED
      BY <1>2, <3>1 DEF Execute, RunProgram
  <2>2. /\ Grows(s, t)
        /\ ix.name \in PoolInstructions /\ t.res = "ok" =>
             ix.acc.pool \notin s.made /\ ix.acc.pool \in t.made
    <3>1. CASE ix.name = "swap"
      <4>1. t = Swap(s, ix)
        BY <3>1 DEF Program
      <4>. QED
        BY <3>1, <4>1, SwapGrows DEF PoolInstructions
    <3>2. CASE ix.name \in {"addBalanceLiquidity", "addImbalanceLiquidity", "bootstrapLiquidity"}
      <4>1. t = AddLiquidity(s, ix)
        BY <3>2 DEF Program
      <4>. QED
        BY <3>2, <4>1, AddLiquidityGrows DEF PoolInstructions
    <3>3. CASE ix.name = "removeBalanceLiquidity"
      <4>1. t = RemoveBalanced(s, ix)
        BY <3>3 DEF Program
      <4>. QED
        BY <3>3, <4>1, RemoveBalancedGrows DEF PoolInstructions
    <3>4. CASE ix.name = "removeLiquiditySingleSide"
      <4>1. t = RemoveSingleSide(s, ix)
        BY <3>4 DEF Program
      <4>. QED
        BY <3>4, <4>1, RemoveSingleSideGrows DEF PoolInstructions
    <3>5. CASE ix.name = "claimFee"
      <4>1. t = ClaimFee(s, ix)
        BY <3>5 DEF Program
      <4>. QED
        BY <3>5, <4>1, ClaimFeeGrows DEF PoolInstructions
    <3>6. CASE ix.name = "partnerClaimFee"
      <4>1. t = PartnerClaim(s, ix)
        BY <3>6 DEF Program
      <4>. QED
        BY <3>6, <4>1, PartnerClaimGrows DEF PoolInstructions
    <3>7. CASE ix.name = "createLockEscrow"
      <4>1. t = CreateLockEscrow(s, ix)
        BY <3>7 DEF Program
      <4>. QED
        BY <3>7, <4>1, CreateLockEscrowGrows DEF PoolInstructions
    <3>8. CASE ix.name = "lock"
      <4>1. t = Lock(s, ix)
        BY <3>8 DEF Program
      <4>. QED
        BY <3>8, <4>1, LockGrows DEF PoolInstructions
    <3>9. CASE ix.name \notin {"swap", "addBalanceLiquidity", "addImbalanceLiquidity",
                               "bootstrapLiquidity", "removeBalanceLiquidity",
                               "removeLiquiditySingleSide", "claimFee", "partnerClaimFee",
                               "createLockEscrow", "lock"}
      <4>1. t = InitializePool(s, ix)
        BY <3>9 DEF Program
      <4>. QED
        BY <4>1, InitializePoolGrows
    <3>. QED
      BY <3>1, <3>2, <3>3, <3>4, <3>5, <3>6, <3>7, <3>8, <3>9
  <2> HIDE DEF t, holds
  <2>3. Grows(t, Check(t, holds, "readonly"))
    BY <2>2, CheckGrows DEF Grows
  <2>4. Grows(s, Execute(s, ix))
    BY <2>1, <2>2, <2>3, GrowsTrans
  <2>5. Execute(s, ix).res = "ok" => t.res = "ok"
    BY <2>1, <2>3 DEF Grows
  <2>6. t.made \subseteq Execute(s, ix).made
    BY <2>1, <2>3 DEF Grows
  <2>. QED
    BY <2>2, <2>4, <2>5, <2>6
<1>3. CASE s.res = "ok" /\ ~OfProgram(ix)
  <2> DEFINE t == Execute(s, ix)
  <2>1. ix.name \notin PoolInstructions
    BY <1>3 DEF OfProgram, Idl, PoolInstructions
  <2>2. CASE ix.name = "createAta"
    <3> DEFINE ok == Check(s, MintOf(ix.account) \in s.made, "missing")
    <3>1. t = Open(ok, ix.account)
      BY <1>3, <2>2 DEF Execute
    <3>2. Grows(s, ok) /\ State(ok)
      BY CheckGrows DEF Grows
    <3> HIDE DEF ok, t
    <3>3. Grows(s, t)
      BY <3>1, <3>2, OpenGrows, GrowsTrans
    <3>. QED
      BY <2>1, <3>3 DEF t
  <2>3. CASE ix.name = "wrap"
    <3>1. t = Wrap(s, ix.from, ix.to, ix.amount)
      BY <1>3, <2>3 DEF Execute
    <3>. QED
      BY <2>1, <3>1, WrapGrows
  <2>4. CASE ix.name = "close"
    <3>1. t = Close(s, ix.account, ix.receiver)
      BY <1>3, <2>4 DEF Execute
    <3>. QED
      BY <2>1, <3>1, CloseGrows
  <2>5. CASE ix.name = "createVault"
    <3> DEFINE ok == Check(s, ix.mint \in s.made, "missing")
               opened == Open(ok, TokenVault(ix.mint))
    <3>1. t = Make(opened, Vault(ix.mint))
      BY <1>3, <2>5 DEF Execute
    <3>2. Grows(s, ok) /\ State(ok)
      BY CheckGrows DEF Grows
    <3> HIDE DEF ok
    <3>3. Grows(ok, opened) /\ State(opened)
      BY <3>2, OpenGrows DEF Grows
    <3> HIDE DEF opened, t
    <3>4. Grows(s, t)
      BY <3>1, <3>2, <3>3, MakeGrows, GrowsTrans
    <3>. QED
      BY <2>1, <3>4 DEF t
  <2>6. CASE ix.name = "createMint"
    <3>1. t = Make(s, ix.mint)
      BY <1>3, <2>6 DEF Execute
    <3>. QED
      BY <2>1, <3>1, MakeGrows
  <2>7. CASE ix.name = "createMetadata"
    <3>1. t = Check(s, ix.authority = ix.mintAuthority, "authority")
      BY <1>3, <2>7 DEF Execute
    <3>. QED
      BY <2>1, <3>1, CheckGrows
  <2>8. CASE ix.name = "mintTo"
    <3>1. t = Mint(s, ix.to, ix.amount)
      BY <1>3, <2>8 DEF Execute
    <3>. QED
      BY <2>1, <3>1, MintGrows
  <2>9. CASE ix.name = "createFeeVault"
    <3> DEFINE ok == Check(s, ix.pool \in s.made, "missing")
               vault == Make(ok, DeriveFeeVault(ix.pool))
    <3>1. t = Make(vault, DeriveLockEscrowPda(ix.pool, DeriveFeeVault(ix.pool)))
      BY <1>3, <2>9 DEF Execute
    <3>2. Grows(s, ok) /\ State(ok)
      BY CheckGrows DEF Grows
    <3> HIDE DEF ok
    <3>3. Grows(ok, vault) /\ State(vault)
      BY <3>2, MakeGrows DEF Grows
    <3> HIDE DEF vault, t
    <3>4. Grows(s, t)
      BY <3>1, <3>2, <3>3, MakeGrows, GrowsTrans
    <3>. QED
      BY <2>1, <3>4 DEF t
  <2>10. CASE ix.name \notin {"createAta", "wrap", "close", "createVault", "createMint",
                              "createMetadata", "mintTo", "createFeeVault"}
    <3>1. t = s
      BY <1>3, <2>10 DEF Execute
    <3>. QED
      BY <2>1, <3>1 DEF Grows
  <2>. QED
    BY <2>2, <2>3, <2>4, <2>5, <2>6, <2>7, <2>8, <2>9, <2>10
<1>. QED
  BY <1>1, <1>2, <1>3

\* Induction on the natural numbers, as a statement about sets.
LEMMA SetInduction ==
    ASSUME NEW S, 0 \in S, \A n \in Nat : n \in S => n + 1 \in S
    PROVE  Nat \subseteq S
<1> DEFINE R == {ss \in Nat \X Nat : ss[1] < ss[2]}
           T == Nat \ S
<1> SUFFICES ASSUME T # {} PROVE FALSE
  OBVIOUS
<1>1. IsWellFoundedOn(R, Nat)
  BY NatLessThanWellFounded DEF OpToRel
<1>2. PICK m \in T : \A k \in T : ~(<<k, m>> \in R)
  BY <1>1, WFMin
<1>3. \A k \in T : ~(k < m)
  <2> SUFFICES ASSUME NEW k \in T, k < m PROVE FALSE
    OBVIOUS
  <2>1. k \in Nat /\ m \in Nat
    OBVIOUS
  <2>2. <<k, m>> \in R
    BY <2>1
  <2>. QED
    BY <1>2, <2>2
<1>4. m \in Nat /\ m # 0 /\ m - 1 \in Nat
  OBVIOUS
<1>5. m - 1 \in T
  <2>1. (m - 1) + 1 = m
    BY <1>4
  <2>. QED
    BY <1>4, <2>1
<1>. QED
  BY <1>3, <1>4, <1>5

\* The states that the instructions of a transaction pass through exist.
LEMMA RunDefined ==
    ASSUME NEW s, NEW ixs
    PROVE  \A n \in Nat :
             \E g : g = [i \in 0..n |-> IF i = 0 THEN s ELSE Execute(g[i - 1], ixs[i])]
<1> DEFINE P(n) == \E g : g = [i \in 0..n |-> IF i = 0 THEN s ELSE Execute(g[i - 1], ixs[i])]
           S == {n \in Nat : P(n)}
<1>1. 0 \in S
  <2> DEFINE g == [i \in 0..0 |-> s]
  <2>1. g = [i \in 0..0 |-> IF i = 0 THEN s ELSE Execute(g[i - 1], ixs[i])]
    OBVIOUS
  <2>. QED
    BY <2>1
<1>2. ASSUME NEW n \in Nat, n \in S PROVE n + 1 \in S
  <2>1. PICK g : g = [i \in 0..n |-> IF i = 0 THEN s ELSE Execute(g[i - 1], ixs[i])]
    BY <1>2
  <2> DEFINE h == [i \in 0..(n + 1) |-> IF i = n + 1 THEN Execute(g[n], ixs[n + 1]) ELSE g[i]]
  <2>2. ASSUME NEW i \in 0..(n + 1)
        PROVE  h[i] = IF i = 0 THEN s ELSE Execute(h[i - 1], ixs[i])
    <3>1. CASE i = 0
      BY <2>1, <3>1
    <3>2. CASE i = n + 1
      <4>1. h[i] = Execute(g[n], ixs[n + 1]) /\ i - 1 = n /\ i # 0 /\ n \in 0..(n + 1) /\ n # n + 1
        BY <3>2
      <4>2. h[n] = g[n]
        BY <4>1
      <4>. QED
        BY <3>2, <4>1, <4>2
    <3>3. CASE i # 0 /\ i # n + 1
      <4>1. i \in 0..n /\ i - 1 \in 0..n /\ i - 1 \in 0..(n + 1) /\ i - 1 # n + 1
        BY <3>3
      <4>2. h[i] = g[i] /\ h[i - 1] = g[i - 1]
        BY <3>3, <4>1
      <4>3. g[i] = Execute(g[i - 1], ixs[i])
        BY <2>1, <3>3, <4>1
      <4>. QED
        BY <3>3, <4>2, <4>3
    <3>. QED
      BY <3>1, <3>2, <3>3
  <2> HIDE DEF h
  <2>3. h = [i \in 0..(n + 1) |-> h[i]]
    BY DEF h
  <2>4. h = [i \in 0..(n + 1) |-> IF i = 0 THEN s ELSE Execute(h[i - 1], ixs[i])]
    BY <2>2, <2>3
  <2>. QED
    BY <2>4
<1> HIDE DEF S
<1>3. Nat \subseteq S
  BY <1>1, <1>2, SetInduction
<1>. QED
  BY <1>3 DEF S

\* The chain that a transaction runs on exists as long as it does, and more; a
\* transaction with an instruction that makes a pool lands only where the pool
\* does not exist, and leaves it there.
LEMMA RunMakes ==
    ASSUME NEW s, {"bal", "made", "sol"} \subseteq DOMAIN s, NEW ixs, Len(ixs) \in Nat, NEW draw,
           NEW P, \A j \in 1..Len(ixs) : ixs[j].name \in PoolInstructions => ixs[j].acc.pool = P
    PROVE  LET out == Run(s, ixs, draw)
           IN  /\ State(out) /\ s.made \subseteq out.made /\ out.res \notin {"unused", "done"}
               /\ out.res = "ok" /\ (\E j \in 1..Len(ixs) : ixs[j].name \in PoolInstructions) =>
                    P \notin s.made /\ P \in out.made
<1> DEFINE start == [res |-> "ok", draw |-> draw] ++ s
           L == Len(ixs)
           F(g) == [i \in 0..L |-> IF i = 0 THEN start ELSE Execute(g[i - 1], ixs[i])]
           after == CHOOSE g : g = F(g)
<1>1. State(start) /\ start.made = s.made /\ start.res = "ok"
  BY DEF State, ++
<1> HIDE DEF start
<1>2. after = F(after)
  BY RunDefined
<1>3. Run(s, ixs, draw) = after[L]
  BY DEF Run, start
<1> HIDE DEF after
<1>4. after[0] = start
  BY <1>2
<1>5. ASSUME NEW n \in Nat, n + 1 <= L PROVE after[n + 1] = Execute(after[n], ixs[n + 1])
  <2>1. n + 1 \in 0..L /\ n + 1 # 0 /\ (n + 1) - 1 = n
    BY <1>5
  <2>. QED
    BY <1>2, <2>1
<1> HIDE DEF F
<1> DEFINE Claim(n) == /\ State(after[n]) /\ s.made \subseteq after[n].made /\ after[n].res \notin {"unused", "done"}
                       /\ after[n].res = "ok" /\ (\E j \in 1..n : ixs[j].name \in PoolInstructions) =>
                            P \notin s.made /\ P \in after[n].made
           S == {n \in Nat : n <= L => Claim(n)}
<1>6. 0 \in S
  BY <1>1, <1>4
<1>7. ASSUME NEW n \in Nat, n \in S PROVE n + 1 \in S
  <2> SUFFICES ASSUME n + 1 <= L PROVE Claim(n + 1)
    OBVIOUS
  <2> DEFINE t == after[n]
             u == after[n + 1]
             ix == ixs[n + 1]
  <2>1. Claim(n)
    BY <1>7
  <2>2. u = Execute(t, ix)
    BY <1>5
  <2>3. State(t)
    BY <2>1
  <2>4. /\ Grows(t, u)
        /\ ix.name \in PoolInstructions /\ u.res = "ok" => ix.acc.pool \notin t.made /\ ix.acc.pool \in u.made
    <3> HIDE DEF t, u, ix
    <3>. QED
      BY <2>2, <2>3, ExecuteGrows
  <2>5. State(u) /\ s.made \subseteq u.made /\ (u.res = "ok" => t.res = "ok") /\ t.made \subseteq u.made
        /\ u.res \notin {"unused", "done"}
    BY <2>1, <2>4 DEF Grows
  <2>6. ASSUME u.res = "ok", NEW j \in 1..(n + 1), ixs[j].name \in PoolInstructions
        PROVE  P \notin s.made /\ P \in u.made
    <3>1. CASE j = n + 1
      <4>1. n + 1 \in 1..L
        BY <1>7
      <4>2. ix.acc.pool = P
        BY <2>6, <3>1, <4>1
      <4>. QED
        BY <2>1, <2>4, <2>6, <3>1, <4>2
    <3>2. CASE j # n + 1
      <4>1. j \in 1..n
        BY <3>2
      <4>. QED
        BY <2>1, <2>5, <2>6, <4>1
    <3>. QED
      BY <3>1, <3>2
  <2>. QED
    BY <2>5, <2>6
<1> HIDE DEF S
<1>8. L \in S
  BY <1>6, <1>7, SetInduction
<1>9. Claim(L)
  BY <1>8 DEF S
<1>. QED
  BY <1>3, <1>9

-----------------------------------------------------------------------------
(* What the calls build                                                    *)

\* A list of instructions that makes no pool but the one at P.
Fits(tx, P) ==
    /\ tx \in Seq(ToSet(tx))
    /\ \A ix \in ToSet(tx) : ix.name \in PoolInstructions => ix.acc.pool = P

\* A list of such transactions
AllFit(txs, P) == txs \in Seq(ToSet(txs)) /\ \A tx \in ToSet(txs) : Fits(tx, P)

LEMMA Joined ==
    ASSUME NEW s, NEW t, s \in Seq(ToSet(s)), t \in Seq(ToSet(t))
    PROVE  ToSet(s \o t) = ToSet(s) \cup ToSet(t) /\ s \o t \in Seq(ToSet(s \o t))
<1> DEFINE S == ToSet(s) \cup ToSet(t)
           u == s \o t
<1>1. s \in Seq(S) /\ t \in Seq(S)
  OBVIOUS
<1> HIDE DEF S
<1>2. /\ Len(s) \in Nat /\ Len(t) \in Nat /\ DOMAIN s = 1..Len(s) /\ DOMAIN t = 1..Len(t)
      /\ u \in Seq(S) /\ Len(u) = Len(s) + Len(t) /\ DOMAIN u = 1..Len(u)
      /\ \A i \in 1..Len(s) : u[i] = s[i]
      /\ \A i \in 1..Len(t) : u[Len(s) + i] = t[i]
  BY <1>1
<1> HIDE DEF u
<1>3. ToSet(u) \subseteq S
  BY <1>2 DEF ToSet
<1>4. ASSUME NEW e \in ToSet(s) PROVE e \in ToSet(u)
  <2>1. PICK i \in DOMAIN s : s[i] = e
    BY DEF ToSet
  <2>2. i \in DOMAIN u /\ u[i] = e
    BY <1>2, <2>1
  <2>. QED
    BY <2>2 DEF ToSet
<1>5. ASSUME NEW e \in ToSet(t) PROVE e \in ToSet(u)
  <2>1. PICK i \in DOMAIN t : t[i] = e
    BY DEF ToSet
  <2>2. Len(s) + i \in DOMAIN u /\ u[Len(s) + i] = e
    BY <1>2, <2>1
  <2>. QED
    BY <2>2 DEF ToSet
<1>6. ToSet(u) = S
  BY <1>3, <1>4, <1>5 DEF S
<1>. QED
  BY <1>2, <1>6 DEF u, S

LEMMA One ==
    ASSUME NEW x
    PROVE  <<x>> \in Seq(ToSet(<<x>>)) /\ ToSet(<<x>>) = {x}
<1>1. ToSet(<<x>>) = {x}
  BY DEF ToSet
<1>. QED
  BY <1>1

LEMMA Nothing == <<>> \in Seq(ToSet(<<>>)) /\ ToSet(<<>>) = {}
<1>1. ToSet(<<>>) = {}
  BY DEF ToSet
<1>. QED
  BY <1>1

\* How lists that fit are put together.
LEMMA FitsParts ==
    ASSUME NEW P
    PROVE  /\ Fits(<<>>, P)
           /\ \A ix : (ix.name \in PoolInstructions => ix.acc.pool = P) => Fits(<<ix>>, P)
           /\ \A s, t : Fits(s, P) /\ Fits(t, P) => Fits(s \o t, P)
           /\ AllFit(<<>>, P)
           /\ \A tx : Fits(tx, P) => AllFit(<<tx>>, P)
           /\ \A s, t : AllFit(s, P) /\ AllFit(t, P) => AllFit(s \o t, P)
<1>1. Fits(<<>>, P)
  BY Nothing DEF Fits
<1>2. ASSUME NEW ix, ix.name \in PoolInstructions => ix.acc.pool = P PROVE Fits(<<ix>>, P)
  BY <1>2, One DEF Fits
<1>3. ASSUME NEW s, NEW t, Fits(s, P), Fits(t, P) PROVE Fits(s \o t, P)
  BY <1>3, Joined DEF Fits
<1>4. AllFit(<<>>, P)
  BY Nothing DEF AllFit
<1>5. ASSUME NEW tx, Fits(tx, P) PROVE AllFit(<<tx>>, P)
  BY <1>5, One DEF AllFit
<1>6. ASSUME NEW s, NEW t, AllFit(s, P), AllFit(t, P) PROVE AllFit(s \o t, P)
  BY <1>6, Joined DEF AllFit
<1>. QED
  BY <1>1, <1>2, <1>3, <1>4, <1>5, <1>6

LEMMA TwoFit ==
    ASSUME NEW P, NEW x, NEW y, {x.name, y.name} \cap PoolInstructions = {}
    PROVE  Fits(<<x, y>>, P)
<1>1. ToSet(<<x, y>>) = {x, y}
  BY DEF ToSet
<1>2. <<x, y>> \in Seq({x, y})
  OBVIOUS
<1>. QED
  BY <1>1, <1>2 DEF Fits

\* The parts of the calls' transactions, of which one makes a pool: the call's.
LEMMA PartsFit ==
    ASSUME NEW k
    PROVE  /\ Fits(PreInstructions(k), k.pool) /\ Fits(CreateTokenIxs(k), k.pool)
           /\ \A max : Fits(LockPost(k, max), k.pool) /\ AllFit(FeeVaultTx(k, max), k.pool)
           /\ \A name, acc : "pool" \notin DOMAIN acc => Fits(Initialize(k, name, acc), k.pool)
           /\ AllFit(SwapTx(k), k.pool)
<1> DEFINE P == k.pool
<1>1. ASSUME NEW mint PROVE Fits(CreateVault(k, mint), P)
  <2> DEFINE ix == [name |-> "createVault", mint |-> mint, signers |-> {k.payer}]
  <2>1. ix.name \notin PoolInstructions
    BY DEF PoolInstructions
  <2>2. CreateVault(k, mint) = <<>> \/ CreateVault(k, mint) = <<ix>>
    BY DEF CreateVault
  <2> HIDE DEF ix
  <2>. QED
    BY <2>1, <2>2, FitsParts
<1>2. ASSUME NEW mint, NEW owner PROVE Fits(GetOrCreateATA(k, mint, owner), P)
  <2> DEFINE ix == [name |-> "createAta", account |-> Ata(mint, owner), signers |-> {k.payer}]
  <2>1. ix.name \notin PoolInstructions
    BY DEF PoolInstructions
  <2>2. GetOrCreateATA(k, mint, owner) = <<>> \/ GetOrCreateATA(k, mint, owner) = <<ix>>
    BY DEF GetOrCreateATA
  <2> HIDE DEF ix
  <2>. QED
    BY <2>1, <2>2, FitsParts
<1>3. ASSUME NEW mint, NEW amount PROVE Fits(WrapSOL(k, mint, amount), P)
  <2> DEFINE ix == [name |-> "wrap", from |-> k.payer, to |-> Ata(Native, k.payer), amount |-> amount,
                    signers |-> {k.payer}]
  <2>1. ix.name \notin PoolInstructions
    BY DEF PoolInstructions
  <2>2. WrapSOL(k, mint, amount) = <<>> \/ WrapSOL(k, mint, amount) = <<ix>>
    BY DEF WrapSOL
  <2> HIDE DEF ix
  <2>. QED
    BY <2>1, <2>2, FitsParts
<1>4. Fits(PreInstructions(k), P)
  <2> DEFINE v1 == CreateVault(k, k.a)
             v2 == CreateVault(k, k.b)
             a1 == IF k.skipA THEN <<>> ELSE GetOrCreateATA(k, k.a, k.payer)
             a2 == GetOrCreateATA(k, k.b, k.payer)
             w1 == WrapSOL(k, k.a, AmountA)
             w2 == WrapSOL(k, k.b, WrappedB(k))
  <2>1. Fits(v1, P) /\ Fits(v2, P) /\ Fits(a2, P) /\ Fits(w1, P) /\ Fits(w2, P)
    BY <1>1, <1>2, <1>3
  <2>2. Fits(a1, P)
    BY <1>2, FitsParts
  <2>3. PreInstructions(k) = v1 \o v2 \o a1 \o a2 \o w1 \o w2
    BY DEF PreInstructions
  <2> HIDE DEF v1, v2, a1, a2, w1, w2
  <2>4. Fits(v1 \o v2, P)
    BY <2>1, FitsParts
  <2>5. Fits(v1 \o v2 \o a1, P)
    BY <2>2, <2>4, FitsParts
  <2>6. Fits(v1 \o v2 \o a1 \o a2, P)
    BY <2>1, <2>5, FitsParts
  <2>7. Fits(v1 \o v2 \o a1 \o a2 \o w1, P)
    BY <2>1, <2>6, FitsParts
  <2>8. Fits(v1 \o v2 \o a1 \o a2 \o w1 \o w2, P)
    BY <2>1, <2>7, FitsParts
  <2>. QED
    BY <2>3, <2>8
<1>5. Fits(CreateTokenIxs(k), P)
  <2> DEFINE mint == [name |-> "createMint", mint |-> k.a, signers |-> {k.payer, k.a}]
             meta == [name |-> "createMetadata", authority |-> k.payer, mintAuthority |-> k.authority,
                      signers |-> {k.payer}]
             ata == GetOrCreateATA(k, k.a, k.authority)
             to == [name |-> "mintTo", to |-> Ata(k.a, k.authority), amount |-> Held,
                    signers |-> {k.authority}]
             revoke == [name |-> "revokeMintAuthority", signers |-> {k.authority}]
  <2>1. {mint.name, meta.name, to.name, revoke.name} \cap PoolInstructions = {}
    BY DEF PoolInstructions
  <2>2. Fits(ata, P)
    BY <1>2
  <2>3. CreateTokenIxs(k) = <<>> \/ CreateTokenIxs(k) = <<mint, meta>> \o ata \o <<to, revoke>>
    BY DEF CreateTokenIxs
  <2> HIDE DEF mint, meta, ata, to, revoke
  <2>4. Fits(<<mint, meta>>, P) /\ Fits(<<to, revoke>>, P)
    BY <2>1, TwoFit
  <2>5. Fits(<<mint, meta>> \o ata, P)
    BY <2>2, <2>4, FitsParts
  <2>6. Fits(<<mint, meta>> \o ata \o <<to, revoke>>, P)
    BY <2>4, <2>5, FitsParts
  <2>7. Fits(<<>>, P)
    BY FitsParts
  <2>. QED
    BY <2>3, <2>6, <2>7
<1>6. ASSUME NEW owner, NEW max PROVE Fits(LockInstruction(k, owner, max), P)
  <2> DEFINE acc == [lockEscrow |-> Escrow(k, owner), owner |-> k.payer, lpMint |-> Lp(k),
                     sourceTokens |-> Ata(Lp(k), k.payer), escrowVault |-> Ata(Lp(k), Escrow(k, owner))]
                    ++ VaultAccounts(k)
  <2>1. LockInstruction(k, owner, max) = <<[name |-> "lock", max |-> max, acc |-> acc]>>
    BY DEF LockInstruction
  <2> HIDE DEF acc
  <2> DEFINE ix == [name |-> "lock", max |-> max, acc |-> acc]
  <2>2. ix.name \notin PoolInstructions
    BY DEF PoolInstructions
  <2> HIDE DEF ix
  <2>. QED
    BY <2>1, <2>2, FitsParts DEF ix
<1>7. Fits(CreateEscrow(k), P)
  <2> DEFINE acc == [pool |-> k.pool, lockEscrow |-> Escrow(k, k.payer), owner |-> k.payer,
                     lpMint |-> Lp(k), payer |-> k.payer, systemProgram |-> "systemProgram"]
  <2>1. CreateEscrow(k) = <<[name |-> "createLockEscrow", acc |-> acc]>>
    BY DEF CreateEscrow
  <2> HIDE DEF acc
  <2> DEFINE ix == [name |-> "createLockEscrow", acc |-> acc]
  <2>2. ix.name \notin PoolInstructions
    BY DEF PoolInstructions
  <2> HIDE DEF ix
  <2>. QED
    BY <2>1, <2>2, FitsParts DEF ix
<1>8. ASSUME NEW max PROVE Fits(LockPost(k, max), P)
  <2> DEFINE e == CreateEscrow(k)
             a == GetOrCreateATA(k, Lp(k), Escrow(k, k.payer))
             l == LockInstruction(k, k.payer, max)
  <2>1. Fits(e, P) /\ Fits(a, P) /\ Fits(l, P)
    BY <1>2, <1>6, <1>7
  <2>2. LockPost(k, max) = <<>> \/ LockPost(k, max) = e \o a \o l
    BY DEF LockPost
  <2> HIDE DEF e, a, l
  <2>3. Fits(e \o a, P)
    BY <2>1, FitsParts
  <2>4. Fits(e \o a \o l, P)
    BY <2>1, <2>3, FitsParts
  <2>5. Fits(<<>>, P)
    BY FitsParts
  <2>. QED
    BY <2>2, <2>4, <2>5
<1>9. ASSUME NEW max PROVE AllFit(FeeVaultTx(k, max), P)
  <2> DEFINE ix == [name |-> "createFeeVault", pool |-> k.pool, signers |-> {k.payer}]
             a == GetOrCreateATA(k, Lp(k), Escrow(k, FeeVault(k)))
             l == LockInstruction(k, FeeVault(k), max)
  <2>1. Fits(a, P) /\ Fits(l, P)
    BY <1>2, <1>6
  <2>2. ix.name \notin PoolInstructions
    BY DEF PoolInstructions
  <2>3. FeeVaultTx(k, max) = <<>> \/ FeeVaultTx(k, max) = << <<ix>> \o a \o l >>
    BY DEF FeeVaultTx
  <2> HIDE DEF ix, a, l
  <2>4. Fits(<<ix>>, P)
    BY <2>2, FitsParts
  <2>5. Fits(<<ix>> \o a, P)
    BY <2>1, <2>4, FitsParts
  <2>6. Fits(<<ix>> \o a \o l, P)
    BY <2>1, <2>5, FitsParts
  <2>7. AllFit(<< <<ix>> \o a \o l >>, P) /\ AllFit(<<>>, P)
    BY <2>6, FitsParts
  <2>. QED
    BY <2>3, <2>7
<1>10. ASSUME NEW name, NEW acc, "pool" \notin DOMAIN acc PROVE Fits(Initialize(k, name, acc), P)
  <2> DEFINE all == acc ++ PoolAccounts(k)
             ix == [name |-> name, a |-> AmountA, b |-> AmountB, lp |-> LpAmount, acc |-> all]
  <2>1. Initialize(k, name, acc) = <<ix>>
    BY DEF Initialize
  <2>2. "pool" \in DOMAIN VaultAccounts(k) /\ VaultAccounts(k).pool = P
    BY DEF VaultAccounts
  <2>3. "pool" \in DOMAIN WithTokenVaults(k) /\ WithTokenVaults(k).pool = P
    BY <2>2 DEF WithTokenVaults, ++
  <2>4. "pool" \in DOMAIN PoolAccounts(k) /\ PoolAccounts(k).pool = P
    BY <2>3 DEF PoolAccounts, ++
  <2>5. all.pool = P
    BY <1>10, <2>4 DEF ++
  <2> HIDE DEF all
  <2>6. ix.acc.pool = P
    BY <2>5
  <2> HIDE DEF ix
  <2>. QED
    BY <2>1, <2>6, FitsParts
<1>11. AllFit(SwapTx(k), P)
  <2> DEFINE acc == [userSourceToken |-> Ata(k.b, k.payer), userDestinationToken |-> Ata(k.a, k.payer),
                     user |-> k.payer, protocolTokenFee |-> DeriveProtocolTokenFee(k.pool, k.b)]
                    ++ WithTokenVaults(k)
  <2>1. \/ SwapTx(k) = <<>>
        \/ SwapTx(k) = << <<[name |-> "swap", amount |-> k.swapIn, min |-> 0, acc |-> acc]>> >>
    BY DEF SwapTx
  <2> HIDE DEF acc
  <2> DEFINE ix == [name |-> "swap", amount |-> k.swapIn, min |-> 0, acc |-> acc]
  <2>2. ix.name \notin PoolInstructions
    BY DEF PoolInstructions
  <2> HIDE DEF ix
  <2>3. Fits(<<ix>>, P)
    BY <2>2, FitsParts
  <2>4. AllFit(<< <<ix>> >>, P)
    BY <2>3, FitsParts
  <2>. QED
    BY <2>1, <2>4, FitsParts DEF ix
<1>. QED
  BY <1>4, <1>5, <1>8, <1>9, <1>10, <1>11

Flows == {"customizable", "feeTier", "config", "config2", "memecoin"}

\* Every function's transactions make the call's pool or none, and there is one.
LEMMA TxsFit ==
    ASSUME NEW k, k.flow \in Flows
    PROVE  AllFit(Txs(k), k.pool) /\ ToSet(Txs(k)) # {}
<1> DEFINE P == k.pool
           pre == PreInstructions(k)
           amounts == CalculateLockAmounts(k.ratio)
           swap == SwapTx(k)
           fee == FeeVaultTx(k, amounts.feeWrapper)
           Good(txs) == AllFit(txs, P) /\ ToSet(txs) # {}
<1>1. Fits(pre, P) /\ AllFit(swap, P) /\ AllFit(fee, P) /\ Fits(CreateTokenIxs(k), P)
  BY PartsFit
<1>2. ASSUME NEW tx, Fits(tx, P) PROVE Good(<<tx>>)
  BY <1>2, FitsParts, One
<1>3. ASSUME NEW txs, NEW s, AllFit(s, P), Good(txs) PROVE Good(s \o txs) /\ Good(txs \o s)
  <2>1. AllFit(s \o txs, P) /\ AllFit(txs \o s, P)
    BY <1>3, FitsParts
  <2>2. txs \in Seq(ToSet(txs)) /\ s \in Seq(ToSet(s))
    BY <1>3 DEF AllFit
  <2>3. ToSet(s \o txs) # {} /\ ToSet(txs \o s) # {}
    BY <1>3, <2>2, Joined
  <2>. QED
    BY <2>1, <2>3
<1>4. ASSUME NEW ixs, Fits(ixs, P) PROVE AllFit(PreTx(ixs), P)
  <2>1. PreTx(ixs) = <<>> \/ PreTx(ixs) = <<ixs>>
    BY DEF PreTx
  <2>2. AllFit(<<>>, P) /\ AllFit(<<ixs>>, P)
    BY <1>4, FitsParts
  <2>. QED
    BY <2>1, <2>2
<1>5. ASSUME NEW name, NEW acc, "pool" \notin DOMAIN acc, NEW s, NEW t, Fits(s, P), Fits(t, P)
      PROVE  Good(<< s \o Initialize(k, name, acc) >>) /\ Good(<< Initialize(k, name, acc) \o t >>)
  <2> DEFINE i == Initialize(k, name, acc)
  <2>1. Fits(i, P)
    BY <1>5, PartsFit
  <2> HIDE DEF i
  <2>2. Fits(s \o i, P) /\ Fits(i \o t, P)
    BY <1>5, <2>1, FitsParts
  <2>3. Good(<< s \o i >>) /\ Good(<< i \o t >>)
    BY <1>2, <2>2
  <2>. QED
    BY <2>3 DEF i
<1>6. "pool" \notin DOMAIN [config |-> Config] /\ "pool" \notin DOMAIN [feeOwner |-> "FEE_OWNER"]
      /\ "pool" \notin DOMAIN <<>>
  OBVIOUS
<1> HIDE DEF Good, pre, swap, fee
<1>7. CASE k.flow = "customizable"
  <2>1. Good(CreateCustomizablePool(k))
    BY <1>1, <1>5, <1>6 DEF CreateCustomizablePool, pre
  <2>. QED
    BY <1>7, <2>1 DEF Txs, Good
<1>8. CASE k.flow = "feeTier"
  <2>1. Good(CreatePermissionlessPool(k))
    BY <1>1, <1>5, <1>6 DEF CreatePermissionlessPool, pre
  <2>. QED
    BY <1>8, <2>1 DEF Txs, Good
<1>9. ASSUME NEW name, NEW ixs, NEW max, Fits(ixs, P)
      PROVE  /\ Good(PreTx(ixs) \o << Initialize(k, name, [config |-> Config]) \o LockPost(k, max) >> \o swap)
             /\ Good(PreTx(ixs) \o << Initialize(k, name, [config |-> Config]) \o LockPost(k, max) >>
                       \o fee \o swap)
  <2> DEFINE first == PreTx(ixs)
             make == << Initialize(k, name, [config |-> Config]) \o LockPost(k, max) >>
  <2>1. Fits(LockPost(k, max), P)
    BY PartsFit
  <2>2. Good(make)
    BY <1>5, <1>6, <2>1, FitsParts
  <2>3. AllFit(first, P)
    BY <1>4, <1>9
  <2> HIDE DEF first, make
  <2>4. Good(first \o make)
    BY <1>3, <2>2, <2>3
  <2>5. Good(first \o make \o swap) /\ Good(first \o make \o fee)
    BY <1>1, <1>3, <2>4
  <2>6. Good(first \o make \o fee \o swap)
    BY <1>1, <1>3, <2>5
  <2>. QED
    BY <2>5, <2>6 DEF first, make
<1>10. CASE k.flow = "config"
  <2>1. Good(CreatePoolWithConfig(k))
    BY <1>1, <1>9 DEF CreatePoolWithConfig, pre, swap
  <2>. QED
    BY <1>10, <2>1 DEF Txs, Good
<1>11. CASE k.flow = "config2"
  <2>1. Good(CreatePoolWithConfig2(k))
    BY <1>1, <1>9 DEF CreatePoolWithConfig2, pre, swap, fee
  <2>. QED
    BY <1>11, <2>1 DEF Txs, Good
<1>12. CASE k.flow = "memecoin"
  <2>1. Fits(CreateTokenIxs(k) \o pre, P)
    BY <1>1, FitsParts
  <2>2. Good(CreateMemecoinPool(k))
    BY <1>9, <2>1 DEF CreateMemecoinPool, pre, swap, fee
  <2>. QED
    BY <1>12, <2>2 DEF Txs, Good
<1>. QED
  BY <1>7, <1>8, <1>10, <1>11, <1>12 DEF Flows

-----------------------------------------------------------------------------
(* The invariant                                                           *)

Fields == {"pc", "txs", "next", "did", "flow", "a", "b", "pool"}

\* What is known of a call that has started, on a chain where the accounts M exist.
CallInv(k, M) ==
    /\ Fields \subseteq DOMAIN k
    /\ k.flow \in Flows /\ {k.a, k.b} \subseteq Mints /\ k.pool = PoolOf(k)
    /\ AllFit(k.txs, k.pool)
    /\ k.pc = "sending" => k.next \in 1..Len(k.txs)
    /\ MadePool(k) => k.pool \in M

\* The chain knows every pool that a call has made, and no two calls made one.
Inv ==
    /\ {"bal", "made", "sol"} \subseteq DOMAIN ledger
    /\ DOMAIN call = Calls
    /\ \A c \in Calls : "pc" \in DOMAIN call[c]
    /\ \A c \in Started : CallInv(call[c], ledger.made)
    /\ \A c, d \in Started :
         c # d /\ MadePool(call[c]) /\ MadePool(call[d]) => call[c].pool # call[d].pool

\* What is known of a request.
Known(r) ==
    /\ {"flow", "payer", "a", "b", "lock", "ratio", "swapIn", "skipA", "isMinted", "authority"}
         \subseteq DOMAIN r
    /\ r.flow \in Flows /\ r.payer \in Creators /\ {r.a, r.b} \subseteq Mints
    /\ r.lock \in BOOLEAN /\ r.ratio \in 0..RatioSteps /\ r.swapIn \in Nat
    /\ r.flow \in {"customizable", "feeTier"} => ~r.lock /\ r.swapIn = 0
    /\ r.flow = "memecoin" => r.a = Memecoin

LEMMA RequestsOk ==
    ASSUME NEW r \in Requests
    PROVE  Known(r)
<1> DEFINE Of(flows, locks, ratios, swaps) ==
             {[flow |-> f, payer |-> c, a |-> p[1], b |-> p[2], lock |-> l, ratio |-> q, swapIn |-> w,
               skipA |-> FALSE, isMinted |-> TRUE, authority |-> c] :
                 f \in flows, c \in Creators, p \in {q \in Pairs : q[1] # Memecoin}, l \in locks,
                 q \in ratios, w \in swaps}
           Meme == {[flow |-> "memecoin", payer |-> c, a |-> Memecoin, b |-> p[2], lock |-> TRUE,
                     ratio |-> q, swapIn |-> SwapIn, skipA |-> ~i, isMinted |-> i, authority |-> c] :
                      c \in Creators, p \in {q \in Pairs : q[1] = Memecoin},
                      q \in 0..RatioSteps, i \in BOOLEAN}
<1>1. ASSUME NEW p \in Pairs PROVE p[1] \in Mints /\ p[2] \in Mints
  BY DEF Mints
<1>2. ASSUME NEW flows, flows \subseteq Flows \ {"memecoin"}, NEW locks, locks \subseteq BOOLEAN,
             NEW ratios, ratios \subseteq 0..RatioSteps, NEW swaps, swaps \subseteq Nat,
             \/ flows \cap {"customizable", "feeTier"} = {}
             \/ locks = {FALSE} /\ swaps = {0},
             r \in Of(flows, locks, ratios, swaps)
      PROVE  Known(r)
  <2>1. PICK f \in flows, c \in Creators, p \in {q \in Pairs : q[1] # Memecoin}, l \in locks,
             q \in ratios, w \in swaps :
               r = [flow |-> f, payer |-> c, a |-> p[1], b |-> p[2], lock |-> l, ratio |-> q, swapIn |-> w,
                    skipA |-> FALSE, isMinted |-> TRUE, authority |-> c]
    BY <1>2
  <2>2. /\ DOMAIN r = {"flow", "payer", "a", "b", "lock", "ratio", "swapIn", "skipA", "isMinted", "authority"}
        /\ r.flow = f /\ r.payer = c /\ r.a = p[1] /\ r.b = p[2] /\ r.lock = l /\ r.ratio = q
        /\ r.swapIn = w
    BY <2>1
  <2>3. ASSUME r.flow \in {"customizable", "feeTier"} PROVE r.lock = FALSE /\ r.swapIn = 0
    <3>1. f \in flows \cap {"customizable", "feeTier"}
      BY <2>2, <2>3
    <3>2. locks = {FALSE} /\ swaps = {0}
      <4> HIDE DEF Of
      <4>. QED
        BY <1>2, <3>1
    <3>3. l = FALSE /\ w = 0
      BY <3>2
    <3>. QED
      BY <2>2, <3>3
  <2>4. r.flow \in Flows /\ r.flow # "memecoin" /\ r.lock \in BOOLEAN /\ r.ratio \in 0..RatioSteps
        /\ r.swapIn \in Nat /\ {r.a, r.b} \subseteq Mints
    BY <1>1, <1>2, <2>2
  <2>. QED
    BY <2>2, <2>3, <2>4 DEF Known
<1>3. ASSUME r \in Meme PROVE Known(r)
  <2>1. PICK c \in Creators, p \in {q \in Pairs : q[1] = Memecoin}, q \in 0..RatioSteps, i \in BOOLEAN :
               r = [flow |-> "memecoin", payer |-> c, a |-> Memecoin, b |-> p[2], lock |-> TRUE,
                    ratio |-> q, swapIn |-> SwapIn, skipA |-> ~i, isMinted |-> i, authority |-> c]
    BY <1>3
  <2>2. /\ DOMAIN r = {"flow", "payer", "a", "b", "lock", "ratio", "swapIn", "skipA", "isMinted", "authority"}
        /\ r.flow = "memecoin" /\ r.payer = c /\ r.a = Memecoin /\ r.b = p[2] /\ r.lock = TRUE
        /\ r.ratio = q /\ r.swapIn = SwapIn
    BY <2>1
  <2>3. Memecoin \in Mints /\ p[2] \in Mints /\ SwapIn \in Nat
    BY <1>1, CreationConstants
  <2>. QED
    BY <2>2, <2>3 DEF Known, Flows
<1>4. Requests = Of({"customizable", "feeTier"}, {FALSE}, {0}, {0})
                   \cup Of({"config"}, BOOLEAN, {0}, {0, SwapIn})
                   \cup Of({"config2"}, BOOLEAN, 0..RatioSteps, {0, SwapIn}) \cup Meme
  BY DEF Requests
<1>5. /\ {"customizable", "feeTier"} \subseteq Flows \ {"memecoin"}
      /\ {"config"} \subseteq Flows \ {"memecoin"} /\ {"config2"} \subseteq Flows \ {"memecoin"}
      /\ {0} \subseteq 0..RatioSteps /\ {0, SwapIn} \subseteq Nat /\ {0} \subseteq Nat
      /\ {FALSE} \subseteq BOOLEAN
  BY CreationConstants DEF Flows
<1>6. /\ {"config"} \cap {"customizable", "feeTier"} = {}
      /\ {"config2"} \cap {"customizable", "feeTier"} = {}
  OBVIOUS
<1> HIDE DEF Of, Meme
<1>7. CASE r \in Of({"customizable", "feeTier"}, {FALSE}, {0}, {0})
  BY <1>2, <1>5, <1>7
<1>8. CASE r \in Of({"config"}, BOOLEAN, {0}, {0, SwapIn})
  <2> DEFINE flows == {"config"}
             swaps == {0, SwapIn}
  <2>1. flows \subseteq Flows \ {"memecoin"} /\ swaps \subseteq Nat
        /\ flows \cap {"customizable", "feeTier"} = {} /\ {0} \subseteq 0..RatioSteps
    BY <1>5, <1>6
  <2> HIDE DEF flows, swaps
  <2>2. r \in Of(flows, BOOLEAN, {0}, swaps)
    BY <1>8 DEF flows, swaps
  <2>. QED
    BY <1>2, <2>1, <2>2
<1>9. CASE r \in Of({"config2"}, BOOLEAN, 0..RatioSteps, {0, SwapIn})
  BY <1>2, <1>5, <1>6, <1>9
<1>. QED
  BY <1>3, <1>4, <1>7, <1>8, <1>9

\* A new call
LEMMA BuildInv ==
    ASSUME Inv, NEW c \in Calls, Build(c)
    PROVE  Inv'
<1>1. PICK r \in Requests :
        LET asked == [pool |-> PoolOf(r)] ++ r
            seen  == LookedUp(asked) \cap (ledger.made \cup DOMAIN ledger.bal)
            k     == [seen |-> seen] ++ asked
        IN  call' = [call EXCEPT ![c] =
                       [pc |-> "sending", txs |-> Txs(k), next |-> 1, did |-> {}, quiet |-> TRUE,
                        found |-> Found(k)] ++ k]
  BY DEF Build
<1> DEFINE asked == [pool |-> PoolOf(r)] ++ r
           seen == LookedUp(asked) \cap (ledger.made \cup DOMAIN ledger.bal)
           k == [seen |-> seen] ++ asked
           txs == Txs(k)
           found == Found(k)
           new == [pc |-> "sending", txs |-> txs, next |-> 1, did |-> {}, quiet |-> TRUE,
                   found |-> found] ++ k
<1>2. call' = [call EXCEPT ![c] = new] /\ ledger' = ledger
  BY <1>1 DEF Build
<1>3. {"flow", "a", "b"} \subseteq DOMAIN r /\ r.flow \in Flows /\ {r.a, r.b} \subseteq Mints
  BY RequestsOk DEF Known
<1>4. /\ {"flow", "a", "b", "pool"} \subseteq DOMAIN asked
      /\ asked.flow = r.flow /\ asked.a = r.a /\ asked.b = r.b /\ asked.pool = PoolOf(r)
  BY <1>3 DEF ++
<1> HIDE DEF asked, seen
<1>5. /\ {"flow", "a", "b", "pool"} \subseteq DOMAIN k
      /\ k.flow = r.flow /\ k.a = r.a /\ k.b = r.b /\ k.pool = PoolOf(r)
  BY <1>4 DEF ++
<1> HIDE DEF k, txs, found
<1>6. /\ Fields \subseteq DOMAIN new
      /\ new.flow = r.flow /\ new.a = r.a /\ new.b = r.b /\ new.pool = PoolOf(r)
      /\ new.txs = txs /\ new.next = 1 /\ new.did = {}
  BY <1>5 DEF ++, Fields
<1> HIDE DEF new
<1>7. PoolOf(new) = PoolOf(r)
  BY <1>6 DEF PoolOf
<1>8. AllFit(txs, k.pool) /\ ToSet(txs) # {}
  BY <1>3, <1>5, TxsFit DEF txs
<1>9. new.next \in 1..Len(txs)
  <2>1. txs \in Seq(ToSet(txs))
    BY <1>8 DEF AllFit
  <2>2. Len(txs) \in Nat /\ DOMAIN txs = 1..Len(txs)
    BY <2>1
  <2>3. DOMAIN txs # {}
    BY <1>8 DEF ToSet
  <2>. QED
    BY <1>6, <2>2, <2>3
<1>10. ~MadePool(new)
  BY <1>6 DEF MadePool
<1>11. CallInv(new, ledger.made)
  BY <1>3, <1>5, <1>6, <1>7, <1>8, <1>9, <1>10 DEF CallInv
<1>12. /\ DOMAIN call' = Calls /\ call'[c] = new
       /\ \A d \in Calls : d # c => call'[d] = call[d]
  BY <1>2 DEF Inv
<1>13. "pc" \in DOMAIN new
  BY <1>6 DEF Fields
<1>14. ASSUME NEW d \in Started' PROVE CallInv(call'[d], ledger.made)
  <2>1. CASE d = c
    BY <1>11, <1>12, <2>1
  <2>2. CASE d # c
    BY <1>12, <1>14, <2>2 DEF Inv, Started
  <2>. QED
    BY <2>1, <2>2
<1>15. ASSUME NEW d \in Started', NEW e \in Started', d # e, MadePool(call'[d]), MadePool(call'[e])
       PROVE  call'[d].pool # call'[e].pool
  <2>1. d # c /\ e # c
    BY <1>10, <1>12, <1>15
  <2>. QED
    BY <1>12, <1>15, <2>1 DEF Inv, Started
<1>16. \A d \in Calls : "pc" \in DOMAIN call'[d]
  BY <1>12, <1>13 DEF Inv
<1>. QED
  BY <1>2, <1>12, <1>14, <1>15, <1>16 DEF Inv, MadePool

\* A call that has not moved, on a chain that has grown
LEMMA CallInvStays ==
    ASSUME NEW k, NEW M, NEW N, CallInv(k, M), M \subseteq N, NEW l, DOMAIN l = DOMAIN k,
           l.pc = k.pc \/ k.pc = "sending",
           \A f \in Fields \ {"pc"} : l[f] = k[f]
    PROVE  CallInv(l, N) /\ (MadePool(l) <=> MadePool(k)) /\ l.pool = k.pool
<1>1. /\ l.flow = k.flow /\ l.a = k.a /\ l.b = k.b /\ l.pool = k.pool
      /\ l.txs = k.txs /\ l.next = k.next /\ l.did = k.did
  BY DEF Fields
<1>2. PoolOf(l) = PoolOf(k)
  BY <1>1 DEF PoolOf
<1>3. MadePool(l) <=> MadePool(k)
  BY <1>1 DEF MadePool
<1>. QED
  BY <1>1, <1>2, <1>3 DEF CallInv

\* A transaction lands, or fails and ends its call.
LEMMA LandInv ==
    ASSUME Inv, NEW c \in Calls, Land(c)
    PROVE  Inv'
<1> DEFINE k == call[c]
           tx == k.txs[k.next]
           out == Run(ledger, tx, <<0, 0>>)
           M == ledger.made
<1>1. k.pc = "sending" /\ c \in Started /\ CallInv(k, M)
  BY DEF Land, Inv, Started
<1>2. Fits(tx, k.pool)
  <2>1. k.next \in 1..Len(k.txs) /\ k.txs \in Seq(ToSet(k.txs))
        /\ \A t \in ToSet(k.txs) : Fits(t, k.pool)
    BY <1>1 DEF CallInv, AllFit
  <2>2. tx \in ToSet(k.txs)
    BY <2>1 DEF ToSet
  <2>. QED
    BY <2>1, <2>2
<1>3. CASE out.res # "ok"
  <2> DEFINE new == [k EXCEPT !.pc = out.res]
  <2>1. call' = [call EXCEPT ![c] = new] /\ ledger' = ledger
    BY <1>3 DEF Land
  <2>2. DOMAIN new = DOMAIN k /\ "pc" \in DOMAIN k /\ \A f \in Fields \ {"pc"} : new[f] = k[f]
    BY <1>1 DEF CallInv, Fields
  <2> HIDE DEF new, out
  <2>3. CallInv(new, M) /\ (MadePool(new) <=> MadePool(k)) /\ new.pool = k.pool
    <3> HIDE DEF k, M
    <3>. QED
      BY <1>1, <2>2, CallInvStays
  <2>4. /\ DOMAIN call' = Calls /\ call'[c] = new
        /\ \A d \in Calls : d # c => call'[d] = call[d]
    BY <2>1 DEF Inv
  <2>5. \A d \in Calls : "pc" \in DOMAIN call'[d]
    BY <2>2, <2>4 DEF Inv
  <2>6. Started' \subseteq Started
    BY <1>1, <2>4 DEF Started
  <2>7. \A d \in Started' : CallInv(call'[d], M) /\ (MadePool(call'[d]) <=> MadePool(call[d]))
                            /\ call'[d].pool = call[d].pool
    BY <2>3, <2>4, <2>6 DEF Inv, Started
  <2>. QED
    BY <2>1, <2>4, <2>5, <2>6, <2>7 DEF Inv, MadePool
<1>4. CASE out.res = "ok"
  <2> DEFINE did == k.did \cup {ix.name : ix \in ToSet(tx)}
             pc == IF k.next = Len(k.txs) THEN "done" ELSE k.pc
             new == [k EXCEPT !.next = @ + 1, !.did = did, !.pc = pc]
             N == out.made
             makes == \E ix \in ToSet(tx) : ix.name \in PoolInstructions
  <2>1. ledger' = Committed(out) /\ call' = [Disturbed(c) EXCEPT ![c] = new]
    <3>1. Fields \subseteq DOMAIN k
      BY <1>1 DEF CallInv
    <3>. QED
      BY <1>4, <3>1 DEF Land, Fields
  <2>2. M \subseteq N /\ (makes => k.pool \notin M /\ k.pool \in N)
    <3>1. tx \in Seq(ToSet(tx)) /\ \A ix \in ToSet(tx) : ix.name \in PoolInstructions => ix.acc.pool = k.pool
      BY <1>2 DEF Fits
    <3>2. Len(tx) \in Nat /\ DOMAIN tx = 1..Len(tx)
      BY <3>1
    <3>3. ToSet(tx) = {tx[j] : j \in 1..Len(tx)}
      BY <3>2 DEF ToSet
    <3>4. \A j \in 1..Len(tx) : tx[j].name \in PoolInstructions => tx[j].acc.pool = k.pool
      BY <3>1, <3>3
    <3>5. makes => \E j \in 1..Len(tx) : tx[j].name \in PoolInstructions
      BY <3>3
    <3>6. {"bal", "made", "sol"} \subseteq DOMAIN ledger
      BY DEF Inv
    <3>7. /\ M \subseteq N
          /\ out.res = "ok" /\ (\E j \in 1..Len(tx) : tx[j].name \in PoolInstructions) =>
               k.pool \notin M /\ k.pool \in N
      <4> DEFINE P == k.pool
      <4> HIDE DEF tx, P
      <4>. QED
        BY <3>2, <3>4, <3>6, RunMakes DEF P
    <3>. QED
      BY <1>4, <3>5, <3>7
  <2>3. {"bal", "made", "sol"} \subseteq DOMAIN ledger' /\ ledger'.made = N
    BY <2>1 DEF Committed
  <2> HIDE DEF out, N
  <2>4. /\ DOMAIN new = DOMAIN k /\ Fields \subseteq DOMAIN new
        /\ new.flow = k.flow /\ new.a = k.a /\ new.b = k.b /\ new.pool = k.pool /\ new.txs = k.txs
        /\ new.next = k.next + 1 /\ new.did = did /\ new.pc = pc
    <3> HIDE DEF did, pc
    <3>. QED
      BY <1>1 DEF CallInv, Fields
  <2>5. new.pc = "sending" => new.next \in 1..Len(new.txs)
    <3>1. k.next \in 1..Len(k.txs) /\ Len(k.txs) \in Nat
      BY <1>1 DEF CallInv, AllFit
    <3>. QED
      BY <2>4, <3>1
  <2>6. MadePool(new) <=> MadePool(k) \/ makes
    BY <2>4 DEF MadePool
  <2> HIDE DEF new, tx, makes
  <2>7. CallInv(new, N)
    <3>1. PoolOf(new) = PoolOf(k)
      BY <2>4 DEF PoolOf
    <3>. QED
      BY <1>1, <2>2, <2>4, <2>5, <2>6, <3>1 DEF CallInv
  <2>8. /\ DOMAIN call' = Calls /\ call'[c] = new
        /\ \A d \in Calls : d # c => call'[d] = Disturbed(c)[d]
    BY <2>1 DEF Disturbed
  <2>9. ASSUME NEW d \in Calls, d # c
        PROVE  /\ "pc" \in DOMAIN call'[d] /\ (d \in Started' => d \in Started)
               /\ d \in Started' => /\ CallInv(call'[d], N)
                                    /\ MadePool(call'[d]) <=> MadePool(call[d])
                                    /\ call'[d].pool = call[d].pool
    <3> DEFINE l == call'[d]
               j == call[d]
    <3>1. l = j \/ l = [j EXCEPT !.quiet = FALSE]
      BY <2>8, <2>9 DEF Disturbed
    <3>2. "pc" \in DOMAIN j
      BY DEF Inv
    <3>3. DOMAIN l = DOMAIN j /\ \A f \in Fields \cap DOMAIN j : l[f] = j[f]
      BY <3>1 DEF Fields
    <3>4. l.pc = j.pc
      BY <3>2, <3>3 DEF Fields
    <3>5. d \in Started' => d \in Started
      BY <3>4 DEF Started
    <3>6. ASSUME d \in Started
          PROVE  CallInv(l, N) /\ (MadePool(l) <=> MadePool(j)) /\ l.pool = j.pool
      <4>1. CallInv(j, M)
        BY <3>6 DEF Inv
      <4>2. \A f \in Fields \ {"pc"} : l[f] = j[f]
        BY <3>3, <4>1 DEF CallInv
      <4> HIDE DEF l, j, M
      <4>. QED
        BY <2>2, <3>3, <3>4, <4>1, <4>2, CallInvStays
    <3>. QED
      BY <3>2, <3>3, <3>5, <3>6
  <2>10. \A d \in Calls : "pc" \in DOMAIN call'[d]
    <3>1. "pc" \in DOMAIN new
      BY <2>4 DEF Fields
    <3>. QED
      BY <2>8, <2>9, <3>1
  <2>11. Started' \subseteq Calls
    BY DEF Started
  <2>12. \A d \in Started' : CallInv(call'[d], N)
    BY <2>7, <2>8, <2>9, <2>11
  <2>13. ASSUME NEW d \in Started', d # c, MadePool(new), MadePool(call'[d])
         PROVE  new.pool # call'[d].pool
    <3>1. d \in Started /\ MadePool(call[d]) /\ call'[d].pool = call[d].pool
      BY <2>9, <2>11, <2>13
    <3>2. CallInv(call[d], M)
      BY <3>1 DEF Inv
    <3>3. call[d].pool \in M
      BY <3>1, <3>2 DEF CallInv
    <3>4. CASE makes
      BY <2>2, <2>4, <3>1, <3>3, <3>4
    <3>5. CASE MadePool(k)
      BY <1>1, <2>4, <2>13, <3>1, <3>5 DEF Inv
    <3>. QED
      BY <2>6, <2>13, <3>4, <3>5
  <2>14. ASSUME NEW d \in Started', NEW e \in Started', d # e, MadePool(call'[d]), MadePool(call'[e])
         PROVE  call'[d].pool # call'[e].pool
    <3>1. CASE d # c /\ e # c
      <4>1. /\ d \in Started /\ MadePool(call[d]) /\ call'[d].pool = call[d].pool
            /\ e \in Started /\ MadePool(call[e]) /\ call'[e].pool = call[e].pool
        BY <2>9, <2>11, <2>14, <3>1
      <4>. QED
        BY <2>14, <4>1 DEF Inv
    <3>2. CASE d = c
      BY <2>8, <2>13, <2>14, <3>2
    <3>3. CASE e = c
      BY <2>8, <2>13, <2>14, <3>3
    <3>. QED
      BY <3>1, <3>2, <3>3
  <2>. QED
    BY <2>3, <2>8, <2>10, <2>12, <2>14 DEF Inv, MadePool
<1>. QED
  BY <1>3, <1>4

-----------------------------------------------------------------------------
(* Lists of instructions                                                   *)

\* The instructions of a list lead from the state s to the state t.
Leading(s, ixs, t) ==
    \E g : /\ g[0] = s /\ g[Len(ixs)] = t
           /\ \A n \in Nat : n + 1 <= Len(ixs) => g[n + 1] = Execute(g[n], ixs[n + 1])

\* The state in which a transaction starts
Begin(s) == [res |-> "ok", draw |-> <<0, 0>>] ++ s

LEMMA RunLeads ==
    ASSUME NEW s, NEW ixs, Len(ixs) \in Nat
    PROVE  Leading(Begin(s), ixs, Run(s, ixs, <<0, 0>>))
<1> DEFINE b == Begin(s)
           L == Len(ixs)
           g == CHOOSE g : g = [i \in 0..L |-> IF i = 0 THEN b ELSE Execute(g[i - 1], ixs[i])]
<1>1. Run(s, ixs, <<0, 0>>) = g[L]
  BY DEF Run, Begin
<1> HIDE DEF b
<1>2. g = [i \in 0..L |-> IF i = 0 THEN b ELSE Execute(g[i - 1], ixs[i])]
  BY RunDefined
<1> HIDE DEF g, L
<1>3. L \in Nat
  BY DEF L
<1>4. g[0] = b
  BY <1>2, <1>3
<1>5. ASSUME NEW n \in Nat, n + 1 <= L PROVE g[n + 1] = Execute(g[n], ixs[n + 1])
  <2>1. n + 1 \in 0..L /\ n + 1 # 0 /\ (n + 1) - 1 = n
    BY <1>3, <1>5
  <2>. QED
    BY <1>2, <2>1
<1>. QED
  BY <1>1, <1>4, <1>5 DEF b, L, Leading

\* Two lists, one after the other, have a state in between.
LEMMA LeadingSplit ==
    ASSUME NEW s, NEW t, NEW p, NEW q, p \in Seq(ToSet(p)), q \in Seq(ToSet(q)), Leading(s, p \o q, t)
    PROVE  \E u : Leading(s, p, u) /\ Leading(u, q, t)
<1> DEFINE both == p \o q
           S == ToSet(p) \cup ToSet(q)
<1>1. p \in Seq(S) /\ q \in Seq(S)
  OBVIOUS
<1> HIDE DEF S
<1>2. /\ Len(p) \in Nat /\ Len(q) \in Nat /\ Len(both) = Len(p) + Len(q)
      /\ \A i \in 1..Len(p) : both[i] = p[i]
      /\ \A i \in 1..Len(q) : both[Len(p) + i] = q[i]
  BY <1>1
<1> HIDE DEF both
<1>3. PICK g : /\ g[0] = s /\ g[Len(both)] = t
               /\ \A n \in Nat : n + 1 <= Len(both) => g[n + 1] = Execute(g[n], both[n + 1])
  BY DEF Leading, both
<1> DEFINE u == g[Len(p)]
           h == [n \in Nat |-> g[Len(p) + n]]
<1>4. Leading(s, p, u)
  <2>1. ASSUME NEW n \in Nat, n + 1 <= Len(p) PROVE g[n + 1] = Execute(g[n], p[n + 1])
    <3>1. n + 1 \in 1..Len(p) /\ n + 1 <= Len(both)
      BY <1>2, <2>1
    <3>. QED
      BY <1>2, <1>3, <3>1
  <2>. QED
    BY <1>3, <2>1 DEF Leading
<1>5. Leading(u, q, t)
  <2>1. ASSUME NEW n \in Nat, n + 1 <= Len(q) PROVE h[n + 1] = Execute(h[n], q[n + 1])
    <3> DEFINE j == Len(p) + n
    <3>1. n + 1 \in 1..Len(q) /\ j \in Nat /\ j + 1 <= Len(both) /\ Len(p) + (n + 1) = j + 1
      BY <1>2, <2>1
    <3>2. g[j + 1] = Execute(g[j], both[j + 1]) /\ both[j + 1] = q[n + 1]
      BY <1>2, <1>3, <3>1
    <3>3. h[n] = g[j] /\ h[n + 1] = g[j + 1]
      BY <3>1
    <3>. QED
      BY <3>2, <3>3
  <2>2. h[0] = u /\ h[Len(q)] = t
    BY <1>2, <1>3
  <2> HIDE DEF h, u
  <2>. QED
    BY <2>1, <2>2 DEF Leading
<1>. QED
  BY <1>4, <1>5

LEMMA LeadingOne ==
    ASSUME NEW s, NEW t, NEW x, Leading(s, <<x>>, t)
    PROVE  t = Execute(s, x)
<1>1. PICK g : /\ g[0] = s /\ g[Len(<<x>>)] = t
               /\ \A n \in Nat : n + 1 <= Len(<<x>>) => g[n + 1] = Execute(g[n], <<x>>[n + 1])
  BY DEF Leading
<1>2. Len(<<x>>) = 1 /\ <<x>>[1] = x /\ 0 + 1 = 1
  OBVIOUS
<1>3. g[0 + 1] = Execute(g[0], <<x>>[0 + 1])
  BY <1>1, <1>2
<1>. QED
  BY <1>1, <1>2, <1>3

LEMMA LeadingNone ==
    ASSUME NEW s, NEW t, Leading(s, <<>>, t)
    PROVE  t = s
<1>1. Len(<<>>) = 0
  OBVIOUS
<1>. QED
  BY <1>1 DEF Leading

LEMMA LeadingGrows ==
    ASSUME NEW s, State(s), NEW ixs, Len(ixs) \in Nat, NEW t, Leading(s, ixs, t)
    PROVE  Grows(s, t)
<1>1. PICK g : /\ g[0] = s /\ g[Len(ixs)] = t
               /\ \A n \in Nat : n + 1 <= Len(ixs) => g[n + 1] = Execute(g[n], ixs[n + 1])
  BY DEF Leading
<1> DEFINE L == Len(ixs)
           S == {n \in Nat : n <= L => Grows(s, g[n])}
<1>2. 0 \in S
  BY <1>1 DEF Grows
<1>3. ASSUME NEW n \in Nat, n \in S PROVE n + 1 \in S
  <2> SUFFICES ASSUME n + 1 <= L PROVE Grows(s, g[n + 1])
    OBVIOUS
  <2>1. Grows(s, g[n])
    BY <1>3
  <2>2. g[n + 1] = Execute(g[n], ixs[n + 1])
    BY <1>1
  <2> DEFINE u == g[n]
             v == g[n + 1]
             ix == ixs[n + 1]
  <2>3. State(u) /\ v = Execute(u, ix)
    BY <2>1, <2>2 DEF Grows
  <2> HIDE DEF u, v, ix
  <2>4. Grows(u, v)
    BY <2>3, ExecuteGrows
  <2>5. Grows(g[n], g[n + 1])
    BY <2>4 DEF u, v
  <2>. QED
    BY <2>1, <2>5, GrowsTrans
<1> HIDE DEF S
<1>4. L \in S
  BY <1>2, <1>3, SetInduction
<1>. QED
  BY <1>1, <1>4 DEF S

-----------------------------------------------------------------------------
(* What one instruction does to balances                                   *)

\* Balances and lamports are integers.
Sane(s) == /\ \A a \in DOMAIN s.bal : s.bal[a] \in Int
           /\ DOMAIN s.sol = Creators /\ \A c \in Creators : s.sol[c] \in Int

Bal(s, a) == IF a \in DOMAIN s.bal THEN s.bal[a] ELSE 0

LEMMA BalInt ==
    ASSUME NEW s, Sane(s), NEW a
    PROVE  Bal(s, a) \in Int
BY DEF Sane, Bal

\* What an account has after x left account f and arrived at account g.
Shift(b, a, f, g, x) == (b - (IF a = f THEN x ELSE 0)) + (IF a = g THEN x ELSE 0)

LEMMA CheckOk ==
    ASSUME NEW s, State(s), NEW holds, NEW why, why \notin {"ok", "unused", "done"},
           NEW t, t = Check(s, holds, why), t.res = "ok"
    PROVE  t = s /\ holds
BY CheckGrows

LEMMA MoveOk ==
    ASSUME NEW s, State(s), Sane(s), NEW f, NEW g, NEW x \in Int,
           NEW t, t = Move(s, f, g, x), t.res = "ok"
    PROVE  /\ Grows(s, t) /\ Sane(t) /\ t.sol = s.sol
           /\ \A a : Bal(t, a) = Shift(Bal(s, a), a, f, g, x)
<1> DEFINE taken == [s.bal EXCEPT ![f] = @ - x]
           bal == [taken EXCEPT ![g] = @ + x]
<1>1. Fail(s, "missing").res # "ok" /\ Fail(s, "funds").res # "ok"
  BY FailGrows
<1>2. t = [s EXCEPT !.bal = bal] /\ {f, g} \subseteq DOMAIN s.bal
  BY <1>1 DEF Move
<1>3. t.sol = s.sol /\ t.bal = bal
  <2> HIDE DEF bal
  <2>. QED
    BY <1>2 DEF State
<1>4. DOMAIN bal = DOMAIN s.bal /\ DOMAIN taken = DOMAIN s.bal
  OBVIOUS
<1>5. ASSUME NEW a \in DOMAIN s.bal
      PROVE  bal[a] \in Int /\ bal[a] = Shift(s.bal[a], a, f, g, x)
  <2>1. s.bal[a] \in Int /\ s.bal[f] \in Int /\ s.bal[g] \in Int
    BY <1>2 DEF Sane
  <2>2. \A b \in DOMAIN s.bal : taken[b] = s.bal[b] - (IF b = f THEN x ELSE 0)
    BY DEF Sane
  <2>3. bal[a] = taken[a] + (IF a = g THEN x ELSE 0)
    BY <1>4, <2>1, <2>2
  <2>. QED
    BY <2>1, <2>2, <2>3 DEF Shift
<1>6. Grows(s, t)
  BY MoveGrows
<1> HIDE DEF taken, bal
<1>7. ASSUME NEW a
      PROVE  Bal(t, a) = Shift(Bal(s, a), a, f, g, x)
  <2>1. CASE a \in DOMAIN s.bal
    BY <1>3, <1>4, <1>5, <2>1 DEF Bal
  <2>2. CASE a \notin DOMAIN s.bal
    BY <1>2, <1>3, <1>4, <2>2 DEF Bal, Shift
  <2>. QED
    BY <2>1, <2>2
<1>. QED
  BY <1>3, <1>4, <1>5, <1>6, <1>7 DEF Sane

LEMMA MintOk ==
    ASSUME NEW s, State(s), Sane(s), NEW g, NEW x \in Int,
           NEW t, t = Mint(s, g, x), t.res = "ok"
    PROVE  /\ Grows(s, t) /\ Sane(t) /\ t.sol = s.sol
           /\ \A a : Bal(t, a) = Bal(s, a) + (IF a = g THEN x ELSE 0)
<1>1. Fail(s, "missing").res # "ok"
  BY FailGrows
<1>2. t = [s EXCEPT !.bal[g] = @ + x] /\ g \in DOMAIN s.bal
  BY <1>1 DEF Mint
<1> DEFINE bal == [s.bal EXCEPT ![g] = @ + x]
<1>3. t.sol = s.sol /\ t.bal = bal
  BY <1>2 DEF State
<1>4. DOMAIN bal = DOMAIN s.bal /\ \A a \in DOMAIN s.bal : /\ bal[a] = s.bal[a] + (IF a = g THEN x ELSE 0)
                                                           /\ bal[a] \in Int
  BY DEF Sane
<1>5. Grows(s, t)
  BY MintGrows
<1> HIDE DEF bal
<1>. QED
  BY <1>2, <1>3, <1>4, <1>5 DEF Sane, Bal

LEMMA OpenOk ==
    ASSUME NEW s, State(s), Sane(s), NEW g, NEW t, t = Open(s, g), t.res = "ok"
    PROVE  /\ Grows(s, t) /\ Sane(t) /\ t.sol = s.sol
           /\ \A a : Bal(t, a) = Bal(s, a)
<1> DEFINE bal == [a \in {g} |-> 0] ++ s.bal
<1>1. Fail(s, "exists").res # "ok"
  BY FailGrows
<1>2. t = [s EXCEPT !.bal = bal] /\ g \notin DOMAIN s.bal
  BY <1>1 DEF Open, State
<1>3. DOMAIN bal = DOMAIN s.bal \cup {g} /\ bal[g] = 0 /\ \A a \in DOMAIN s.bal : bal[a] = s.bal[a]
  BY <1>2 DEF ++
<1> HIDE DEF bal
<1>4. t.sol = s.sol /\ t.bal = bal
  BY <1>2 DEF State
<1>5. Grows(s, t)
  BY OpenGrows
<1>. QED
  BY <1>2, <1>3, <1>4, <1>5 DEF Sane, Bal

LEMMA MakeOk ==
    ASSUME NEW s, State(s), Sane(s), NEW g, NEW t, t = Make(s, g), t.res = "ok"
    PROVE  /\ Grows(s, t) /\ Sane(t) /\ t.sol = s.sol
           /\ \A a : Bal(t, a) = Bal(s, a)
<1>1. Fail(s, "exists").res # "ok"
  BY FailGrows
<1>2. t = [s EXCEPT !.made = @ \cup {g}]
  BY <1>1 DEF Make
<1>3. t.sol = s.sol /\ t.bal = s.bal
  BY <1>2 DEF State
<1>4. Grows(s, t)
  BY MakeGrows
<1>. QED
  BY <1>3, <1>4 DEF Sane, Bal

LEMMA WrapOk ==
    ASSUME NEW s, State(s), Sane(s), NEW c \in Creators, NEW g, NEW x \in Int,
           NEW t, t = Wrap(s, c, g, x), t.res = "ok"
    PROVE  /\ Grows(s, t) /\ Sane(t)
           /\ \A d \in Creators : t.sol[d] = s.sol[d] - (IF d = c THEN x ELSE 0)
           /\ \A a : Bal(t, a) = Bal(s, a) + (IF a = g THEN x ELSE 0)
<1> DEFINE m == Mint(s, g, x)
           sol == [m.sol EXCEPT ![c] = @ - x]
<1>1. Fail(s, "funds").res # "ok"
  BY FailGrows
<1>2. Grows(s, m) /\ State(m)
  BY MintGrows DEF Grows
<1>3. t = [m EXCEPT !.sol = sol]
  BY <1>1, <1>2 DEF Wrap, State
<1> HIDE DEF m, sol
<1>4. t.sol = sol /\ t.bal = m.bal /\ t.res = m.res
  BY <1>2, <1>3 DEF State
<1>5. /\ Sane(m) /\ m.sol = s.sol
      /\ \A a : Bal(m, a) = Bal(s, a) + (IF a = g THEN x ELSE 0)
  BY <1>4, MintOk DEF m
<1>6. DOMAIN sol = Creators /\ \A d \in Creators : /\ sol[d] = s.sol[d] - (IF d = c THEN x ELSE 0)
                                                   /\ sol[d] \in Int
  BY <1>5 DEF sol, Sane
<1>7. Sane(t) /\ \A a : Bal(t, a) = Bal(m, a)
  BY <1>4, <1>5, <1>6 DEF Sane, Bal
<1>8. Grows(s, t)
  BY WrapGrows
<1>. QED
  BY <1>4, <1>5, <1>6, <1>7, <1>8

-----------------------------------------------------------------------------
(* What creators own, and who has the LP of the pools                      *)

Has(s, c, m) == Bal(s, Ata(m, c)) + (IF m = Native THEN s.sol[c] ELSE 0)

Pools == {PoolOf(r) : r \in Requests}

Lps(s, P, o) == Bal(s, Ata(LpMint(P), o))

\* From s to t the calls of c spend x of token a and y of token b.
Spends(s, t, c, a, x, b, y) ==
    \A d \in Creators, m \in Mints \ {Memecoin} :
      Has(t, d, m) = Has(s, d, m) - (IF d = c THEN (IF m = a THEN x ELSE 0) + (IF m = b THEN y ELSE 0) ELSE 0)

SameLp(s, t) == \A P \in Pools : \A o : Lps(t, P, o) = Lps(s, P, o)

\* Nothing that matters changes hands.
Same(s, t) ==
    /\ State(t) /\ Sane(t) /\ t.draw = s.draw
    /\ \A c \in Creators, m \in Mints \ {Memecoin} : Has(t, c, m) = Has(s, c, m)
    /\ SameLp(s, t)

LEMMA SameTrans ==
    ASSUME NEW s, NEW t, NEW u, Same(s, t), Same(t, u)
    PROVE  Same(s, u)
BY DEF Same, SameLp

LEMMA Addresses ==
    /\ \A m, w, n, v : Ata(m, w) = Ata(n, v) <=> m = n /\ w = v
    /\ \A m, w, x : Ata(m, w) # TokenVault(x)
    /\ \A P, Q : LpMint(P) = LpMint(Q) <=> P = Q
    /\ \A m, w : MintOf(Ata(m, w)) = m
    /\ \A P \in Pools : LpMint(P) \notin Mints
<1>1. ASSUME NEW m, NEW w, NEW n, NEW v PROVE Ata(m, w) = Ata(n, v) <=> m = n /\ w = v
  BY DEF Ata
<1>2. ASSUME NEW m, NEW w, NEW x PROVE Ata(m, w) # TokenVault(x)
  <2>1. Ata(m, w)[1] = "ata" /\ TokenVault(x)[1] = "token_vault"
    BY DEF Ata, TokenVault
  <2>. QED
    BY <2>1
<1>3. ASSUME NEW P, NEW Q PROVE LpMint(P) = LpMint(Q) <=> P = Q
  <2>1. LpMint(P)[2] = P /\ LpMint(Q)[2] = Q
    BY DEF LpMint
  <2>. QED
    BY <2>1
<1>4. ASSUME NEW m, NEW w PROVE MintOf(Ata(m, w)) = m
  BY DEF Ata, MintOf
<1>5. \A P \in Pools : LpMint(P) \notin Mints
  BY CreationAddresses DEF Pools
<1>. QED
  BY <1>1, <1>2, <1>3, <1>4, <1>5

LEMMA HasInt ==
    ASSUME NEW s, Sane(s), NEW c \in Creators, NEW m
    PROVE  Has(s, c, m) \in Int
<1>1. Bal(s, Ata(m, c)) \in Int /\ s.sol[c] \in Int
  BY BalInt DEF Sane
<1>. QED
  BY <1>1 DEF Has

\* Balances and lamports that are the same
LEMMA SameBals ==
    ASSUME NEW s, NEW t, Grows(s, t), Sane(t), t.sol = s.sol, \A a : Bal(t, a) = Bal(s, a)
    PROVE  Same(s, t)
BY DEF Same, SameLp, Has, Lps, Grows

\* An instruction that prepares a pool of the payer c
Prep(ix, c) ==
    \/ ix.name \in {"createAta", "createVault", "createMint", "createMetadata",
                    "revokeMintAuthority", "createFeeVault"}
    \/ ix.name = "wrap" /\ ix.from = c /\ ix.to = Ata(Native, c) /\ ix.amount \in Int /\ Native \in Mints
    \/ ix.name = "mintTo" /\ (\E o : ix.to = Ata(Memecoin, o)) /\ ix.amount \in Int /\ Memecoin \in Mints

LEMMA PrepSame ==
    ASSUME NEW s, State(s), Sane(s), NEW c \in Creators, NEW ix, Prep(ix, c),
           NEW t, t = Execute(s, ix), t.res = "ok"
    PROVE  Same(s, t)
<1>1. s.res = "ok" /\ Grows(s, t)
  BY ExecuteGrows DEF Grows
<1>2. ~OfProgram(ix)
  BY DEF Prep, OfProgram, Idl
<1>3. CASE ix.name = "createAta"
  <2> DEFINE u == Check(s, MintOf(ix.account) \in s.made, "missing")
  <2>1. t = Open(u, ix.account)
    BY <1>1, <1>2, <1>3 DEF Execute
  <2>2. Grows(s, u)
    BY CheckGrows
  <2> HIDE DEF u
  <2>3. Grows(u, t)
    BY <2>1, <2>2, OpenGrows DEF Grows
  <2>4. u = s
    BY <2>3, CheckOk DEF Grows, u
  <2>. QED
    BY <2>1, <2>4, OpenOk, SameBals
<1>4. CASE ix.name = "createVault"
  <2> DEFINE u == Check(s, ix.mint \in s.made, "missing")
             v == Open(u, TokenVault(ix.mint))
  <2>1. t = Make(v, Vault(ix.mint))
    BY <1>1, <1>2, <1>4 DEF Execute
  <2>2. Grows(s, u) /\ State(u)
    BY CheckGrows DEF Grows
  <2> HIDE DEF u
  <2>3. Grows(u, v) /\ State(v)
    BY <2>2, OpenGrows DEF Grows
  <2> HIDE DEF v
  <2>4. Grows(v, t)
    BY <2>1, <2>3, MakeGrows
  <2>5. u.res = "ok" /\ v.res = "ok"
    BY <2>3, <2>4 DEF Grows
  <2>6. u = s
    BY <2>5, CheckOk DEF u
  <2>7. Same(s, v) /\ Sane(v)
    BY <2>3, <2>5, <2>6, OpenOk, SameBals DEF v
  <2>8. Same(v, t)
    BY <2>1, <2>3, <2>7, MakeOk, SameBals
  <2>. QED
    BY <2>7, <2>8, SameTrans
<1>5. CASE ix.name = "createMint"
  <2>1. t = Make(s, ix.mint)
    BY <1>1, <1>2, <1>5 DEF Execute
  <2>. QED
    BY <2>1, MakeOk, SameBals
<1>6. CASE ix.name = "createMetadata"
  <2>1. t = Check(s, ix.authority = ix.mintAuthority, "authority")
    BY <1>1, <1>2, <1>6 DEF Execute
  <2>2. t = s
    BY <2>1, CheckOk
  <2>. QED
    BY <1>1, <2>2, SameBals
<1>7. CASE ix.name = "revokeMintAuthority"
  <2>1. t = s
    BY <1>1, <1>2, <1>7 DEF Execute
  <2>. QED
    BY <1>1, <2>1, SameBals
<1>8. CASE ix.name = "createFeeVault"
  <2> DEFINE u == Check(s, ix.pool \in s.made, "missing")
             v == Make(u, DeriveFeeVault(ix.pool))
  <2>1. t = Make(v, DeriveLockEscrowPda(ix.pool, DeriveFeeVault(ix.pool)))
    BY <1>1, <1>2, <1>8 DEF Execute
  <2>2. Grows(s, u) /\ State(u)
    BY CheckGrows DEF Grows
  <2> HIDE DEF u
  <2>3. Grows(u, v) /\ State(v)
    BY <2>2, MakeGrows DEF Grows
  <2> HIDE DEF v
  <2>4. Grows(v, t)
    BY <2>1, <2>3, MakeGrows
  <2>5. u.res = "ok" /\ v.res = "ok"
    BY <2>3, <2>4 DEF Grows
  <2>6. u = s
    BY <2>5, CheckOk DEF u
  <2>7. Same(s, v) /\ Sane(v)
    BY <2>3, <2>5, <2>6, MakeOk, SameBals DEF v
  <2>8. Same(v, t)
    BY <2>1, <2>3, <2>7, MakeOk, SameBals
  <2>. QED
    BY <2>7, <2>8, SameTrans
<1>9. CASE ix.name = "wrap"
  <2> DEFINE x == ix.amount
             g == Ata(Native, c)
  <2>1. t = Wrap(s, c, g, x) /\ x \in Int /\ Native \in Mints
    BY <1>1, <1>2, <1>9 DEF Execute, Prep
  <2> HIDE DEF x, g
  <2>2. /\ Grows(s, t) /\ Sane(t)
        /\ \A d \in Creators : t.sol[d] = s.sol[d] - (IF d = c THEN x ELSE 0)
        /\ \A a : Bal(t, a) = Bal(s, a) + (IF a = g THEN x ELSE 0)
    BY <2>1, WrapOk
  <2>3. \A d, m : Ata(m, d) = g <=> d = c /\ m = Native
    BY Addresses DEF g
  <2>4. ASSUME NEW d \in Creators, NEW m \in Mints \ {Memecoin} PROVE Has(t, d, m) = Has(s, d, m)
    <3>1. Bal(t, Ata(m, d)) = Bal(s, Ata(m, d)) + (IF d = c /\ m = Native THEN x ELSE 0)
      BY <2>2, <2>3
    <3>2. Bal(s, Ata(m, d)) \in Int /\ s.sol[d] \in Int
      BY BalInt DEF Sane
    <3>. QED
      BY <2>1, <2>2, <3>1, <3>2 DEF Has
  <2>5. ASSUME NEW P \in Pools, NEW o PROVE Lps(t, P, o) = Lps(s, P, o)
    <3>1. Ata(LpMint(P), o) # g
      BY <2>1, <2>3, Addresses
    <3>2. Bal(s, Ata(LpMint(P), o)) \in Int
      BY BalInt
    <3>. QED
      BY <2>2, <3>1, <3>2 DEF Lps
  <2>. QED
    BY <2>2, <2>4, <2>5 DEF Same, SameLp, Grows
<1>10. CASE ix.name = "mintTo"
  <2> DEFINE x == ix.amount
  <2>0. PICK o : ix.to = Ata(Memecoin, o)
    BY <1>10 DEF Prep
  <2> DEFINE g == Ata(Memecoin, o)
  <2>1. t = Mint(s, g, x) /\ x \in Int /\ Memecoin \in Mints
    BY <1>1, <1>2, <1>10, <2>0 DEF Execute, Prep
  <2> HIDE DEF x, g
  <2>2. /\ Grows(s, t) /\ Sane(t) /\ t.sol = s.sol
        /\ \A a : Bal(t, a) = Bal(s, a) + (IF a = g THEN x ELSE 0)
    BY <2>1, MintOk
  <2>3. \A d, m : m # Memecoin => Ata(m, d) # g
    BY Addresses DEF g
  <2>4. \A d, m : m # Memecoin => Bal(t, Ata(m, d)) = Bal(s, Ata(m, d))
    BY <2>2, <2>3, BalInt
  <2>5. \A P \in Pools : LpMint(P) # Memecoin
    BY <2>1, Addresses
  <2>. QED
    BY <2>2, <2>4, <2>5 DEF Same, SameLp, Grows, Has, Lps
<1>. QED
  BY <1>3, <1>4, <1>5, <1>6, <1>7, <1>8, <1>9, <1>10 DEF Prep

AllPrep(ixs, c) == ixs \in Seq(ToSet(ixs)) /\ \A ix \in ToSet(ixs) : Prep(ix, c)

\* A list of such instructions that does not fail
LEMMA PrepsSame ==
    ASSUME NEW s, State(s), Sane(s), NEW c \in Creators, NEW ixs, AllPrep(ixs, c),
           NEW t, Leading(s, ixs, t), t.res = "ok"
    PROVE  Same(s, t)
<1>1. PICK g : /\ g[0] = s /\ g[Len(ixs)] = t
               /\ \A n \in Nat : n + 1 <= Len(ixs) => g[n + 1] = Execute(g[n], ixs[n + 1])
  BY DEF Leading
<1> DEFINE L == Len(ixs)
           S == {n \in Nat : n <= L => State(g[n]) /\ (g[n].res = "ok" => Same(s, g[n]))}
<1>2. L \in Nat /\ DOMAIN ixs = 1..L
  BY DEF AllPrep
<1>3. \A i \in 1..L : Prep(ixs[i], c)
  BY <1>2 DEF AllPrep, ToSet
<1>4. 0 \in S
  <2>1. Same(s, s)
    BY DEF Same, SameLp
  <2>. QED
    BY <1>1, <2>1
<1>5. ASSUME NEW n \in Nat, n \in S PROVE n + 1 \in S
  <2> SUFFICES ASSUME n + 1 <= L
               PROVE  State(g[n + 1]) /\ (g[n + 1].res = "ok" => Same(s, g[n + 1]))
    OBVIOUS
  <2> DEFINE u == g[n]
             v == g[n + 1]
             ix == ixs[n + 1]
  <2>1. n <= L /\ n + 1 \in 1..L
    BY <1>2
  <2>2. v = Execute(u, ix) /\ Prep(ix, c) /\ State(u) /\ (u.res = "ok" => Same(s, u))
    BY <1>1, <1>3, <1>5, <2>1
  <2> HIDE DEF u, v, ix
  <2>3. Grows(u, v)
    BY <2>2, ExecuteGrows
  <2>4. ASSUME v.res = "ok" PROVE Same(s, v)
    <3>1. Same(s, u) /\ Sane(u)
      BY <2>2, <2>3, <2>4 DEF Grows, Same
    <3>2. Same(u, v)
      BY <2>2, <2>4, <3>1, PrepSame
    <3>. QED
      BY <3>1, <3>2, SameTrans
  <2>. QED
    BY <2>3, <2>4 DEF Grows, v
<1> HIDE DEF S
<1>6. L \in S
  BY <1>2, <1>4, <1>5, SetInduction
<1>. QED
  BY <1>1, <1>6 DEF S

-----------------------------------------------------------------------------
(* The program's instructions                                              *)

\* What is known of what a call asks for.
Asks(k) ==
    /\ Known(k) /\ "pool" \in DOMAIN k /\ k.pool \in Pools
    /\ k.payer # Escrow(k, k.payer) /\ k.payer # Escrow(k, FeeVault(k)) /\ k.payer # FeeVault(k)

\* An instruction of the program that does not fail
LEMMA ProgramOk ==
    ASSUME NEW s, State(s), NEW ix, OfProgram(ix), State(Program(s, ix)),
           NEW t, t = Execute(s, ix), t.res = "ok"
    PROVE  t = Program(s, ix)
<1> DEFINE u == Program(s, ix)
           holds == Changed(s, u) \subseteq {ix.acc[r] : r \in Idl[ix.name].writable}
<1>1. s.res = "ok"
  BY DEF Execute
<1>2. t = Check(u, holds, "readonly")
  <2>1. ix.name \notin {"createAta", "wrap", "close", "createVault", "createMint",
                        "createMetadata", "mintTo", "createFeeVault"}
    BY DEF OfProgram, Idl
  <2>. QED
    BY <1>1, <2>1 DEF Execute, RunProgram
<1> HIDE DEF u, holds
<1>3. t = u
  BY <1>2, CheckOk DEF u
<1>. QED
  BY <1>3 DEF u

\* The deposit of the creator, and the LP for it
LEMMA InitializeOk ==
    ASSUME NEW s, State(s), Sane(s), NEW k, Asks(k), NEW ix, ix.name \in PoolInstructions,
           ix.a = AmountA, ix.b = AmountB, ix.lp = LpAmount, LpAmount \in Nat,
           ix.acc.payerTokenA = Ata(k.a, k.payer), ix.acc.payerTokenB = Ata(k.b, k.payer),
           ix.acc.aTokenVault = TokenVault(k.a), ix.acc.bTokenVault = TokenVault(k.b),
           ix.acc.payerPoolLp = Ata(Lp(k), k.payer),
           NEW t, t = Execute(s, ix), t.res = "ok"
    PROVE  /\ State(t) /\ Sane(t) /\ t.draw = s.draw
           /\ Spends(s, t, k.payer, k.a, AmountA, k.b, AmountB)
           /\ \A P \in Pools : \A o :
                Lps(t, P, o) = Lps(s, P, o) + (IF P = k.pool /\ o = k.payer THEN LpAmount ELSE 0)
<1> DEFINE c == k.payer
           acc == ix.acc
           v1 == TokenVault(k.a)
           v2 == TokenVault(k.b)
           c1 == Check(s, {acc.aVault, acc.bVault, acc.tokenAMint, acc.tokenBMint} \subseteq s.made, "missing")
           c2 == Check(c1, "config" \in DOMAIN acc => acc.config \in s.made, "missing")
           m1 == Move(c2, Ata(k.a, c), v1, AmountA)
           m2 == Move(m1, Ata(k.b, c), v2, AmountB)
           pool == Make(m2, acc.pool)
           lp == Make(pool, acc.lpMint)
           opened == Open(lp, Ata(Lp(k), c))
           u == Mint(opened, Ata(Lp(k), c), LpAmount)
<1>0. AmountA \in Int /\ AmountB \in Int /\ c \in Creators /\ {k.a, k.b} \subseteq Mints /\ k.pool \in Pools
  BY CreationConstants DEF Asks, Known
<1>1. Program(s, ix) = u
  <2>1. ix.name \notin {"swap", "addBalanceLiquidity", "addImbalanceLiquidity", "bootstrapLiquidity",
                        "removeBalanceLiquidity", "removeLiquiditySingleSide", "claimFee",
                        "partnerClaimFee", "createLockEscrow", "lock"}
    BY DEF PoolInstructions
  <2>2. Program(s, ix) = InitializePool(s, ix)
    BY <2>1 DEF Program
  <2>. QED
    BY <2>2 DEF InitializePool
<1>2. OfProgram(ix)
  BY DEF OfProgram, Idl, PoolInstructions
<1>3. Grows(s, c1) /\ State(c1)
  BY CheckGrows DEF Grows
<1> HIDE DEF c1
<1>4. Grows(c1, c2) /\ State(c2)
  BY <1>3, CheckGrows DEF Grows
<1> HIDE DEF c2
<1>5. Grows(c2, m1) /\ State(m1)
  BY <1>4, MoveGrows DEF Grows
<1> HIDE DEF m1
<1>6. Grows(m1, m2) /\ State(m2)
  BY <1>5, MoveGrows DEF Grows
<1> HIDE DEF m2
<1>7. Grows(m2, pool) /\ State(pool)
  BY <1>6, MakeGrows DEF Grows
<1> HIDE DEF pool
<1>8. Grows(pool, lp) /\ State(lp)
  BY <1>7, MakeGrows DEF Grows
<1> HIDE DEF lp
<1>9. Grows(lp, opened) /\ State(opened)
  BY <1>8, OpenGrows DEF Grows
<1> HIDE DEF opened
<1>10. Grows(opened, u) /\ State(u)
  BY <1>9, MintGrows DEF Grows
<1> HIDE DEF u
<1>11. t = u
  BY <1>1, <1>2, <1>10, ProgramOk
<1>12. /\ opened.res = "ok" /\ lp.res = "ok" /\ pool.res = "ok" /\ m2.res = "ok" /\ m1.res = "ok"
       /\ c2.res = "ok" /\ c1.res = "ok"
  BY <1>4, <1>5, <1>6, <1>7, <1>8, <1>9, <1>10, <1>11 DEF Grows
<1>13. c1 = s
  BY <1>12, CheckOk DEF c1
<1>14. c2 = s
  BY <1>3, <1>12, <1>13, CheckOk DEF c2
<1>15. /\ Sane(m1) /\ m1.sol = s.sol
       /\ \A a : Bal(m1, a) = Shift(Bal(s, a), a, Ata(k.a, c), v1, AmountA)
  BY <1>0, <1>12, <1>14, MoveOk DEF m1
<1>16. /\ Sane(m2) /\ m2.sol = s.sol
       /\ \A a : Bal(m2, a) = Shift(Bal(m1, a), a, Ata(k.b, c), v2, AmountB)
  BY <1>0, <1>5, <1>12, <1>15, MoveOk DEF m2
<1>17. Sane(pool) /\ pool.sol = s.sol /\ \A a : Bal(pool, a) = Bal(m2, a)
  BY <1>6, <1>12, <1>16, MakeOk DEF pool
<1>18. Sane(lp) /\ lp.sol = s.sol /\ \A a : Bal(lp, a) = Bal(m2, a)
  BY <1>7, <1>12, <1>17, MakeOk DEF lp
<1>19. Sane(opened) /\ opened.sol = s.sol /\ \A a : Bal(opened, a) = Bal(m2, a)
  BY <1>8, <1>12, <1>18, OpenOk DEF opened
<1>20. /\ Sane(u) /\ u.sol = s.sol
       /\ \A a : Bal(u, a) = Bal(m2, a) + (IF a = Ata(Lp(k), c) THEN LpAmount ELSE 0)
  BY <1>9, <1>11, <1>19, MintOk DEF u
<1>21. u.draw = s.draw
  BY <1>3, <1>4, <1>5, <1>6, <1>7, <1>8, <1>9, <1>10 DEF Grows
<1> HIDE DEF v1, v2
<1>22. \A m, o : Ata(m, o) # v1 /\ Ata(m, o) # v2
  BY Addresses DEF v1, v2
<1>23. ASSUME NEW d, NEW m
       PROVE  Bal(u, Ata(m, d)) = ((Bal(s, Ata(m, d)) - (IF d = c /\ m = k.a THEN AmountA ELSE 0))
                                    - (IF d = c /\ m = k.b THEN AmountB ELSE 0))
                                    + (IF d = c /\ m = Lp(k) THEN LpAmount ELSE 0)
  <2> DEFINE a == Ata(m, d)
  <2>1. /\ a = Ata(k.a, c) <=> d = c /\ m = k.a
        /\ a = Ata(k.b, c) <=> d = c /\ m = k.b
        /\ a = Ata(Lp(k), c) <=> d = c /\ m = Lp(k)
        /\ a # v1 /\ a # v2
    BY <1>22, Addresses
  <2> HIDE DEF a
  <2>2. Bal(s, a) \in Int
    BY BalInt
  <2>3. Bal(m1, a) = Bal(s, a) - (IF d = c /\ m = k.a THEN AmountA ELSE 0)
    BY <1>0, <1>15, <2>1, <2>2 DEF Shift
  <2>4. Bal(m2, a) = Bal(m1, a) - (IF d = c /\ m = k.b THEN AmountB ELSE 0)
    BY <1>0, <1>16, <2>1, <2>2, <2>3 DEF Shift
  <2>5. Bal(u, a) = Bal(m2, a) + (IF d = c /\ m = Lp(k) THEN LpAmount ELSE 0)
    BY <1>20, <2>1
  <2>6. Bal(u, a) = ((Bal(s, a) - (IF d = c /\ m = k.a THEN AmountA ELSE 0))
                       - (IF d = c /\ m = k.b THEN AmountB ELSE 0))
                       + (IF d = c /\ m = Lp(k) THEN LpAmount ELSE 0)
    BY <2>3, <2>4, <2>5
  <2>. QED
    BY <2>6 DEF a
<1>24. Lp(k) \notin Mints /\ (\A P : LpMint(P) = Lp(k) <=> P = k.pool)
       /\ \A P \in Pools : LpMint(P) # k.a /\ LpMint(P) # k.b
  BY <1>0, Addresses DEF Lp
<1>25. Spends(s, u, c, k.a, AmountA, k.b, AmountB)
  <2> SUFFICES ASSUME NEW d \in Creators, NEW m \in Mints \ {Memecoin}
               PROVE  Has(u, d, m) = Has(s, d, m)
                        - (IF d = c THEN (IF m = k.a THEN AmountA ELSE 0) + (IF m = k.b THEN AmountB ELSE 0)
                           ELSE 0)
    BY DEF Spends
  <2>1. Bal(s, Ata(m, d)) \in Int /\ s.sol[d] \in Int /\ u.sol = s.sol /\ m # Lp(k)
    BY <1>20, <1>24, BalInt DEF Sane
  <2>2. Bal(u, Ata(m, d)) = ((Bal(s, Ata(m, d)) - (IF d = c /\ m = k.a THEN AmountA ELSE 0))
                              - (IF d = c /\ m = k.b THEN AmountB ELSE 0))
    BY <1>0, <1>23, <2>1
  <2>. QED
    BY <1>0, <2>1, <2>2 DEF Has
<1>26. ASSUME NEW P \in Pools, NEW o
       PROVE  Lps(u, P, o) = Lps(s, P, o) + (IF P = k.pool /\ o = c THEN LpAmount ELSE 0)
  <2>1. Bal(s, Ata(LpMint(P), o)) \in Int
    BY BalInt
  <2>2. LpMint(P) # k.a /\ LpMint(P) # k.b /\ (LpMint(P) = Lp(k) <=> P = k.pool)
    BY <1>24
  <2>3. Bal(u, Ata(LpMint(P), o)) = ((Bal(s, Ata(LpMint(P), o)) - 0) - 0)
                                    + (IF o = c /\ P = k.pool THEN LpAmount ELSE 0)
    BY <1>23, <2>2
  <2>. QED
    BY <2>1, <2>3 DEF Lps
<1>. QED
  BY <1>10, <1>11, <1>20, <1>21, <1>25, <1>26

LEMMA EscrowOk ==
    ASSUME NEW s, State(s), Sane(s), NEW ix, ix.name = "createLockEscrow",
           NEW t, t = Execute(s, ix), t.res = "ok"
    PROVE  Same(s, t)
<1> DEFINE u == CreateLockEscrow(s, ix)
           c1 == Check(s, {ix.acc.pool, ix.acc.lpMint} \subseteq s.made, "missing")
<1>1. Program(s, ix) = u
  BY DEF Program
<1>2. OfProgram(ix)
  BY DEF OfProgram, Idl
<1>3. Grows(s, u) /\ State(u)
  BY CreateLockEscrowGrows DEF Grows
<1>4. u = Make(c1, ix.acc.lockEscrow)
  BY DEF CreateLockEscrow
<1> HIDE DEF u
<1>5. t = u
  BY <1>1, <1>2, <1>3, ProgramOk
<1>6. Grows(s, c1) /\ State(c1)
  BY CheckGrows DEF Grows
<1> HIDE DEF c1
<1>7. Grows(c1, u)
  BY <1>4, <1>6, MakeGrows
<1>8. c1 = s
  BY <1>5, <1>7, CheckOk DEF c1, Grows
<1>9. Sane(u) /\ u.sol = s.sol /\ \A a : Bal(u, a) = Bal(s, a)
  BY <1>4, <1>5, <1>8, MakeOk
<1>. QED
  BY <1>3, <1>5, <1>9, SameBals

\* The smaller of two numbers, of module FiniteSetsExt.
LEMMA MinOfTwo ==
    ASSUME NEW x \in Int, NEW y \in Int
    PROVE  Min({x, y}) = IF x <= y THEN x ELSE y
<1>1. CASE x <= y
  <2>1. x \in {x, y} /\ \A z \in {x, y} : x <= z
    BY <1>1
  <2>2. \A z \in {x, y} : (\A w \in {x, y} : z <= w) => z = x
    BY <1>1
  <2>. QED
    BY <1>1, <2>1, <2>2 DEF Min
<1>2. CASE ~(x <= y)
  <2>1. y \in {x, y} /\ \A z \in {x, y} : y <= z
    BY <1>2
  <2>2. \A z \in {x, y} : (\A w \in {x, y} : z <= w) => z = y
    BY <1>2
  <2>. QED
    BY <1>2, <2>1, <2>2 DEF Min
<1>. QED
  BY <1>1, <1>2

\* LP moves from the payer's account to an escrow: what was asked, or what there is.
LEMMA LockOk ==
    ASSUME NEW s, State(s), Sane(s), NEW k, Asks(k), NEW e, NEW max \in Int, NEW ix, ix.name = "lock",
           ix.max = max, ix.acc.sourceTokens = Ata(Lp(k), k.payer), ix.acc.escrowVault = Ata(Lp(k), e),
           NEW t, t = Execute(s, ix), t.res = "ok"
    PROVE  LET has == Lps(s, k.pool, k.payer)
               x   == IF max <= has THEN max ELSE has
           IN  /\ State(t) /\ Sane(t) /\ t.draw = s.draw /\ x \in Int
               /\ \A c \in Creators, m \in Mints \ {Memecoin} : Has(t, c, m) = Has(s, c, m)
               /\ \A P \in Pools : \A o :
                    Lps(t, P, o) = IF P = k.pool THEN Shift(Lps(s, P, o), o, k.payer, e, x) ELSE Lps(s, P, o)
<1> DEFINE acc == ix.acc
           c == k.payer
           from == Ata(Lp(k), c)
           to == Ata(Lp(k), e)
           u == Lock(s, ix)
           c1 == Check(s, acc.lockEscrow \in s.made, "missing")
           ok == Check(c1, from \in DOMAIN s.bal, "missing")
           most == Min({max, s.bal[from]})
           has == Lps(s, k.pool, c)
           x == IF max <= has THEN max ELSE has
<1>1. Program(s, ix) = u
  BY DEF Program
<1>2. OfProgram(ix)
  BY DEF OfProgram, Idl
<1>3. Grows(s, u) /\ State(u)
  BY LockGrows DEF Grows
<1>4. u = IF ok.res = "ok" THEN Move(ok, from, to, most) ELSE ok
  BY DEF Lock
<1> HIDE DEF u
<1>5. t = u
  BY <1>1, <1>2, <1>3, ProgramOk
<1>6. Grows(s, c1) /\ State(c1)
  BY CheckGrows DEF Grows
<1> HIDE DEF c1
<1>7. Grows(c1, ok) /\ State(ok)
  BY <1>6, CheckGrows DEF Grows
<1>8. ok.res = "ok"
  <2> HIDE DEF ok
  <2>. QED
    BY <1>4, <1>5
<1>9. ok = c1 /\ from \in DOMAIN s.bal
  <2> DEFINE holds == from \in DOMAIN s.bal
  <2>1. ok = Check(c1, holds, "missing")
    OBVIOUS
  <2> HIDE DEF ok, holds
  <2>2. ok = c1 /\ holds
    BY <1>6, <1>8, <2>1, CheckOk
  <2>. QED
    BY <2>2 DEF holds
<1>10. c1 = s
  BY <1>8, <1>9, CheckOk DEF c1
<1> HIDE DEF ok
<1>11. u = Move(s, from, to, most)
  BY <1>4, <1>8, <1>9, <1>10
<1>12. s.bal[from] \in Int /\ has = s.bal[from]
  BY <1>9 DEF Sane, Lps, Bal, Lp
<1>13. most = x /\ x \in Int
  BY <1>12, MinOfTwo
<1> HIDE DEF most, x, has
<1>14. /\ Sane(u) /\ u.sol = s.sol /\ Grows(s, u)
       /\ \A a : Bal(u, a) = Shift(Bal(s, a), a, from, to, x)
  <2> HIDE DEF from, to
  <2>. QED
    BY <1>5, <1>11, <1>13, MoveOk
<1>15. Lp(k) \notin Mints /\ \A P : LpMint(P) = Lp(k) <=> P = k.pool
  BY Addresses DEF Lp, Asks, Known
<1>16. ASSUME NEW d \in Creators, NEW m \in Mints \ {Memecoin} PROVE Has(u, d, m) = Has(s, d, m)
  <2>1. Ata(m, d) # from /\ Ata(m, d) # to
    BY <1>15, Addresses
  <2>2. Bal(s, Ata(m, d)) \in Int
    BY BalInt
  <2>3. Bal(u, Ata(m, d)) = Bal(s, Ata(m, d))
    BY <1>14, <2>1, <2>2 DEF Shift
  <2>. QED
    BY <1>14, <2>3 DEF Has
<1>17. ASSUME NEW P \in Pools, NEW o
       PROVE  Lps(u, P, o) = IF P = k.pool THEN Shift(Lps(s, P, o), o, c, e, x) ELSE Lps(s, P, o)
  <2> DEFINE a == Ata(LpMint(P), o)
  <2>1. (a = from <=> P = k.pool /\ o = c) /\ (a = to <=> P = k.pool /\ o = e)
    BY <1>15, Addresses
  <2>2. Lps(s, P, o) = Bal(s, a) /\ Lps(u, P, o) = Bal(u, a) /\ Bal(s, a) \in Int
    BY BalInt DEF Lps
  <2> HIDE DEF a, from, to
  <2>3. Bal(u, a) = Shift(Bal(s, a), a, from, to, x)
    BY <1>14
  <2>. QED
    BY <1>13, <2>1, <2>2, <2>3 DEF Shift
<1>. QED
  BY <1>3, <1>5, <1>13, <1>14, <1>16, <1>17 DEF Grows, x, has

\* The first swap, of which nothing is received where the program computes nothing.
LEMMA SwapOk ==
    ASSUME NEW s, State(s), Sane(s), s.draw[1] = 0, NEW k, Asks(k), NEW ix, ix.name = "swap",
           ix.amount = k.swapIn, ix.acc.userSourceToken = Ata(k.b, k.payer),
           ix.acc.userDestinationToken = Ata(k.a, k.payer),
           NEW t, t = Execute(s, ix), t.res = "ok"
    PROVE  /\ State(t) /\ Sane(t) /\ SameLp(s, t)
           /\ Spends(s, t, k.payer, k.a, 0, k.b, k.swapIn)
<1> DEFINE acc == ix.acc
           c == k.payer
           from == Ata(k.b, c)
           to == Ata(k.a, c)
           v1 == TokenVault(k.b)
           v2 == TokenVault(k.a)
           c1 == Check(s, acc.pool \in s.made, "missing")
           c2 == Check(c1, NamesVaults(acc, {k.b, k.a})
                             /\ acc.protocolTokenFee = DeriveProtocolTokenFee(acc.pool, k.b), "constraint")
           ok == Check(c2, 0 >= ix.min, "slippage")
           m1 == Move(ok, from, v1, k.swapIn)
           u == Move(m1, v2, to, 0)
<1>0. k.swapIn \in Int /\ c \in Creators /\ {k.a, k.b} \subseteq Mints
  BY DEF Asks, Known
<1>1. Program(s, ix) = u
  <2>1. Program(s, ix) = Swap(s, ix)
    BY DEF Program
  <2>2. MintOf(from) = k.b /\ MintOf(to) = k.a
    BY Addresses
  <2>. QED
    BY <2>1, <2>2 DEF Swap
<1>2. OfProgram(ix)
  BY DEF OfProgram, Idl
<1>3. Grows(s, c1) /\ State(c1)
  BY CheckGrows DEF Grows
<1> HIDE DEF c1
<1>4. Grows(c1, c2) /\ State(c2)
  BY <1>3, CheckGrows DEF Grows
<1> HIDE DEF c2
<1>5. Grows(c2, ok) /\ State(ok)
  BY <1>4, CheckGrows DEF Grows
<1> HIDE DEF ok
<1>6. Grows(ok, m1) /\ State(m1)
  BY <1>5, MoveGrows DEF Grows
<1> HIDE DEF m1
<1>7. Grows(m1, u) /\ State(u)
  BY <1>6, MoveGrows DEF Grows
<1> HIDE DEF u
<1>8. t = u
  BY <1>1, <1>2, <1>7, ProgramOk
<1>9. m1.res = "ok" /\ ok.res = "ok" /\ c2.res = "ok" /\ c1.res = "ok"
  BY <1>4, <1>5, <1>6, <1>7, <1>8 DEF Grows
<1>10. c1 = s
  BY <1>9, CheckOk DEF c1
<1>11. c2 = s
  BY <1>3, <1>9, <1>10, CheckOk DEF c2
<1>12. ok = s
  BY <1>4, <1>9, <1>11, CheckOk DEF ok
<1> HIDE DEF from, to, v1, v2
<1>13. /\ Sane(m1) /\ m1.sol = s.sol
       /\ \A a : Bal(m1, a) = Shift(Bal(s, a), a, from, v1, k.swapIn)
  BY <1>0, <1>9, <1>12, MoveOk DEF m1
<1>14. /\ Sane(u) /\ u.sol = m1.sol
       /\ \A a : Bal(u, a) = Shift(Bal(m1, a), a, v2, to, 0)
  BY <1>6, <1>8, <1>13, MoveOk DEF u
<1>15. ASSUME NEW m, NEW d
       PROVE  Bal(u, Ata(m, d)) = Bal(s, Ata(m, d)) - (IF d = c /\ m = k.b THEN k.swapIn ELSE 0)
  <2> DEFINE a == Ata(m, d)
  <2>1. (a = from <=> d = c /\ m = k.b) /\ a # v1
    BY Addresses DEF from, v1
  <2> HIDE DEF a
  <2>2. Bal(s, a) \in Int
    BY BalInt
  <2>3. Bal(m1, a) = Bal(s, a) - (IF d = c /\ m = k.b THEN k.swapIn ELSE 0)
    BY <1>0, <1>13, <2>1, <2>2 DEF Shift
  <2>4. Bal(m1, a) \in Int
    BY <1>13, BalInt
  <2>5. Bal(u, a) = Bal(m1, a)
    BY <1>14, <2>4 DEF Shift
  <2>6. Bal(u, a) = Bal(s, a) - (IF d = c /\ m = k.b THEN k.swapIn ELSE 0)
    BY <2>3, <2>5
  <2>. QED
    BY <2>6 DEF a
<1>16. Spends(s, u, c, k.a, 0, k.b, k.swapIn)
  <2> SUFFICES ASSUME NEW d \in Creators, NEW m \in Mints \ {Memecoin}
               PROVE  Has(u, d, m) = Has(s, d, m)
                        - (IF d = c THEN (IF m = k.a THEN 0 ELSE 0) + (IF m = k.b THEN k.swapIn ELSE 0) ELSE 0)
    BY DEF Spends
  <2>1. Bal(s, Ata(m, d)) \in Int /\ s.sol[d] \in Int /\ u.sol = s.sol
    BY <1>13, <1>14, BalInt DEF Sane
  <2>2. Bal(u, Ata(m, d)) = Bal(s, Ata(m, d)) - (IF d = c /\ m = k.b THEN k.swapIn ELSE 0)
    BY <1>15
  <2>. QED
    BY <1>0, <2>1, <2>2 DEF Has
<1>17. SameLp(s, u)
  <2> SUFFICES ASSUME NEW P \in Pools, NEW o PROVE Lps(u, P, o) = Lps(s, P, o)
    BY DEF SameLp
  <2>1. LpMint(P) # k.b
    BY <1>0, Addresses
  <2>2. Bal(u, Ata(LpMint(P), o)) = Bal(s, Ata(LpMint(P), o)) - 0
    BY <1>15, <2>1
  <2>3. Bal(s, Ata(LpMint(P), o)) \in Int
    BY BalInt
  <2>. QED
    BY <2>2, <2>3 DEF Lps
<1>. QED
  BY <1>7, <1>8, <1>13, <1>14, <1>16, <1>17

-----------------------------------------------------------------------------
(* The transactions of a call                                              *)

\* The fee vault's part of the LP, and the payer's that is locked.
Part(k) == IF k.flow \in {"config2", "memecoin"} THEN (LpAmount * k.ratio) \div RatioSteps ELSE 0
UserMax(k) == IF k.flow \in {"config2", "memecoin"} THEN LpAmount - Part(k) ELSE U64Max

MakeIx(k, ix) ==
    /\ ix.name \in PoolInstructions /\ ix.a = AmountA /\ ix.b = AmountB /\ ix.lp = LpAmount
    /\ ix.acc.payerTokenA = Ata(k.a, k.payer) /\ ix.acc.payerTokenB = Ata(k.b, k.payer)
    /\ ix.acc.aTokenVault = TokenVault(k.a) /\ ix.acc.bTokenVault = TokenVault(k.b)
    /\ ix.acc.payerPoolLp = Ata(Lp(k), k.payer)

SwapsIx(k, ix) ==
    /\ ix.name = "swap" /\ ix.amount = k.swapIn
    /\ ix.acc.userSourceToken = Ata(k.b, k.payer) /\ ix.acc.userDestinationToken = Ata(k.a, k.payer)

IsMake(k, tx) ==
    \E pre, ix : AllPrep(pre, k.payer) /\ MakeIx(k, ix) /\ tx = (pre \o <<ix>>) \o LockPost(k, UserMax(k))

IsSwap(k, tx) == \E ix : SwapsIx(k, ix) /\ tx = <<ix>>

\* The transactions of the call k: of n the last makes the pool, then the fee vault's
\* if it has a part, then the swap's if there is one.
Shape(k, txs, n) ==
    /\ n \in {1, 2}
    /\ Len(txs) = n + (IF Part(k) # 0 THEN 1 ELSE 0) + (IF k.swapIn # 0 THEN 1 ELSE 0)
    /\ \A i \in 1..(n - 1) : AllPrep(txs[i], k.payer)
    /\ IsMake(k, txs[n])
    /\ Part(k) # 0 => <<txs[n + 1]>> = FeeVaultTx(k, Part(k))
    /\ k.swapIn # 0 => IsSwap(k, txs[Len(txs)])

LEMMA PrepsJoined ==
    ASSUME NEW c, NEW s, NEW t, AllPrep(s, c), AllPrep(t, c)
    PROVE  AllPrep(s \o t, c)
BY Joined DEF AllPrep

LEMMA PrepNone ==
    ASSUME NEW c
    PROVE  AllPrep(<<>>, c)
BY Nothing DEF AllPrep

LEMMA PrepOne ==
    ASSUME NEW c, NEW ix, Prep(ix, c)
    PROVE  AllPrep(<<ix>>, c)
BY One DEF AllPrep

LEMMA PrepTwo ==
    ASSUME NEW c, NEW x, NEW y, Prep(x, c), Prep(y, c)
    PROVE  AllPrep(<<x, y>>, c)
<1>1. ToSet(<<x, y>>) = {x, y}
  BY DEF ToSet
<1>2. <<x, y>> \in Seq({x, y})
  OBVIOUS
<1>. QED
  BY <1>1, <1>2 DEF AllPrep

LEMMA AtaPrep ==
    ASSUME NEW k, NEW mint, NEW owner, NEW c
    PROVE  AllPrep(GetOrCreateATA(k, mint, owner), c)
<1> DEFINE ix == [name |-> "createAta", account |-> Ata(mint, owner), signers |-> {k.payer}]
<1>1. Prep(ix, c)
  BY DEF Prep
<1>2. GetOrCreateATA(k, mint, owner) = <<>> \/ GetOrCreateATA(k, mint, owner) = <<ix>>
  BY DEF GetOrCreateATA
<1> HIDE DEF ix
<1>. QED
  BY <1>1, <1>2, PrepNone, PrepOne

LEMMA PrepParts ==
    ASSUME NEW k, Asks(k)
    PROVE  AllPrep(PreInstructions(k), k.payer) /\ AllPrep(CreateTokenIxs(k), k.payer)
<1> DEFINE c == k.payer
<1>1. ASSUME NEW mint PROVE AllPrep(CreateVault(k, mint), c)
  <2> DEFINE ix == [name |-> "createVault", mint |-> mint, signers |-> {k.payer}]
  <2>1. Prep(ix, c)
    BY DEF Prep
  <2>2. CreateVault(k, mint) = <<>> \/ CreateVault(k, mint) = <<ix>>
    BY DEF CreateVault
  <2> HIDE DEF ix
  <2>. QED
    BY <2>1, <2>2, PrepNone, PrepOne
<1>2. ASSUME NEW mint, NEW owner PROVE AllPrep(GetOrCreateATA(k, mint, owner), c)
  BY AtaPrep
<1>3. ASSUME NEW mint \in Mints, NEW amount \in Int PROVE AllPrep(WrapSOL(k, mint, amount), c)
  <2> DEFINE ix == [name |-> "wrap", from |-> k.payer, to |-> Ata(Native, k.payer), amount |-> amount,
                    signers |-> {k.payer}]
  <2>1. Native \in Mints => Prep(ix, c)
    BY DEF Prep
  <2>2. \/ WrapSOL(k, mint, amount) = <<>>
        \/ WrapSOL(k, mint, amount) = <<ix>> /\ Native \in Mints
    <3>1. CASE mint # Native
      <4>1. WrapSOL(k, mint, amount) = <<>>
        BY <3>1 DEF WrapSOL
      <4>. QED
        BY <4>1
    <3>2. CASE mint = Native
      <4>1. WrapSOL(k, mint, amount) = <<ix>>
        BY <3>2 DEF WrapSOL
      <4>. QED
        BY <3>2, <4>1
    <3>. QED
      BY <3>1, <3>2
  <2> HIDE DEF ix
  <2>. QED
    BY <2>1, <2>2, PrepNone, PrepOne
<1>4. AllPrep(PreInstructions(k), c)
  <2> DEFINE v1 == CreateVault(k, k.a)
             v2 == CreateVault(k, k.b)
             a1 == IF k.skipA THEN <<>> ELSE GetOrCreateATA(k, k.a, k.payer)
             a2 == GetOrCreateATA(k, k.b, k.payer)
             w1 == WrapSOL(k, k.a, AmountA)
             w2 == WrapSOL(k, k.b, WrappedB(k))
  <2>0. AmountA \in Int /\ WrappedB(k) \in Int /\ k.a \in Mints /\ k.b \in Mints
    BY CreationConstants DEF Asks, Known, WrappedB
  <2>1. AllPrep(v1, c) /\ AllPrep(v2, c) /\ AllPrep(a2, c)
    BY <1>1, <1>2
  <2>2. AllPrep(w1, c) /\ AllPrep(w2, c)
    BY <1>3, <2>0
  <2>3. AllPrep(a1, c)
    BY <1>2, PrepNone
  <2>4. PreInstructions(k) = v1 \o v2 \o a1 \o a2 \o w1 \o w2
    BY DEF PreInstructions
  <2> HIDE DEF v1, v2, a1, a2, w1, w2, c
  <2>5. AllPrep(v1 \o v2, c)
    BY <2>1, PrepsJoined
  <2>6. AllPrep(v1 \o v2 \o a1, c)
    BY <2>3, <2>5, PrepsJoined
  <2>7. AllPrep(v1 \o v2 \o a1 \o a2, c)
    BY <2>1, <2>6, PrepsJoined
  <2>8. AllPrep(v1 \o v2 \o a1 \o a2 \o w1, c)
    BY <2>2, <2>7, PrepsJoined
  <2>9. AllPrep(v1 \o v2 \o a1 \o a2 \o w1 \o w2, c)
    BY <2>2, <2>8, PrepsJoined
  <2>. QED
    BY <2>4, <2>9
<1>5. AllPrep(CreateTokenIxs(k), c)
  <2>1. CASE k.flow # "memecoin" \/ k.isMinted
    BY <2>1, PrepNone DEF CreateTokenIxs
  <2>2. CASE k.flow = "memecoin" /\ ~k.isMinted
    <3> DEFINE mint == [name |-> "createMint", mint |-> k.a, signers |-> {k.payer, k.a}]
               meta == [name |-> "createMetadata", authority |-> k.payer, mintAuthority |-> k.authority,
                        signers |-> {k.payer}]
               ata == GetOrCreateATA(k, k.a, k.authority)
               to == [name |-> "mintTo", to |-> Ata(k.a, k.authority), amount |-> Held,
                      signers |-> {k.authority}]
               revoke == [name |-> "revokeMintAuthority", signers |-> {k.authority}]
    <3>1. k.a = Memecoin /\ Memecoin \in Mints /\ Held \in Int
      BY <2>2, CreationConstants DEF Asks, Known
    <3>2. Prep(mint, c) /\ Prep(meta, c) /\ Prep(revoke, c)
      BY DEF Prep
    <3>3. Prep(to, c)
      BY <3>1 DEF Prep
    <3>4. AllPrep(ata, c)
      BY <1>2
    <3>5. CreateTokenIxs(k) = <<mint, meta>> \o ata \o <<to, revoke>>
      BY <2>2 DEF CreateTokenIxs
    <3> HIDE DEF mint, meta, ata, to, revoke, c
    <3>6. AllPrep(<<mint, meta>>, c) /\ AllPrep(<<to, revoke>>, c)
      BY <3>2, <3>3, PrepTwo
    <3>7. AllPrep(<<mint, meta>> \o ata, c)
      BY <3>4, <3>6, PrepsJoined
    <3>8. AllPrep(<<mint, meta>> \o ata \o <<to, revoke>>, c)
      BY <3>6, <3>7, PrepsJoined
    <3>. QED
      BY <3>5, <3>8
  <2>. QED
    BY <2>1, <2>2
<1>. QED
  BY <1>4, <1>5

LEMMA InitializeForm ==
    ASSUME NEW k, NEW name \in PoolInstructions, NEW acc, DOMAIN acc \subseteq {"config", "feeOwner"}
    PROVE  \E ix : Initialize(k, name, acc) = <<ix>> /\ MakeIx(k, ix)
<1> DEFINE all == acc ++ PoolAccounts(k)
           ix == [name |-> name, a |-> AmountA, b |-> AmountB, lp |-> LpAmount, acc |-> all]
           own == [tokenAMint |-> k.a, tokenBMint |-> k.b, lpMint |-> Lp(k),
                   payerTokenA |-> Ata(k.a, k.payer), payerTokenB |-> Ata(k.b, k.payer),
                   payerPoolLp |-> Ata(Lp(k), k.payer), payer |-> k.payer,
                   protocolTokenAFee |-> DeriveProtocolTokenFee(k.pool, k.a),
                   protocolTokenBFee |-> DeriveProtocolTokenFee(k.pool, k.b),
                   mintMetadata |-> DeriveMintMetadata(Lp(k)),
                   metadataProgram |-> "metadataProgram", rent |-> "rent", systemProgram |-> "systemProgram",
                   associatedTokenProgram |-> "associatedTokenProgram"]
<1>1. Initialize(k, name, acc) = <<ix>>
  BY DEF Initialize
<1>2. /\ {"aTokenVault", "bTokenVault"} \subseteq DOMAIN WithTokenVaults(k)
      /\ WithTokenVaults(k).aTokenVault = TokenVault(k.a)
      /\ WithTokenVaults(k).bTokenVault = TokenVault(k.b)
  BY DEF WithTokenVaults, ++
<1>3. PoolAccounts(k) = own ++ WithTokenVaults(k)
  BY DEF PoolAccounts
<1>4. /\ {"payerTokenA", "payerTokenB", "payerPoolLp"} \subseteq DOMAIN own
      /\ {"aTokenVault", "bTokenVault"} \cap DOMAIN own = {}
      /\ own.payerTokenA = Ata(k.a, k.payer) /\ own.payerTokenB = Ata(k.b, k.payer)
      /\ own.payerPoolLp = Ata(Lp(k), k.payer)
  OBVIOUS
<1> HIDE DEF own
<1> DEFINE pa == PoolAccounts(k)
<1>5. /\ {"aTokenVault", "bTokenVault", "payerTokenA", "payerTokenB", "payerPoolLp"} \subseteq DOMAIN pa
      /\ pa.aTokenVault = TokenVault(k.a) /\ pa.bTokenVault = TokenVault(k.b)
      /\ pa.payerTokenA = Ata(k.a, k.payer) /\ pa.payerTokenB = Ata(k.b, k.payer)
      /\ pa.payerPoolLp = Ata(Lp(k), k.payer)
  BY <1>2, <1>3, <1>4 DEF ++
<1> HIDE DEF pa
<1>6. /\ all.aTokenVault = TokenVault(k.a) /\ all.bTokenVault = TokenVault(k.b)
      /\ all.payerTokenA = Ata(k.a, k.payer) /\ all.payerTokenB = Ata(k.b, k.payer)
      /\ all.payerPoolLp = Ata(Lp(k), k.payer)
  BY <1>5 DEF pa, ++
<1> HIDE DEF all
<1>7. /\ ix.name = name /\ ix.a = AmountA /\ ix.b = AmountB /\ ix.lp = LpAmount /\ ix.acc = all
  OBVIOUS
<1> HIDE DEF ix
<1>8. MakeIx(k, ix)
  BY <1>6, <1>7 DEF MakeIx
<1>. QED
  BY <1>1, <1>8

LEMMA SwapForm ==
    ASSUME NEW k, k.swapIn # 0
    PROVE  \E tx : SwapTx(k) = <<tx>> /\ IsSwap(k, tx)
<1> DEFINE own == [userSourceToken |-> Ata(k.b, k.payer), userDestinationToken |-> Ata(k.a, k.payer),
                   user |-> k.payer, protocolTokenFee |-> DeriveProtocolTokenFee(k.pool, k.b)]
           acc == own ++ WithTokenVaults(k)
           ix == [name |-> "swap", amount |-> k.swapIn, min |-> 0, acc |-> acc]
<1>1. SwapTx(k) = << <<ix>> >>
  BY DEF SwapTx
<1>2. acc.userSourceToken = Ata(k.b, k.payer) /\ acc.userDestinationToken = Ata(k.a, k.payer)
  BY DEF ++
<1> HIDE DEF acc
<1>3. SwapsIx(k, ix)
  BY <1>2 DEF SwapsIx
<1> HIDE DEF ix
<1>. QED
  BY <1>1, <1>3 DEF IsSwap

LEMMA AtMostOne ==
    ASSUME NEW S, NEW s, NEW x \in S, s = <<>> \/ s = <<x>>
    PROVE  s \in Seq(S)
<1>1. CASE s = <<>>
  BY <1>1
<1>2. CASE s = <<x>>
  BY <1>2
<1>. QED
  BY <1>1, <1>2

\* One list on another of which either may be missing
LEMMA Stacked ==
    ASSUME NEW first, NEW make, NEW fee, NEW swap, NEW t,
           t = first \o <<make>> \o fee \o swap,
           first = <<>> \/ \E x : first = <<x>>, fee = <<>> \/ \E x : fee = <<x>>,
           swap = <<>> \/ \E x : swap = <<x>>
    PROVE  /\ Len(first) \in {0, 1} /\ Len(fee) \in {0, 1} /\ Len(swap) \in {0, 1}
           /\ Len(t) = Len(first) + 1 + Len(fee) + Len(swap)
           /\ Len(first) = 1 => <<t[1]>> = first
           /\ t[Len(first) + 1] = make
           /\ Len(fee) = 1 => <<t[Len(first) + 2]>> = fee
           /\ Len(swap) = 1 => <<t[Len(t)]>> = swap
<1>1. PICK S : first \in Seq(S) /\ make \in S /\ fee \in Seq(S) /\ swap \in Seq(S)
  <2>1. PICK x : first = <<>> \/ first = <<x>>
    OBVIOUS
  <2>2. PICK y : fee = <<>> \/ fee = <<y>>
    OBVIOUS
  <2>3. PICK z : swap = <<>> \/ swap = <<z>>
    OBVIOUS
  <2> DEFINE S == {x, make, y, z}
  <2>4. x \in S /\ y \in S /\ z \in S /\ make \in S
    OBVIOUS
  <2> HIDE DEF S
  <2>5. first \in Seq(S)
    BY <2>1, <2>4, AtMostOne
  <2>6. fee \in Seq(S)
    BY <2>2, <2>4, AtMostOne
  <2>7. swap \in Seq(S)
    BY <2>3, <2>4, AtMostOne
  <2>. QED
    BY <2>4, <2>5, <2>6, <2>7
<1> DEFINE p == first \o <<make>>
           q == p \o fee
<1>2. /\ Len(first) \in {0, 1} /\ Len(fee) \in {0, 1} /\ Len(swap) \in {0, 1}
      /\ Len(first) = 1 => <<first[1]>> = first
      /\ Len(fee) = 1 => <<fee[1]>> = fee
      /\ Len(swap) = 1 => <<swap[1]>> = swap
  OBVIOUS
<1>3. /\ p \in Seq(S) /\ Len(p) = Len(first) + 1 /\ p[Len(first) + 1] = make
      /\ \A i \in 1..Len(first) : p[i] = first[i]
  BY <1>1
<1> HIDE DEF p
<1>4. /\ q \in Seq(S) /\ Len(q) = Len(p) + Len(fee)
      /\ \A i \in 1..Len(p) : q[i] = p[i]
      /\ \A i \in 1..Len(fee) : q[Len(p) + i] = fee[i]
  <2>1. p \in Seq(S) /\ fee \in Seq(S)
    BY <1>1, <1>3
  <2>. QED
    BY <2>1
<1> HIDE DEF q
<1>5. /\ Len(t) = Len(q) + Len(swap)
      /\ \A i \in 1..Len(q) : t[i] = q[i]
      /\ \A i \in 1..Len(swap) : t[Len(q) + i] = swap[i]
  BY <1>1, <1>4 DEF p, q
<1>6. Len(first) = 1 => t[1] = first[1]
  BY <1>2, <1>3, <1>4, <1>5
<1>7. t[Len(first) + 1] = make
  BY <1>2, <1>3, <1>4, <1>5
<1>8. Len(fee) = 1 => t[Len(first) + 2] = fee[1]
  BY <1>2, <1>3, <1>4, <1>5
<1>9. Len(swap) = 1 => t[Len(t)] = swap[1]
  BY <1>2, <1>3, <1>4, <1>5
<1>10. Len(t) = Len(first) + 1 + Len(fee) + Len(swap)
  BY <1>2, <1>3, <1>4, <1>5
<1>. QED
  BY <1>2, <1>6, <1>7, <1>8, <1>9, <1>10

\* Every function's transactions have the shape.
LEMMA TxsShape ==
    ASSUME NEW k, Asks(k)
    PROVE  \E n : Shape(k, Txs(k), n)
<1> DEFINE pre == PreInstructions(k)
           amounts == CalculateLockAmounts(k.ratio)
           swap == SwapTx(k)
           c == k.payer
<1>1. AllPrep(pre, c) /\ AllPrep(CreateTokenIxs(k), c) /\ pre \in Seq(ToSet(pre))
  BY PrepParts DEF AllPrep
<1>2. (k.swapIn = 0 => swap = <<>>) /\ (k.swapIn # 0 => \E tx : swap = <<tx>> /\ IsSwap(k, tx))
  BY SwapForm DEF SwapTx
<1> HIDE DEF pre, swap, c
<1>3. ASSUME NEW ixs, AllPrep(ixs, c), NEW name \in PoolInstructions, NEW fee,
             fee = IF Part(k) = 0 THEN <<>> ELSE FeeVaultTx(k, Part(k)),
             NEW t, t = PreTx(ixs) \o << Initialize(k, name, [config |-> Config]) \o LockPost(k, UserMax(k)) >>
                          \o fee \o swap
      PROVE  \E n : Shape(k, t, n)
  <2> DEFINE first == PreTx(ixs)
             post == LockPost(k, UserMax(k))
             make == Initialize(k, name, [config |-> Config]) \o post
             n == Len(first) + 1
  <2>1. first = <<>> \/ first = <<ixs>>
    BY DEF PreTx
  <2>2. (Part(k) = 0 => fee = <<>>) /\ (Part(k) # 0 => \E x : fee = <<x>>)
    <3> DEFINE x == <<[name |-> "createFeeVault", pool |-> k.pool, signers |-> {k.payer}]>>
                      \o GetOrCreateATA(k, Lp(k), Escrow(k, FeeVault(k)))
                      \o LockInstruction(k, FeeVault(k), Part(k))
    <3>1. Part(k) # 0 => FeeVaultTx(k, Part(k)) = <<x>>
      BY DEF FeeVaultTx
    <3> HIDE DEF x
    <3>. QED
      BY <1>3, <3>1
  <2>3. IsMake(k, make)
    <3>1. PICK ix : Initialize(k, name, [config |-> Config]) = <<ix>> /\ MakeIx(k, ix)
      BY InitializeForm
    <3> DEFINE none == <<>>
    <3>2. none \o <<ix>> = <<ix>>
      OBVIOUS
    <3>3. AllPrep(none, k.payer)
      BY PrepNone
    <3> HIDE DEF none, post
    <3>4. make = (none \o <<ix>>) \o post
      BY <3>1, <3>2
    <3>. QED
      BY <3>1, <3>3, <3>4 DEF IsMake, post
  <2> HIDE DEF first, make
  <2>4. /\ Len(first) \in {0, 1} /\ Len(fee) \in {0, 1} /\ Len(swap) \in {0, 1}
        /\ Len(t) = Len(first) + 1 + Len(fee) + Len(swap)
        /\ Len(first) = 1 => <<t[1]>> = first
        /\ t[Len(first) + 1] = make
        /\ Len(fee) = 1 => <<t[Len(first) + 2]>> = fee
        /\ Len(swap) = 1 => <<t[Len(t)]>> = swap
    <3>1. t = first \o <<make>> \o fee \o swap
      BY <1>3 DEF first, make
    <3>2. first = <<>> \/ \E x : first = <<x>>
      BY <2>1
    <3>3. fee = <<>> \/ \E x : fee = <<x>>
      BY <2>2
    <3>4. swap = <<>> \/ \E x : swap = <<x>>
      BY <1>2
    <3> DEFINE m == make
    <3> HIDE DEF m
    <3>5. t = first \o <<m>> \o fee \o swap
      BY <3>1 DEF m
    <3>6. /\ Len(first) \in {0, 1} /\ Len(fee) \in {0, 1} /\ Len(swap) \in {0, 1}
          /\ Len(t) = Len(first) + 1 + Len(fee) + Len(swap)
          /\ Len(first) = 1 => <<t[1]>> = first
          /\ t[Len(first) + 1] = m
          /\ Len(fee) = 1 => <<t[Len(first) + 2]>> = fee
          /\ Len(swap) = 1 => <<t[Len(t)]>> = swap
      BY <3>2, <3>3, <3>4, <3>5, Stacked
    <3>. QED
      BY <3>6 DEF m
  <2>5. (Len(fee) = 1 <=> Part(k) # 0) /\ (Len(swap) = 1 <=> k.swapIn # 0)
    <3>1. Len(<<>>) = 0 /\ \A x : Len(<<x>>) = 1
      OBVIOUS
    <3>. QED
      BY <1>2, <2>2, <3>1
  <2>6. Len(first) = 1 => t[1] = ixs
    <3>1. Len(<<>>) = 0
      OBVIOUS
    <3>2. ASSUME Len(first) = 1 PROVE t[1] = ixs
      <4>1. first = <<ixs>> /\ <<t[1]>> = first
        BY <2>1, <2>4, <3>1, <3>2
      <4>2. <<t[1]>>[1] = t[1] /\ <<ixs>>[1] = ixs
        OBVIOUS
      <4>. QED
        BY <4>1, <4>2
    <3>. QED
      BY <3>2
  <2>7. k.swapIn # 0 => IsSwap(k, t[Len(t)])
    <3>1. ASSUME k.swapIn # 0 PROVE IsSwap(k, t[Len(t)])
      <4>1. PICK tx : swap = <<tx>> /\ IsSwap(k, tx)
        BY <1>2, <3>1
      <4>2. t[Len(t)] = tx
        BY <2>4, <2>5, <3>1, <4>1
      <4>. QED
        BY <4>1, <4>2
    <3>. QED
      BY <3>1
  <2>0. Len(first) \in {0, 1}
    BY <2>4
  <2>8. n \in {1, 2} /\ t[n] = make /\ n + 1 = Len(first) + 2
    <3>1. t[n] = make
      BY <2>4
    <3>2. n \in {1, 2} /\ n + 1 = Len(first) + 2
      <4>1. CASE Len(first) = 0
        BY <4>1
      <4>2. CASE Len(first) = 1
        BY <4>2
      <4>. QED
        BY <2>0, <4>1, <4>2
    <3>. QED
      BY <3>1, <3>2
  <2>9. \A i \in 1..(n - 1) : AllPrep(t[i], k.payer)
    <3>1. ASSUME NEW i \in 1..(n - 1) PROVE i = 1 /\ Len(first) = 1
      <4>1. CASE Len(first) = 0
        BY <3>1, <4>1
      <4>2. CASE Len(first) = 1
        BY <3>1, <4>2
      <4>. QED
        BY <2>0, <4>1, <4>2
    <3>. QED
      BY <1>3, <2>6, <3>1 DEF c
  <2>10. Part(k) # 0 => <<t[n + 1]>> = FeeVaultTx(k, Part(k))
    BY <1>3, <2>4, <2>5, <2>8
  <2>11. Len(t) = n + (IF Part(k) # 0 THEN 1 ELSE 0) + (IF k.swapIn # 0 THEN 1 ELSE 0)
    BY <2>4, <2>5
  <2> HIDE DEF n
  <2>. QED
    BY <2>3, <2>7, <2>8, <2>9, <2>10, <2>11 DEF Shape
<1>4. ASSUME ~k.lock, k.swapIn = 0, Part(k) = 0,
             NEW name \in PoolInstructions, NEW acc, DOMAIN acc \subseteq {"config", "feeOwner"},
             NEW t, t = << pre \o Initialize(k, name, acc) >>
      PROVE  Shape(k, t, 1)
  <2>1. PICK ix : Initialize(k, name, acc) = <<ix>> /\ MakeIx(k, ix)
    BY <1>4, InitializeForm
  <2>2. LockPost(k, UserMax(k)) = <<>>
    BY <1>4 DEF LockPost
  <2> DEFINE q == pre \o <<ix>>
  <2>3. q \o <<>> = q
    <3>1. q \in Seq(ToSet(q))
      BY <1>1, One, Joined
    <3> HIDE DEF q
    <3>. QED
      BY <3>1
  <2>4. t = <<q>> /\ Len(t) = 1 /\ t[1] = q
    BY <1>4, <2>1
  <2> HIDE DEF q
  <2>5. q = q \o LockPost(k, UserMax(k))
    BY <2>2, <2>3
  <2>6. IsMake(k, q)
    BY <1>1, <2>1, <2>5 DEF IsMake, q, c
  <2>7. 1..(1 - 1) = {} /\ Len(t) = 1 + 0 + 0
    BY <2>4
  <2>. QED
    BY <1>4, <2>4, <2>6, <2>7 DEF Shape
<1>5. CASE k.flow = "customizable"
  <2>1. ~k.lock /\ k.swapIn = 0 /\ Part(k) = 0
    BY <1>5 DEF Asks, Known, Part
  <2>2. "initializeCustomizablePermissionlessConstantProductPool" \in PoolInstructions
        /\ DOMAIN <<>> \subseteq {"config", "feeOwner"}
    BY DEF PoolInstructions
  <2>3. Txs(k) = << pre \o Initialize(k, "initializeCustomizablePermissionlessConstantProductPool", <<>>) >>
    BY <1>5 DEF Txs, CreateCustomizablePool, pre
  <2>4. Shape(k, Txs(k), 1)
    BY <1>4, <2>1, <2>2, <2>3
  <2>. QED
    BY <2>4
<1>6. CASE k.flow = "feeTier"
  <2>1. ~k.lock /\ k.swapIn = 0 /\ Part(k) = 0
    BY <1>6 DEF Asks, Known, Part
  <2>2. "initializePermissionlessPoolWithFeeTier" \in PoolInstructions
        /\ DOMAIN [feeOwner |-> "FEE_OWNER"] \subseteq {"config", "feeOwner"}
    BY DEF PoolInstructions
  <2>3. Txs(k) = << pre \o Initialize(k, "initializePermissionlessPoolWithFeeTier",
                                      [feeOwner |-> "FEE_OWNER"]) >>
    BY <1>6 DEF Txs, CreatePermissionlessPool, pre
  <2>4. Shape(k, Txs(k), 1)
    BY <1>4, <2>1, <2>2, <2>3
  <2>. QED
    BY <2>4
<1>7. /\ "initializePermissionlessConstantProductPoolWithConfig" \in PoolInstructions
      /\ "initializePermissionlessConstantProductPoolWithConfig2" \in PoolInstructions
  BY DEF PoolInstructions
<1>8. CASE k.flow = "config"
  <2> DEFINE name == "initializePermissionlessConstantProductPoolWithConfig"
             before == PreTx(pre) \o << Initialize(k, name, [config |-> Config]) \o LockPost(k, U64Max) >>
  <2>1. Part(k) = 0 /\ UserMax(k) = U64Max
    BY <1>8 DEF Part, UserMax
  <2>2. Txs(k) = before \o swap
    BY <1>8 DEF Txs, CreatePoolWithConfig, pre, swap
  <2>3. before \o <<>> = before
    <3>1. PreTx(pre) = <<>> \/ PreTx(pre) = <<pre>>
      BY DEF PreTx
    <3> DEFINE x == PreTx(pre)
               y == Initialize(k, name, [config |-> Config]) \o LockPost(k, U64Max)
    <3>2. before = x \o <<y>>
      OBVIOUS
    <3>3. x \in Seq({pre, y})
      <4>1. x = <<>> \/ x = <<pre>>
        BY <3>1
      <4> DEFINE S == {pre, y}
      <4>2. pre \in S
        OBVIOUS
      <4> HIDE DEF y, x, S
      <4>3. x \in Seq(S)
        BY <4>1, <4>2, AtMostOne
      <4>. QED
        BY <4>3 DEF S
    <3> HIDE DEF x, y, before
    <3>4. before \in Seq({pre, y})
      BY <3>2, <3>3
    <3>. QED
      BY <3>4
  <2>4. Txs(k) = PreTx(pre) \o << Initialize(k, name, [config |-> Config]) \o LockPost(k, UserMax(k)) >>
                   \o <<>> \o swap
    BY <2>1, <2>2, <2>3
  <2> DEFINE none == <<>>
  <2>5. none = IF Part(k) = 0 THEN <<>> ELSE FeeVaultTx(k, Part(k))
    BY <2>1
  <2> HIDE DEF none, name, before
  <2>6. Txs(k) = PreTx(pre) \o << Initialize(k, name, [config |-> Config]) \o LockPost(k, UserMax(k)) >>
                   \o none \o swap
    BY <2>4 DEF none, name
  <2>. QED
    BY <1>1, <1>3, <1>7, <2>5, <2>6 DEF name
<1>9. k.flow \in {"config2", "memecoin"} =>
        /\ amounts.user = UserMax(k)
        /\ FeeVaultTx(k, amounts.feeWrapper)
             = IF Part(k) = 0 THEN <<>> ELSE FeeVaultTx(k, Part(k))
  BY DEF CalculateLockAmounts, UserMax, Part, FeeVaultTx
<1> DEFINE fee == FeeVaultTx(k, amounts.feeWrapper)
<1> HIDE DEF amounts
<1>10. CASE k.flow = "config2"
  <2> DEFINE name == "initializePermissionlessConstantProductPoolWithConfig2"
  <2>1. Txs(k) = PreTx(pre) \o << Initialize(k, name, [config |-> Config]) \o LockPost(k, amounts.user) >>
                   \o fee \o swap
    BY <1>10 DEF Txs, CreatePoolWithConfig2, pre, swap, amounts
  <2>2. Txs(k) = PreTx(pre) \o << Initialize(k, name, [config |-> Config]) \o LockPost(k, UserMax(k)) >>
                   \o fee \o swap
    BY <1>9, <1>10, <2>1
  <2>3. fee = IF Part(k) = 0 THEN <<>> ELSE FeeVaultTx(k, Part(k))
    BY <1>9, <1>10
  <2> HIDE DEF fee, name
  <2>. QED
    BY <1>1, <1>3, <1>7, <2>2, <2>3 DEF name
<1>11. CASE k.flow = "memecoin"
  <2> DEFINE name == "initializePermissionlessConstantProductPoolWithConfig"
             ixs == CreateTokenIxs(k) \o pre
  <2>1. Txs(k) = PreTx(ixs) \o << Initialize(k, name, [config |-> Config]) \o LockPost(k, amounts.user) >>
                   \o fee \o swap
    BY <1>11 DEF Txs, CreateMemecoinPool, pre, swap, amounts
  <2>2. Txs(k) = PreTx(ixs) \o << Initialize(k, name, [config |-> Config]) \o LockPost(k, UserMax(k)) >>
                   \o fee \o swap
    BY <1>9, <1>11, <2>1
  <2>3. fee = IF Part(k) = 0 THEN <<>> ELSE FeeVaultTx(k, Part(k))
    BY <1>9, <1>11
  <2>4. AllPrep(ixs, c)
    BY <1>1, PrepsJoined
  <2> HIDE DEF fee, name, ixs
  <2>. QED
    BY <1>3, <1>7, <2>2, <2>3, <2>4 DEF name
<1>. QED
  BY <1>5, <1>6, <1>8, <1>10, <1>11 DEF Asks, Known, Flows

-----------------------------------------------------------------------------
(* Numbers                                                                 *)

LEMMA Products ==
    ASSUME NEW a \in Nat, NEW b \in Nat, NEW c \in Nat, NEW d \in Nat, a <= c, b <= d
    PROVE  a * b <= c * d /\ a * b \in Nat /\ c * d \in Nat
<1>1. PICK x \in Nat : c = a + x
  <2>1. c - a \in Nat /\ c = a + (c - a)
    OBVIOUS
  <2>. QED
    BY <2>1
<1>2. PICK y \in Nat : d = b + y
  <2>1. d - b \in Nat /\ d = b + (d - b)
    OBVIOUS
  <2>. QED
    BY <2>1
<1>3. c * d = ((a * b + a * y) + x * b) + x * y
  BY <1>1, <1>2
<1>4. a * b \in Nat /\ a * y \in Nat /\ x * b \in Nat /\ x * y \in Nat
  OBVIOUS
<1>. QED
  BY <1>3, <1>4

\* Every number has a square root, rounded down.
LEMMA Roots == \A n \in Nat : \E r \in Nat : r * r <= n /\ n < (r + 1) * (r + 1)
<1> DEFINE S == {n \in Nat : \E r \in Nat : r * r <= n /\ n < (r + 1) * (r + 1)}
<1>1. 0 \in S
  <2>1. 0 * 0 <= 0 /\ 0 < (0 + 1) * (0 + 1)
    OBVIOUS
  <2>. QED
    BY <2>1
<1>2. ASSUME NEW n \in Nat, n \in S PROVE n + 1 \in S
  <2>1. PICK r \in Nat : r * r <= n /\ n < (r + 1) * (r + 1)
    BY <1>2
  <2> DEFINE p == r * r
             q == (r + 1) * (r + 1)
             t == ((r + 1) + 1) * ((r + 1) + 1)
  <2>2. q = (p + r) + (r + 1) /\ t = (q + (r + 1)) + ((r + 1) + 1) /\ p \in Nat
    OBVIOUS
  <2>3. p <= n /\ n < q
    BY <2>1
  <2> HIDE DEF p, q, t
  <2>4. CASE n + 1 < q
    <3>1. p <= n + 1
      BY <2>2, <2>3
    <3>. QED
      BY <2>4, <3>1 DEF p, q
  <2>5. CASE ~(n + 1 < q)
    <3>1. q <= n + 1 /\ n + 1 < t
      BY <2>2, <2>3, <2>5
    <3> DEFINE v == r + 1
    <3>2. v \in Nat /\ q = v * v /\ t = (v + 1) * (v + 1)
      BY DEF q, t
    <3> HIDE DEF v
    <3>3. v * v <= n + 1 /\ n + 1 < (v + 1) * (v + 1)
      BY <3>1, <3>2
    <3>. QED
      BY <3>2, <3>3
  <2>. QED
    BY <2>4, <2>5
<1> HIDE DEF S
<1>3. Nat \subseteq S
  BY <1>1, <1>2, SetInduction
<1>. QED
  BY <1>3 DEF S

\* The LP of a new pool is less than any balance.
LEMMA LpAmountOk == LpAmount \in Nat /\ LpAmount <= U64Max
<1> DEFINE n == AmountA * AmountB
           P(r) == r * r <= n /\ n < (r + 1) * (r + 1)
<1>1. AmountA \in Nat /\ AmountB \in Nat /\ U64Max \in Nat /\ AmountA <= U64Max /\ AmountB <= U64Max
  BY CreationConstants
<1>2. n \in Nat /\ n <= U64Max * U64Max /\ U64Max * U64Max \in Nat
  BY <1>1, Products
<1>3. PICK r \in Nat : P(r)
  BY <1>2, Roots
<1>4. n <= (AmountA + AmountB) * (AmountA + AmountB)
  <2>1. AmountA + AmountB \in Nat /\ AmountA <= AmountA + AmountB /\ AmountB <= AmountA + AmountB
    BY <1>1
  <2>. QED
    BY <1>1, <2>1, Products
<1> HIDE DEF n
<1>5. ASSUME NEW x \in Nat, NEW q \in Nat, n <= x * x, q * q <= n
      PROVE  q <= x
  <2> SUFFICES ASSUME ~(q <= x) PROVE FALSE
    OBVIOUS
  <2>1. x + 1 \in Nat /\ x + 1 <= q
    OBVIOUS
  <2>2. (x + 1) * (x + 1) <= q * q
    BY <2>1, Products
  <2>3. (x + 1) * (x + 1) = (x * x + x) + (x + 1) /\ x * x \in Nat /\ q * q \in Nat
    OBVIOUS
  <2>. QED
    BY <1>2, <1>5, <2>2, <2>3
<1>6. r \in 0..(AmountA + AmountB)
  <2> DEFINE both == AmountA + AmountB
  <2>1. both \in Nat
    BY <1>1
  <2>2. n <= both * both /\ r * r <= n
    BY <1>3, <1>4
  <2> HIDE DEF both
  <2>3. r <= both
    BY <1>5, <2>1, <2>2
  <2>. QED
    BY <2>1, <2>3 DEF both
<1>7. LpAmount \in 0..(AmountA + AmountB) /\ P(LpAmount)
  <2>1. LpAmount = CHOOSE q \in 0..(AmountA + AmountB) : P(q)
    BY DEF LpAmount, n
  <2> HIDE DEF P
  <2>. QED
    BY <1>3, <1>6, <2>1
<1>8. LpAmount \in Nat
  BY <1>1, <1>7
<1>. QED
  BY <1>1, <1>2, <1>5, <1>7, <1>8

\* Of LP in parts of RatioSteps no part is more than all.
LEMMA PartOfAll ==
    ASSUME NEW lp \in Nat, NEW ratio \in 0..RatioSteps
    PROVE  (lp * ratio) \div RatioSteps \in 0..lp
<1> DEFINE R == RatioSteps
           x == lp * ratio
           q == x \div R
<1>1. R \in Nat /\ R > 0 /\ ratio \in Nat /\ ratio <= R
  BY CreationConstants
<1>2. x \in Nat /\ x <= lp * R /\ lp * R \in Nat
  BY <1>1, Products
<1> HIDE DEF x, R
<1>3. q \in Nat /\ q * R <= x
  BY <1>1, <1>2
<1>4. q <= lp
  <2> HIDE DEF q
  <2> SUFFICES ASSUME ~(q <= lp) PROVE FALSE
    OBVIOUS
  <2>1. lp + 1 \in Nat /\ lp + 1 <= q
    BY <1>3
  <2>2. (lp + 1) * R <= q * R /\ q * R \in Nat
    BY <1>1, <1>3, <2>1, Products
  <2>3. (lp + 1) * R = lp * R + R
    BY <1>1
  <2>. QED
    BY <1>1, <1>2, <1>3, <2>2, <2>3
<1>. QED
  BY <1>3, <1>4 DEF x, R

-----------------------------------------------------------------------------
(* Sums                                                                    *)

Pick(T) == CHOOSE x \in T : TRUE

\* The sums of f over the subsets of S
Adds(g, S, f) == g = [T \in SUBSET S |-> IF T = {} THEN 0 ELSE f[Pick(T)] + g[T \ {Pick(T)}]]

LEMMA Picked ==
    ASSUME NEW T, IsFiniteSet(T), T # {}
    PROVE  /\ Pick(T) \in T /\ IsFiniteSet(T \ {Pick(T)})
           /\ Cardinality(T) \in Nat /\ Cardinality(T) > 0
           /\ Cardinality(T \ {Pick(T)}) = Cardinality(T) - 1
<1>1. Pick(T) \in T
  BY DEF Pick
<1>2. IsFiniteSet(T \ {Pick(T)}) /\ Cardinality(T \ {Pick(T)}) = Cardinality(T) - 1
  BY <1>1, FS_RemoveElement
<1>3. Cardinality(T) \in Nat /\ Cardinality(T) # 0
  BY FS_CardinalityType, FS_EmptySet
<1>. QED
  BY <1>1, <1>2, <1>3

LEMMA AddsDefined ==
    ASSUME NEW S, IsFiniteSet(S), NEW f
    PROVE  \E g : Adds(g, S, f)
<1> DEFINE Up(n) == {T \in SUBSET S : Cardinality(T) <= n}
           N == {n \in Nat : \E g : g = [T \in Up(n) |->
                                        IF T = {} THEN 0 ELSE f[Pick(T)] + g[T \ {Pick(T)}]]}
<1>1. \A T \in SUBSET S : /\ IsFiniteSet(T) /\ Cardinality(T) \in Nat
                          /\ Cardinality(T) <= Cardinality(S)
                          /\ Cardinality(T) = 0 <=> T = {}
  BY FS_Subset, FS_CardinalityType, FS_EmptySet
<1>2. \A T \in SUBSET S : T # {} => /\ T \ {Pick(T)} \in SUBSET S
                                   /\ Cardinality(T \ {Pick(T)}) = Cardinality(T) - 1
  BY <1>1, Picked
<1>3. 0 \in N
  <2> DEFINE g == [T \in Up(0) |-> 0]
  <2>1. \A T \in Up(0) : T = {}
    BY <1>1
  <2>2. g = [T \in Up(0) |-> IF T = {} THEN 0 ELSE f[Pick(T)] + g[T \ {Pick(T)}]]
    BY <2>1
  <2>. QED
    BY <2>2
<1>4. ASSUME NEW n \in Nat, n \in N PROVE n + 1 \in N
  <2>1. PICK g : g = [T \in Up(n) |-> IF T = {} THEN 0 ELSE f[Pick(T)] + g[T \ {Pick(T)}]]
    BY <1>4
  <2> DEFINE h == [T \in Up(n + 1) |-> IF T \in Up(n) THEN g[T] ELSE f[Pick(T)] + g[T \ {Pick(T)}]]
  <2>2. ASSUME NEW T \in Up(n + 1)
        PROVE  h[T] = IF T = {} THEN 0 ELSE f[Pick(T)] + h[T \ {Pick(T)}]
    <3>1. CASE T = {}
      <4>1. T \in Up(n)
        BY <1>1, <3>1
      <4>2. h[T] = g[T] /\ g[T] = 0
        BY <2>1, <3>1, <4>1
      <4>. QED
        BY <3>1, <4>2
    <3>2. CASE T # {}
      <4> DEFINE R == T \ {Pick(T)}
      <4>1. R \in Up(n) /\ R \in Up(n + 1)
        BY <1>1, <1>2, <3>2
      <4>2. h[R] = g[R]
        BY <4>1
      <4> HIDE DEF R
      <4>3. CASE T \in Up(n)
        <5>1. h[T] = g[T] /\ g[T] = f[Pick(T)] + g[R]
          BY <2>1, <3>2, <4>3 DEF R
        <5>. QED
          BY <3>2, <4>2, <5>1 DEF R
      <4>4. CASE T \notin Up(n)
        <5>1. h[T] = f[Pick(T)] + g[R]
          BY <4>4 DEF R
        <5>. QED
          BY <3>2, <4>2, <5>1 DEF R
      <4>. QED
        BY <4>3, <4>4
    <3>. QED
      BY <3>1, <3>2
  <2>3. h = [T \in Up(n + 1) |-> h[T]]
    OBVIOUS
  <2> HIDE DEF h
  <2>4. h = [T \in Up(n + 1) |-> IF T = {} THEN 0 ELSE f[Pick(T)] + h[T \ {Pick(T)}]]
    BY <2>2, <2>3
  <2> HIDE DEF Up
  <2>5. n + 1 \in Nat
    OBVIOUS
  <2>. QED
    BY <2>4, <2>5
<1>5. Cardinality(S) \in Nat /\ Up(Cardinality(S)) = SUBSET S
  BY <1>1
<1> HIDE DEF N, Up
<1>6. Cardinality(S) \in N
  BY <1>3, <1>4, <1>5, SetInduction
<1>. QED
  BY <1>5, <1>6 DEF N, Adds

\* Functions that differ for one element have sums that differ as much.
LEMMA AddsChange ==
    ASSUME NEW S, IsFiniteSet(S), NEW f \in [S -> Int], NEW h \in [S -> Int], NEW j \in S,
           \A i \in S \ {j} : h[i] = f[i],
           NEW a, Adds(a, S, f), NEW b, Adds(b, S, h)
    PROVE  a[S] \in Int /\ b[S] = a[S] + (h[j] - f[j])
<1> DEFINE d(T) == IF j \in T THEN h[j] - f[j] ELSE 0
           N == {n \in Nat : \A T \in SUBSET S :
                               Cardinality(T) = n => a[T] \in Int /\ b[T] = a[T] + d(T)}
<1>1. \A T \in SUBSET S : /\ IsFiniteSet(T) /\ Cardinality(T) \in Nat
                          /\ Cardinality(T) = 0 <=> T = {}
  BY FS_Subset, FS_CardinalityType, FS_EmptySet
<1>2. h[j] \in Int /\ f[j] \in Int
  OBVIOUS
<1>3. 0 \in N
  <2>1. a[{}] = 0 /\ b[{}] = 0
    BY DEF Adds
  <2>. QED
    BY <1>1, <2>1
<1>4. ASSUME NEW n \in Nat, n \in N PROVE n + 1 \in N
  <2> SUFFICES ASSUME NEW T \in SUBSET S, Cardinality(T) = n + 1
               PROVE  a[T] \in Int /\ b[T] = a[T] + d(T)
    OBVIOUS
  <2> DEFINE q == Pick(T)
             R == T \ {q}
  <2>1. T # {}
    BY <1>1
  <2>2. q \in T /\ Cardinality(R) = n /\ R \in SUBSET S
    BY <1>1, <2>1, Picked
  <2>3. a[R] \in Int /\ b[R] = a[R] + d(R)
    BY <1>4, <2>2
  <2>4. a[T] = f[q] + a[R] /\ b[T] = h[q] + b[R]
    BY <2>1 DEF Adds
  <2> HIDE DEF q
  <2>5. CASE q = j
    <3>1. d(R) = 0 /\ d(T) = h[j] - f[j]
      BY <2>2, <2>5
    <3>. QED
      BY <1>2, <2>3, <2>4, <2>5, <3>1
  <2>6. CASE q # j
    <3>1. d(R) = d(T) /\ h[q] = f[q] /\ f[q] \in Int
      BY <2>2, <2>6
    <3>2. d(T) \in Int
      BY <1>2
    <3>. QED
      BY <2>3, <2>4, <3>1, <3>2
  <2>. QED
    BY <2>5, <2>6
<1> HIDE DEF N
<1>5. Nat \subseteq N
  BY <1>3, <1>4, SetInduction
<1>. QED
  BY <1>1, <1>5 DEF N

\* SumFunction of module Functions
LEMMA SumAdds ==
    ASSUME NEW S, IsFiniteSet(S), NEW f \in [S -> Int]
    PROVE  \E g : Adds(g, S, f) /\ SumFunction(f) = g[S]
<1> DEFINE g == CHOOSE g : g = [T \in SUBSET S |-> IF T = {} THEN 0 ELSE f[Pick(T)] + g[T \ {Pick(T)}]]
<1>1. PICK h : Adds(h, S, f)
  BY AddsDefined
<1>2. g = [T \in SUBSET S |-> IF T = {} THEN 0 ELSE f[Pick(T)] + g[T \ {Pick(T)}]]
  BY <1>1 DEF Adds
<1>3. DOMAIN f = S
  OBVIOUS
<1>4. SumFunction(f) = g[S]
  BY <1>3 DEF SumFunction, SumFunctionOnSet, FoldFunctionOnSet, MapThenFoldSet, Pick
<1> HIDE DEF g
<1>. QED
  BY <1>2, <1>4 DEF Adds

\* Functions that differ for one element have sums that differ as much.
LEMMA SumChange ==
    ASSUME NEW S, IsFiniteSet(S), NEW f \in [S -> Int], NEW h \in [S -> Int], NEW j \in S,
           \A i \in S \ {j} : h[i] = f[i]
    PROVE  SumFunction(f) \in Int /\ SumFunction(h) = SumFunction(f) + (h[j] - f[j])
<1>1. PICK a : Adds(a, S, f) /\ SumFunction(f) = a[S]
  BY SumAdds
<1>2. PICK b : Adds(b, S, h) /\ SumFunction(h) = b[S]
  BY SumAdds
<1>. QED
  BY <1>1, <1>2, AddsChange

LEMMA SumZero ==
    ASSUME NEW S, IsFiniteSet(S), NEW f \in [S -> Int], \A i \in S : f[i] = 0
    PROVE  SumFunction(f) = 0
<1>1. PICK a : Adds(a, S, f) /\ SumFunction(f) = a[S]
  BY SumAdds
<1> DEFINE N == {n \in Nat : \A T \in SUBSET S : Cardinality(T) = n => a[T] = 0}
<1>2. \A T \in SUBSET S : /\ IsFiniteSet(T) /\ Cardinality(T) \in Nat
                          /\ Cardinality(T) = 0 <=> T = {}
  BY FS_Subset, FS_CardinalityType, FS_EmptySet
<1>3. 0 \in N
  <2>1. a[{}] = 0
    BY <1>1 DEF Adds
  <2>. QED
    BY <1>2, <2>1
<1>4. ASSUME NEW n \in Nat, n \in N PROVE n + 1 \in N
  <2> SUFFICES ASSUME NEW T \in SUBSET S, Cardinality(T) = n + 1 PROVE a[T] = 0
    OBVIOUS
  <2> DEFINE q == Pick(T)
             R == T \ {q}
  <2>1. T # {}
    BY <1>2
  <2>2. q \in T /\ Cardinality(R) = n /\ R \in SUBSET S
    BY <1>2, <2>1, Picked
  <2>3. a[R] = 0 /\ f[q] = 0
    BY <1>4, <2>2
  <2>4. a[T] = f[q] + a[R]
    BY <1>1, <2>1 DEF Adds
  <2>. QED
    BY <2>3, <2>4
<1> HIDE DEF N
<1>5. Nat \subseteq N
  BY <1>3, <1>4, SetInduction
<1>. QED
  BY <1>1, <1>2, <1>5 DEF N

-----------------------------------------------------------------------------
(* What the transactions of a call do                                      *)

\* What a call with a lock locks for the payer.
Locks(k) == IF k.lock THEN LpAmount - Part(k) ELSE 0

\* Where the LP of the call's new pool is, before or after the fee vault's part is
\* locked.
Locked(s, k, both) ==
    LET fees == IF both THEN Part(k) ELSE 0
    IN  /\ Lps(s, k.pool, Escrow(k, k.payer)) = Locks(k)
        /\ Lps(s, k.pool, Escrow(k, FeeVault(k))) = fees
        /\ Lps(s, k.pool, k.payer) = (LpAmount - Locks(k)) - fees

\* The LP of other pools does not move.
Others(s, t, P) == \A Q \in Pools \ {P} : \A o : Lps(t, Q, o) = Lps(s, Q, o)

\* Creators have what they had.
Keeps(s, t) == \A c \in Creators, m \in Mints \ {Memecoin} : Has(t, c, m) = Has(s, c, m)

LEMMA PartOk ==
    ASSUME NEW k, Asks(k)
    PROVE  Part(k) \in 0..LpAmount /\ LpAmount \in Nat /\ Locks(k) \in 0..LpAmount
<1>1. LpAmount \in Nat /\ k.ratio \in 0..RatioSteps
  BY LpAmountOk DEF Asks, Known
<1>2. Part(k) \in 0..LpAmount
  <2>1. (LpAmount * k.ratio) \div RatioSteps \in 0..LpAmount
    BY <1>1, PartOfAll
  <2>2. 0 \in 0..LpAmount
    BY <1>1
  <2>. QED
    BY <2>1, <2>2 DEF Part
<1>. QED
  BY <1>1, <1>2 DEF Locks

LEMMA EscrowsDiffer ==
    ASSUME NEW k, Asks(k)
    PROVE  /\ Escrow(k, k.payer) # Escrow(k, FeeVault(k))
           /\ Escrow(k, k.payer) # k.payer /\ Escrow(k, FeeVault(k)) # k.payer
<1>1. Escrow(k, k.payer)[3] = k.payer /\ Escrow(k, FeeVault(k))[3] = FeeVault(k)
  BY DEF Escrow, DeriveLockEscrowPda
<1>. QED
  BY <1>1 DEF Asks

\* A list ends with one instruction.
LEMMA LeadingLast ==
    ASSUME NEW s, State(s), NEW p, p \in Seq(ToSet(p)), NEW x, NEW t, Leading(s, p \o <<x>>, t), t.res = "ok"
    PROVE  \E u : Leading(s, p, u) /\ Grows(s, u) /\ u.res = "ok" /\ t = Execute(u, x)
<1>1. PICK u : Leading(s, p, u) /\ Leading(u, <<x>>, t)
  <2> DEFINE q == <<x>>
  <2>1. q \in Seq(ToSet(q))
    BY One
  <2> HIDE DEF q
  <2>2. \E u : Leading(s, p, u) /\ Leading(u, q, t)
    BY <2>1, LeadingSplit DEF q
  <2>. QED
    BY <2>2 DEF q
<1>2. t = Execute(u, x)
  BY <1>1, LeadingOne
<1>3. Len(p) \in Nat
  OBVIOUS
<1>4. Grows(s, u)
  BY <1>1, <1>3, LeadingGrows
<1>5. Grows(u, t)
  BY <1>2, <1>4, ExecuteGrows DEF Grows
<1>. QED
  BY <1>1, <1>2, <1>4, <1>5 DEF Grows

Least(x, y) == IF x <= y THEN x ELSE y

\* A list of instructions that prepare a lock
LockPrep(k, p) == AllPrep(p, k.payer) \/ \E q : AllPrep(q, k.payer) /\ p = CreateEscrow(k) \o q

\* The lock of LP in the escrow of an owner, after instructions that prepare it
LEMMA LockAfter ==
    ASSUME NEW s, State(s), Sane(s), NEW k, Asks(k), NEW owner, NEW max \in Int, NEW p, LockPrep(k, p),
           NEW t, Leading(s, p \o LockInstruction(k, owner, max), t), t.res = "ok",
           NEW has, has = Lps(s, k.pool, k.payer), NEW x, x = Least(max, has)
    PROVE  /\ State(t) /\ Sane(t) /\ t.draw = s.draw /\ x \in Int
           /\ Keeps(s, t) /\ Others(s, t, k.pool)
           /\ \A o : Lps(t, k.pool, o) = Shift(Lps(s, k.pool, o), o, k.payer, Escrow(k, owner), x)
<1> DEFINE acc == [lockEscrow |-> Escrow(k, owner), owner |-> k.payer, lpMint |-> Lp(k),
                   sourceTokens |-> Ata(Lp(k), k.payer), escrowVault |-> Ata(Lp(k), Escrow(k, owner))]
                     ++ VaultAccounts(k)
           ix == [name |-> "lock", max |-> max, acc |-> acc]
           c == k.payer
<1>0. c \in Creators /\ k.pool \in Pools
  BY DEF Asks, Known
<1>1. LockInstruction(k, owner, max) = <<ix>>
  BY DEF LockInstruction
<1>2. acc.sourceTokens = Ata(Lp(k), c) /\ acc.escrowVault = Ata(Lp(k), Escrow(k, owner))
  BY DEF ++
<1> HIDE DEF acc
<1>3. /\ ix.name = "lock" /\ ix.max = max
      /\ ix.acc.sourceTokens = Ata(Lp(k), k.payer) /\ ix.acc.escrowVault = Ata(Lp(k), Escrow(k, owner))
  BY <1>2
<1> HIDE DEF ix
<1>4. p \in Seq(ToSet(p))
  <2>1. CASE AllPrep(p, k.payer)
    BY <2>1 DEF AllPrep
  <2>2. CASE \E q : AllPrep(q, k.payer) /\ p = CreateEscrow(k) \o q
    <3>1. PICK q : AllPrep(q, k.payer) /\ p = CreateEscrow(k) \o q
      BY <2>2
    <3> DEFINE e == CreateEscrow(k)
    <3>2. e \in Seq(ToSet(e))
      BY One DEF CreateEscrow
    <3> HIDE DEF e
    <3>3. e \o q \in Seq(ToSet(e \o q))
      BY <3>1, <3>2, Joined DEF AllPrep
    <3>. QED
      BY <3>1, <3>3 DEF e
  <2>. QED
    BY <2>1, <2>2 DEF LockPrep
<1>5. PICK u : Leading(s, p, u) /\ Grows(s, u) /\ u.res = "ok" /\ t = Execute(u, ix)
  BY <1>1, <1>4, LeadingLast
<1>6. Same(s, u)
  <2>1. CASE AllPrep(p, k.payer)
    BY <1>0, <1>5, <2>1, PrepsSame
  <2>2. CASE \E q : AllPrep(q, k.payer) /\ p = CreateEscrow(k) \o q
    <3>1. PICK q : AllPrep(q, k.payer) /\ p = CreateEscrow(k) \o q
      BY <2>2
    <3> DEFINE y == [name |-> "createLockEscrow",
                     acc |-> [pool |-> k.pool, lockEscrow |-> Escrow(k, k.payer), owner |-> k.payer,
                              lpMint |-> Lp(k), payer |-> k.payer, systemProgram |-> "systemProgram"]]
               e == <<y>>
    <3>2. CreateEscrow(k) = e /\ y.name = "createLockEscrow"
      BY DEF CreateEscrow
    <3>3. e \in Seq(ToSet(e))
      BY One
    <3> HIDE DEF e
    <3>4. PICK v : Leading(s, e, v) /\ Leading(v, q, u)
      BY <1>5, <3>1, <3>2, <3>3, LeadingSplit DEF AllPrep
    <3> HIDE DEF y
    <3>5. v = Execute(s, y)
      BY <3>4, LeadingOne DEF e
    <3>6. Grows(s, v)
      BY <3>5, ExecuteGrows
    <3>7. Grows(v, u)
      <4>1. Len(q) \in Nat
        BY <3>1 DEF AllPrep
      <4>. QED
        BY <3>4, <3>6, <4>1, LeadingGrows DEF Grows
    <3>8. v.res = "ok"
      BY <1>5, <3>7 DEF Grows
    <3>9. Same(s, v)
      BY <3>2, <3>5, <3>8, EscrowOk
    <3>10. Same(v, u)
      BY <1>0, <1>5, <3>1, <3>4, <3>6, <3>9, PrepsSame DEF Same
    <3>. QED
      BY <3>9, <3>10, SameTrans
  <2>. QED
    BY <2>1, <2>2 DEF LockPrep
<1> DEFINE had == Lps(u, k.pool, c)
           y == Least(max, had)
<1>7. /\ State(t) /\ Sane(t) /\ t.draw = u.draw /\ y \in Int
      /\ \A d \in Creators, m \in Mints \ {Memecoin} : Has(t, d, m) = Has(u, d, m)
      /\ \A P \in Pools : \A o :
           Lps(t, P, o) = IF P = k.pool THEN Shift(Lps(u, P, o), o, c, Escrow(k, owner), y) ELSE Lps(u, P, o)
  <2>1. State(u) /\ Sane(u)
    BY <1>6 DEF Same
  <2> DEFINE e == Escrow(k, owner)
  <2>2. ix.acc.escrowVault = Ata(Lp(k), e)
    BY <1>3
  <2> HIDE DEF e
  <2>3. y = IF max <= Lps(u, k.pool, k.payer) THEN max ELSE Lps(u, k.pool, k.payer)
    BY DEF Least
  <2> HIDE DEF y
  <2>4. /\ State(t) /\ Sane(t) /\ t.draw = u.draw /\ y \in Int
        /\ \A d \in Creators, m \in Mints \ {Memecoin} : Has(t, d, m) = Has(u, d, m)
        /\ \A P \in Pools : \A o :
             Lps(t, P, o) = IF P = k.pool THEN Shift(Lps(u, P, o), o, k.payer, e, y) ELSE Lps(u, P, o)
    BY <1>3, <1>5, <2>1, <2>2, <2>3, LockOk
  <2>. QED
    BY <2>4 DEF e
<1>8. had = has /\ y = x
  BY <1>0, <1>6 DEF Same, SameLp
<1> HIDE DEF had, y
<1>9. Keeps(s, t) /\ Others(s, t, k.pool) /\ t.draw = s.draw
  BY <1>6, <1>7 DEF Keeps, Others, Same, SameLp
<1>10. ASSUME NEW o
       PROVE  Lps(t, k.pool, o) = Shift(Lps(s, k.pool, o), o, c, Escrow(k, owner), x)
  BY <1>0, <1>6, <1>7, <1>8 DEF Same, SameLp
<1>. QED
  BY <1>7, <1>8, <1>9, <1>10

LEMMA LockPostSeq ==
    ASSUME NEW k, NEW max
    PROVE  LockPost(k, max) \in Seq(ToSet(LockPost(k, max)))
<1> DEFINE a == CreateEscrow(k)
           b == GetOrCreateATA(k, Lp(k), Escrow(k, k.payer))
           c == LockInstruction(k, k.payer, max)
<1>1. LockPost(k, max) = <<>> \/ LockPost(k, max) = a \o b \o c
  BY DEF LockPost
<1>2. a \in Seq(ToSet(a)) /\ c \in Seq(ToSet(c))
  BY One DEF CreateEscrow, LockInstruction
<1>3. b \in Seq(ToSet(b))
  BY AtaPrep DEF AllPrep
<1> HIDE DEF a, b, c
<1>4. a \o b \in Seq(ToSet(a \o b))
  BY <1>2, <1>3, Joined
<1>5. a \o b \o c \in Seq(ToSet(a \o b \o c))
  BY <1>2, <1>4, Joined
<1>. QED
  BY <1>1, <1>5, Nothing

\* The payer's lock in the transaction that makes the pool: x is what it locks.
LEMMA LockPostOk ==
    ASSUME NEW s, State(s), Sane(s), NEW k, Asks(k), NEW max \in Int,
           NEW t, Leading(s, LockPost(k, max), t), t.res = "ok", NEW has, has = Lps(s, k.pool, k.payer),
           NEW x, x = IF ~k.lock \/ max = 0 THEN 0 ELSE Least(max, has)
    PROVE  /\ State(t) /\ Sane(t) /\ t.draw = s.draw
           /\ Keeps(s, t) /\ Others(s, t, k.pool)
           /\ \A o : Lps(t, k.pool, o) = Shift(Lps(s, k.pool, o), o, k.payer, Escrow(k, k.payer), x)
<1>1. CASE ~k.lock \/ max = 0
  <2>1. LockPost(k, max) = <<>>
    BY <1>1 DEF LockPost
  <2>2. t = s /\ x = 0
    BY <1>1, <2>1, LeadingNone
  <2>3. ASSUME NEW o
        PROVE  Lps(s, k.pool, o) = Shift(Lps(s, k.pool, o), o, k.payer, Escrow(k, k.payer), 0)
    <3>1. Lps(s, k.pool, o) \in Int
      BY BalInt DEF Lps
    <3>. QED
      BY <3>1 DEF Shift
  <2>4. Keeps(s, t) /\ Others(s, t, k.pool)
    BY <2>2 DEF Keeps, Others
  <2>5. \A o : Lps(t, k.pool, o) = Shift(Lps(s, k.pool, o), o, k.payer, Escrow(k, k.payer), x)
    BY <2>2, <2>3
  <2>. QED
    BY <2>2, <2>4, <2>5
<1>2. CASE ~(~k.lock \/ max = 0)
  <2> DEFINE q == GetOrCreateATA(k, Lp(k), Escrow(k, k.payer))
             p == CreateEscrow(k) \o q
             c == k.payer
  <2>1. LockPost(k, max) = p \o LockInstruction(k, c, max)
    BY <1>2 DEF LockPost
  <2>2. AllPrep(q, c)
    BY AtaPrep
  <2>3. x = Least(max, has)
    BY <1>2
  <2> HIDE DEF p
  <2>4. LockPrep(k, p)
    BY <2>2 DEF p, LockPrep
  <2> HIDE DEF c
  <2>6. Leading(s, p \o LockInstruction(k, c, max), t)
    BY <2>1
  <2>7. /\ State(t) /\ Sane(t) /\ t.draw = s.draw /\ Keeps(s, t) /\ Others(s, t, k.pool)
        /\ \A o : Lps(t, k.pool, o) = Shift(Lps(s, k.pool, o), o, k.payer, Escrow(k, c), x)
    BY <2>3, <2>4, <2>6, LockAfter
  <2>5. /\ State(t) /\ Sane(t) /\ t.draw = s.draw /\ Keeps(s, t) /\ Others(s, t, k.pool)
        /\ \A o : Lps(t, k.pool, o) = Shift(Lps(s, k.pool, o), o, k.payer, Escrow(k, k.payer), x)
    BY <2>7 DEF c
  <2>. QED
    BY <2>5
<1>. QED
  BY <1>1, <1>2

\* The transaction that makes the pool takes the deposit; the LP is the payer's, with
\* what the call locks for the payer in the payer's escrow.
LEMMA MakeTx ==
    ASSUME NEW s, State(s), Sane(s), NEW k, Asks(k), \A o : Lps(s, k.pool, o) = 0, NEW tx, IsMake(k, tx),
           NEW t, Leading(s, tx, t), t.res = "ok"
    PROVE  /\ State(t) /\ Sane(t) /\ Spends(s, t, k.payer, k.a, AmountA, k.b, AmountB)
           /\ Others(s, t, k.pool) /\ Locked(t, k, FALSE)
<1> DEFINE c == k.payer
           max == UserMax(k)
           post == LockPost(k, max)
<1>0. c \in Creators /\ k.pool \in Pools /\ max \in Int
      /\ LpAmount \in Nat /\ LpAmount <= U64Max /\ Part(k) \in 0..LpAmount /\ U64Max \in Nat
  <2>1. LpAmount \in Nat /\ LpAmount <= U64Max /\ Part(k) \in 0..LpAmount /\ U64Max \in Nat
    BY PartOk, LpAmountOk, CreationConstants
  <2>2. max \in Int
    BY <2>1 DEF UserMax
  <2>. QED
    BY <2>1, <2>2 DEF Asks, Known
<1>1. PICK pre, ix : AllPrep(pre, c) /\ MakeIx(k, ix) /\ tx = (pre \o <<ix>>) \o post
  BY DEF IsMake
<1> DEFINE most == pre \o <<ix>>
<1>2. most \in Seq(ToSet(most))
  BY <1>1, One, Joined DEF AllPrep
<1>3. post \in Seq(ToSet(post))
  BY LockPostSeq
<1> HIDE DEF post, most, max
<1>4. PICK v : Leading(s, most, v) /\ Leading(v, post, t)
  <2>1. Leading(s, most \o post, t)
    BY <1>1 DEF most
  <2>. QED
    BY <1>2, <1>3, <2>1, LeadingSplit
<1>5. Grows(s, v) /\ Grows(v, t)
  <2>1. Len(most) \in Nat /\ Len(post) \in Nat
    BY <1>2, <1>3
  <2>2. Grows(s, v)
    BY <1>4, <2>1, LeadingGrows
  <2>. QED
    BY <1>4, <2>1, <2>2, LeadingGrows DEF Grows
<1>6. v.res = "ok" /\ State(v)
  BY <1>5 DEF Grows
<1>7. PICK u : Leading(s, pre, u) /\ Grows(s, u) /\ u.res = "ok" /\ v = Execute(u, ix)
  BY <1>1, <1>4, <1>6, LeadingLast DEF most, AllPrep
<1>8. Same(s, u)
  BY <1>0, <1>1, <1>7, PrepsSame
<1>9. State(u) /\ Sane(u)
  BY <1>8 DEF Same
<1>10. /\ Sane(v) /\ Spends(u, v, c, k.a, AmountA, k.b, AmountB)
       /\ \A P \in Pools : \A o :
            Lps(v, P, o) = Lps(u, P, o) + (IF P = k.pool /\ o = c THEN LpAmount ELSE 0)
  BY <1>0, <1>1, <1>6, <1>7, <1>9, InitializeOk DEF MakeIx
<1>11. \A o : Lps(v, k.pool, o) = IF o = c THEN LpAmount ELSE 0
  <2>1. \A o : Lps(u, k.pool, o) = 0
    BY <1>0, <1>8 DEF Same, SameLp
  <2>. QED
    BY <1>0, <1>10, <2>1
<1>12. Others(s, v, k.pool)
  <2> SUFFICES ASSUME NEW P \in Pools \ {k.pool}, NEW o PROVE Lps(v, P, o) = Lps(s, P, o)
    BY DEF Others
  <2>1. Lps(u, P, o) = Lps(s, P, o) /\ Lps(s, P, o) \in Int
    BY <1>8, BalInt DEF Same, SameLp, Lps
  <2>. QED
    BY <1>10, <2>1
<1> DEFINE has == Lps(v, k.pool, c)
           x == IF ~k.lock \/ max = 0 THEN 0 ELSE Least(max, has)
<1>13. /\ State(t) /\ Sane(t) /\ Keeps(v, t) /\ Others(v, t, k.pool)
       /\ \A o : Lps(t, k.pool, o) = Shift(Lps(v, k.pool, o), o, c, Escrow(k, c), x)
  <2>1. Leading(v, LockPost(k, max), t)
    BY <1>4 DEF post
  <2> HIDE DEF has, x
  <2>2. has = Lps(v, k.pool, k.payer) /\ x = IF ~k.lock \/ max = 0 THEN 0 ELSE Least(max, has)
    BY DEF has, x
  <2>3. State(v) /\ Sane(v) /\ max \in Int
    BY <1>0, <1>6, <1>10
  <2>4. /\ State(t) /\ Sane(t) /\ t.draw = v.draw /\ Keeps(v, t) /\ Others(v, t, k.pool)
        /\ \A o : Lps(t, k.pool, o) = Shift(Lps(v, k.pool, o), o, k.payer, Escrow(k, k.payer), x)
    BY <2>1, <2>2, <2>3, LockPostOk
  <2>. QED
    BY <2>4
<1>14. x = Locks(k)
  <2>1. has = LpAmount
    BY <1>11
  <2> HIDE DEF has, max
  <2>2. CASE k.flow \in {"config2", "memecoin"}
    <3>1. max = LpAmount - Part(k)
      BY <2>2 DEF max, UserMax
    <3>. QED
      BY <1>0, <2>1, <3>1 DEF Locks, Least
  <2>3. CASE k.flow \notin {"config2", "memecoin"}
    <3>1. max = U64Max /\ Part(k) = 0
      BY <2>3 DEF max, UserMax, Part
    <3>. QED
      BY <1>0, <2>1, <3>1 DEF Locks, Least
  <2>. QED
    BY <2>2, <2>3
<1> HIDE DEF x, has
<1>15. Locked(t, k, FALSE)
  <2> DEFINE own == Escrow(k, c)
             fees == Escrow(k, FeeVault(k))
  <2>1. own # fees /\ own # c /\ fees # c
    BY EscrowsDiffer
  <2>2. Locks(k) \in Int /\ LpAmount \in Int
    BY PartOk
  <2> HIDE DEF own, fees, c
  <2>3. Lps(t, k.pool, own) = Locks(k)
    BY <1>11, <1>13, <1>14, <2>1, <2>2 DEF Shift, own
  <2>4. Lps(t, k.pool, fees) = 0
    BY <1>11, <1>13, <1>14, <2>1, <2>2 DEF Shift, own
  <2>5. Lps(t, k.pool, c) = LpAmount - Locks(k)
    BY <1>11, <1>13, <1>14, <2>1, <2>2 DEF Shift, own
  <2>. QED
    BY <2>2, <2>3, <2>4, <2>5 DEF Locked, own, fees, c
<1>16. Spends(s, t, c, k.a, AmountA, k.b, AmountB)
  BY <1>8, <1>10, <1>13 DEF Spends, Same, Keeps
<1>17. Others(s, t, k.pool)
  BY <1>12, <1>13 DEF Others
<1>. QED
  BY <1>13, <1>15, <1>16, <1>17

\* The fee vault's transaction moves its part from the payer's account.
LEMMA FeeTx ==
    ASSUME NEW s, State(s), Sane(s), NEW k, Asks(k), Part(k) # 0, Locked(s, k, FALSE), NEW tx,
           <<tx>> = FeeVaultTx(k, Part(k)), NEW t, Leading(s, tx, t), t.res = "ok"
    PROVE  /\ State(t) /\ Sane(t) /\ Keeps(s, t) /\ Others(s, t, k.pool) /\ Locked(t, k, TRUE)
<1> DEFINE c == k.payer
           max == Part(k)
           own == Escrow(k, c)
           fees == Escrow(k, FeeVault(k))
           make == <<[name |-> "createFeeVault", pool |-> k.pool, signers |-> {k.payer}]>>
           ata == GetOrCreateATA(k, Lp(k), fees)
           p == make \o ata
<1>1. tx = p \o LockInstruction(k, FeeVault(k), max)
  <2> DEFINE y == p \o LockInstruction(k, FeeVault(k), max)
  <2>1. FeeVaultTx(k, Part(k)) = <<y>>
    BY DEF FeeVaultTx
  <2> HIDE DEF y
  <2>2. <<tx>>[1] = tx /\ <<y>>[1] = y
    OBVIOUS
  <2>3. tx = y
    BY <2>1, <2>2
  <2>. QED
    BY <2>3 DEF y
<1>2. AllPrep(p, c)
  <2>1. AllPrep(make, c)
    BY PrepOne DEF Prep
  <2>2. AllPrep(ata, c)
    BY AtaPrep
  <2> HIDE DEF make, ata
  <2>. QED
    BY <2>1, <2>2, PrepsJoined
<1> HIDE DEF p
<1>3. max \in 1..LpAmount /\ Locks(k) \in 0..LpAmount /\ LpAmount \in Nat
      /\ max <= LpAmount - Locks(k)
  BY PartOk DEF Locks
<1> HIDE DEF max
<1> DEFINE has == Lps(s, k.pool, c)
           x == Least(max, has)
<1>4. has = LpAmount - Locks(k)
  BY <1>3 DEF Locked
<1>5. x = max
  <2> HIDE DEF has
  <2>. QED
    BY <1>3, <1>4 DEF Least
<1>6. /\ State(t) /\ Sane(t) /\ Keeps(s, t) /\ Others(s, t, k.pool)
      /\ \A o : Lps(t, k.pool, o) = Shift(Lps(s, k.pool, o), o, c, fees, x)
  <2>1. max \in Int
    BY <1>3
  <2> HIDE DEF has, x
  <2>2. has = Lps(s, k.pool, k.payer) /\ x = Least(max, has) /\ LockPrep(k, p)
    BY <1>2 DEF has, x, LockPrep
  <2> DEFINE owner == FeeVault(k)
  <2> HIDE DEF owner
  <2>3. Leading(s, p \o LockInstruction(k, owner, max), t)
    BY <1>1 DEF owner
  <2>4. /\ State(t) /\ Sane(t) /\ t.draw = s.draw /\ Keeps(s, t) /\ Others(s, t, k.pool)
        /\ \A o : Lps(t, k.pool, o) = Shift(Lps(s, k.pool, o), o, k.payer, Escrow(k, owner), x)
    BY <2>1, <2>2, <2>3, LockAfter
  <2>. QED
    BY <2>4 DEF owner
<1>7. Lps(s, k.pool, own) = Locks(k) /\ Lps(s, k.pool, fees) = 0
  BY DEF Locked
<1>8. own # fees /\ own # c /\ fees # c
  BY EscrowsDiffer
<1> HIDE DEF x, own, fees, c
<1>9. /\ Lps(t, k.pool, own) = Locks(k) /\ Lps(t, k.pool, fees) = max
      /\ Lps(t, k.pool, c) = (LpAmount - Locks(k)) - max
  BY <1>3, <1>4, <1>5, <1>6, <1>7, <1>8 DEF Shift, has
<1>10. Locked(t, k, TRUE)
  BY <1>9 DEF Locked, own, fees, c, max
<1>. QED
  BY <1>6, <1>10

\* The first swap takes what is swapped, and moves no LP.
LEMMA FirstSwapTx ==
    ASSUME NEW s, State(s), Sane(s), s.draw[1] = 0, NEW k, Asks(k), NEW tx, IsSwap(k, tx),
           NEW t, Leading(s, tx, t), t.res = "ok"
    PROVE  /\ State(t) /\ Sane(t) /\ SameLp(s, t) /\ Spends(s, t, k.payer, k.a, 0, k.b, k.swapIn)
<1>1. PICK ix : SwapsIx(k, ix) /\ tx = <<ix>>
  BY DEF IsSwap
<1>2. t = Execute(s, ix)
  BY <1>1, LeadingOne
<1>. QED
  BY <1>1, <1>2, SwapOk DEF SwapsIx

-----------------------------------------------------------------------------
(* The transaction of a call that is next                                  *)

Names(tx) == {ix.name : ix \in ToSet(tx)}

Quiet(tx) == Names(tx) \cap PoolInstructions = {} /\ "swap" \notin Names(tx)

LEMMA NamesJoined ==
    ASSUME NEW s, NEW t, s \in Seq(ToSet(s)), t \in Seq(ToSet(t))
    PROVE  Names(s \o t) = Names(s) \cup Names(t)
<1> DEFINE u == s \o t
<1>1. ToSet(u) = ToSet(s) \cup ToSet(t)
  BY Joined
<1> HIDE DEF u
<1>. QED
  BY <1>1 DEF Names, u

LEMMA NamesOne ==
    ASSUME NEW x
    PROVE  Names(<<x>>) = {x.name}
<1>1. ToSet(<<x>>) = {x}
  BY One
<1>. QED
  BY <1>1 DEF Names

LEMMA PrepQuiet ==
    ASSUME NEW c, NEW p, AllPrep(p, c)
    PROVE  Quiet(p)
<1>1. \A ix \in ToSet(p) : ix.name \notin PoolInstructions /\ ix.name # "swap"
  BY DEF AllPrep, Prep, PoolInstructions
<1>. QED
  BY <1>1 DEF Quiet, Names

LEMMA LockQuiet ==
    ASSUME NEW k, NEW owner, NEW max, NEW p, p \in Seq(ToSet(p)), Quiet(p)
    PROVE  Quiet(p \o LockInstruction(k, owner, max))
<1> DEFINE ix == [name |-> "lock", max |-> max,
                  acc |-> [lockEscrow |-> Escrow(k, owner), owner |-> k.payer, lpMint |-> Lp(k),
                           sourceTokens |-> Ata(Lp(k), k.payer),
                           escrowVault |-> Ata(Lp(k), Escrow(k, owner))] ++ VaultAccounts(k)]
           l == <<ix>>
<1>1. LockInstruction(k, owner, max) = l /\ ix.name = "lock"
  BY DEF LockInstruction
<1> HIDE DEF ix
<1>2. l \in Seq(ToSet(l)) /\ Names(l) = {"lock"}
  BY <1>1, One, NamesOne
<1> HIDE DEF l
<1>3. Names(p \o l) = Names(p) \cup Names(l)
  BY <1>2, NamesJoined
<1>. QED
  BY <1>1, <1>2, <1>3 DEF Quiet, PoolInstructions

LEMMA LockPostQuiet ==
    ASSUME NEW k, NEW max
    PROVE  Quiet(LockPost(k, max))
<1> DEFINE a == CreateEscrow(k)
           b == GetOrCreateATA(k, Lp(k), Escrow(k, k.payer))
           p == a \o b
<1>1. LockPost(k, max) = <<>> \/ LockPost(k, max) = p \o LockInstruction(k, k.payer, max)
  BY DEF LockPost
<1>2. Quiet(<<>>)
  <2>1. ToSet(<<>>) = {}
    BY Nothing
  <2>. QED
    BY <2>1 DEF Quiet, Names
<1>3. b \in Seq(ToSet(b)) /\ Quiet(b)
  BY AtaPrep, PrepQuiet DEF AllPrep
<1>4. a \in Seq(ToSet(a)) /\ Quiet(a)
  <2> DEFINE y == [name |-> "createLockEscrow",
                   acc |-> [pool |-> k.pool, lockEscrow |-> Escrow(k, k.payer), owner |-> k.payer,
                            lpMint |-> Lp(k), payer |-> k.payer, systemProgram |-> "systemProgram"]]
  <2>1. a = <<y>> /\ y.name = "createLockEscrow"
    BY DEF CreateEscrow
  <2> HIDE DEF y, a
  <2>2. a \in Seq(ToSet(a)) /\ Names(a) = {"createLockEscrow"}
    BY <2>1, One, NamesOne
  <2>. QED
    BY <2>2 DEF Quiet, PoolInstructions
<1> HIDE DEF a, b
<1>5. Names(p) = Names(a) \cup Names(b) /\ p \in Seq(ToSet(p))
  BY <1>3, <1>4, NamesJoined, Joined
<1>6. Quiet(p)
  BY <1>3, <1>4, <1>5 DEF Quiet
<1> HIDE DEF p
<1>7. Quiet(p \o LockInstruction(k, k.payer, max))
  BY <1>5, <1>6, LockQuiet
<1>. QED
  BY <1>1, <1>2, <1>7

LEMMA FeeQuiet ==
    ASSUME NEW k, NEW max, max # 0, NEW tx, <<tx>> = FeeVaultTx(k, max)
    PROVE  Quiet(tx)
<1> DEFINE a == <<[name |-> "createFeeVault", pool |-> k.pool, signers |-> {k.payer}]>>
           b == GetOrCreateATA(k, Lp(k), Escrow(k, FeeVault(k)))
           p == a \o b
           y == p \o LockInstruction(k, FeeVault(k), max)
           c == k.payer
<1>1. FeeVaultTx(k, max) = <<y>>
  BY DEF FeeVaultTx
<1>2. tx = y
  <2> HIDE DEF y
  <2>1. <<tx>>[1] = tx /\ <<y>>[1] = y
    OBVIOUS
  <2>. QED
    BY <1>1, <2>1
<1>3. AllPrep(a, c)
  BY PrepOne DEF Prep
<1>4. AllPrep(b, c)
  BY AtaPrep
<1> HIDE DEF a, b, c
<1>5. AllPrep(p, c)
  BY <1>3, <1>4, PrepsJoined
<1> HIDE DEF p
<1>6. Quiet(p) /\ p \in Seq(ToSet(p))
  BY <1>5, PrepQuiet DEF AllPrep
<1>. QED
  BY <1>2, <1>6, LockQuiet

LEMMA MakeNames ==
    ASSUME NEW k, NEW tx, IsMake(k, tx)
    PROVE  Names(tx) \cap PoolInstructions # {} /\ "swap" \notin Names(tx)
<1>1. PICK pre, ix : AllPrep(pre, k.payer) /\ MakeIx(k, ix)
                     /\ tx = (pre \o <<ix>>) \o LockPost(k, UserMax(k))
  BY DEF IsMake
<1> DEFINE post == LockPost(k, UserMax(k))
           one == <<ix>>
           most == pre \o one
<1>2. post \in Seq(ToSet(post)) /\ Quiet(post)
  BY LockPostSeq, LockPostQuiet
<1>3. pre \in Seq(ToSet(pre)) /\ Quiet(pre)
  BY <1>1, PrepQuiet DEF AllPrep
<1>4. one \in Seq(ToSet(one)) /\ Names(one) = {ix.name}
  BY One, NamesOne
<1>5. tx = most \o post
  BY <1>1
<1> HIDE DEF post, one
<1>6. most \in Seq(ToSet(most)) /\ Names(most) = Names(pre) \cup Names(one)
  BY <1>3, <1>4, NamesJoined, Joined
<1> HIDE DEF most
<1>7. Names(tx) = Names(most) \cup Names(post)
  BY <1>2, <1>5, <1>6, NamesJoined
<1>8. ix.name \in PoolInstructions /\ ix.name # "swap"
  BY <1>1 DEF MakeIx, PoolInstructions
<1>. QED
  BY <1>2, <1>3, <1>4, <1>6, <1>7, <1>8 DEF Quiet

\* Which of its transactions a call is at
LEMMA ShapeCases ==
    ASSUME NEW k, Asks(k), NEW txs, NEW n, Shape(k, txs, n), NEW i \in 1..Len(txs)
    PROVE  /\ n \in 1..Len(txs) /\ Len(txs) \in Nat
           /\ \/ i < n /\ AllPrep(txs[i], k.payer) /\ (k.swapIn = 0 \/ i < Len(txs))
              \/ i = n /\ IsMake(k, txs[i]) /\ (k.swapIn = 0 \/ i < Len(txs))
              \/ /\ i = n + 1 /\ Part(k) # 0 /\ <<txs[i]>> = FeeVaultTx(k, Part(k))
                 /\ k.swapIn = 0 \/ i < Len(txs)
              \/ /\ i > n /\ i = Len(txs) /\ k.swapIn # 0 /\ IsSwap(k, txs[i])
                 /\ i > n + 1 \/ Part(k) = 0
<1> DEFINE L == Len(txs)
           f == IF Part(k) # 0 THEN 1 ELSE 0
           w == IF k.swapIn # 0 THEN 1 ELSE 0
<1>1. n \in {1, 2} /\ L = n + f + w /\ f \in {0, 1} /\ w \in {0, 1}
  BY DEF Shape
<1>2. (f = 0 <=> Part(k) = 0) /\ (w = 0 <=> k.swapIn = 0)
  OBVIOUS
<1> HIDE DEF f, w
<1>3. L \in Nat /\ n <= L /\ i \in Nat /\ i <= L /\ i >= 1
  BY <1>1
<1> HIDE DEF L
<1>4. CASE i < n
  <2>1. i \in 1..(n - 1) /\ i < L
    BY <1>1, <1>3, <1>4
  <2>. QED
    BY <1>1, <1>3, <1>4, <2>1 DEF Shape, L
<1>5. CASE i = n
  <2>1. w = 0 \/ i < L
    BY <1>1, <1>5
  <2>. QED
    BY <1>1, <1>2, <1>3, <1>5, <2>1 DEF Shape, L
<1>6. CASE i = n + 1 /\ f = 1
  <2>1. w = 0 \/ i < L
    BY <1>1, <1>6
  <2>. QED
    BY <1>1, <1>2, <1>3, <1>6, <2>1 DEF Shape, L
<1>7. CASE i > n /\ ~(i = n + 1 /\ f = 1)
  <2>1. w = 1 /\ i = L /\ (i > n + 1 \/ f = 0)
    BY <1>1, <1>3, <1>7
  <2>. QED
    BY <1>1, <1>2, <1>3, <1>7, <2>1 DEF Shape, L
<1>. QED
  BY <1>1, <1>3, <1>4, <1>5, <1>6, <1>7

LEMMA TxNames ==
    ASSUME NEW k, Asks(k), NEW txs, NEW n, Shape(k, txs, n), NEW i \in 1..Len(txs)
    PROVE  /\ Names(txs[i]) \cap PoolInstructions # {} <=> i = n
           /\ "swap" \in Names(txs[i]) <=> k.swapIn # 0 /\ i = Len(txs)
<1> DEFINE tx == txs[i]
           last == i = Len(txs)
<1>0. n \in Nat /\ i \in Nat /\ Len(txs) \in Nat
  BY ShapeCases
<1>1. CASE i < n /\ AllPrep(tx, k.payer) /\ (k.swapIn = 0 \/ i < Len(txs))
  <2>1. Quiet(tx)
    BY <1>1, PrepQuiet
  <2>. QED
    BY <1>0, <1>1, <2>1 DEF Quiet
<1>2. CASE i = n /\ IsMake(k, tx) /\ (k.swapIn = 0 \/ i < Len(txs))
  BY <1>0, <1>2, MakeNames
<1>3. CASE i = n + 1 /\ Part(k) # 0 /\ <<tx>> = FeeVaultTx(k, Part(k)) /\ (k.swapIn = 0 \/ i < Len(txs))
  <2>1. Quiet(tx)
    BY <1>3, FeeQuiet
  <2>. QED
    BY <1>0, <1>3, <2>1 DEF Quiet
<1>4. CASE i > n /\ i = Len(txs) /\ k.swapIn # 0 /\ IsSwap(k, tx)
  <2>1. PICK ix : SwapsIx(k, ix) /\ tx = <<ix>>
    BY <1>4 DEF IsSwap
  <2>2. Names(tx) = {"swap"}
    BY <2>1, NamesOne DEF SwapsIx
  <2>. QED
    BY <1>0, <1>4, <2>2 DEF PoolInstructions
<1>. QED
  BY <1>1, <1>2, <1>3, <1>4, ShapeCases

\* What a call pays of a token for a pool and for a first swap
Pays(k, makes, swaps, m) ==
    (IF makes /\ m = k.a THEN AmountA ELSE 0)
    + (IF makes /\ m = k.b THEN AmountB ELSE 0)
    + (IF m = k.b /\ swaps THEN k.swapIn ELSE 0)

\* What a transaction of a call does to what creators have.
Charges(s, t, k, makes, swaps) ==
    \A d \in Creators, m \in Mints \ {Memecoin} :
      Has(t, d, m) = Has(s, d, m) - (IF d = k.payer THEN Pays(k, makes, swaps, m) ELSE 0)

LEMMA ChargesKeep ==
    ASSUME NEW s, NEW t, Sane(s), NEW k, Asks(k), Keeps(s, t)
    PROVE  Charges(s, t, k, FALSE, FALSE)
<1> SUFFICES ASSUME NEW d \in Creators, NEW m \in Mints \ {Memecoin}
             PROVE  Has(t, d, m) = Has(s, d, m) - (IF d = k.payer THEN Pays(k, FALSE, FALSE, m) ELSE 0)
  BY DEF Charges
<1>1. Has(s, d, m) \in Int /\ Has(t, d, m) = Has(s, d, m)
  BY HasInt DEF Keeps
<1> DEFINE x == Has(s, d, m)
           p == IF d = k.payer THEN Pays(k, FALSE, FALSE, m) ELSE 0
<1>2. p = 0
  BY DEF Pays
<1> HIDE DEF x, p
<1>3. x - p = x
  BY <1>1, <1>2 DEF x
<1>. QED
  BY <1>1, <1>3 DEF x, p

\* The transaction of a call that is next, where the LP is where it should be
LEMMA NextTx ==
    ASSUME NEW s, State(s), Sane(s), s.draw[1] = 0, NEW k, Asks(k), NEW txs, NEW n, Shape(k, txs, n),
           NEW i \in 1..Len(txs), i = n => \A o : Lps(s, k.pool, o) = 0,
           i > n => Locked(s, k, i > n + 1), NEW t, Leading(s, txs[i], t), t.res = "ok"
    PROVE  /\ State(t) /\ Sane(t) /\ Charges(s, t, k, i = n, k.swapIn # 0 /\ i = Len(txs))
           /\ Others(s, t, k.pool)
           /\ i < n => SameLp(s, t)
           /\ i >= n => Locked(t, k, i > n)
<1> DEFINE tx == txs[i]
           makes == i = n
           swaps == k.swapIn # 0 /\ i = Len(txs)
<1>0. n \in Nat /\ i \in Nat /\ Len(txs) \in Nat /\ k.payer \in Creators
      /\ k.swapIn \in Nat /\ AmountA \in Nat /\ AmountB \in Nat /\ k.pool \in Pools
  BY ShapeCases, CreationConstants DEF Asks, Known
<1>1. CASE i < n /\ AllPrep(tx, k.payer) /\ (k.swapIn = 0 \/ i < Len(txs))
  <2>1. Same(s, t)
    BY <1>0, <1>1, PrepsSame
  <2>2. makes = FALSE /\ swaps = FALSE
    BY <1>0, <1>1
  <2> HIDE DEF makes, swaps
  <2>3. Keeps(s, t) /\ Others(s, t, k.pool) /\ State(t) /\ Sane(t) /\ SameLp(s, t)
    BY <2>1 DEF Same, Keeps, Others, SameLp
  <2>4. Charges(s, t, k, makes, swaps)
    BY <2>2, <2>3, ChargesKeep
  <2>5. i < n /\ ~(i >= n)
    BY <1>0, <1>1
  <2>. QED
    BY <2>3, <2>4, <2>5 DEF makes, swaps
<1>2. CASE i = n /\ IsMake(k, tx) /\ (k.swapIn = 0 \/ i < Len(txs))
  <2>1. /\ State(t) /\ Sane(t) /\ Spends(s, t, k.payer, k.a, AmountA, k.b, AmountB)
        /\ Others(s, t, k.pool) /\ Locked(t, k, FALSE)
    BY <1>2, MakeTx
  <2>2. makes = TRUE /\ swaps = FALSE
    BY <1>0, <1>2
  <2>3. (i > n) = FALSE /\ ~(i < n)
    BY <1>0, <1>2
  <2> HIDE DEF makes, swaps
  <2>4. \A m : Pays(k, makes, swaps, m) = (IF m = k.a THEN AmountA ELSE 0) + (IF m = k.b THEN AmountB ELSE 0)
    BY <1>0, <2>2 DEF Pays
  <2>5. Charges(s, t, k, makes, swaps)
    BY <2>1, <2>4 DEF Charges, Spends
  <2>6. Locked(t, k, i > n)
    BY <2>1, <2>3
  <2>. QED
    BY <2>1, <2>3, <2>5, <2>6 DEF makes, swaps
<1>3. CASE i = n + 1 /\ Part(k) # 0 /\ <<tx>> = FeeVaultTx(k, Part(k)) /\ (k.swapIn = 0 \/ i < Len(txs))
  <2>1. (i > n + 1) = FALSE /\ (i > n) = TRUE /\ ~(i < n)
    BY <1>0, <1>3
  <2>2. Locked(s, k, FALSE)
    BY <2>1
  <2>3. /\ State(t) /\ Sane(t) /\ Keeps(s, t) /\ Others(s, t, k.pool) /\ Locked(t, k, TRUE)
    BY <1>3, <2>2, FeeTx
  <2>4. makes = FALSE /\ swaps = FALSE
    BY <1>0, <1>3
  <2> HIDE DEF makes, swaps
  <2>5. Charges(s, t, k, makes, swaps)
    BY <2>3, <2>4, ChargesKeep
  <2>6. Locked(t, k, i > n)
    BY <2>1, <2>3
  <2>. QED
    BY <2>1, <2>3, <2>5, <2>6 DEF makes, swaps
<1>4. CASE i > n /\ i = Len(txs) /\ k.swapIn # 0 /\ IsSwap(k, tx) /\ (i > n + 1 \/ Part(k) = 0)
  <2>1. /\ State(t) /\ Sane(t) /\ SameLp(s, t) /\ Spends(s, t, k.payer, k.a, 0, k.b, k.swapIn)
    BY <1>4, FirstSwapTx
  <2>2. makes = FALSE /\ swaps = TRUE
    BY <1>0, <1>4
  <2>3. (i > n) = TRUE /\ ~(i < n)
    BY <1>0, <1>4
  <2>4. (i > n + 1) = TRUE \/ Part(k) = 0
    BY <1>4
  <2> HIDE DEF makes, swaps
  <2>5. \A m : Pays(k, makes, swaps, m) = (IF m = k.a THEN 0 ELSE 0) + (IF m = k.b THEN k.swapIn ELSE 0)
    BY <1>0, <2>2 DEF Pays
  <2>6. Charges(s, t, k, makes, swaps)
    BY <2>1, <2>5 DEF Charges, Spends
  <2>7. Others(s, t, k.pool)
    BY <2>1 DEF Others, SameLp
  <2>8. Locked(s, k, i > n + 1)
    BY <2>3
  <2>9. Locked(s, k, TRUE)
    BY <2>4, <2>8 DEF Locked
  <2>10. Locked(t, k, TRUE)
    BY <1>0, <2>1, <2>9 DEF Locked, SameLp
  <2>11. Locked(t, k, i > n)
    BY <2>3, <2>10
  <2>. QED
    BY <2>1, <2>3, <2>6, <2>7, <2>11 DEF makes, swaps
<1>. QED
  <2>1. \/ i < n /\ AllPrep(tx, k.payer) /\ (k.swapIn = 0 \/ i < Len(txs))
        \/ i = n /\ IsMake(k, tx) /\ (k.swapIn = 0 \/ i < Len(txs))
        \/ /\ i = n + 1 /\ Part(k) # 0 /\ <<tx>> = FeeVaultTx(k, Part(k))
           /\ k.swapIn = 0 \/ i < Len(txs)
        \/ /\ i > n /\ i = Len(txs) /\ k.swapIn # 0 /\ IsSwap(k, tx)
           /\ i > n + 1 \/ Part(k) = 0
    BY ShapeCases
  <2>. QED
    BY <1>1, <1>2, <1>3, <1>4, <2>1

-----------------------------------------------------------------------------
(* What creators have spent, and where the LP is                           *)

Asked == {"flow", "payer", "a", "b", "lock", "ratio", "swapIn", "pool"}

\* The call k is what was asked in q.
Agrees(k, q) == Asked \subseteq DOMAIN k /\ \A f \in Asked : k[f] = q[f]

\* How far a call has got with its transactions, of which the nth makes the pool, and
\* what that means for its LP.
CallMoney(k, s) ==
    \E q, n :
      /\ Asks(q) /\ Agrees(k, q) /\ Shape(q, k.txs, n)
      /\ k.next \in 1..(Len(k.txs) + 1)
      /\ k.pc = "sending" => k.next <= Len(k.txs)
      /\ k.pc = "done" => k.next = Len(k.txs) + 1
      /\ MadePool(k) <=> k.next > n
      /\ "swap" \in k.did <=> q.swapIn # 0 /\ k.next = Len(k.txs) + 1
      /\ k.next > n => Locked(s, q, k.next > n + 1)

\* No call has made the pool at P.
NotMade(P) == \A d \in Started : MadePool(call[d]) => call[d].pool # P

\* With what the calls have spent, every creator has what there was at first; of a
\* pool that does not exist there is no LP.
Money ==
    /\ Sane(ledger)
    /\ \A x \in Creators, m \in Mints \ {Memecoin} :
         Has(ledger, x, m) + SumFunction(SpentBy(x, m)) = Held
    /\ \A P \in Pools : NotMade(P) => \A o : Lps(ledger, P, o) = 0
    /\ \A d \in Started : CallMoney(call[d], ledger)

LEMMA AgreesOk ==
    ASSUME NEW k, NEW q, Agrees(k, q)
    PROVE  /\ k.flow = q.flow /\ k.payer = q.payer /\ k.a = q.a /\ k.b = q.b /\ k.lock = q.lock
           /\ k.ratio = q.ratio /\ k.swapIn = q.swapIn /\ k.pool = q.pool
           /\ \A o : Escrow(k, o) = Escrow(q, o)
           /\ Lp(k) = Lp(q) /\ FeeVault(k) = FeeVault(q) /\ Part(k) = Part(q)
           /\ \A makes, swaps, m : Pays(k, makes, swaps, m) = Pays(q, makes, swaps, m)
<1>1. /\ k.flow = q.flow /\ k.payer = q.payer /\ k.a = q.a /\ k.b = q.b /\ k.lock = q.lock
      /\ k.ratio = q.ratio /\ k.swapIn = q.swapIn /\ k.pool = q.pool
  BY DEF Agrees, Asked
<1>2. \A o : Escrow(k, o) = Escrow(q, o)
  BY <1>1 DEF Escrow
<1>3. Lp(k) = Lp(q) /\ FeeVault(k) = FeeVault(q)
  BY <1>1 DEF Lp, FeeVault
<1>4. Part(k) = Part(q)
  BY <1>1 DEF Part
<1>5. \A makes, swaps, m : Pays(k, makes, swaps, m) = Pays(q, makes, swaps, m)
  BY <1>1 DEF Pays
<1>. QED
  BY <1>1, <1>2, <1>3, <1>4, <1>5

LEMMA PaysNat ==
    ASSUME NEW q, Asks(q), NEW makes, NEW swaps, NEW m
    PROVE  Pays(q, makes, swaps, m) \in Nat
BY CreationConstants DEF Asks, Known, Pays

LEMMA SpentPays ==
    ASSUME NEW k, NEW m
    PROVE  Spent(k, m) = Pays(k, MadePool(k), "swap" \in k.did, m)
BY DEF Spent, Pays

\* The sums are of numbers.
LEMMA SpentInt ==
    ASSUME Money, NEW x, NEW m
    PROVE  SpentBy(x, m) \in [Calls -> Int] /\ IsFiniteSet(Calls)
<1>1. IsFiniteSet(Calls)
  BY CreationConstants, FS_Interval DEF Calls
<1>2. ASSUME NEW d \in Started PROVE Spent(call[d], m) \in Int
  <2>1. PICK q : Asks(q) /\ Agrees(call[d], q)
    BY DEF Money, CallMoney
  <2> DEFINE makes == MadePool(call[d])
             swaps == "swap" \in call[d].did
  <2>2. Spent(call[d], m) = Pays(call[d], makes, swaps, m)
    BY SpentPays
  <2> HIDE DEF makes, swaps
  <2>3. Pays(call[d], makes, swaps, m) = Pays(q, makes, swaps, m)
    BY <2>1, AgreesOk
  <2>4. Pays(q, makes, swaps, m) \in Nat
    BY <2>1, PaysNat
  <2>. QED
    BY <2>2, <2>3, <2>4
<1>. QED
  BY <1>1, <1>2 DEF SpentBy

LEMMA InitMoney ==
    ASSUME Init
    PROVE  Money
<1>1. PICK vaults \in {{}, {Native}} :
        /\ ledger = [bal  |-> [x \in HeldAtas \cup {TokenVault(m) : m \in vaults} |->
                                 IF x \in HeldAtas THEN Held ELSE 0],
                     made |-> (Mints \ {Memecoin}) \cup {Config} \cup {Vault(m) : m \in vaults},
                     sol  |-> [c \in Creators |-> Held]]
        /\ call = [c \in Calls |-> [pc |-> "unused"]]
  BY DEF Init
<1> DEFINE D == HeldAtas \cup {TokenVault(m) : m \in vaults}
           bal == [x \in D |-> IF x \in HeldAtas THEN Held ELSE 0]
<1>2. ledger.bal = bal /\ ledger.sol = [c \in Creators |-> Held] /\ Held \in Nat
  BY <1>1, CreationConstants
<1>3. Started = {}
  BY <1>1 DEF Started
<1>4. Sane(ledger)
  BY <1>2 DEF Sane
<1>5. ASSUME NEW m, NEW o
      PROVE  /\ Ata(m, o) \in D <=> m \in Mints \ {Native, Memecoin} /\ o \in Creators
             /\ Ata(m, o) \in D => bal[Ata(m, o)] = Held
  <2>1. Ata(m, o) \in D <=> Ata(m, o) \in HeldAtas
    BY Addresses
  <2>2. Ata(m, o) \in HeldAtas <=> m \in Mints \ {Native, Memecoin} /\ o \in Creators
    BY Addresses DEF HeldAtas
  <2>. QED
    BY <2>1, <2>2
<1> HIDE DEF D, bal
<1>6. DOMAIN bal = D
  BY DEF bal
<1>7. ASSUME NEW x \in Creators, NEW m \in Mints \ {Memecoin}
      PROVE  Has(ledger, x, m) + SumFunction(SpentBy(x, m)) = Held
  <2> DEFINE f == SpentBy(x, m)
  <2>1. f \in [Calls -> Int] /\ \A d \in Calls : f[d] = 0
    BY <1>3 DEF SpentBy
  <2>2. IsFiniteSet(Calls)
    BY CreationConstants, FS_Interval DEF Calls
  <2> HIDE DEF f
  <2>3. SumFunction(f) = 0
    BY <2>1, <2>2, SumZero
  <2>4. Has(ledger, x, m) = Held
    <3>1. CASE m = Native
      <4>1. Ata(m, x) \notin DOMAIN ledger.bal
        BY <1>2, <1>5, <1>6, <3>1
      <4>. QED
        BY <1>2, <3>1, <4>1 DEF Has, Bal
    <3>2. CASE m # Native
      <4>1. Ata(m, x) \in DOMAIN ledger.bal /\ ledger.bal[Ata(m, x)] = Held
        BY <1>2, <1>5, <1>6, <3>2
      <4>. QED
        BY <1>2, <3>2, <4>1 DEF Has, Bal
    <3>. QED
      BY <3>1, <3>2
  <2>. QED
    BY <1>2, <2>3, <2>4 DEF f
<1>8. ASSUME NEW P \in Pools, NEW o PROVE Lps(ledger, P, o) = 0
  <2>1. LpMint(P) \notin Mints
    BY Addresses
  <2>2. Ata(LpMint(P), o) \notin DOMAIN ledger.bal
    BY <1>2, <1>5, <1>6, <2>1
  <2>. QED
    BY <2>2 DEF Lps, Bal
<1>. QED
  BY <1>3, <1>4, <1>7, <1>8 DEF Money

\* A call that has not moved, where the LP of its pool has not
LEMMA CallMoneyStays ==
    ASSUME NEW k, NEW s, CallMoney(k, s), NEW l, DOMAIN l = DOMAIN k, \A f \in Asked : l[f] = k[f],
           l.txs = k.txs, l.next = k.next, l.did = k.did,
           l.pc = k.pc \/ (k.pc = "sending" /\ l.pc # "done"),
           NEW t, MadePool(k) => \A o : Lps(t, k.pool, o) = Lps(s, k.pool, o)
    PROVE  CallMoney(l, t)
<1>1. PICK q, n :
        /\ Asks(q) /\ Agrees(k, q) /\ Shape(q, k.txs, n)
        /\ k.next \in 1..(Len(k.txs) + 1)
        /\ k.pc = "sending" => k.next <= Len(k.txs)
        /\ k.pc = "done" => k.next = Len(k.txs) + 1
        /\ MadePool(k) <=> k.next > n
        /\ "swap" \in k.did <=> q.swapIn # 0 /\ k.next = Len(k.txs) + 1
        /\ k.next > n => Locked(s, q, k.next > n + 1)
  BY DEF CallMoney
<1>2. Agrees(l, q)
  BY <1>1 DEF Agrees
<1>3. MadePool(l) <=> MadePool(k)
  BY DEF MadePool
<1>4. k.pool = q.pool
  BY <1>1, AgreesOk
<1> DEFINE both == k.next > n + 1
<1>5. ASSUME k.next > n PROVE Locked(t, q, both)
  <2>1. Locked(s, q, both)
    BY <1>1, <1>5
  <2> HIDE DEF both
  <2>2. \A o : Lps(t, q.pool, o) = Lps(s, q.pool, o)
    BY <1>1, <1>4, <1>5
  <2>. QED
    BY <2>1, <2>2 DEF Locked
<1>6. /\ l.next \in 1..(Len(l.txs) + 1)
      /\ l.pc = "sending" => l.next <= Len(l.txs)
      /\ l.pc = "done" => l.next = Len(l.txs) + 1
  BY <1>1
<1>7. "swap" \in l.did <=> q.swapIn # 0 /\ l.next = Len(l.txs) + 1
  BY <1>1
<1>8. (MadePool(l) <=> l.next > n) /\ (l.next > n => Locked(t, q, l.next > n + 1))
  BY <1>1, <1>3, <1>5
<1>9. Shape(q, l.txs, n)
  BY <1>1
<1>. QED
  BY <1>1, <1>2, <1>6, <1>7, <1>8, <1>9 DEF CallMoney

\* What a caller may ask for is what the lemmas about transactions take for granted.
LEMMA AskedOk ==
    ASSUME NEW r \in Requests, NEW seen, NEW q, q = [seen |-> seen] ++ ([pool |-> PoolOf(r)] ++ r)
    PROVE  Asks(q)
<1> DEFINE F == {"flow", "payer", "a", "b", "lock", "ratio", "swapIn", "skipA", "isMinted", "authority"}
           P == PoolOf(r)
           asked == [pool |-> P] ++ r
<1>1. Known(r)
  BY RequestsOk
<1>2. F \subseteq DOMAIN r
  BY <1>1 DEF Known
<1> HIDE DEF P
<1>3. F \cup {"pool"} \subseteq DOMAIN asked /\ asked.pool = P /\ \A f \in F : asked[f] = r[f]
  BY <1>2 DEF ++
<1> DEFINE k == [seen |-> seen] ++ asked
<1> HIDE DEF asked
<1>4. F \cup {"pool"} \subseteq DOMAIN k /\ k.pool = P /\ \A f \in F : k[f] = r[f]
  BY <1>3 DEF ++
<1>5. q = k
  BY DEF k, asked, P
<1> HIDE DEF k
<1>6. /\ F \cup {"pool"} \subseteq DOMAIN q /\ q.pool = P
      /\ q.flow = r.flow /\ q.payer = r.payer /\ q.a = r.a /\ q.b = r.b /\ q.lock = r.lock
      /\ q.ratio = r.ratio /\ q.swapIn = r.swapIn
  BY <1>4, <1>5
<1>7. Known(q)
  BY <1>1, <1>6 DEF Known
<1>8. P \in Pools
  BY DEF P, Pools
<1>9. /\ DeriveLockEscrowPda(P, r.payer) # r.payer /\ DeriveFeeVault(P) # r.payer
      /\ DeriveLockEscrowPda(P, DeriveFeeVault(P)) # r.payer
  BY CreationAddresses DEF P
<1>10. /\ Escrow(q, q.payer) = DeriveLockEscrowPda(P, r.payer) /\ FeeVault(q) = DeriveFeeVault(P)
       /\ Escrow(q, FeeVault(q)) = DeriveLockEscrowPda(P, DeriveFeeVault(P))
  BY <1>6 DEF Escrow, FeeVault
<1>. QED
  BY <1>6, <1>7, <1>8, <1>9, <1>10 DEF Asks

\* A new call has not spent anything.
LEMMA BuildMoney ==
    ASSUME Inv, Money, NEW c \in Calls, Build(c)
    PROVE  Money'
<1>1. PICK r \in Requests :
        LET asked == [pool |-> PoolOf(r)] ++ r
            seen  == LookedUp(asked) \cap (ledger.made \cup DOMAIN ledger.bal)
            k     == [seen |-> seen] ++ asked
        IN  call' = [call EXCEPT ![c] =
                       [pc |-> "sending", txs |-> Txs(k), next |-> 1, did |-> {}, quiet |-> TRUE,
                        found |-> Found(k)] ++ k]
  BY DEF Build
<1> DEFINE asked == [pool |-> PoolOf(r)] ++ r
           seen == LookedUp(asked) \cap (ledger.made \cup DOMAIN ledger.bal)
           k == [seen |-> seen] ++ asked
           txs == Txs(k)
           found == Found(k)
           new == [pc |-> "sending", txs |-> txs, next |-> 1, did |-> {}, quiet |-> TRUE,
                   found |-> found] ++ k
<1>2. call' = [call EXCEPT ![c] = new] /\ ledger' = ledger /\ c \notin Started
  BY <1>1 DEF Build, Started
<1>3. Asks(k)
  <2> HIDE DEF seen
  <2>. QED
    BY AskedOk
<1> HIDE DEF asked, seen, k
<1>4. PICK n : Shape(k, txs, n)
  BY <1>3, TxsShape
<1> HIDE DEF txs, found
<1>5. n \in {1, 2} /\ n <= Len(txs) /\ Len(txs) \in Nat
  <2> DEFINE f == IF Part(k) # 0 THEN 1 ELSE 0
             w == IF k.swapIn # 0 THEN 1 ELSE 0
  <2>1. n \in {1, 2} /\ Len(txs) = n + f + w /\ f \in {0, 1} /\ w \in {0, 1}
    BY <1>4 DEF Shape
  <2>. QED
    BY <2>1
<1>6. Asked \subseteq DOMAIN k
  BY <1>3 DEF Asks, Known, Asked
<1>7. /\ new.pc = "sending" /\ new.txs = txs /\ new.next = 1 /\ new.did = {}
      /\ Agrees(new, k)
  BY <1>6 DEF ++, Agrees, Asked
<1> HIDE DEF new
<1>8. ~MadePool(new) /\ "swap" \notin new.did
  BY <1>7 DEF MadePool
<1>9. CallMoney(new, ledger)
  <2>1. /\ new.next \in 1..(Len(new.txs) + 1) /\ new.next <= Len(new.txs) /\ ~(new.next > n)
        /\ new.next # Len(new.txs) + 1 /\ Shape(k, new.txs, n)
    BY <1>4, <1>5, <1>7
  <2>. QED
    BY <1>3, <1>7, <1>8, <2>1 DEF CallMoney
<1>10. /\ DOMAIN call' = Calls /\ call'[c] = new
       /\ \A d \in Calls : d # c => call'[d] = call[d]
  BY <1>2 DEF Inv
<1>11. Started' = Started \cup {c} /\ Started \subseteq Calls
  <2>1. ASSUME NEW d \in Calls PROVE d \in Started' <=> d \in Started \/ d = c
    <3>1. CASE d = c
      BY <1>7, <1>10, <3>1 DEF Started
    <3>2. CASE d # c
      BY <1>10, <3>2 DEF Started
    <3>. QED
      BY <3>1, <3>2
  <2>2. Started \subseteq Calls /\ Started' \subseteq Calls
    BY DEF Started
  <2>. QED
    BY <2>1, <2>2
<1>12. ASSUME NEW x, NEW m PROVE SpentBy(x, m)' = SpentBy(x, m)
  <2>1. ASSUME NEW d \in Calls
        PROVE  (IF d \in Started' /\ call'[d].payer = x THEN Spent(call'[d], m) ELSE 0)
                 = (IF d \in Started /\ call[d].payer = x THEN Spent(call[d], m) ELSE 0)
    <3>1. CASE d = c
      <4>1. Spent(new, m) = 0
        BY <1>8 DEF Spent
      <4>. QED
        BY <1>2, <1>10, <3>1, <4>1
    <3>2. CASE d # c
      BY <1>10, <1>11, <3>2
    <3>. QED
      BY <3>1, <3>2
  <2>. QED
    BY <2>1 DEF SpentBy, Spent, MadePool
<1>13. ASSUME NEW P, NotMade(P)' PROVE NotMade(P)
  <2> SUFFICES ASSUME NEW d \in Started, MadePool(call[d]) PROVE call[d].pool # P
    BY DEF NotMade
  <2>1. d \in Started' /\ call'[d] = call[d]
    BY <1>2, <1>10, <1>11
  <2>. QED
    BY <1>13, <2>1 DEF NotMade, MadePool
<1>14. Sane(ledger')
  BY <1>2 DEF Money
<1>15. \A x \in Creators, m \in Mints \ {Memecoin} :
         Has(ledger', x, m) + SumFunction(SpentBy(x, m)') = Held
  BY <1>2, <1>12 DEF Money
<1>16. \A P \in Pools : NotMade(P)' => \A o : Lps(ledger', P, o) = 0
  BY <1>2, <1>13 DEF Money
<1>17. \A d \in Started' : CallMoney(call'[d], ledger')
  <2>1. \A d \in Started : call'[d] = call[d]
    BY <1>2, <1>10, <1>11
  <2>. QED
    BY <1>2, <1>9, <1>10, <1>11, <2>1 DEF Money
<1>. QED
  BY <1>14, <1>15, <1>16, <1>17 DEF Money, NotMade

\* Beginning and ending a transaction changes nothing on the chain.
LEMMA BeginSame ==
    ASSUME NEW s, {"bal", "made", "sol"} \subseteq DOMAIN s, Sane(s)
    PROVE  /\ State(Begin(s)) /\ Sane(Begin(s)) /\ Begin(s).draw[1] = 0
           /\ \A a : Bal(Begin(s), a) = Bal(s, a)
           /\ Begin(s).sol = s.sol
<1> DEFINE b == Begin(s)
<1>1. State(b) /\ b.bal = s.bal /\ b.sol = s.sol /\ b.draw = <<0, 0>>
  BY DEF State, Begin, ++
<1> HIDE DEF b
<1>2. b.draw[1] = 0
  BY <1>1
<1>. QED
  BY <1>1, <1>2 DEF b, Sane, Bal

LEMMA CommittedSame ==
    ASSUME NEW s, State(s), Sane(s)
    PROVE  /\ Sane(Committed(s)) /\ \A a : Bal(Committed(s), a) = Bal(s, a)
           /\ Committed(s).sol = s.sol
BY DEF Committed, Sane, Bal

\* What the next transaction of a call does to the chain, whether it fails or not
LEMMA LandRun ==
    ASSUME Inv, NEW c \in Started, call[c].pc = "sending"
    PROVE  LET tx  == call[c].txs[call[c].next]
               out == Run(ledger, tx, <<0, 0>>)
           IN  /\ State(out) /\ out.res \notin {"unused", "done"}
               /\ Leading(Begin(ledger), tx, out)
<1> DEFINE k == call[c]
           tx == k.txs[k.next]
           P == k.pool
<1>1. /\ k.next \in 1..Len(k.txs) /\ k.txs \in Seq(ToSet(k.txs))
      /\ \A t \in ToSet(k.txs) : Fits(t, P)
  BY DEF Inv, CallInv, AllFit
<1>2. tx \in ToSet(k.txs)
  BY <1>1 DEF ToSet
<1>3. Fits(tx, P)
  BY <1>1, <1>2
<1> HIDE DEF k, P
<1>4. tx \in Seq(ToSet(tx)) /\ \A ix \in ToSet(tx) : ix.name \in PoolInstructions => ix.acc.pool = P
  BY <1>3 DEF Fits
<1> HIDE DEF tx
<1>5. Len(tx) \in Nat /\ DOMAIN tx = 1..Len(tx)
  BY <1>4
<1>6. ToSet(tx) = {tx[j] : j \in 1..Len(tx)}
  BY <1>5 DEF ToSet
<1>7. \A j \in 1..Len(tx) : tx[j].name \in PoolInstructions => tx[j].acc.pool = P
  BY <1>4, <1>6
<1>8. {"bal", "made", "sol"} \subseteq DOMAIN ledger
  BY DEF Inv
<1> DEFINE out == Run(ledger, tx, <<0, 0>>)
<1>9. State(out) /\ out.res \notin {"unused", "done"}
  BY <1>5, <1>7, <1>8, RunMakes
<1>10. Leading(Begin(ledger), tx, out)
  BY <1>5, RunLeads
<1>. QED
  BY <1>9, <1>10 DEF tx, k

\* What a call has spent depends on what was asked and on what has landed.
LEMMA SpentSame ==
    ASSUME NEW k, NEW l, \A f \in Asked : l[f] = k[f], l.did = k.did
    PROVE  l.payer = k.payer /\ (MadePool(l) <=> MadePool(k)) /\ \A m : Spent(l, m) = Spent(k, m)
<1>1. l.payer = k.payer /\ l.a = k.a /\ l.b = k.b /\ l.swapIn = k.swapIn
  BY DEF Asked
<1>2. MadePool(l) <=> MadePool(k)
  BY DEF MadePool
<1>. QED
  BY <1>1, <1>2 DEF Spent

\* A transaction that fails and ends its call
LEMMA LandFailed ==
    ASSUME Inv, Money, NEW c \in Calls, Land(c),
           Run(ledger, call[c].txs[call[c].next], <<0, 0>>).res # "ok"
    PROVE  Money'
<1> DEFINE k == call[c]
           res == Run(ledger, call[c].txs[call[c].next], <<0, 0>>).res
           new == [k EXCEPT !.pc = res]
<1>1. k.pc = "sending" /\ c \in Started /\ CallInv(k, ledger.made) /\ CallMoney(k, ledger)
  BY DEF Land, Inv, Started, Money
<1>2. call' = [call EXCEPT ![c] = new] /\ ledger' = ledger
  BY DEF Land
<1>3. res \notin {"unused", "done"}
  BY <1>1, LandRun
<1> HIDE DEF res
<1>4. Fields \subseteq DOMAIN k /\ Asked \subseteq DOMAIN k
  BY <1>1 DEF CallInv, CallMoney, Agrees
<1>5. /\ DOMAIN new = DOMAIN k /\ \A f \in Asked : new[f] = k[f]
      /\ new.txs = k.txs /\ new.next = k.next /\ new.did = k.did /\ new.pc = res
  BY <1>4 DEF Fields, Asked
<1> HIDE DEF new
<1>6. /\ DOMAIN call' = Calls /\ call'[c] = new
      /\ \A d \in Calls : d # c => call'[d] = call[d]
  BY <1>2 DEF Inv
<1>7. Started' = Started /\ Started \subseteq Calls
  <2>1. ASSUME NEW d \in Calls PROVE d \in Started' <=> d \in Started
    <3>1. CASE d = c
      BY <1>1, <1>3, <1>5, <1>6, <3>1 DEF Started
    <3>2. CASE d # c
      BY <1>6, <3>2 DEF Started
    <3>. QED
      BY <3>1, <3>2
  <2>2. Started \subseteq Calls /\ Started' \subseteq Calls
    BY DEF Started
  <2>. QED
    BY <2>1, <2>2
<1>8. CallMoney(new, ledger)
  <2> HIDE DEF k
  <2>. QED
    BY <1>1, <1>3, <1>5, CallMoneyStays
<1>9. ASSUME NEW d \in Started
      PROVE  /\ call'[d].payer = call[d].payer /\ (MadePool(call'[d]) <=> MadePool(call[d]))
             /\ \A m : Spent(call'[d], m) = Spent(call[d], m)
             /\ call'[d].pool = call[d].pool /\ CallMoney(call'[d], ledger)
  <2>1. CASE d = c
    <3> HIDE DEF k
    <3>1. /\ new.payer = k.payer /\ (MadePool(new) <=> MadePool(k))
          /\ \A m : Spent(new, m) = Spent(k, m)
      BY <1>5, SpentSame
    <3>2. new.pool = k.pool
      BY <1>5 DEF Asked
    <3>. QED
      BY <1>6, <1>8, <2>1, <3>1, <3>2 DEF k
  <2>2. CASE d # c
    <3>1. call'[d] = call[d]
      BY <1>6, <1>7, <2>2
    <3>. QED
      BY <3>1 DEF Money
  <2>. QED
    BY <2>1, <2>2
<1>10. ASSUME NEW x, NEW m PROVE SpentBy(x, m)' = SpentBy(x, m)
  <2>1. \A d \in Calls : (IF d \in Started' /\ call'[d].payer = x THEN Spent(call'[d], m) ELSE 0)
                           = (IF d \in Started /\ call[d].payer = x THEN Spent(call[d], m) ELSE 0)
    BY <1>7, <1>9
  <2>. QED
    BY <2>1 DEF SpentBy, Spent, MadePool
<1>11. ASSUME NEW P, NotMade(P)' PROVE NotMade(P)
  BY <1>7, <1>9, <1>11 DEF NotMade, MadePool
<1>12. Sane(ledger')
  BY <1>2 DEF Money
<1>13. \A x \in Creators, m \in Mints \ {Memecoin} :
         Has(ledger', x, m) + SumFunction(SpentBy(x, m)') = Held
  BY <1>2, <1>10 DEF Money
<1>14. \A P \in Pools : NotMade(P)' => \A o : Lps(ledger', P, o) = 0
  BY <1>2, <1>11 DEF Money
<1>15. \A d \in Started' : CallMoney(call'[d], ledger')
  BY <1>2, <1>7, <1>9
<1>. QED
  BY <1>12, <1>13, <1>14, <1>15 DEF Money

\* What the ith transaction of what was asked in q, of which the nth makes the pool and
\* the last is number l, does to what creators have and where the LP is.
Effect(s, t, q, n, i, l) ==
    /\ \A d \in Creators, m \in Mints \ {Memecoin} :
         Has(t, d, m) = Has(s, d, m)
           - (IF d = q.payer THEN Pays(q, i = n, q.swapIn # 0 /\ i = l, m) ELSE 0)
    /\ \A P \in Pools : i < n \/ P # q.pool => \A o : Lps(t, P, o) = Lps(s, P, o)
    /\ i >= n => Locked(t, q, i > n)

\* A call that has made its pool has its LP where it should be.
Holds(s, q, n, i) == i > n => Locked(s, q, i > n + 1)

\* What a transaction that lands has done
LEMMA LandEffect ==
    ASSUME Inv, Money, NEW c \in Calls, Land(c), NEW out,
           out = Run(ledger, call[c].txs[call[c].next], <<0, 0>>), out.res = "ok",
           NEW q, Asks(q), NEW n, Shape(q, call[c].txs, n),
           NEW i, i = call[c].next, i \in 1..Len(call[c].txs),
           Holds(ledger, q, n, i), i = n => NotMade(q.pool)
    PROVE  State(out) /\ Sane(out) /\ Effect(ledger, out, q, n, i, Len(call[c].txs))
<1> DEFINE txs == call[c].txs
           tx == txs[i]
           b == Begin(ledger)
<1>1. c \in Started /\ call[c].pc = "sending" /\ {"bal", "made", "sol"} \subseteq DOMAIN ledger
      /\ Sane(ledger)
  BY DEF Land, Started, Inv, Money
<1>2. State(out) /\ Leading(b, tx, out)
  BY <1>1, LandRun
<1>3. /\ State(b) /\ Sane(b) /\ b.draw[1] = 0 /\ (\A a : Bal(b, a) = Bal(ledger, a))
      /\ b.sol = ledger.sol
  BY <1>1, BeginSame
<1> HIDE DEF b, tx
<1>4. \A P, o : Lps(b, P, o) = Lps(ledger, P, o)
  BY <1>3 DEF Lps
<1>5. \A d, m : Has(b, d, m) = Has(ledger, d, m)
  BY <1>3 DEF Has
<1>6. q.pool \in Pools
  BY DEF Asks
<1>7. i = n => \A o : Lps(b, q.pool, o) = 0
  BY <1>4, <1>6 DEF Money
<1>8. i > n => Locked(b, q, i > n + 1)
  BY <1>4 DEF Locked, Holds
<1>9. Leading(b, txs[i], out) /\ Shape(q, txs, n) /\ i \in 1..Len(txs)
  BY <1>2 DEF tx
<1> HIDE DEF txs
<1>10. /\ State(out) /\ Sane(out) /\ Charges(b, out, q, i = n, q.swapIn # 0 /\ i = Len(txs))
       /\ Others(b, out, q.pool)
       /\ i < n => SameLp(b, out)
       /\ i >= n => Locked(out, q, i > n)
  BY <1>3, <1>7, <1>8, <1>9, NextTx
<1>11. \A P \in Pools : i < n \/ P # q.pool => \A o : Lps(out, P, o) = Lps(ledger, P, o)
  BY <1>4, <1>10 DEF Others, SameLp
<1>12. \A d \in Creators, m \in Mints \ {Memecoin} :
         Has(out, d, m) = Has(ledger, d, m)
           - (IF d = q.payer THEN Pays(q, i = n, q.swapIn # 0 /\ i = Len(txs), m) ELSE 0)
  BY <1>5, <1>10 DEF Charges
<1>. QED
  BY <1>10, <1>11, <1>12 DEF txs, Effect

\* A transaction that lands
LEMMA LandOk ==
    ASSUME Inv, Inv', Money, NEW c \in Calls, Land(c),
           Run(ledger, call[c].txs[call[c].next], <<0, 0>>).res = "ok"
    PROVE  Money'
<1> DEFINE k == call[c]
           i == k.next
           txs == k.txs
           tx == txs[i]
           out == Run(ledger, tx, <<0, 0>>)
           did == k.did \cup Names(tx)
           pc == IF i = Len(txs) THEN "done" ELSE k.pc
           new == [k EXCEPT !.next = @ + 1, !.did = did, !.pc = pc]
<1>1. k.pc = "sending" /\ c \in Started /\ CallInv(k, ledger.made) /\ CallMoney(k, ledger)
  BY DEF Land, Inv, Started, Money
<1>2. Fields \subseteq DOMAIN k /\ Asked \subseteq DOMAIN k
  BY <1>1 DEF CallInv, CallMoney, Agrees
<1>3. ledger' = Committed(out) /\ call' = [Disturbed(c) EXCEPT ![c] = new]
  BY <1>2 DEF Land, Fields, Names
<1>4. PICK q, n :
        /\ Asks(q) /\ Agrees(k, q) /\ Shape(q, txs, n)
        /\ k.next \in 1..(Len(txs) + 1)
        /\ k.pc = "sending" => k.next <= Len(txs)
        /\ MadePool(k) <=> i > n
        /\ "swap" \in k.did <=> q.swapIn # 0 /\ i = Len(txs) + 1
        /\ i > n => Locked(ledger, q, i > n + 1)
  BY <1>1 DEF CallMoney
<1>5. txs \in Seq(ToSet(txs))
  BY <1>1 DEF CallInv, AllFit
<1>6. Len(txs) \in Nat /\ i \in 1..Len(txs)
  BY <1>1, <1>4, <1>5
<1>7. n \in 1..Len(txs)
  <2> HIDE DEF i, txs
  <2>. QED
    BY <1>4, <1>6, ShapeCases
<1>8. /\ Names(tx) \cap PoolInstructions # {} <=> i = n
      /\ "swap" \in Names(tx) <=> q.swapIn # 0 /\ i = Len(txs)
  <2> HIDE DEF i, txs
  <2>. QED
    BY <1>4, <1>6, TxNames
<1> HIDE DEF did, pc
<1>9. /\ DOMAIN new = DOMAIN k /\ \A f \in Asked : new[f] = k[f]
      /\ new.txs = txs /\ new.next = i + 1 /\ new.did = did /\ new.pc = pc
  BY <1>2 DEF Fields, Asked
<1> HIDE DEF new
<1>10. /\ k.payer = q.payer /\ k.pool = q.pool /\ new.payer = q.payer /\ new.pool = q.pool
       /\ Agrees(new, q) /\ q.pool \in Pools
  <2>1. Agrees(new, q)
    BY <1>4, <1>9 DEF Agrees
  <2>. QED
    BY <1>4, <2>1, AgreesOk DEF Asks
<1>11. /\ MadePool(new) <=> i >= n
       /\ "swap" \in new.did <=> q.swapIn # 0 /\ i = Len(txs)
       /\ ~ ("swap" \in k.did)
  <2>1. MadePool(new) <=> MadePool(k) \/ i = n
    BY <1>8, <1>9 DEF MadePool, did
  <2>2. "swap" \in new.did <=> "swap" \in k.did \/ (q.swapIn # 0 /\ i = Len(txs))
    BY <1>8, <1>9 DEF did
  <2>. QED
    BY <1>4, <1>6, <1>7, <2>1, <2>2
<1> HIDE DEF k, i, txs, tx, out
<1>12. /\ DOMAIN call' = Calls /\ call'[c] = new
       /\ \A d \in Calls : d # c => call'[d] = Disturbed(c)[d]
  BY <1>3 DEF Disturbed
<1>13. new.pc \in {"done", "sending"}
  BY <1>1, <1>9 DEF pc
<1>14. ASSUME NEW d \in Calls, d # c
       PROVE  /\ d \in Started' <=> d \in Started
              /\ d \in Started =>
                   /\ DOMAIN call'[d] = DOMAIN call[d] /\ \A f \in Asked : call'[d][f] = call[d][f]
                   /\ call'[d].txs = call[d].txs /\ call'[d].next = call[d].next
                   /\ call'[d].did = call[d].did /\ call'[d].pc = call[d].pc
  <2> DEFINE l == call'[d]
             j == call[d]
  <2>1. l = j \/ l = [j EXCEPT !.quiet = FALSE]
    BY <1>12, <1>14 DEF Disturbed
  <2>2. "pc" \in DOMAIN j
    BY DEF Inv
  <2>3. l.pc = j.pc /\ DOMAIN l = DOMAIN j
    BY <2>1, <2>2
  <2>4. d \in Started' <=> d \in Started
    BY <2>3 DEF Started
  <2>5. ASSUME d \in Started
        PROVE  (\A f \in Asked : l[f] = j[f]) /\ l.txs = j.txs /\ l.next = j.next /\ l.did = j.did
    <3>1. CallInv(j, ledger.made) /\ CallMoney(j, ledger)
      BY <2>5 DEF Inv, Money
    <3>2. Fields \subseteq DOMAIN j /\ Asked \subseteq DOMAIN j
      BY <3>1 DEF CallInv, CallMoney, Agrees
    <3> HIDE DEF l, j
    <3>. QED
      BY <2>1, <3>2 DEF Fields, Asked
  <2>. QED
    BY <2>3, <2>4, <2>5
<1>15. Started' = Started /\ Started \subseteq Calls
  <2>1. c \in Started' /\ c \in Started
    BY <1>1, <1>12, <1>13 DEF Started
  <2>2. Started \subseteq Calls /\ Started' \subseteq Calls
    BY DEF Started
  <2>. QED
    BY <1>14, <2>1, <2>2
<1>16. ASSUME NEW d \in Started, d # c
       PROVE  /\ call'[d].payer = call[d].payer /\ (MadePool(call'[d]) <=> MadePool(call[d]))
              /\ \A m : Spent(call'[d], m) = Spent(call[d], m)
              /\ call'[d].pool = call[d].pool
  <2> DEFINE l == call'[d]
             j == call[d]
  <2>1. (\A f \in Asked : l[f] = j[f]) /\ l.did = j.did
    BY <1>14, <1>15, <1>16
  <2>2. l.pool = j.pool
    BY <2>1 DEF Asked
  <2> HIDE DEF l, j
  <2>3. l.payer = j.payer /\ (MadePool(l) <=> MadePool(j)) /\ \A m : Spent(l, m) = Spent(j, m)
    BY <2>1, SpentSame
  <2>. QED
    BY <2>2, <2>3 DEF l, j
\* Once the call has made the pool, no other call has.
<1>17. ASSUME i >= n, NEW d \in Started, d # c, MadePool(call[d]) PROVE call[d].pool # q.pool
  <2>1. MadePool(call'[d]) /\ call'[d].pool = call[d].pool /\ MadePool(call'[c])
        /\ call'[c].pool = q.pool
    BY <1>10, <1>11, <1>12, <1>16, <1>17
  <2>2. d \in Started' /\ c \in Started'
    BY <1>1, <1>15
  <2>. QED
    BY <1>17, <2>1, <2>2 DEF Inv, MadePool
<1>18. i = n => NotMade(q.pool)
  <2> SUFFICES ASSUME i = n, NEW d \in Started, MadePool(call[d]) PROVE call[d].pool # q.pool
    BY DEF NotMade
  <2>1. d # c
    BY <1>4, <1>6, <1>7 DEF k
  <2>2. i >= n
    BY <1>6, <1>7
  <2>. QED
    BY <1>17, <2>1, <2>2
<1>19. /\ State(out) /\ Sane(out)
       /\ \A d \in Creators, m \in Mints \ {Memecoin} :
            Has(out, d, m) = Has(ledger, d, m)
              - (IF d = q.payer THEN Pays(q, i = n, q.swapIn # 0 /\ i = Len(txs), m) ELSE 0)
       /\ \A P \in Pools : i < n \/ P # q.pool => \A o : Lps(out, P, o) = Lps(ledger, P, o)
       /\ i >= n => Locked(out, q, i > n)
  <2>1. out = Run(ledger, call[c].txs[call[c].next], <<0, 0>>) /\ out.res = "ok"
    BY DEF out, tx, txs, i, k
  <2>2. Agrees(call[c], q) /\ Shape(q, call[c].txs, n) /\ i = call[c].next
        /\ i \in 1..Len(call[c].txs) /\ (MadePool(call[c]) <=> i > n)
    BY <1>4, <1>6 DEF txs, i, k
  <2>3. Holds(ledger, q, n, i)
    BY <1>4 DEF Holds
  <2> DEFINE l == Len(call[c].txs)
  <2>4. State(out) /\ Sane(out) /\ Effect(ledger, out, q, n, i, l)
    BY <1>4, <1>18, <2>1, <2>2, <2>3, LandEffect
  <2>5. l = Len(txs)
    BY DEF txs, k
  <2> HIDE DEF l
  <2>. QED
    BY <2>4, <2>5 DEF Effect
<1>20. /\ Sane(ledger') /\ (\A a : Bal(ledger', a) = Bal(out, a)) /\ ledger'.sol = out.sol
  BY <1>3, <1>19, CommittedSame
<1>21. /\ \A P, o : Lps(ledger', P, o) = Lps(out, P, o)
       /\ \A d, m : Has(ledger', d, m) = Has(out, d, m)
  BY <1>20 DEF Lps, Has
<1>22. CallMoney(new, ledger')
  <2>1. i >= n => Locked(ledger', q, i > n)
    BY <1>19, <1>21 DEF Locked
  <2>2. (new.next > n <=> i >= n) /\ ((new.next > n + 1) = (i > n))
    BY <1>6, <1>7, <1>9
  <2>3. new.next > n => Locked(ledger', q, new.next > n + 1)
    BY <2>1, <2>2
  <2>4. /\ new.next \in 1..(Len(new.txs) + 1)
        /\ new.pc = "sending" => new.next <= Len(new.txs)
        /\ new.pc = "done" => new.next = Len(new.txs) + 1
    BY <1>1, <1>6, <1>9 DEF pc
  <2>5. "swap" \in new.did <=> q.swapIn # 0 /\ new.next = Len(new.txs) + 1
    BY <1>6, <1>9, <1>11
  <2>6. Asks(q) /\ Agrees(new, q) /\ Shape(q, new.txs, n) /\ (MadePool(new) <=> new.next > n)
    BY <1>4, <1>9, <1>10, <1>11, <2>2
  <2>. QED
    BY <2>3, <2>4, <2>5, <2>6 DEF CallMoney
<1>23. \A d \in Started' : CallMoney(call'[d], ledger')
  <2> SUFFICES ASSUME NEW d \in Started, d # c PROVE CallMoney(call'[d], ledger')
    BY <1>12, <1>15, <1>22
  <2> DEFINE l == call'[d]
             j == call[d]
  <2>1. CallMoney(j, ledger)
    BY DEF Money
  <2>2. j.pool \in Pools
    BY <2>1, AgreesOk DEF CallMoney, Asks
  <2>3. MadePool(j) => i < n \/ j.pool # q.pool
    BY <1>6, <1>7, <1>17
  <2>4. MadePool(j) => \A o : Lps(ledger', j.pool, o) = Lps(ledger, j.pool, o)
    BY <1>19, <1>21, <2>2, <2>3
  <2>5. /\ DOMAIN l = DOMAIN j /\ \A f \in Asked : l[f] = j[f]
        /\ l.txs = j.txs /\ l.next = j.next /\ l.did = j.did /\ l.pc = j.pc
    BY <1>14, <1>15
  <2> HIDE DEF l, j
  <2>6. CallMoney(l, ledger')
    BY <2>1, <2>4, <2>5, CallMoneyStays
  <2>. QED
    BY <2>6 DEF l
<1>24. ASSUME NEW P \in Pools, NotMade(P)', NEW o PROVE Lps(ledger', P, o) = 0
  <2>1. NotMade(P)
    <3> SUFFICES ASSUME NEW d \in Started, MadePool(call[d]) PROVE call[d].pool # P
      BY DEF NotMade
    <3>1. CASE d = c
      <4>1. i > n
        BY <1>4, <3>1 DEF k
      <4>2. MadePool(call'[d]) /\ call'[d].pool = call[d].pool
        BY <1>6, <1>7, <1>10, <1>11, <1>12, <3>1, <4>1 DEF k
      <4>. QED
        BY <1>15, <1>24, <4>2 DEF NotMade, MadePool
    <3>2. CASE d # c
      BY <1>15, <1>16, <1>24, <3>2 DEF NotMade, MadePool
    <3>. QED
      BY <3>1, <3>2
  <2>2. Lps(ledger, P, o) = 0
    BY <2>1 DEF Money
  <2>3. i < n \/ P # q.pool
    <3> SUFFICES ASSUME i >= n, P = q.pool PROVE FALSE
      BY <1>6, <1>7
    <3>1. MadePool(call'[c]) /\ call'[c].pool = P /\ c \in Started'
      BY <1>1, <1>10, <1>11, <1>12, <1>15
    <3>. QED
      BY <1>24, <3>1 DEF NotMade, MadePool
  <2>. QED
    BY <1>19, <1>21, <2>2, <2>3
<1>25. ASSUME NEW x \in Creators, NEW m \in Mints \ {Memecoin}
       PROVE  Has(ledger', x, m) + SumFunction(SpentBy(x, m)') = Held
  <2> DEFINE f == SpentBy(x, m)
             h == SpentBy(x, m)'
             last == q.swapIn # 0 /\ i = Len(txs)
             pays == Pays(q, i = n, last, m)
  <2>1. f \in [Calls -> Int] /\ IsFiniteSet(Calls)
    BY SpentInt
  <2>2. /\ DOMAIN h = Calls
        /\ \A d \in Calls : h[d] = IF d \in Started' /\ call'[d].payer = x THEN Spent(call'[d], m) ELSE 0
    BY DEF SpentBy, Spent, MadePool
  <2>3. \A d \in Calls : f[d] = IF d \in Started /\ call[d].payer = x THEN Spent(call[d], m) ELSE 0
    BY DEF SpentBy
  <2>4. \A d \in Calls \ {c} : h[d] = f[d]
    BY <1>15, <1>16, <2>2, <2>3
  <2>5. pays \in Nat /\ Spent(new, m) = Spent(k, m) + pays /\ Spent(k, m) \in Nat
    <3>1. Spent(k, m) = Pays(q, i > n, FALSE, m)
      <4>1. Spent(k, m) = Pays(k, MadePool(k), "swap" \in k.did, m)
        BY SpentPays
      <4>2. Pays(k, MadePool(k), "swap" \in k.did, m) = Pays(q, MadePool(k), "swap" \in k.did, m)
        BY <1>4, AgreesOk
      <4>3. MadePool(k) = (i > n) /\ ("swap" \in k.did) = FALSE
        BY <1>4, <1>11 DEF MadePool
      <4>. QED
        BY <4>1, <4>2, <4>3
    <3>2. Spent(new, m) = Pays(q, i > n \/ i = n, last, m)
      <4>1. Spent(new, m) = Pays(new, MadePool(new), "swap" \in new.did, m)
        BY SpentPays
      <4>2. Pays(new, MadePool(new), "swap" \in new.did, m) = Pays(q, MadePool(new), "swap" \in new.did, m)
        BY <1>10, AgreesOk
      <4>3. MadePool(new) = (i > n \/ i = n) /\ ("swap" \in new.did) = last
        BY <1>6, <1>7, <1>11 DEF MadePool
      <4>. QED
        BY <4>1, <4>2, <4>3
    <3>3. (i > n) \in BOOLEAN /\ (i = n) \in BOOLEAN /\ ~(i > n /\ i = n) /\ last \in BOOLEAN
      BY <1>6, <1>7
    <3> HIDE DEF last
    <3>4. Pays(q, i > n \/ i = n, last, m) = Pays(q, i > n, FALSE, m) + pays
      <4> DEFINE X == i > n
                 Y == i = n
      <4>1. X \in BOOLEAN /\ Y \in BOOLEAN /\ ~(X /\ Y) /\ Asks(q) /\ last \in BOOLEAN
        BY <1>4, <3>3
      <4> HIDE DEF X, Y
      <4>2. AmountA \in Nat /\ AmountB \in Nat /\ q.swapIn \in Nat
        BY <4>1, CreationConstants DEF Asks, Known
      <4>3. Pays(q, X \/ Y, last, m) = Pays(q, X, FALSE, m) + Pays(q, Y, last, m)
        BY <4>1, <4>2 DEF Pays
      <4>. QED
        BY <4>3 DEF X, Y
    <3>5. Pays(q, i > n, FALSE, m) \in Nat /\ pays \in Nat
      BY <1>4, PaysNat
    <3>. QED
      BY <3>1, <3>2, <3>4, <3>5
  <2> HIDE DEF last, pays
  <2>6. /\ f[c] = IF q.payer = x THEN Spent(k, m) ELSE 0
        /\ h[c] = IF q.payer = x THEN Spent(new, m) ELSE 0
    BY <1>1, <1>10, <1>12, <1>15, <2>2, <2>3 DEF k
  <2> HIDE DEF f, h
  <2>7. h[c] - f[c] = (IF x = q.payer THEN pays ELSE 0) /\ h[c] \in Int
    BY <2>5, <2>6
  <2>8. h \in [Calls -> Int]
    <3>1. \A d \in Calls : h[d] \in Int
      BY <2>1, <2>4, <2>7
    <3>2. h = [d \in Calls |-> h[d]]
      BY DEF h, SpentBy
    <3>. QED
      BY <3>1, <3>2
  <2>9. SumFunction(f) \in Int /\ SumFunction(h) = SumFunction(f) + (h[c] - f[c])
    BY <2>1, <2>4, <2>8, SumChange
  <2>10. Has(ledger', x, m) = Has(ledger, x, m) - (IF x = q.payer THEN pays ELSE 0)
    BY <1>19, <1>21 DEF pays, last
  <2>11. Has(ledger, x, m) \in Int /\ Has(ledger, x, m) + SumFunction(f) = Held
    <3>1. Sane(ledger)
      BY DEF Money
    <3>. QED
      BY <3>1, HasInt DEF Money, f
  <2>12. Has(ledger', x, m) + SumFunction(h) = Held
    <3> DEFINE e == IF x = q.payer THEN pays ELSE 0
    <3>1. e \in Int /\ h[c] - f[c] = e /\ Has(ledger', x, m) = Has(ledger, x, m) - e
      BY <2>5, <2>7, <2>10
    <3> HIDE DEF e
    <3>. QED
      BY <2>9, <2>11, <3>1
  <2>. QED
    BY <2>12 DEF h
<1>. QED
  BY <1>20, <1>23, <1>24, <1>25 DEF Money

-----------------------------------------------------------------------------
(* Theorems                                                                *)

\* The invariants hold at first, and every step keeps them.
LEMMA InvStart ==
    ASSUME Init
    PROVE  Inv
<1>1. {"bal", "made", "sol"} \subseteq DOMAIN ledger
  BY DEF Init
<1>2. call = [c \in Calls |-> [pc |-> "unused"]]
  BY DEF Init
<1>3. Started = {}
  BY <1>2 DEF Started
<1>. QED
  BY <1>1, <1>2, <1>3 DEF Inv

LEMMA InvStep ==
    ASSUME Inv, [Next]_vars
    PROVE  Inv'
<1>1. CASE Next
  BY <1>1, BuildInv, LandInv DEF Next
<1>2. CASE UNCHANGED vars
  BY <1>2 DEF vars, Inv, Started, CallInv, MadePool
<1>. QED
  BY <1>1, <1>2

LEMMA MoneyStep ==
    ASSUME Inv, Money, [Next]_vars
    PROVE  Money'
<1>1. CASE UNCHANGED vars
  <2>1. ledger' = ledger /\ call' = call
    BY <1>1 DEF vars
  <2>2. Started' = Started
    BY <2>1 DEF Started
  <2>3. \A x, m : SpentBy(x, m)' = SpentBy(x, m)
    BY <2>1, <2>2 DEF SpentBy, Spent, MadePool
  <2>4. \A P : NotMade(P)' => NotMade(P)
    BY <2>1, <2>2 DEF NotMade, MadePool
  <2>5. \A d \in Started' : CallMoney(call'[d], ledger')
    BY <2>1, <2>2 DEF Money
  <2>6. \A x \in Creators, m \in Mints \ {Memecoin} :
          Has(ledger', x, m) + SumFunction(SpentBy(x, m)') = Held
    BY <2>1, <2>3 DEF Money
  <2>7. Sane(ledger') /\ \A P \in Pools : NotMade(P)' => \A o : Lps(ledger', P, o) = 0
    BY <2>1, <2>4 DEF Money
  <2>. QED
    BY <2>5, <2>6, <2>7 DEF Money
<1>2. ASSUME NEW c \in Calls, Build(c) PROVE Money'
  BY <1>2, BuildMoney
<1>3. ASSUME NEW c \in Calls, Land(c) PROVE Money'
  <2>1. Inv'
    BY <1>3, LandInv
  <2>2. CASE Run(ledger, call[c].txs[call[c].next], <<0, 0>>).res # "ok"
    BY <1>3, <2>2, LandFailed
  <2>3. CASE Run(ledger, call[c].txs[call[c].next], <<0, 0>>).res = "ok"
    BY <1>3, <2>1, <2>3, LandOk
  <2>. QED
    BY <2>2, <2>3
<1>. QED
  BY <1>1, <1>2, <1>3 DEF Next

LEMMA InvariantsAlways == Spec => [](Inv /\ Money)
<1>1. Init => Inv /\ Money
  BY InvStart, InitMoney
<1>2. Inv /\ Money /\ [Next]_vars => (Inv /\ Money)'
  BY InvStep, MoneyStep
<1>. QED
  BY <1>1, <1>2, PTL DEF Spec

\* At most one call makes the pool of two mints: whoever creates it, in whatever
\* order the mints are given, through whichever of the functions that lead to one
\* address, however the transactions of the calls interleave, fail or stop, and
\* however many calls there are (the create functions of AmmImpl).
THEOREM OnePoolPerPairAlways == Spec => []OnePoolPerPair
<1>1. Inv => OnePoolPerPair
  <2> SUFFICES ASSUME Inv, NEW c \in Started, NEW d \in Started, c # d,
                      MadePool(call[c]), MadePool(call[d]),
                      {call[c].a, call[c].b} = {call[d].a, call[d].b},
                      \/ call[c].flow = call[d].flow
                      \/ {call[c].flow, call[d].flow} \subseteq {"config", "config2", "memecoin"}
               PROVE  FALSE
    BY DEF OnePoolPerPair
  <2> DEFINE k == call[c]
             l == call[d]
  <2>1. /\ {k.a, k.b, l.a, l.b} \subseteq Mints /\ k.pool = PoolOf(k) /\ l.pool = PoolOf(l)
        /\ k.pool # l.pool
    BY DEF Inv, CallInv
  <2> HIDE DEF k, l
  <2>2. PoolOf(k) = PoolOf(l)
    BY <2>1, PoolOfPair DEF k, l
  <2>. QED
    BY <2>1, <2>2
<1>. QED
  BY <1>1, InvariantsAlways, PTL

\* Wherever calls stop or fail, however often SOL was wrapped for them and whoever
\* else was faster, a creator has spent exactly the deposits and the first swaps that
\* landed: no transaction of a call that was given up, and none of another creator,
\* takes or adds anything (the create functions of AmmImpl, wrapSOLInstruction).
THEOREM SpentAsLandedAlways == Spec => []SpentAsLanded
<1>1. Money => SpentAsLanded
  <2> SUFFICES ASSUME Money, NEW c \in Creators, NEW m \in Mints \ {Memecoin}
               PROVE  Holding(c, m) + SumFunction(SpentBy(c, m)) = Held
    BY DEF SpentAsLanded
  <2>1. Holding(c, m) = Has(ledger, c, m)
    BY DEF Holding, Balance, Has, Bal
  <2>. QED
    BY <2>1 DEF Money
<1>. QED
  BY <1>1, InvariantsAlways, PTL

\* The LP of a new pool is in the creator's account, in the creator's escrow or in the
\* fee vault's escrow at every point between the transactions of its call, whatever
\* other calls do; what is locked for the creator is locked with the pool, and a
\* finished call has locked what was asked (createPoolPostInstructions,
\* calculateLockAmounts and the fee vault's transaction).
THEOREM LpAsAskedAlways == Spec => []LpAsAsked
<1>1. Money => LpAsAsked
  <2> SUFFICES ASSUME Money, NEW c \in Started, MadePool(call[c])
               PROVE  LET k     == call[c]
                          mine  == Balance(Ata(Lp(k), Escrow(k, k.payer)))
                          fees  == Balance(Ata(Lp(k), Escrow(k, FeeVault(k))))
                          part  == IF k.flow \in {"config2", "memecoin"}
                                   THEN (LpAmount * k.ratio) \div RatioSteps ELSE 0
                      IN  /\ Balance(Ata(Lp(k), k.payer)) + mine + fees = LpAmount
                          /\ mine = IF k.lock THEN LpAmount - part ELSE 0
                          /\ k.pc = "done" => fees = part
    BY DEF LpAsAsked
  <2> DEFINE k == call[c]
             mine == Balance(Ata(Lp(k), Escrow(k, k.payer)))
             fees == Balance(Ata(Lp(k), Escrow(k, FeeVault(k))))
             hers == Balance(Ata(Lp(k), k.payer))
  <2>1. CallMoney(k, ledger) /\ MadePool(k)
    BY DEF Money
  <2> HIDE DEF k
  <2>2. PICK q, n :
          /\ Asks(q) /\ Agrees(k, q) /\ Shape(q, k.txs, n)
          /\ k.next \in 1..(Len(k.txs) + 1)
          /\ k.pc = "done" => k.next = Len(k.txs) + 1
          /\ k.next > n
          /\ Locked(ledger, q, k.next > n + 1)
    BY <2>1 DEF CallMoney
  <2> DEFINE both == k.next > n + 1
             locked == IF both THEN Part(q) ELSE 0
  <2>3. \A o : Balance(Ata(Lp(k), o)) = Lps(ledger, q.pool, o)
    <3>1. k.pool = q.pool
      BY <2>2, AgreesOk
    <3>. QED
      BY <3>1 DEF Balance, Lps, Bal, Lp
  <2>4. /\ k.payer = q.payer /\ Escrow(k, k.payer) = Escrow(q, q.payer)
        /\ Escrow(k, FeeVault(k)) = Escrow(q, FeeVault(q)) /\ k.lock = q.lock /\ Part(k) = Part(q)
    BY <2>2, AgreesOk
  <2>5. mine = Locks(q) /\ fees = locked /\ hers = (LpAmount - Locks(q)) - locked
    <3> HIDE DEF both
    <3>1. Locked(ledger, q, both)
      BY <2>2 DEF both
    <3>. QED
      BY <2>3, <2>4, <3>1 DEF Locked
  <2>6. Part(q) \in 0..LpAmount /\ LpAmount \in Nat /\ Locks(q) \in 0..LpAmount
    BY <2>2, PartOk
  <2>7. k.pc = "done" => locked = Part(q)
    <3> SUFFICES ASSUME k.pc = "done", Part(q) # 0 PROVE both
      OBVIOUS
    <3>1. n \in {1, 2} /\ Len(k.txs) = n + 1 + (IF q.swapIn # 0 THEN 1 ELSE 0)
      BY <2>2 DEF Shape
    <3>2. k.next = Len(k.txs) + 1
      BY <2>2
    <3>. QED
      BY <3>1, <3>2
  <2>8. locked \in Int
    BY <2>6
  <2> HIDE DEF mine, fees, hers, locked, both
  <2>9. hers + mine + fees = LpAmount
    BY <2>5, <2>6, <2>8
  <2>10. mine = IF k.lock THEN LpAmount - Part(k) ELSE 0
    BY <2>4, <2>5 DEF Locks
  <2>11. k.pc = "done" => fees = Part(k)
    BY <2>4, <2>5, <2>7
  <2>. QED
    BY <2>9, <2>10, <2>11 DEF k, mine, fees, hers, Part
<1>. QED
  BY <1>1, InvariantsAlways, PTL

=============================================================================
