-------------------------------- MODULE Ledger -------------------------------
(***************************************************************************)
(* The chain the client's transactions run on: token accounts with their   *)
(* balances, the other accounts that exist, and lamports of wallets.  A    *)
(* transaction runs all of its instructions or has no effect.              *)
(*                                                                         *)
(* Everything here is external to the client.  The token, associated-token *)
(* and system programs behave as the client relies on; the AMM program's   *)
(* handlers are interface stubs in this repository, so that an instruction *)
(* does what its documentation says, with the amounts the program computes *)
(* left open (draw).  The accounts come from the roles of AmmIdl that the  *)
(* client filled in.  Rent is left out.                                    *)
(*                                                                         *)
(* A state s is a record: bal (token accounts that exist, with balances),  *)
(* made (the other accounts that exist), sol (lamports of wallets), res    *)
(* ("ok" or why the transaction failed) and draw (the amounts the program  *)
(* computes, of token A and token B).                                      *)
(***************************************************************************)
EXTENDS Address, AmmIdl, SequencesExt, FiniteSetsExt, Functions, TLC

CONSTANT Native   \* NATIVE_MINT, the mint of wrapped SOL

\* Two records as one, the first before the second: @@ of module TLC, which the
\* prover does not know.
f ++ g == [x \in DOMAIN f \cup DOMAIN g |-> IF x \in DOMAIN f THEN f[x] ELSE g[x]]

Fail(s, why) == IF s.res = "ok" THEN [s EXCEPT !.res = why] ELSE s

Check(s, holds, why) == IF holds THEN s ELSE Fail(s, why)

-----------------------------------------------------------------------------
(* Token and system programs                                               *)

Move(s, from, to, amount) ==
    IF ~ {from, to} \subseteq DOMAIN s.bal THEN Fail(s, "missing")
    ELSE IF s.bal[from] < amount THEN Fail(s, "funds")
    ELSE LET taken == [s.bal EXCEPT ![from] = @ - amount]
         IN  [s EXCEPT !.bal = [taken EXCEPT ![to] = @ + amount]]

Mint(s, to, amount) ==
    IF to \notin DOMAIN s.bal THEN Fail(s, "missing") ELSE [s EXCEPT !.bal[to] = @ + amount]

Burn(s, from, amount) ==
    IF from \notin DOMAIN s.bal THEN Fail(s, "missing")
    ELSE IF s.bal[from] < amount THEN Fail(s, "funds")
    ELSE [s EXCEPT !.bal[from] = @ - amount]

Open(s, account) ==
    IF account \in DOMAIN s.bal THEN Fail(s, "exists") ELSE [s EXCEPT !.bal = [a \in {account} |-> 0] ++ @]

Make(s, account) ==
    IF account \in s.made THEN Fail(s, "exists") ELSE [s EXCEPT !.made = @ \cup {account}]

\* SystemProgram.transfer to a wrapped SOL account and syncNative
Wrap(s, from, to, amount) ==
    IF s.sol[from] < amount THEN Fail(s, "funds")
    ELSE [Mint(s, to, amount) EXCEPT !.sol[from] = @ - amount]

\* closeAccount: what a wrapped SOL account holds goes to the receiver; an
\* account of another mint must be empty.
Close(s, account, receiver) ==
    IF account \notin DOMAIN s.bal THEN Fail(s, "missing")
    ELSE IF MintOf(account) # Native /\ s.bal[account] # 0 THEN Fail(s, "notEmpty")
    ELSE [s EXCEPT !.bal = Restrict(@, DOMAIN @ \ {account}),
                   !.sol[receiver] = @ + s.bal[account]]

-----------------------------------------------------------------------------
(* The AMM program                                                         *)

\* The token vault of a mint must be one of the two the instruction names.
NamesVaults(acc, mints) == {TokenVault(m) : m \in mints} \subseteq {acc.aTokenVault, acc.bTokenVault}

Swap(s, ix) ==
    LET a   == ix.acc
        in  == MintOf(a.userSourceToken)
        out == MintOf(a.userDestinationToken)
        ok  == Check(Check(Check(s, a.pool \in s.made, "missing"),
                           NamesVaults(a, {in, out})
                             /\ a.protocolTokenFee = DeriveProtocolTokenFee(a.pool, in),
                           "constraint"),
                     s.draw[1] >= ix.min, "slippage")
    IN  Move(Move(ok, a.userSourceToken, TokenVault(in), ix.amount),
             TokenVault(out), a.userDestinationToken, s.draw[1])

\* Takes amounts of both tokens for LP; a balanced deposit takes what the LP
\* cost, at most the amounts given, the others exactly the amounts given.
AddLiquidity(s, ix) ==
    LET a     == ix.acc
        taken == IF ix.name = "addBalanceLiquidity" THEN s.draw ELSE <<ix.a, ix.b>>
        ok    == Check(Check(s, a.pool \in s.made, "missing"),
                       taken[1] <= ix.a /\ taken[2] <= ix.b, "slippage")
    IN  Mint(Move(Move(ok, a.userAToken, a.aTokenVault, taken[1]),
                  a.userBToken, a.bTokenVault, taken[2]),
             a.userPoolLp, ix.lp)

RemoveBalanced(s, ix) ==
    LET a  == ix.acc
        ok == Check(Burn(s, a.userPoolLp, ix.lp),
                    s.draw[1] >= ix.minA /\ s.draw[2] >= ix.minB, "slippage")
    IN  Move(Move(ok, a.aTokenVault, a.userAToken, s.draw[1]),
             a.bTokenVault, a.userBToken, s.draw[2])

RemoveSingleSide(s, ix) ==
    LET a    == ix.acc
        mint == MintOf(a.userDestinationToken)
        ok   == Check(Burn(s, a.userPoolLp, ix.lp), s.draw[1] >= ix.min, "slippage")
    IN  Move(ok, TokenVault(mint), a.userDestinationToken, s.draw[1])

\* The fees of locked LP, withdrawn from the pool; a maximum bounds the LP burnt.
ClaimFee(s, ix) ==
    LET a  == ix.acc
        ok == Check(s, a.lockEscrow \in s.made /\ {a.sourceTokens, a.escrowVault} \subseteq DOMAIN s.bal,
                    "missing")
    IN  Move(Move(ok, a.aTokenVault, a.userAToken, s.draw[1]),
             a.bTokenVault, a.userBToken, s.draw[2])

PartnerClaim(s, ix) ==
    LET a == ix.acc
    IN  Move(Move(s, a.protocolTokenAFee, a.partnerTokenA, Min({ix.a, s.bal[a.protocolTokenAFee]})),
             a.protocolTokenBFee, a.partnerTokenB, Min({ix.b, s.bal[a.protocolTokenBFee]}))

\* Creates the pool and its accounts, takes the first deposit, and gives the
\* payer LP for it.
InitializePool(s, ix) ==
    LET a    == ix.acc
        ok   == Check(Check(s, {a.aVault, a.bVault, a.tokenAMint, a.tokenBMint} \subseteq s.made,
                            "missing"),
                      "config" \in DOMAIN a => a.config \in s.made, "missing")
        paid == Move(Move(ok, a.payerTokenA, a.aTokenVault, ix.a), a.payerTokenB, a.bTokenVault, ix.b)
    IN  Mint(Open(Make(Make(paid, a.pool), a.lpMint), a.payerPoolLp), a.payerPoolLp, ix.lp)

CreateLockEscrow(s, ix) ==
    Make(Check(s, {ix.acc.pool, ix.acc.lpMint} \subseteq s.made, "missing"), ix.acc.lockEscrow)

\* A maximum: what the source holds, if that is less.
Lock(s, ix) ==
    LET a  == ix.acc
        ok == Check(Check(s, a.lockEscrow \in s.made, "missing"),
                    a.sourceTokens \in DOMAIN s.bal, "missing")
    IN  IF ok.res = "ok"
        THEN Move(ok, a.sourceTokens, a.escrowVault, Min({ix.max, s.bal[a.sourceTokens]}))
        ELSE ok

Program(s, ix) ==
    CASE ix.name = "swap" -> Swap(s, ix)
      [] ix.name \in {"addBalanceLiquidity", "addImbalanceLiquidity", "bootstrapLiquidity"} ->
            AddLiquidity(s, ix)
      [] ix.name = "removeBalanceLiquidity"    -> RemoveBalanced(s, ix)
      [] ix.name = "removeLiquiditySingleSide" -> RemoveSingleSide(s, ix)
      [] ix.name = "claimFee"                  -> ClaimFee(s, ix)
      [] ix.name = "partnerClaimFee"           -> PartnerClaim(s, ix)
      [] ix.name = "createLockEscrow"          -> CreateLockEscrow(s, ix)
      [] ix.name = "lock"                      -> Lock(s, ix)
      [] OTHER                                 -> InitializePool(s, ix)

-----------------------------------------------------------------------------
(* Transactions                                                            *)

\* An instruction may only change token accounts it names as writable.
Changed(s, t) ==
    {a \in DOMAIN s.bal \cap DOMAIN t.bal : s.bal[a] # t.bal[a]} \cup (DOMAIN t.bal \ DOMAIN s.bal)

OfProgram(ix) == ix.name \in DOMAIN Idl

RunProgram(s, ix) ==
    LET t == Program(s, ix)
    IN  Check(t, Changed(s, t) \subseteq {ix.acc[r] : r \in Idl[ix.name].writable}, "readonly")

Execute(s, ix) ==
    IF s.res # "ok" THEN s
    ELSE
    CASE OfProgram(ix)             -> RunProgram(s, ix)
      [] ix.name = "createAta"     -> Open(Check(s, MintOf(ix.account) \in s.made, "missing"), ix.account)
      [] ix.name = "wrap"          -> Wrap(s, ix.from, ix.to, ix.amount)
      [] ix.name = "close"         -> Close(s, ix.account, ix.receiver)
      [] ix.name = "createVault"   -> Make(Open(Check(s, ix.mint \in s.made, "missing"),
                                                TokenVault(ix.mint)), Vault(ix.mint))
      [] ix.name = "createMint"    -> Make(s, ix.mint)
      [] ix.name = "createMetadata" -> Check(s, ix.authority = ix.mintAuthority, "authority")
      [] ix.name = "mintTo"        -> Mint(s, ix.to, ix.amount)
      [] ix.name = "createFeeVault" -> Make(Make(Check(s, ix.pool \in s.made, "missing"),
                                                 DeriveFeeVault(ix.pool)),
                                            DeriveLockEscrowPda(ix.pool, DeriveFeeVault(ix.pool)))
      [] OTHER                     -> s

\* The instructions of a transaction, one after the other.
Run(s, ixs, draw) ==
    LET after[n \in 0..Len(ixs)] == IF n = 0 THEN [res |-> "ok", draw |-> draw] ++ s
                                    ELSE Execute(after[n - 1], ixs[n])
    IN  after[Len(ixs)]

\* The state without what belongs to one transaction.
Committed(s) == [bal |-> s.bal, made |-> s.made, sol |-> s.sol]

\* Who must sign an instruction.
Signers(ix) == IF OfProgram(ix) THEN {ix.acc[r] : r \in Idl[ix.name].signer} ELSE ix.signers

\* What the client library requires of a call: every role of the IDL is given.
WellFormed(ix) == OfProgram(ix) => Roles(ix.name) \subseteq DOMAIN ix.acc
=============================================================================
