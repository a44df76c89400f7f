------------------------------- MODULE WalletTx ------------------------------
(***************************************************************************)
(* The transactions of a user of an existing pool: swap, deposit,          *)
(* withdraw, claimLockFee, claimLockFee2 and partnerClaimFees of AmmImpl   *)
(* (ts-client/src/amm/index.ts).  Each looks up which token accounts exist *)
(* and builds a transaction that creates the missing ones, wraps SOL       *)
(* before the program's instruction and unwraps it after.  The transaction *)
(* lands later, after others of the same wallets, or never.                *)
(*                                                                         *)
(* The look-ups of one call run in parallel and are one step.  A caller    *)
(* also wraps SOL outside the client; others may own wrapped SOL before.   *)
(***************************************************************************)
EXTENDS Ledger

CONSTANTS
    Pools,            \* the pools: mints, isStablePool, and whether the LP supply is zero
    Users,            \* payers, receivers and referrers
    Owners,           \* the users that call
    Partner,          \* the pool's partner, one of them
    Temp,             \* tempWSolAcc, a fresh wallet that holds nothing of its own
    Amount,           \* what a call asks for, of each token
    MinOut,           \* the minimum it accepts
    Draws,            \* pairs of amounts the program may compute
    InitSol,          \* lamports of every wallet
    MaxCalls          \* bound on their number

ASSUME WalletConstants ==
    /\ \A p \in Pools : p.tokenA # p.tokenB /\ {p.stable, p.empty} \subseteq BOOLEAN
    /\ IsFiniteSet(Users) /\ Partner \in Users /\ Temp \notin Users
    /\ Owners \subseteq Users
    /\ Amount \in Nat /\ MinOut \in Nat /\ Draws \subseteq Nat \X Nat /\ InitSol \in Nat /\ MaxCalls \in Nat

\* An LP mint's address is a hash over those of the pool's tokens: none of them, and not
\* the fixed one of wrapped SOL.
ASSUME LpIsNoToken ==
    \A p \in Pools :
      LpMint(DerivePoolAddressWithConfig(p.tokenA, p.tokenB, DeriveConfigPda(0)))
        \notin {p.tokenA, p.tokenB, Native}

VARIABLES
    pool,     \* the pool all calls are about, as the client has loaded it
    ledger,   \* the chain
    start,    \* the chain at the start, for the properties
    call      \* the calls, their transactions and how they ended

vars == <<pool, ledger, start, call>>

TokenA == pool.tokenA
TokenB == pool.tokenB
Stable == pool.stable
Empty  == pool.empty

Pool  == DerivePoolAddressWithConfig(TokenA, TokenB, DeriveConfigPda(0))
Lp    == LpMint(Pool)
Mints == {TokenA, TokenB, Lp}
Calls == 1..MaxCalls
Wallets == Users \cup {Temp}

EscrowOf(w) == DeriveLockEscrowPda(Pool, w)
FeeAccount(mint) == DeriveProtocolTokenFee(Pool, mint)

\* The token accounts of some users for the pool's tokens
OpenedBy(users) == {Ata(m, u) : m \in {TokenA, TokenB}, u \in users}

\* A pool is funded, and every user has LP and an escrow with LP, or it is depleted.
\* Some users have token accounts of its tokens, with tokens in them.
Init ==
    /\ pool \in Pools
    /\ \E users \in SUBSET Users :
         LET vaults == {TokenVault(TokenA), TokenVault(TokenB)}
             lps    == {Ata(Lp, u) : u \in Users} \cup {Ata(Lp, EscrowOf(u)) : u \in Users}
             fees   == {FeeAccount(TokenA), FeeAccount(TokenB)}
         IN  ledger = [bal  |-> [a \in vaults \cup lps \cup fees \cup OpenedBy(users) |->
                                   IF Empty /\ a \in vaults \cup lps THEN 0 ELSE 2 * MaxCalls * Amount],
                       made |-> Mints \cup {Pool} \cup {EscrowOf(u) : u \in Users},
                       sol  |-> [w \in Wallets |-> InitSol]]
    /\ start = ledger
    /\ call = [c \in Calls |-> [pc |-> "unused"]]

-----------------------------------------------------------------------------
(* Building blocks                                                         *)

\* Mutant: the owner of the account pays for it, whoever was given as payer.
AtaPaidByOwner(seen, mint, owner, payer) ==
    IF Ata(mint, owner) \in seen THEN <<>>
    ELSE <<[name |-> "createAta", account |-> Ata(mint, owner), signers |-> {owner}]>>

\* getOrCreateATAInstruction, with the accounts that the look-up finds
GetOrCreateATA(seen, mint, owner, payer) ==
    IF Ata(mint, owner) \in seen THEN <<>>
    ELSE <<[name |-> "createAta", account |-> Ata(mint, owner), signers |-> {payer}]>>

\* createATAPreInstructions: the owner pays.
CreateATAPre(k, mints) ==
    FlattenSeq([i \in DOMAIN mints |-> GetOrCreateATA(k.seen, mints[i], k.owner, k.owner)])

\* wrapSOLInstruction, when the token is SOL
WrapSOL(mint, owner, amount) ==
    IF mint # Native THEN <<>>
    ELSE <<[name |-> "wrap", from |-> owner, to |-> Ata(Native, owner), amount |-> amount,
            signers |-> {owner}]>>

\* Mutant: the receiver is ignored.
UnwrapToOwner(owner, receiver) ==
    <<[name |-> "close", account |-> Ata(Native, owner), receiver |-> owner, signers |-> {owner}]>>

\* unwrapSOLInstruction
UnwrapSOL(owner, receiver) ==
    <<[name |-> "close", account |-> Ata(Native, owner), receiver |-> receiver, signers |-> {owner}]>>

IsNativePool == Native \in {TokenA, TokenB}

\* The accounts of the pool and its vaults that the client passes on.
VaultAccounts ==
    [aVault |-> Vault(TokenA), bVault |-> Vault(TokenB),
     aVaultLp |-> VaultLp(TokenA, Pool), bVaultLp |-> VaultLp(TokenB, Pool),
     aVaultLpMint |-> VaultLpMint(TokenA), bVaultLpMint |-> VaultLpMint(TokenB),
     pool |-> Pool, tokenProgram |-> "tokenProgram"]

WithTokenVaults ==
    [aTokenVault |-> TokenVault(TokenA), bTokenVault |-> TokenVault(TokenB),
     vaultProgram |-> "vaultProgram"] ++ VaultAccounts

-----------------------------------------------------------------------------
(* swap                                                                    *)

\* Mutant: the fee account of token A whatever the direction.
SwapFeeA(k) ==
    LET dst == IF k.mint = TokenA THEN TokenB ELSE TokenA
    IN  <<[name |-> "swap", amount |-> Amount, min |-> k.min,
           acc |-> [userSourceToken |-> Ata(k.mint, k.owner), userDestinationToken |-> Ata(dst, k.owner),
                    user |-> k.owner, protocolTokenFee |-> FeeAccount(TokenA)] ++ WithTokenVaults]>>

SwapInstruction(k) ==
    LET dst == IF k.mint = TokenA THEN TokenB ELSE TokenA
    IN  <<[name |-> "swap", amount |-> Amount, min |-> k.min,
           acc |-> [userSourceToken |-> Ata(k.mint, k.owner), userDestinationToken |-> Ata(dst, k.owner),
                    user |-> k.owner, protocolTokenFee |-> FeeAccount(k.mint)] ++ WithTokenVaults]>>

\* A referrer's token account of the source token receives the host fee.
SwapTx(k) ==
    LET dst == IF k.mint = TokenA THEN TokenB ELSE TokenA
    IN  CreateATAPre(k, <<k.mint, dst>>)
          \o WrapSOL(k.mint, k.owner, Amount)
          \o (IF k.other = k.owner THEN <<>> ELSE GetOrCreateATA(k.seen, k.mint, k.other, k.owner))
          \o SwapInstruction(k)
          \o (IF dst = Native THEN UnwrapSOL(k.owner, k.owner) ELSE <<>>)

-----------------------------------------------------------------------------
(* deposit and withdraw                                                    *)

BothAccounts(owner) ==
    [userAToken |-> Ata(TokenA, owner), userBToken |-> Ata(TokenB, owner),
     userPoolLp |-> Ata(Lp, owner), lpMint |-> Lp, user |-> owner] ++ WithTokenVaults

DepositMethod ==
    IF Empty THEN "bootstrapLiquidity"
    ELSE IF Stable THEN "addImbalanceLiquidity" ELSE "addBalanceLiquidity"

DepositTx(k) ==
    CreateATAPre(k, <<TokenA, TokenB, Lp>>)
      \o WrapSOL(TokenA, k.owner, Amount) \o WrapSOL(TokenB, k.owner, Amount)
      \o <<[name |-> DepositMethod, a |-> Amount, b |-> Amount, lp |-> Amount,
            acc |-> BothAccounts(k.owner)]>>
      \o (IF IsNativePool THEN UnwrapSOL(k.owner, k.owner) ELSE <<>>)

\* Mutant: the two minimums are swapped.
WithdrawSwapped(k) ==
    <<[name |-> "removeBalanceLiquidity", lp |-> Amount, minA |-> k.minB, minB |-> k.minA,
       acc |-> BothAccounts(k.owner)]>>

\* On a stable pool, a zero amount of one side withdraws everything on the
\* other, with no minimum.
WithdrawInstruction(k) ==
    IF Stable /\ (k.minA = 0 \/ k.minB = 0)
    THEN <<[name |-> "removeLiquiditySingleSide", lp |-> Amount, min |-> 0,
            acc |-> [userDestinationToken |-> Ata(IF k.minB = 0 THEN TokenA ELSE TokenB, k.owner),
                     userPoolLp |-> Ata(Lp, k.owner), lpMint |-> Lp, user |-> k.owner]
                    ++ WithTokenVaults]>>
    ELSE <<[name |-> "removeBalanceLiquidity", lp |-> Amount, minA |-> k.minA, minB |-> k.minB,
            acc |-> BothAccounts(k.owner)]>>

WithdrawTx(k) ==
    CreateATAPre(k, <<TokenA, TokenB, Lp>>) \o WithdrawInstruction(k)
      \o (IF IsNativePool THEN UnwrapSOL(k.owner, k.owner) ELSE <<>>)

-----------------------------------------------------------------------------
(* Claims                                                                  *)

\* Mutant: token A is paid to a token account of the escrow.
ClaimToEscrow(k, ownerA, ownerB) ==
    LET e == EscrowOf(k.owner)
    IN  GetOrCreateATA(k.seen, Lp, k.owner, k.payer) \o GetOrCreateATA(k.seen, Lp, e, k.payer)
          \o GetOrCreateATA(k.seen, TokenA, e, k.payer) \o GetOrCreateATA(k.seen, TokenB, ownerB, k.payer)
          \o <<[name |-> "claimFee",
                acc |-> [lockEscrow |-> e, owner |-> k.owner, lpMint |-> Lp,
                         sourceTokens |-> Ata(Lp, k.owner), escrowVault |-> Ata(Lp, e),
                         userAToken |-> Ata(TokenA, e), userBToken |-> Ata(TokenB, ownerB)]
                        ++ WithTokenVaults]>>

\* The claim with tokens A and B paid to the token accounts of two wallets.
ClaimInstructions(k, ownerA, ownerB) ==
    GetOrCreateATA(k.seen, Lp, k.owner, k.payer) \o GetOrCreateATA(k.seen, Lp, EscrowOf(k.owner), k.payer)
      \o GetOrCreateATA(k.seen, TokenA, ownerA, k.payer) \o GetOrCreateATA(k.seen, TokenB, ownerB, k.payer)
      \o <<[name |-> "claimFee",
            acc |-> [lockEscrow |-> EscrowOf(k.owner), owner |-> k.owner, lpMint |-> Lp,
                     sourceTokens |-> Ata(Lp, k.owner), escrowVault |-> Ata(Lp, EscrowOf(k.owner)),
                     userAToken |-> Ata(TokenA, ownerA), userBToken |-> Ata(TokenB, ownerB)]
                    ++ WithTokenVaults]>>

\* claimWithQuoteMintSol: SOL is paid to the wrapped SOL account of a temporary
\* wallet, which is closed to the receiver.
ClaimWithQuoteMintSol(k, receiver, temp) ==
    ClaimInstructions(k, IF TokenA = Native THEN temp ELSE receiver,
                         IF TokenB = Native THEN temp ELSE receiver)
      \o UnwrapSOL(temp, receiver)

ClaimWithQuoteMintNotSol(k, receiver) == ClaimInstructions(k, receiver, receiver)

\* claimLockFee: the temporary wallet is the owner unless the receiver is
\* another wallet.
ClaimLockFeeTx(k) ==
    IF IsNativePool
    THEN ClaimWithQuoteMintSol(k, k.other, IF k.other = k.owner THEN k.owner ELSE Temp)
    ELSE ClaimWithQuoteMintNotSol(k, k.other)

\* claimLockFee2: the owner's own wrapped SOL account is the temporary one.
ClaimLockFee2Tx(k) ==
    ClaimInstructions(k, IF TokenA = Native THEN k.owner ELSE k.other,
                         IF TokenB = Native THEN k.owner ELSE k.other)
      \o (IF IsNativePool THEN UnwrapSOL(k.owner, k.other) ELSE <<>>)

PartnerClaimTx(k) ==
    CreateATAPre(k, <<TokenA, TokenB>>)
      \o <<[name |-> "partnerClaimFee", a |-> Amount, b |-> Amount,
            acc |-> [pool |-> Pool, aVaultLp |-> VaultLp(TokenA, Pool),
                     protocolTokenAFee |-> FeeAccount(TokenA), protocolTokenBFee |-> FeeAccount(TokenB),
                     partnerTokenA |-> Ata(TokenA, k.owner), partnerTokenB |-> Ata(TokenB, k.owner),
                     tokenProgram |-> "tokenProgram", partnerAuthority |-> k.owner]]>>

-----------------------------------------------------------------------------

Tx(k) ==
    CASE k.kind = "swap"     -> SwapTx(k)
      [] k.kind = "deposit"  -> DepositTx(k)
      [] k.kind = "withdraw" -> WithdrawTx(k)
      [] k.kind = "claim"    -> ClaimLockFeeTx(k)
      [] k.kind = "claim2"   -> ClaimLockFee2Tx(k)
      [] k.kind = "partner"  -> PartnerClaimTx(k)

\* What a caller may ask for: other is the receiver of a claim or the referrer of
\* a swap, the owner standing for none.
Requests ==
    [kind : {"swap"}, owner : Owners, other : Users, mint : {TokenA, TokenB}, min : {MinOut}]
    \cup [kind : {"deposit"}, owner : Owners]
    \cup [kind : {"withdraw"}, owner : Owners, minA : {0, MinOut}, minB : {0, MinOut}]
    \cup [kind : {"claim", "claim2"}, owner : Owners, other : Users, payer : Users]
    \cup [kind : {"partner"}, owner : {Partner}]

\* The token accounts a call may look up.
LookedUp == {Ata(m, w) : m \in Mints, w \in Wallets} \cup {Ata(Lp, EscrowOf(u)) : u \in Users}

\* A call looks up the accounts that exist and builds its transaction.
Build(c) ==
    /\ call[c].pc = "unused"
    /\ \A d \in 1..(c - 1) : call[d].pc # "unused"
    /\ \E k \in Requests :
         call' = [call EXCEPT ![c] =
                    [pc |-> "built", quiet |-> TRUE, seen |-> LookedUp \cap DOMAIN ledger.bal] ++ k]
    /\ UNCHANGED <<pool, ledger, start>>

\* The other calls, after something they may have read has changed.
Disturbed(c) ==
    [d \in Calls |-> IF d # c /\ call[d].pc = "built" THEN [call[d] EXCEPT !.quiet = FALSE] ELSE call[d]]

\* A transaction reaches the chain; one that never does stays built.
Land(c) ==
    /\ call[c].pc = "built"
    /\ \E draw \in Draws :
         LET out == Run(ledger, Tx(call[c]), draw)
         IN  IF out.res = "ok"
             THEN /\ ledger' = Committed(out)
                  /\ call' = [Disturbed(c) EXCEPT ![c] = [pc |-> "landed", draw |-> draw] ++ @]
             ELSE /\ call' = [call EXCEPT ![c].pc = out.res]
                  /\ UNCHANGED ledger
    /\ UNCHANGED <<pool, start>>

\* A caller wraps a lamport, outside the client.
WrapOwn(w) ==
    LET out == Run(ledger, GetOrCreateATA(DOMAIN ledger.bal, Native, w, w) \o WrapSOL(Native, w, 1), <<0, 0>>)
    IN  /\ IsNativePool
        /\ Ata(Native, w) \notin DOMAIN ledger.bal
        /\ out.res = "ok"
        /\ ledger' = Committed(out)
        /\ call' = Disturbed(0)
        /\ UNCHANGED <<pool, start>>

Next ==
    \/ \E c \in Calls : Build(c) \/ Land(c)
    \/ \E u \in Owners : WrapOwn(u)

Spec == Init /\ [][Next]_vars

-----------------------------------------------------------------------------
(* Properties                                                              *)

Balance(s, a) == IF a \in DOMAIN s.bal THEN s.bal[a] ELSE 0

\* What a wallet has of a token, wrapped or not.
Holding(s, w, mint) == Balance(s, Ata(mint, w)) + (IF mint = Native THEN s.sol[w] ELSE 0)

Landed == {c \in Calls : call[c].pc = "landed"}

\* What a landed call pays to (or takes from) the wallet it was made for.
Due(k, mint) ==
    LET first  == IF mint = TokenA THEN k.draw[1] ELSE IF mint = TokenB THEN k.draw[2] ELSE 0
        single == Stable /\ (k.minA = 0 \/ k.minB = 0)
    IN  CASE k.kind = "swap" -> (IF mint = k.mint THEN -Amount ELSE IF mint = Lp THEN 0 ELSE k.draw[1])
          [] k.kind = "deposit" ->
                IF mint = Lp THEN Amount
                ELSE IF Empty \/ Stable THEN -Amount ELSE -first
          [] k.kind = "withdraw" ->
                IF mint = Lp THEN -Amount
                ELSE IF ~single THEN first
                ELSE IF mint = (IF k.minB = 0 THEN TokenA ELSE TokenB) THEN k.draw[1] ELSE 0
          [] k.kind \in {"claim", "claim2"} -> first
          [] k.kind = "partner" -> IF mint = Lp THEN 0 ELSE Amount

Beneficiary(k) == IF k.kind \in {"claim", "claim2"} THEN k.other ELSE k.owner

\* The sum of f over the calls.
Total(f) ==
    LET upTo[n \in 0..MaxCalls] == IF n = 0 THEN 0 ELSE upTo[n - 1] + f[n]
    IN  upTo[MaxCalls]

\* What the calls among cs pay in sum.
Sum(cs, mint) == Total([c \in Calls |-> IF c \in cs THEN Due(call[c], mint) ELSE 0])

\* However calls of all wallets are built and land, wrapping, unwrapping and
\* account creation move no value: of every token, with wrapped and unwrapped
\* SOL as one, a wallet has exactly what it had and what the program paid it or
\* took from it in the calls made for it.   A claim by claimLockFee2 to
\* another wallet closes the owner's wrapped SOL account to it, with all that the
\* owner had wrapped; these are left to the next property.
PaidToTheRightWallet ==
    (\A c \in Landed : call[c].kind = "claim2" => call[c].other = call[c].owner)
    => \A w \in Wallets, m \in Mints :
         Holding(ledger, w, m) =
           Holding(start, w, m) + Sum({c \in Landed : Beneficiary(call[c]) = w}, m)

\* Whatever the claims, all wallets together have what they had and what the
\* program paid or took.
NothingLost ==
    \A m \in Mints :
      MapThenSumSet(LAMBDA w : Holding(ledger, w, m), Wallets) =
        MapThenSumSet(LAMBDA w : Holding(start, w, m), Wallets) + Sum(Landed, m)

\* A transaction before which nothing else changed finds the accounts it needs
\* and creates none that exists: it fails only for lack of funds or slippage.
QuietTxLands ==
    \A c \in Calls :
      call[c].pc \notin {"unused", "built", "landed", "funds", "slippage"} => ~call[c].quiet

Parties(k) ==
    {k.owner} \cup (IF k.kind \in {"claim", "claim2"} THEN {k.payer} ELSE {})
              \cup (IF k.kind = "claim" /\ k.other # k.owner THEN {Temp} ELSE {})

\* The signatures a transaction needs are those of the wallets that take part in
\* the call: its owner and payer, and the temporary wallet of claimLockFee; never
\* that of a receiver or referrer.  Every account the interface requires is given.
SignedByParties ==
    \A c \in Calls : call[c].pc = "built" =>
      \A ix \in Range(Tx(call[c])) :
        WellFormed(ix) /\ Signers(ix) \subseteq Parties(call[c])

\* A swap, and a withdrawal of both tokens, that has landed paid at least the amounts
\* that were asked for, of the right token.  The withdrawal of one token takes no
\* minimum, whatever was asked for.
MinimumsKept ==
    \A c \in Landed :
      /\ call[c].kind = "swap" => call[c].draw[1] >= call[c].min
      /\ call[c].kind = "withdraw" /\ ~(Stable /\ (call[c].minA = 0 \/ call[c].minB = 0)) =>
           Due(call[c], TokenA) >= call[c].minA /\ Due(call[c], TokenB) >= call[c].minB
=============================================================================
