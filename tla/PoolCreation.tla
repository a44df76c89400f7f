---------------------------- MODULE PoolCreation -----------------------------
(***************************************************************************)
(* The five functions of AmmImpl that create a pool                        *)
(* (ts-client/src/amm/index.ts).  Each derives the addresses, looks up     *)
(* which vaults and token accounts exist, and returns one transaction or   *)
(* several: mints, vaults, token accounts and wrapped SOL first, then the  *)
(* pool with the creator's lock, the stake-for-fee vault with its part of  *)
(* the lock, and a first swap.  The caller sends them in order.  Any of    *)
(* them may fail or never land, and the rest is then not sent; the caller  *)
(* may call again.  Other creators make the same pool at the same time,    *)
(* with the mints in either order.                                         *)
(*                                                                         *)
(* The look-ups of one call are one step.  Vaults are those whose LP mint  *)
(* is the derived one: older ones only differ in that address.             *)
(***************************************************************************)
EXTENDS Ledger

CONSTANTS
    Creators,         \* wallets that create pools
    Pairs,            \* pairs <<tokenAMint, tokenBMint>> they ask for
    Memecoin,         \* a mint that does not exist yet
    AmountA, AmountB, \* tokenAAmount and tokenBAmount
    SwapIn,           \* opt.swapLiquidity.inAmount
    RatioSteps,       \* opt.stakeLiquidity.ratio is one of 0..RatioSteps over RatioSteps
    U64Max,           \* more than any balance
    Held,             \* what a creator has of SOL and of every token
    MaxCalls          \* bound on the number of calls

ASSUME CreationConstants ==
    /\ {AmountA, AmountB, SwapIn, U64Max, Held, MaxCalls} \subseteq Nat
    /\ RatioSteps \in Nat \ {0}
    /\ AmountA <= U64Max /\ AmountB <= U64Max

Mints  == UNION {{p[1], p[2]} : p \in Pairs}

\* Keys are compared by their bytes: of two mints one comes first.
ASSUME CreationKeys ==
    /\ KeyOrder \in Seq(ToSet(KeyOrder)) /\ IsInjective(KeyOrder)
    /\ Mints \subseteq ToSet(KeyOrder)

Calls  == 1..MaxCalls
Config == DeriveConfigPda(0)

VARIABLES
    ledger,   \* the chain
    call      \* the calls: what was asked and found, and how far they got

vars == <<ledger, call>>

\* The creators hold every token that exists, SOL unwrapped; no vault exists, or
\* that of SOL.
HeldAtas == {Ata(m, c) : m \in Mints \ {Native, Memecoin}, c \in Creators}

Init ==
    \E vaults \in {{}, {Native}} :
      /\ ledger = [bal  |-> [x \in HeldAtas \cup {TokenVault(m) : m \in vaults} |->
                               IF x \in HeldAtas THEN Held ELSE 0],
                   made |-> (Mints \ {Memecoin}) \cup {Config} \cup {Vault(m) : m \in vaults},
                   sol  |-> [c \in Creators |-> Held]]
      /\ call = [c \in Calls |-> [pc |-> "unused"]]

-----------------------------------------------------------------------------
(* What is to be created                                                   *)

PoolOf(k) ==
    CASE k.flow = "customizable" -> DeriveCustomizablePoolAddress(k.a, k.b)
      [] k.flow = "feeTier"      -> DerivePoolAddress(k.a, k.b, FALSE, ConstantProductDefaultFeeBps)
      [] OTHER                   -> DerivePoolAddressWithConfig(k.a, k.b, Config)

Lp(k) == LpMint(k.pool)
Escrow(k, owner) == DeriveLockEscrowPda(k.pool, owner)
FeeVault(k) == DeriveFeeVault(k.pool)

\* sqrt of bn-sqrt
LpAmount == CHOOSE r \in 0..(AmountA + AmountB) : r * r <= AmountA * AmountB
                                                  /\ AmountA * AmountB < (r + 1) * (r + 1)

\* Mutant: the fee wrapper's part is rounded up.
LockAmountsUp(ratio) ==
    LET wrapper == (LpAmount * ratio + RatioSteps - 1) \div RatioSteps
    IN  [feeWrapper |-> wrapper, user |-> LpAmount - wrapper + 1]

\* calculateLockAmounts
CalculateLockAmounts(ratio) ==
    LET wrapper == (LpAmount * ratio) \div RatioSteps
    IN  [feeWrapper |-> wrapper, user |-> LpAmount - wrapper]

-----------------------------------------------------------------------------
(* Instructions                                                            *)

\* createPermissionlessVaultInstruction, when the vault was not found
CreateVault(k, mint) ==
    IF Vault(mint) \in k.seen THEN <<>>
    ELSE <<[name |-> "createVault", mint |-> mint, signers |-> {k.payer}]>>

\* getOrCreateATAInstruction
GetOrCreateATA(k, mint, owner) ==
    IF Ata(mint, owner) \in k.seen THEN <<>>
    ELSE <<[name |-> "createAta", account |-> Ata(mint, owner), signers |-> {k.payer}]>>

\* wrapSOLInstruction, when the token is SOL
WrapSOL(k, mint, amount) ==
    IF mint # Native THEN <<>>
    ELSE <<[name |-> "wrap", from |-> k.payer, to |-> Ata(Native, k.payer), amount |-> amount,
            signers |-> {k.payer}]>>

\* The functions with a config, except the one for config2, also wrap what the
\* first swap takes.
WrappedB(k) == IF k.flow \in {"config", "memecoin"} THEN AmountB + k.swapIn ELSE AmountB

\* Mutant: the vault of token B is left out.
PreInstructionsOneVault(k) ==
    CreateVault(k, k.a)
      \o (IF k.skipA THEN <<>> ELSE GetOrCreateATA(k, k.a, k.payer))
      \o GetOrCreateATA(k, k.b, k.payer)
      \o WrapSOL(k, k.a, AmountA) \o WrapSOL(k, k.b, WrappedB(k))

\* preInstructions of all five functions; skipA is opt.skipAta or opt.skipAAta
PreInstructions(k) ==
    CreateVault(k, k.a) \o CreateVault(k, k.b)
      \o (IF k.skipA THEN <<>> ELSE GetOrCreateATA(k, k.a, k.payer))
      \o GetOrCreateATA(k, k.b, k.payer)
      \o WrapSOL(k, k.a, AmountA) \o WrapSOL(k, k.b, WrappedB(k))

\* createTokenIxs of the memecoin pool, with the instructions of createMint: the
\* metadata is created with the payer as the mint's authority.
CreateTokenIxs(k) ==
    IF k.flow # "memecoin" \/ k.isMinted THEN <<>>
    ELSE <<[name |-> "createMint", mint |-> k.a, signers |-> {k.payer, k.a}],
           [name |-> "createMetadata", authority |-> k.payer, mintAuthority |-> k.authority,
            signers |-> {k.payer}]>>
         \o GetOrCreateATA(k, k.a, k.authority)
         \o <<[name |-> "mintTo", to |-> Ata(k.a, k.authority), amount |-> Held,
               signers |-> {k.authority}],
              [name |-> "revokeMintAuthority", signers |-> {k.authority}]>>

\* The accounts of the pool's two vaults.
VaultAccounts(k) ==
    [aVault |-> Vault(k.a), bVault |-> Vault(k.b),
     aVaultLp |-> VaultLp(k.a, k.pool), bVaultLp |-> VaultLp(k.b, k.pool),
     aVaultLpMint |-> VaultLpMint(k.a), bVaultLpMint |-> VaultLpMint(k.b),
     pool |-> k.pool, tokenProgram |-> "tokenProgram"]

WithTokenVaults(k) ==
    [aTokenVault |-> TokenVault(k.a), bTokenVault |-> TokenVault(k.b),
     vaultProgram |-> "vaultProgram"] ++ VaultAccounts(k)

\* The accounts that all functions pass to the instruction that makes the pool.
PoolAccounts(k) ==
    [tokenAMint |-> k.a, tokenBMint |-> k.b, lpMint |-> Lp(k),
     payerTokenA |-> Ata(k.a, k.payer), payerTokenB |-> Ata(k.b, k.payer),
     payerPoolLp |-> Ata(Lp(k), k.payer), payer |-> k.payer,
     protocolTokenAFee |-> DeriveProtocolTokenFee(k.pool, k.a),
     protocolTokenBFee |-> DeriveProtocolTokenFee(k.pool, k.b),
     mintMetadata |-> DeriveMintMetadata(Lp(k)),
     metadataProgram |-> "metadataProgram", rent |-> "rent", systemProgram |-> "systemProgram",
     associatedTokenProgram |-> "associatedTokenProgram"] ++ WithTokenVaults(k)

PoolInstructions ==
    {"initializeCustomizablePermissionlessConstantProductPool",
     "initializePermissionlessPoolWithFeeTier",
     "initializePermissionlessConstantProductPoolWithConfig",
     "initializePermissionlessConstantProductPoolWithConfig2"}

\* Mutant: the amounts the wrong way round.
InitializeSwapped(k, name, acc) ==
    <<[name |-> name, a |-> AmountB, b |-> AmountA, lp |-> LpAmount, acc |-> acc ++ PoolAccounts(k)]>>

Initialize(k, name, acc) ==
    <<[name |-> name, a |-> AmountA, b |-> AmountB, lp |-> LpAmount, acc |-> acc ++ PoolAccounts(k)]>>

CreateEscrow(k) ==
    <<[name |-> "createLockEscrow",
       acc |-> [pool |-> k.pool, lockEscrow |-> Escrow(k, k.payer), owner |-> k.payer,
                lpMint |-> Lp(k), payer |-> k.payer, systemProgram |-> "systemProgram"]]>>

LockInstruction(k, owner, max) ==
    <<[name |-> "lock", max |-> max,
       acc |-> [lockEscrow |-> Escrow(k, owner), owner |-> k.payer, lpMint |-> Lp(k),
                sourceTokens |-> Ata(Lp(k), k.payer), escrowVault |-> Ata(Lp(k), Escrow(k, owner))]
               ++ VaultAccounts(k)]>>

\* createPoolPostInstructions: the lock of the payer's part.
LockPost(k, max) ==
    IF ~k.lock \/ max = 0 THEN <<>>
    ELSE CreateEscrow(k) \o GetOrCreateATA(k, Lp(k), Escrow(k, k.payer))
           \o LockInstruction(k, k.payer, max)

\* The fee vault, the token account of its escrow, and the lock of its part.
FeeVaultTx(k, max) ==
    IF max = 0 THEN <<>>
    ELSE << <<[name |-> "createFeeVault", pool |-> k.pool, signers |-> {k.payer}]>>
              \o GetOrCreateATA(k, Lp(k), Escrow(k, FeeVault(k)))
              \o LockInstruction(k, FeeVault(k), max) >>

\* The first swap, from token B to token A.
SwapTx(k) ==
    IF k.swapIn = 0 THEN <<>>
    ELSE << <<[name |-> "swap", amount |-> k.swapIn, min |-> 0,
               acc |-> [userSourceToken |-> Ata(k.b, k.payer), userDestinationToken |-> Ata(k.a, k.payer),
                        user |-> k.payer,
                        protocolTokenFee |-> DeriveProtocolTokenFee(k.pool, k.b)]
                       ++ WithTokenVaults(k)]>> >>

\* The preInstructions are a transaction of their own if there are any.
PreTx(ixs) == IF ixs = <<>> THEN <<>> ELSE <<ixs>>

-----------------------------------------------------------------------------
(* The transactions of each function                                       *)

CreateCustomizablePool(k) ==
    << PreInstructions(k)
         \o Initialize(k, "initializeCustomizablePermissionlessConstantProductPool", <<>>) >>

CreatePermissionlessPool(k) ==
    << PreInstructions(k)
         \o Initialize(k, "initializePermissionlessPoolWithFeeTier", [feeOwner |-> "FEE_OWNER"]) >>

CreatePoolWithConfig(k) ==
    PreTx(PreInstructions(k))
      \o << Initialize(k, "initializePermissionlessConstantProductPoolWithConfig", [config |-> Config])
              \o LockPost(k, U64Max) >>
      \o SwapTx(k)

CreatePoolWithConfig2(k) ==
    LET amounts == CalculateLockAmounts(k.ratio)
    IN  PreTx(PreInstructions(k))
          \o << Initialize(k, "initializePermissionlessConstantProductPoolWithConfig2",
                           [config |-> Config])
                  \o LockPost(k, amounts.user) >>
          \o FeeVaultTx(k, amounts.feeWrapper) \o SwapTx(k)

CreateMemecoinPool(k) ==
    LET amounts == CalculateLockAmounts(k.ratio)
    IN  PreTx(CreateTokenIxs(k) \o PreInstructions(k))
          \o << Initialize(k, "initializePermissionlessConstantProductPoolWithConfig",
                           [config |-> Config])
                  \o LockPost(k, amounts.user) >>
          \o FeeVaultTx(k, amounts.feeWrapper) \o SwapTx(k)

Txs(k) ==
    CASE k.flow = "customizable" -> CreateCustomizablePool(k)
      [] k.flow = "feeTier"      -> CreatePermissionlessPool(k)
      [] k.flow = "config"       -> CreatePoolWithConfig(k)
      [] k.flow = "config2"      -> CreatePoolWithConfig2(k)
      [] k.flow = "memecoin"     -> CreateMemecoinPool(k)

-----------------------------------------------------------------------------
(* Calls                                                                   *)

\* What a caller may ask for.  Only some functions have options.  The creator is
\* the payer and the authority of the memecoin's mint; the token account of a mint
\* that is to be made is left to the mint's instructions, and a first swap follows.
Requests ==
    LET Of(flows, locks, ratios, swaps) ==
          {[flow |-> f, payer |-> c, a |-> p[1], b |-> p[2], lock |-> l, ratio |-> r, swapIn |-> w,
            skipA |-> FALSE, isMinted |-> TRUE, authority |-> c] :
              f \in flows, c \in Creators, p \in {q \in Pairs : q[1] # Memecoin}, l \in locks,
              r \in ratios, w \in swaps}
    IN  Of({"customizable", "feeTier"}, {FALSE}, {0}, {0})
        \cup Of({"config"}, BOOLEAN, {0}, {0, SwapIn})
        \cup Of({"config2"}, BOOLEAN, 0..RatioSteps, {0, SwapIn})
        \cup {[flow |-> "memecoin", payer |-> c, a |-> Memecoin, b |-> p[2], lock |-> TRUE,
               ratio |-> r, swapIn |-> SwapIn, skipA |-> ~i, isMinted |-> i, authority |-> c] :
                 c \in Creators, p \in {q \in Pairs : q[1] = Memecoin},
                 r \in 0..RatioSteps, i \in BOOLEAN}

\* Addresses of a program are hashes: no mint of a pair is the LP mint of a pool that
\* is asked for, and no wallet's key is an escrow.
ASSUME CreationAddresses ==
    \A r \in Requests :
      /\ LpMint(PoolOf(r)) \notin Mints
      /\ \A o \in {r.payer, DeriveFeeVault(PoolOf(r))} : DeriveLockEscrowPda(PoolOf(r), o) # r.payer
      /\ DeriveFeeVault(PoolOf(r)) # r.payer

\* The accounts a call looks up.
LookedUp(k) ==
    {Vault(k.a), Vault(k.b), Ata(k.a, k.payer), Ata(k.b, k.payer), Ata(k.a, k.authority),
     Ata(Lp(k), Escrow(k, k.payer)), Ata(Lp(k), Escrow(k, FeeVault(k)))}

Balance(x) == IF x \in DOMAIN ledger.bal THEN ledger.bal[x] ELSE 0

\* What a creator has of a token.
Holding(c, m) == Balance(Ata(m, c)) + (IF m = Native THEN ledger.sol[c] ELSE 0)

\* For the properties: what the call found of what it is to create, and whether
\* the payer had enough.  Of SOL only what is not wrapped counts: the amount is
\* wrapped again by every call.
Found(k) ==
    [pool |-> k.pool \in ledger.made, mint |-> k.a \in ledger.made,
     rich |-> \A m \in {k.a, k.b} \cap ledger.made :
                (IF m = Native THEN ledger.sol[k.payer] ELSE Balance(Ata(m, k.payer)))
                  >= (IF m = k.a THEN AmountA ELSE AmountB + k.swapIn)]

Build(c) ==
    /\ call[c].pc = "unused"
    /\ \A d \in 1..(c - 1) : call[d].pc # "unused"
    /\ \E r \in Requests :
         LET asked == [pool |-> PoolOf(r)] ++ r
             seen  == LookedUp(asked) \cap (ledger.made \cup DOMAIN ledger.bal)
             k     == [seen |-> seen] ++ asked
         IN  call' = [call EXCEPT ![c] =
                        [pc |-> "sending", txs |-> Txs(k), next |-> 1, did |-> {}, quiet |-> TRUE,
                         found |-> Found(k)] ++ k]
    /\ UNCHANGED ledger

\* The other calls, after something they may have read has changed.
Disturbed(c) ==
    [d \in Calls |-> IF d # c /\ call[d].pc = "sending" THEN [call[d] EXCEPT !.quiet = FALSE]
                     ELSE call[d]]

\* The next transaction of a call lands, or fails and ends the call.  One may
\* never land: the blockhash that all of them share expires, or the caller stops.
Land(c) ==
    LET k   == call[c]
        tx  == k.txs[k.next]
        out == Run(ledger, tx, <<0, 0>>)
    IN  /\ k.pc = "sending"
        /\ IF out.res = "ok"
           THEN /\ ledger' = Committed(out)
                /\ call' = [Disturbed(c) EXCEPT ![c] =
                              [k EXCEPT !.next = @ + 1,
                                        !.did = @ \cup {ix.name : ix \in ToSet(tx)},
                                        !.pc = IF k.next = Len(k.txs) THEN "done" ELSE @]]
           ELSE /\ call' = [call EXCEPT ![c].pc = out.res]
                /\ UNCHANGED ledger

Next == \E c \in Calls : Build(c) \/ Land(c)

Spec == Init /\ [][Next]_vars

-----------------------------------------------------------------------------
(* Properties                                                              *)

Started == {c \in Calls : call[c].pc # "unused"}

\* A call whose pool transaction has landed.
MadePool(k) == k.did \cap PoolInstructions # {}

\* Whoever creates a pool of two mints in whatever order, with the same config or
\* in the same way: at most one call makes it.
OnePoolPerPair ==
    \A c, d \in Started :
      c # d /\ MadePool(call[c]) /\ MadePool(call[d]) => 
        \/ {call[c].a, call[c].b} # {call[d].a, call[d].b}
        \/ call[c].flow # call[d].flow
           /\ ~ {call[c].flow, call[d].flow} \subseteq {"config", "config2", "memecoin"}

\* The LP of a new pool is in the creator's account, in the creator's escrow or
\* in the fee vault's escrow, at every point between the transactions; a finished
\* call has locked exactly what was asked: the fee vault's part rounded down, the
\* rest for the creator, nothing if there is no lock.
LpAsAsked ==
    \A c \in Started : MadePool(call[c]) =>
      LET k     == call[c]
          mine  == Balance(Ata(Lp(k), Escrow(k, k.payer)))
          fees  == Balance(Ata(Lp(k), Escrow(k, FeeVault(k))))
          part  == IF k.flow \in {"config2", "memecoin"} THEN (LpAmount * k.ratio) \div RatioSteps ELSE 0
      IN  /\ Balance(Ata(Lp(k), k.payer)) + mine + fees = LpAmount
          /\ mine = IF k.lock THEN LpAmount - part ELSE 0
          /\ k.pc = "done" => fees = part

Spent(k, m) ==
    (IF MadePool(k) /\ m = k.a THEN AmountA ELSE 0)
    + (IF MadePool(k) /\ m = k.b THEN AmountB ELSE 0)
    + (IF m = k.b /\ "swap" \in k.did THEN k.swapIn ELSE 0)

\* What the calls of a creator have spent.
SpentBy(c, m) == [d \in Calls |-> IF d \in Started /\ call[d].payer = c THEN Spent(call[d], m) ELSE 0]

\* Wherever calls stop or fail, however often SOL was wrapped for them and
\* whoever else was faster, a creator has spent exactly the deposits and first
\* swaps that landed; wrapped SOL of a call that stopped is still the creator's.
SpentAsLanded ==
    \A c \in Creators, m \in Mints \ {Memecoin} :
      Holding(c, m) + SumFunction(SpentBy(c, m)) = Held

\* What a caller has to see to: a mint that is to be made does not exist, a minted
\* one does.
WellAsked(k) == k.flow = "memecoin" => k.isMinted = k.found.mint

\* A call that is made as it should be, for a pool that does not exist, during
\* which nothing else lands, by a payer who has the tokens, does not fail, in
\* whatever state an earlier call that stopped half way left the chain.  The
\* exception is a first swap of SOL with config2, which wraps the deposit but not
\* what the swap takes.
QuietCreationLands ==
    \A c \in Started :
      LET k == call[c]
      IN  k.pc \notin {"sending", "done"} =>
            \/ ~k.quiet \/ k.found.pool \/ ~WellAsked(k)
            \/ k.pc = "funds" /\ ~k.found.rich
            \/ k.pc = "funds" /\ k.flow = "config2" /\ k.b = Native /\ k.swapIn > 0
=============================================================================
