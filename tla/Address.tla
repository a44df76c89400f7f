------------------------------- MODULE Address -------------------------------
(***************************************************************************)
(* The addresses the client derives (ts-client/src/amm/utils.ts).  A       *)
(* program address is the tuple of its seeds: the hash over them is taken  *)
(* to be injective, and the program id is left out.  The seeds of one kind *)
(* of address have a total length that no other kind has, so that a name   *)
(* of the kind may stand for the text among the seeds, or for its absence. *)
(***************************************************************************)
EXTENDS Integers, Sequences, SequencesExt

CONSTANT KeyOrder   \* the keys of all mints in the order of their bytes

\* getAssociatedTokenAccount
Ata(mint, owner) == <<"ata", mint, owner>>
MintOf(ata) == ata[2]

\* getVaultPdas of the vault SDK: vault, token vault and LP mint.
Vault(mint)       == <<"vault", mint>>
TokenVault(mint)  == <<"token_vault", mint>>
VaultLpMint(mint) == <<"vault_lp_mint", mint>>

\* Buffer.compare(key1, key2) === 1
Above(key1, key2) ==
    \E i, j \in DOMAIN KeyOrder : i > j /\ KeyOrder[i] = key1 /\ KeyOrder[j] = key2

\* Mutant: the keys are taken in the order in which they were given.
FirstGiven(key1, key2) == key1

GetFirstKey(key1, key2)  == IF Above(key1, key2) THEN key1 ELSE key2
GetSecondKey(key1, key2) == IF Above(key1, key2) THEN key2 ELSE key1

-----------------------------------------------------------------------------
(* Pools                                                                   *)

EncodeCurveType(isStable) == IF isStable THEN "1" ELSE "0"

StableDefaultFeeBps          == 1
ConstantProductDefaultFeeBps == 25

\* The default fee is the empty seed, so that the pools of the first version,
\* which had no fee seed, keep their address.
GetTradeFeeBpsBuffer(isStable, bps) ==
    IF bps = (IF isStable THEN StableDefaultFeeBps ELSE ConstantProductDefaultFeeBps)
    THEN <<>> ELSE <<bps>>

DerivePoolAddress(a, b, isStable, bps) ==
    <<EncodeCurveType(isStable), GetFirstKey(a, b), GetSecondKey(a, b)>>
      \o GetTradeFeeBpsBuffer(isStable, bps)

DerivePoolAddressWithConfig(a, b, config) ==
    <<"config_pool", GetFirstKey(a, b), GetSecondKey(a, b), config>>

DeriveCustomizablePoolAddress(a, b) == <<"pool", GetFirstKey(a, b), GetSecondKey(a, b)>>

-----------------------------------------------------------------------------
(* Accounts of a pool                                                      *)

LpMint(pool)                       == <<"lp_mint", pool>>
VaultLp(mint, pool)                == <<"vault_lp", Vault(mint), pool>>
DeriveProtocolTokenFee(pool, mint) == <<"fee", mint, pool>>
DeriveLockEscrowPda(pool, owner)   == <<"lock_escrow", pool, owner>>
DeriveMintMetadata(lpMint)         == <<"metadata", lpMint>>
DeriveConfigPda(index)             == <<"config", index>>

\* deriveFeeVault of the stake-for-fee SDK.
DeriveFeeVault(pool) == <<"fee_vault", pool>>
=============================================================================
