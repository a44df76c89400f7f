---------------------------- MODULE AccountLayout ----------------------------
(***************************************************************************)
(* The layout of the AMM program's accounts (ts-client/src/amm/idl.ts):    *)
(* the fields in order, with their sizes in bytes, after a discriminator   *)
(* of eight bytes.  The client's searches compare the bytes at an offset   *)
(* they write down as a number (memcmp); the layout says which field that  *)
(* is.  The pool's layout ends with the last field of a fixed place.       *)
(***************************************************************************)
EXTENDS Naturals, Sequences, SequencesExt

PublicKeySize == 32
U64           == 8
PoolFeesSize  == 4 * U64
Discriminator == 8

ConfigLayout ==
    << <<"poolFees", PoolFeesSize>>, <<"activationDuration", U64>>,
       <<"vaultConfigKey", PublicKeySize>>, <<"poolCreatorAuthority", PublicKeySize>>,
       <<"activationType", 1>>, <<"partnerFeeNumerator", U64>>, <<"padding", 219>> >>

LockEscrowLayout ==
    << <<"pool", PublicKeySize>>, <<"owner", PublicKeySize>>, <<"escrowVault", PublicKeySize>>,
       <<"bump", 1>>, <<"totalLockedAmount", U64>>, <<"lpPerToken", 16>>,
       <<"unclaimedFeePending", U64>>, <<"aFee", U64>>, <<"bFee", U64>>, <<"padding", 7>> >>

PoolLayout ==
    << <<"lpMint", PublicKeySize>>, <<"tokenAMint", PublicKeySize>>, <<"tokenBMint", PublicKeySize>>,
       <<"aVault", PublicKeySize>>, <<"bVault", PublicKeySize>>,
       <<"aVaultLp", PublicKeySize>>, <<"bVaultLp", PublicKeySize>>,
       <<"aVaultLpBump", 1>>, <<"enabled", 1>>,
       <<"protocolTokenAFee", PublicKeySize>>, <<"protocolTokenBFee", PublicKeySize>>,
       <<"feeLastUpdatedAt", U64>>, <<"padding0", 24>>, <<"fees", PoolFeesSize>>, <<"poolType", 1>>,
       <<"stake", PublicKeySize>>, <<"totalLockedLp", U64>> >>

\* Where the i-th field starts: after the one before it.
Start(layout, i) ==
    LET start[j \in DOMAIN layout] ==
            IF j = 1 THEN Discriminator ELSE start[j - 1] + layout[j - 1][2]
    IN  start[i]

\* The field of a key's length at an offset; none if the offset falls elsewhere.
FieldsAt(layout, offset) ==
    {layout[i][1] : i \in {j \in DOMAIN layout : Start(layout, j) = offset
                                                 /\ layout[j][2] = PublicKeySize}}

\* memcmp: the accounts whose bytes at the offset are those of the key.
MemCmp(layout, accounts, offset, key) ==
    {a \in accounts : \E f \in FieldsAt(layout, offset) : f \in DOMAIN a /\ a[f] = key}
=============================================================================
