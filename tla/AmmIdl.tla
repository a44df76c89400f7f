------------------------------- MODULE AmmIdl --------------------------------
(***************************************************************************)
(* The interface of the AMM program, as far as the TypeScript client       *)
(* builds its instructions: for each of them, the accounts that must sign, *)
(* the accounts the program may change and the accounts it only reads.     *)
(* From the IDL constant of ts-client/src/amm/idl.ts, with which the       *)
(* client library turns `.accounts({...})' into the account list of an     *)
(* instruction: a missing role is an error of the client, an account that  *)
(* is not writable cannot change, and the runtime rejects a transaction    *)
(* that lacks a signature.                                                 *)
(***************************************************************************)

\* The two vaults of a pool with their LP, under the names of the IDL.
PoolVaults  == {"aVault", "bVault", "aVaultLp", "bVaultLp", "aVaultLpMint", "bVaultLpMint"}
TokenVaults == {"aTokenVault", "bTokenVault"}
Programs    == {"vaultProgram", "tokenProgram"}

-----------------------------------------------------------------------------
(* Creating a pool                                                         *)

\* What every instruction that creates a permissionless pool may change, and
\* reads.
CreatedWith ==
    PoolVaults \cup TokenVaults \cup
    {"pool", "lpMint", "payerTokenA", "payerTokenB", "payerPoolLp",
     "protocolTokenAFee", "protocolTokenBFee", "payer", "mintMetadata"}
CreateReads ==
    Programs \cup {"tokenAMint", "tokenBMint", "rent", "metadataProgram",
                   "associatedTokenProgram", "systemProgram"}

InitializePermissionlessPoolWithFeeTierIx ==
    [signer |-> {"payer"}, writable |-> CreatedWith,
     readonly |-> CreateReads \cup {"feeOwner"}]

InitializePermissionlessConstantProductPoolWithConfigIx ==
    [signer |-> {"payer"}, writable |-> CreatedWith,
     readonly |-> CreateReads \cup {"config"}]

InitializePermissionlessConstantProductPoolWithConfig2Ix ==
    [signer |-> {"payer"}, writable |-> CreatedWith,
     readonly |-> CreateReads \cup {"config"}]

InitializeCustomizablePermissionlessConstantProductPoolIx ==
    [signer |-> {"payer"}, writable |-> CreatedWith, readonly |-> CreateReads]

CreateConfigIx ==
    [signer |-> {"admin"}, writable |-> {"config", "admin"}, readonly |-> {"systemProgram"}]

-----------------------------------------------------------------------------
(* Trading and liquidity                                                   *)

SwapIx ==
    [signer |-> {"user"},
     writable |-> PoolVaults \cup TokenVaults \cup
                  {"pool", "userSourceToken", "userDestinationToken", "protocolTokenFee"},
     readonly |-> Programs \cup {"user"}]

RemoveLiquiditySingleSideIx ==
    [signer |-> {"user"},
     writable |-> PoolVaults \cup TokenVaults \cup
                  {"pool", "lpMint", "userPoolLp", "userDestinationToken"},
     readonly |-> Programs \cup {"user"}]

\* The accounts of a deposit or withdrawal of both tokens.
BothSides ==
    PoolVaults \cup TokenVaults \cup {"pool", "lpMint", "userPoolLp", "userAToken", "userBToken"}

AddImbalanceLiquidityIx ==
    [signer |-> {"user"}, writable |-> BothSides, readonly |-> Programs \cup {"user"}]

RemoveBalanceLiquidityIx ==
    [signer |-> {"user"}, writable |-> BothSides, readonly |-> Programs \cup {"user"}]

AddBalanceLiquidityIx ==
    [signer |-> {"user"}, writable |-> BothSides, readonly |-> Programs \cup {"user"}]

BootstrapLiquidityIx ==
    [signer |-> {"user"}, writable |-> BothSides, readonly |-> Programs \cup {"user"}]

-----------------------------------------------------------------------------
(* Locked liquidity and fees                                               *)

CreateLockEscrowIx ==
    [signer |-> {"payer"}, writable |-> {"lockEscrow", "payer"},
     readonly |-> {"pool", "owner", "lpMint", "systemProgram"}]

LockIx ==
    [signer |-> {"owner"},
     writable |-> {"pool", "lockEscrow", "owner", "sourceTokens", "escrowVault"},
     readonly |-> PoolVaults \cup {"lpMint", "tokenProgram"}]

ClaimFeeIx ==
    [signer |-> {"owner"},
     writable |-> PoolVaults \cup TokenVaults \cup
                  {"pool", "lpMint", "lockEscrow", "owner", "sourceTokens", "escrowVault",
                   "userAToken", "userBToken"},
     readonly |-> Programs]

MoveLockedLpIx ==
    [signer |-> {"owner"},
     writable |-> {"fromLockEscrow", "toLockEscrow", "fromEscrowVault", "toEscrowVault"},
     readonly |-> PoolVaults \cup {"pool", "lpMint", "owner", "tokenProgram"}]

PartnerClaimFeeIx ==
    [signer |-> {"partnerAuthority"},
     writable |-> {"pool", "protocolTokenAFee", "protocolTokenBFee", "partnerTokenA",
                   "partnerTokenB"},
     readonly |-> {"aVaultLp", "tokenProgram", "partnerAuthority"}]

-----------------------------------------------------------------------------

\* The instructions by name.
Idl ==
    [initializePermissionlessPoolWithFeeTier |-> InitializePermissionlessPoolWithFeeTierIx,
     initializePermissionlessConstantProductPoolWithConfig |->
         InitializePermissionlessConstantProductPoolWithConfigIx,
     initializePermissionlessConstantProductPoolWithConfig2 |->
         InitializePermissionlessConstantProductPoolWithConfig2Ix,
     initializeCustomizablePermissionlessConstantProductPool |->
         InitializeCustomizablePermissionlessConstantProductPoolIx,
     createConfig              |-> CreateConfigIx,
     swap                      |-> SwapIx,
     removeLiquiditySingleSide |-> RemoveLiquiditySingleSideIx,
     addImbalanceLiquidity     |-> AddImbalanceLiquidityIx,
     removeBalanceLiquidity    |-> RemoveBalanceLiquidityIx,
     addBalanceLiquidity       |-> AddBalanceLiquidityIx,
     bootstrapLiquidity        |-> BootstrapLiquidityIx,
     createLockEscrow          |-> CreateLockEscrowIx,
     lock                      |-> LockIx,
     claimFee                  |-> ClaimFeeIx,
     moveLockedLp              |-> MoveLockedLpIx,
     partnerClaimFee           |-> PartnerClaimFeeIx]

\* Every account an instruction names.
Roles(name) == Idl[name].writable \cup Idl[name].readonly
=============================================================================
