----------------------------- MODULE ConfigIndex -----------------------------
(***************************************************************************)
(* Configs of the AMM program, as AmmImpl makes and reads them             *)
(* (ts-client/src/amm/index.ts).  A config's address is derived from an    *)
(* index.  createConfig reads all configs, takes the first index without   *)
(* one, and returns a transaction for it, which the caller signs and sends *)
(* some time later.  Several admins do so at once, and configs are closed  *)
(* in between, so that the index may be taken, or no longer be the first.  *)
(*                                                                         *)
(* The program's handlers are interface stubs here; createConfig fails if  *)
(* the account exists, closeConfig removes it, and the fee denominators    *)
(* are those of every pool (FEE_DENOMINATOR in the program's constants).   *)
(***************************************************************************)
EXTENDS Integers, FiniteSets, TLC, AccountLayout

CONSTANTS
    Calls,      \* calls of createConfig
    MaxIndex,   \* bound on the index
    Bps,        \* trade and protocol fees asked for, in basis points
    Keys,       \* pool creator authorities and vault config keys
    Default     \* PublicKey.default, the authority of a public config

ASSUME ConfigConstants ==
    /\ MaxIndex \in Nat
    /\ Bps \subseteq Nat
    /\ Default \in Keys

Indices == 0..MaxIndex
Asked   == [tradeFeeBps : Bps, protocolFeeBps : Bps, vaultConfigKey : Keys,
            poolCreatorAuthority : Keys]

VARIABLES
    used,      \* the indices with a config on the chain
    account,   \* what is stored for them
    closed,    \* ghost: indices that were closed at some time
    pc,        \* of each call: "unused", "built", "landed" or "failed"
    asked,     \* what it asks for
    index,     \* the index of its transaction
    before     \* ghost: the calls that had landed when it looked up

vars == <<used, account, closed, pc, asked, index, before>>

FeeDenominator == 100000

\* What is stored before anything is, never read.
Blank == [tradeFeeNumerator |-> 0, protocolTradeFeeNumerator |-> 0,
          vaultConfigKey |-> Default, poolCreatorAuthority |-> Default]

Init ==
    /\ used = {} /\ closed = {}
    /\ account = [i \in Indices |-> Blank]
    /\ pc = [c \in Calls |-> "unused"]
    /\ asked \in [Calls -> Asked]
    /\ index = [c \in Calls |-> 0]
    /\ before = [c \in Calls |-> {}]

Landed == {c \in Calls : pc[c] = "landed"}

\* Mutant: the number of configs for the first free index.
FirstFreeByCount(i) == i = Cardinality(used)

\* The loop over the indices: the first without a config.
FirstFree(i) == i \notin used /\ \A j \in Indices : j < i => j \in used

\* Mutant: the index is counted up once too often.
CreateConfigNext(c, i) ==
    /\ pc[c] = "unused"
    /\ FirstFree(i)
    /\ pc' = [pc EXCEPT ![c] = "built"]
    /\ index' = [index EXCEPT ![c] = i + 1]
    /\ before' = [before EXCEPT ![c] = Landed]
    /\ UNCHANGED <<used, account, closed, asked>>

\* getFeeConfigurations and the loop
CreateConfig(c, i) ==
    /\ pc[c] = "unused"
    /\ FirstFree(i)
    /\ pc' = [pc EXCEPT ![c] = "built"]
    /\ index' = [index EXCEPT ![c] = i]
    /\ before' = [before EXCEPT ![c] = Landed]
    /\ UNCHANGED <<used, account, closed, asked>>

\* Mutant: basis points over a denominator of 10_000.
ArgumentsUnscaled(a) ==
    [tradeFeeNumerator |-> a.tradeFeeBps, protocolTradeFeeNumerator |-> a.protocolFeeBps,
     vaultConfigKey |-> a.vaultConfigKey, poolCreatorAuthority |-> a.poolCreatorAuthority]

\* The arguments of the instruction: the fees over a denominator of 100_000.
Arguments(a) ==
    [tradeFeeNumerator |-> a.tradeFeeBps * 10, protocolTradeFeeNumerator |-> a.protocolFeeBps * 10,
     vaultConfigKey |-> a.vaultConfigKey, poolCreatorAuthority |-> a.poolCreatorAuthority]

\* The transaction is executed: it fails if the account exists.
Land(c) ==
    /\ pc[c] = "built"
    /\ \/ /\ index[c] \notin used
          /\ used' = used \cup {index[c]}
          /\ account' = [account EXCEPT ![index[c]] = Arguments(asked[c])]
          /\ pc' = [pc EXCEPT ![c] = "landed"]
       \/ /\ index[c] \in used
          /\ pc' = [pc EXCEPT ![c] = "failed"]
          /\ UNCHANGED <<used, account>>
    /\ UNCHANGED <<closed, asked, index, before>>

\* An admin closes a config.
CloseConfig(i) ==
    /\ i \in used
    /\ used' = used \ {i}
    /\ closed' = closed \cup {i}
    /\ UNCHANGED <<account, pc, asked, index, before>>

Next ==
    \/ \E c \in Calls : (\E i \in Indices : CreateConfig(c, i)) \/ Land(c)
    \/ \E i \in Indices : CloseConfig(i)

Spec == Init /\ [][Next]_vars

-----------------------------------------------------------------------------
(* Reading                                                                 *)

\* getFeeConfigurations
FeeConfiguration(i) ==
    [tradeFeeBps         |-> (account[i].tradeFeeNumerator * 10000) \div FeeDenominator,
     protocolTradeFeeBps |-> (account[i].protocolTradeFeeNumerator * 10000) \div FeeDenominator]

\* The configs as the chain stores them, with their addresses.
Accounts == {[index |-> i, poolCreatorAuthority |-> account[i].poolCreatorAuthority,
              vaultConfigKey |-> account[i].vaultConfigKey] : i \in used}

\* Mutant: the offset of the key before.
AuthorityOffsetShort == 8 + 40

AuthorityOffset == 8 + 72

GetPoolConfigsWithPoolCreatorAuthority(wallet) ==
    {a.index : a \in MemCmp(ConfigLayout, Accounts, AuthorityOffset, wallet)}

-----------------------------------------------------------------------------
(* Properties                                                              *)

TypeOK ==
    /\ used \in SUBSET Indices /\ closed \in SUBSET Indices
    /\ pc \in [Calls -> {"unused", "built", "landed", "failed"}]
    /\ index \in [Calls -> Indices]
    /\ asked \in [Calls -> Asked]
    /\ DOMAIN account = Indices /\ account = [i \in Indices |-> account[i]]

\* Below every config that exists, and below every index that a transaction was
\* built for, an index is used or was closed: however creations race, none skips
\* an index, and createConfig of a later caller finds the indices dense.
NoGaps ==
    LET Dense(i) == \A j \in Indices : j < i => j \in used \cup closed
    IN  /\ \A i \in used : Dense(i)
        /\ \A c \in Calls : pc[c] = "built" => Dense(index[c])

\* A transaction fails only if another creation took its index since it looked:
\* out of any number of admins that race for an index, one wins.
FailedForARival ==
    \A c \in Calls : pc[c] = "failed" =>
      \E d \in Landed \ before[c] : index[d] = index[c]

\* A config is one that a call asked for, as getFeeConfigurations shows it: the
\* basis points survive the numerators, and a race for an index mixes up nothing.
FeesAsAsked ==
    \A i \in used : \E c \in Landed :
      /\ index[c] = i
      /\ FeeConfiguration(i) = [tradeFeeBps |-> asked[c].tradeFeeBps,
                                protocolTradeFeeBps |-> asked[c].protocolFeeBps]

\* The search by a pool creator's authority finds that authority's configs and no
\* others, at the offset that is written into the code.
OwnConfigsFound ==
    \A w \in Keys :
      GetPoolConfigsWithPoolCreatorAuthority(w) =
        {i \in used : account[i].poolCreatorAuthority = w}
=============================================================================
