------------------------------ MODULE BatchLoad ------------------------------
(***************************************************************************)
(* How an application finds pools and loads many of them at once:          *)
(* searchPoolsByToken and createMultiple of AmmImpl, with getAllPoolState, *)
(* getAccountsBuffer, deserializeAccountsBuffer (ts-client/src/amm/        *)
(* index.ts) and the chunked requests they make (utils.ts).                *)
(*                                                                         *)
(* The accounts of all pools go into flat lists, the lists into requests   *)
(* of at most ChunkSize accounts that are served at different moments, and *)
(* the answers are put together again by position and by address.  The     *)
(* content of an account is abstracted to its address, what it is decoded  *)
(* as and the time at which it was read; pools appear while this goes on.  *)
(***************************************************************************)
EXTENDS Integers, FiniteSets, AccountLayout, Functions

CONSTANTS
    PoolData,    \* the pools that may exist: [pool -> [tokenAMint, tokenBMint]]
    Mints,       \* mints to search for
    Unknown,     \* an address that is not a pool
    Lists,       \* lists of addresses that an application may load
    ChunkSize,   \* chunkSize: 100
    MaxTime      \* bound on the chain time

Pools == DOMAIN PoolData
Clock == <<"clock">>
Sides == {"a", "b"}

\* A pool is one of two different mints.
ASSUME BatchConstants ==
    /\ ChunkSize \in Nat \ {0} /\ MaxTime \in Nat
    /\ IsFiniteSet(Pools) /\ Unknown \notin Pools
    /\ \A p \in Pools : PoolData[p].tokenAMint # PoolData[p].tokenBMint
    /\ \A l \in Lists : l \in Seq(Pools \cup {Unknown})

VARIABLES
    time,      \* the chain's time
    exists,    \* the pools on the chain, with the time they appeared
    stage,     \* what is awaited, "done" or "rejected"
    search,    \* the mint, the pools there were at the call, and its answers
    list,      \* poolList
    reply,     \* for each chunk of the present requests, when it was served
    read,      \* what earlier stages have read
    result     \* the AmmImpl objects

vars == <<time, exists, stage, search, list, reply, read, result>>

Unserved == -1

Init ==
    /\ time = 0
    /\ exists \in UNION {[S -> {0}] : S \in SUBSET Pools}
    /\ stage = "idle"
    /\ search = [mint |-> Unknown, before |-> {}, found |-> [side \in Sides |-> <<>>], left |-> {}]
    /\ list = <<>> /\ reply = <<>> /\ read = <<>> /\ result = <<>>

-----------------------------------------------------------------------------
(* The chain                                                               *)

Tick ==
    /\ time < MaxTime /\ stage \notin {"idle", "done", "rejected"}
    /\ time' = time + 1
    /\ UNCHANGED <<exists, stage, search, list, reply, read, result>>

CreatePool(p) ==
    /\ p \notin DOMAIN exists /\ stage = "search"
    /\ exists' = [q \in DOMAIN exists \cup {p} |-> IF q = p THEN time ELSE exists[q]]
    /\ UNCHANGED <<time, stage, search, list, reply, read, result>>

-----------------------------------------------------------------------------
(* searchPoolsByToken                                                      *)

SearchPoolsByToken(mint) ==
    /\ stage = "idle"
    /\ stage' = "search"
    /\ search' = [mint |-> mint, before |-> DOMAIN exists, found |-> [side \in Sides |-> <<>>], left |-> Sides]
    /\ UNCHANGED <<time, exists, list, reply, read, result>>

\* Mutant: both requests compare the first mint.
OffsetOfFirst(side) == 8 + 32

OffsetOf(side) == IF side = "a" THEN 8 + 32 ELSE 8 + 32 + 32

\* One of the two requests is served, in whatever order the node lists accounts.
ServeSearch(side) ==
    LET accounts == {[pool |-> p, tokenAMint |-> PoolData[p].tokenAMint,
                      tokenBMint |-> PoolData[p].tokenBMint] : p \in DOMAIN exists}
        found    == {a.pool : a \in MemCmp(PoolLayout, accounts, OffsetOf(side), search.mint)}
    IN  /\ stage = "search" /\ side \in search.left
        /\ \E order \in SetToSeqs(found) :
             search' = [search EXCEPT !.found[side] = order, !.left = @ \ {side}]
        /\ UNCHANGED <<time, exists, stage, list, reply, read, result>>

Found == search.found.a \o search.found.b

-----------------------------------------------------------------------------
(* Requests in chunks                                                      *)

CeilDiv(n, d) == (n + d - 1) \div d

\* Mutant: chunks of one less.
ChunksOfLess(array) ==
    [i \in 1..CeilDiv(Len(array), ChunkSize - 1) |->
       SubSeq(array, (i - 1) * (ChunkSize - 1) + 1,
              IF i * (ChunkSize - 1) > Len(array) THEN Len(array) ELSE i * (ChunkSize - 1))]

\* chunks: slices up to the length of the array
Chunks(array) ==
    [i \in 1..CeilDiv(Len(array), ChunkSize) |->
       SubSeq(array, (i - 1) * ChunkSize + 1,
              IF i * ChunkSize > Len(array) THEN Len(array) ELSE i * ChunkSize)]

\* accountsToFetch of a pool: all of them exist if the pool does.
PoolAccounts(p) ==
    LET a == PoolData[p].tokenAMint
        b == PoolData[p].tokenBMint
    IN  << [key |-> <<"tokenVault", a>>,    type |-> "VAULT_A_RESERVE"],
           [key |-> <<"tokenVault", b>>,    type |-> "VAULT_B_RESERVE"],
           [key |-> <<"vaultLpMint", a>>,   type |-> "VAULT_A_LP"],
           [key |-> <<"vaultLpMint", b>>,   type |-> "VAULT_B_LP"],
           [key |-> <<"poolVaultLp", a, p>>, type |-> "POOL_VAULT_A_LP"],
           [key |-> <<"poolVaultLp", b, p>>, type |-> "POOL_VAULT_B_LP"],
           [key |-> <<"lpMint", p>>,        type |-> "POOL_LP_MINT"] >>

AccountsToFetch == FlattenSeq([i \in DOMAIN read.pools |-> PoolAccounts(read.pools[i])])
                     \o << [key |-> Clock, type |-> "SYSVAR_CLOCK"] >>

\* The requests of a stage are sent together.
Sent(array) == [i \in DOMAIN Chunks(array) |-> Unserved]

ServeChunk(i) ==
    /\ stage \in {"pools", "lpMints", "accounts"} /\ i \in DOMAIN reply /\ reply[i] = Unserved
    /\ reply' = [reply EXCEPT ![i] = time]
    /\ UNCHANGED <<time, exists, stage, search, list, read, result>>

\* A request fails, and with it the call.
FailChunk ==
    /\ stage \in {"pools", "lpMints", "vaults", "accounts", "depeg"}
    /\ stage' = "rejected"
    /\ UNCHANGED <<time, exists, search, list, reply, read, result>>

AllServed == \A i \in DOMAIN reply : reply[i] # Unserved

\* The answers in the order of what was asked, each with its time of reading.
Answers(array) ==
    FlattenSeq([i \in DOMAIN Chunks(array) |->
                  [j \in DOMAIN Chunks(array)[i] |-> [of |-> Chunks(array)[i][j], at |-> reply[i]]]])

-----------------------------------------------------------------------------
(* createMultiple                                                          *)

CreateMultiple(l) ==
    /\ \/ stage = "idle" /\ l \in Lists
       \/ stage = "search" /\ search.left = {} /\ l = Found
    /\ list' = l
    /\ stage' = "pools"
    /\ reply' = Sent(l)
    /\ UNCHANGED <<time, exists, search, read, result>>

\* chunkedFetchMultiplePoolAccount drops what is not there; getAllPoolState
\* compares the lengths.
PoolStates ==
    LET answers == Answers(list)
        there(r) == r.of \in DOMAIN exists /\ exists[r.of] <= r.at
    IN  FlattenSeq([i \in DOMAIN answers |-> IF there(answers[i]) THEN <<answers[i].of>> ELSE <<>>])

\* Mutant: pools that were not found are ignored.
SomeNotFoundIgnored(states) == FALSE

SomeNotFound(states) == Len(states) # Len(list)

GetAllPoolState ==
    /\ stage = "pools" /\ AllServed
    /\ IF SomeNotFound(PoolStates)
       THEN stage' = "rejected" /\ UNCHANGED <<reply, read>>
       ELSE /\ stage' = "lpMints"
            /\ read' = [pools |-> PoolStates]
            /\ reply' = Sent(PoolStates)
    /\ UNCHANGED <<time, exists, search, list, result>>

\* The LP supplies are there; the vaults are requested (createMultipleWithPda).
GetLpSupplies ==
    /\ stage = "lpMints" /\ AllServed
    /\ stage' = "vaults"
    /\ reply' = <<>>
    /\ UNCHANGED <<time, exists, search, list, read, result>>

\* The vaults are there; the accounts of all pools and the clock are requested.
FetchAccounts ==
    /\ stage = "vaults"
    /\ stage' = "accounts"
    /\ reply' = Sent(AccountsToFetch)
    /\ UNCHANGED <<time, exists, search, list, read, result>>

\* All accounts are there; those of the stake pools are requested (getDepegAccounts).
GetDepegAccounts ==
    /\ stage = "accounts" /\ AllServed
    /\ stage' = "depeg"
    /\ UNCHANGED <<time, exists, search, list, reply, read, result>>

\* What an account is decoded as: a token account's amount or a mint's supply.
DecodeAccountTypeMapper(type) ==
    CASE type \in {"VAULT_A_RESERVE", "VAULT_B_RESERVE", "POOL_VAULT_A_LP", "POOL_VAULT_B_LP"} -> "amount"
      [] type \in {"VAULT_A_LP", "VAULT_B_LP", "POOL_LP_MINT"} -> "supply"
      [] type = "SYSVAR_CLOCK" -> "timestamp"

\* getAccountsBuffer and deserializeAccountsBuffer: a map from addresses, in which
\* the last of several entries for one address stays.
AccountsInfoMap ==
    LET answers == Answers(AccountsToFetch)
        LastEntry(k) == CHOOSE i \in DOMAIN answers :
                     /\ answers[i].of.key = k
                     /\ \A j \in DOMAIN answers : answers[j].of.key = k => j <= i
    IN  [k \in {answers[i].of.key : i \in DOMAIN answers} |->
           [key |-> k, as |-> DecodeAccountTypeMapper(answers[LastEntry(k)].of.type), at |-> answers[LastEntry(k)].at]]

\* poolInfoMap, from LP mints to the pools of the list
PoolInfo(p) == list[CHOOSE i \in DOMAIN read.pools : read.pools[i] = p
                      /\ \A j \in DOMAIN read.pools : read.pools[j] = p => j <= i]

\* The objects are built from the maps.
BuildAmmImpls ==
    /\ stage = "depeg"
    /\ stage' = "done"
    /\ LET map == AccountsInfoMap
       IN  result' = [i \in DOMAIN read.pools |->
                        [pool |-> PoolInfo(read.pools[i]),
                         info |-> [f \in 1..7 |-> map[PoolAccounts(read.pools[i])[f].key]],
                         clock |-> map[Clock]]]
    /\ UNCHANGED <<time, exists, search, list, reply, read>>

Next ==
    \/ Tick
    \/ \E p \in Pools : CreatePool(p)
    \/ \E m \in Mints : SearchPoolsByToken(m)
    \/ \E side \in Sides : ServeSearch(side)
    \/ \E l \in Lists \cup {Found} : CreateMultiple(l)
    \/ \E i \in DOMAIN reply : ServeChunk(i)
    \/ FailChunk \/ GetAllPoolState \/ GetLpSupplies \/ FetchAccounts
    \/ GetDepegAccounts \/ BuildAmmImpls

Spec == Init /\ [][Next]_vars

-----------------------------------------------------------------------------
(* Properties                                                              *)

\* A finished search lists every pool of the mint, on either side, that existed
\* when it was called, once, and no pool of other mints.
SearchComplete ==
    stage = "search" /\ search.left = {} =>
      LET Has(p) == search.mint \in {PoolData[p].tokenAMint, PoolData[p].tokenBMint}
      IN  /\ \A p \in search.before : Has(p) => p \in ToSet(Found)
          /\ \A p \in ToSet(Found) : Has(p)
          /\ IsInjective(Found)

\* Every object is of the pool at its place in the list, and each of its numbers
\* was decoded, as what it is, from the account of that pool: through filters,
\* chunks, and addresses that several pools share or that are listed twice.
RightAccounts ==
    stage = "done" =>
      /\ Len(result) = Len(list)
      /\ \A i \in DOMAIN list :
           /\ result[i].pool = list[i]
           /\ \A f \in 1..7 :
                /\ result[i].info[f].key = PoolAccounts(list[i])[f].key
                /\ result[i].info[f].as = IF f \in {1, 2, 5, 6} THEN "amount" ELSE "supply"

\* A list of which all accounts fit into one request, 14 pools at the default
\* size, is loaded with numbers of one moment, the clock's.
OneMoment ==
    stage = "done" /\ 7 * Len(list) + 1 <= ChunkSize =>
      \A i \in DOMAIN result : \A f \in 1..7 : result[i].info[f].at = result[i].clock.at
=============================================================================
