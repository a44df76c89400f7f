------------------------------ MODULE AmmClient ------------------------------
(***************************************************************************)
(* The cached state of an AmmImpl object for a depeg (LST) stable pool,    *)
(* ts-client/src/amm/index.ts, and how updateState and the quotes share it.*)
(*                                                                         *)
(* updateState awaits three times and assigns this.poolState, the vault    *)
(* states, this.accountsInfo, this.depegAccounts, this.swapCurve and       *)
(* this.poolInfo at different moments.  Calls may overlap, a quote may run *)
(* at any await, and a request may fail; Promise.all then rejects while    *)
(* the other requests go on.                                               *)
(*                                                                         *)
(* What a request returns is abstracted to the chain time at which it was  *)
(* served, and a stake pool's virtual price to the time at which it was    *)
(* read from the stake pool.  Depeg objects are modelled as a heap: the    *)
(* pool state that an update fetched, the curve it built and every quote   *)
(* on that pool state mutate the same object.                              *)
(***************************************************************************)
EXTENDS Integers

CONSTANTS
    CacheLife,       \* BASE_CACHE_EXPIRE: 600 s
    MaxTime,         \* bound on the chain time
    MaxCalls,        \* bound on the number of updateState calls
    Vaults           \* the two vaults

ASSUME ClientConstants ==
    /\ CacheLife \in Nat
    /\ MaxTime \in Nat
    /\ MaxCalls \in Nat
    /\ Vaults \cap {"pool", "supply", "accounts", "depeg"} = {}

VARIABLES
    time,        \* unix timestamp of the chain
    chainDepeg,  \* Depeg.base_cache_updated on chain; its price was read then
    heap,        \* depeg object of create (0) and of each updateState call
    pc,          \* where each updateState call is
    reply,       \* its requests: Unsent, Sent, the time served, or Applied
    client,      \* the fields of the AmmImpl object
    since,       \* ghost: when the client last stopped being idle
    disturbed    \* ghost: what happened since then: overlap, failure, quote, and
                 \* orphan if refreshes that a rejected call left were then under way

vars == <<time, chainDepeg, heap, pc, reply, client, since, disturbed>>

Calls == 1..MaxCalls
Requests == {"pool", "supply", "accounts", "depeg"} \cup Vaults
Times == 0..MaxTime

Unsent  == -1
Sent    == -2
Applied == -3

\* Mutant: the comparison is swapped.
UpdateDepegInfoUnlessExpired(depeg, accounts, onChainTime) ==
    IF onChainTime < depeg.updated + CacheLife
    THEN [price |-> accounts, updated |-> onChainTime]
    ELSE depeg

\* updateDepegInfoIfExpired on a depeg object, with the stake accounts that
\* were read at time `accounts' and the curve's onChainTime.
UpdateDepegInfoIfExpired(depeg, accounts, onChainTime) ==
    IF onChainTime > depeg.updated + CacheLife
    THEN [price |-> accounts, updated |-> onChainTime]
    ELSE depeg

Running == {c \in Calls : pc[c] \in {"fetch", "accounts", "depeg"}}
Idle    == Running = {}

\* Vault refreshes that a rejected call left behind.
Orphans == {c \in Calls : pc[c] = "rejected" /\ \E v \in Vaults : reply[c][v] \in Times \cup {Sent}}

-----------------------------------------------------------------------------
(* AmmImpl.create reads the pool, the vaults, the accounts and the stake   *)
(* pool one after the other; the object exists when all are there.         *)

Init ==
    /\ time \in Times /\ time <= 1
    /\ chainDepeg = 0
    /\ \E pool, vaults, accounts \in 0..time :
        /\ pool <= vaults /\ vaults <= accounts
        /\ heap = [c \in {0} \cup Calls |->
                     UpdateDepegInfoIfExpired([price |-> 0, updated |-> 0], time, accounts)]
        /\ client = [depeg |-> 0, pool |-> pool, supply |-> pool,
                     vault |-> [v \in Vaults |-> vaults],
                     currentTime |-> accounts, depegAccounts |-> time,
                     curve |-> [depeg |-> 0, time |-> accounts],
                     poolInfo |-> accounts]
        /\ since = pool
    /\ pc = [c \in Calls |-> "unused"]
    /\ reply = [c \in Calls |-> [k \in Requests |-> Unsent]]
    /\ disturbed = {}

-----------------------------------------------------------------------------
(* The chain                                                               *)

Tick ==
    /\ time < MaxTime
    /\ time' = time + 1
    /\ UNCHANGED <<chainDepeg, heap, pc, reply, client, since, disturbed>>

\* An instruction on the pool: update_base_virtual_price with the stake pool
\* account of the moment.
UpdateBaseVirtualPrice ==
    /\ time > chainDepeg + CacheLife
    /\ chainDepeg' = time
    /\ UNCHANGED <<time, heap, pc, reply, client, since, disturbed>>

-----------------------------------------------------------------------------
(* updateState                                                             *)

\* The call: getPoolState and the refreshes of both vaults are sent.
UpdateState(c) ==
    /\ pc[c] = "unused"
    /\ \A d \in Calls : d < c => pc[d] # "unused"
    /\ pc' = [pc EXCEPT ![c] = "fetch"]
    /\ reply' = [reply EXCEPT ![c] = [k \in Requests |->
                     IF k \in {"pool"} \cup Vaults THEN Sent ELSE Unsent]]
    /\ since' = IF Idle THEN time ELSE since
    /\ disturbed' = IF Idle THEN IF Orphans = {} THEN {} ELSE {"orphan"}
                    ELSE disturbed \cup {"overlap"}
    /\ UNCHANGED <<time, chainDepeg, heap, client>>

\* getPoolState, first half: the pool account is read, decoded into a depeg
\* object of its own, and the LP supply requested.
ServePool(c) ==
    /\ pc[c] = "fetch" /\ reply[c]["pool"] = Sent
    /\ reply' = [reply EXCEPT ![c] = [@ EXCEPT !["pool"] = time, !["supply"] = Sent]]
    /\ heap' = [heap EXCEPT ![c] = [price |-> chainDepeg, updated |-> chainDepeg]]
    /\ UNCHANGED <<time, chainDepeg, pc, client, since, disturbed>>

\* Any other request is served; the answer travels back.
Serve(c, k) ==
    /\ k # "pool" /\ reply[c][k] = Sent
    /\ k \in Vaults \/ pc[c] \in {"fetch", "accounts", "depeg"}
    /\ reply' = [reply EXCEPT ![c][k] = time]
    /\ UNCHANGED <<time, chainDepeg, heap, pc, client, since, disturbed>>

\* refreshVaultState assigns the vault's state as soon as its answer is there,
\* whether or not the updateState that asked for it still runs.
ApplyVault(c, v) ==
    /\ reply[c][v] \in Times
    /\ client' = [client EXCEPT !.vault[v] = reply[c][v]]
    /\ reply' = [reply EXCEPT ![c][v] = Applied]
    /\ UNCHANGED <<time, chainDepeg, heap, pc, since, disturbed>>

\* Mutant: the refreshes of the vaults are not awaited.
PoolStateThere(c) == reply[c]["supply"] \in Times

\* Promise.all has resolved.
AllThere(c) == reply[c]["supply"] \in Times /\ \A v \in Vaults : reply[c][v] = Applied

\* Mutant: the new pool state is copied into the old one, whose depeg stays.
PoolStateInPlace(c) ==
    [client EXCEPT !.pool = reply[c]["pool"], !.supply = reply[c]["supply"]]

\* this.poolState = poolState
WithPoolState(c) ==
    [client EXCEPT !.depeg = c, !.pool = reply[c]["pool"], !.supply = reply[c]["supply"]]

\* this.poolState is assigned and the accounts are requested.
ApplyPoolState(c) ==
    /\ pc[c] = "fetch" /\ AllThere(c)
    /\ client' = WithPoolState(c)
    /\ pc' = [pc EXCEPT ![c] = "accounts"]
    /\ reply' = [reply EXCEPT ![c] = [@ EXCEPT !["pool"] = Applied, !["supply"] = Applied,
                                              !["accounts"] = Sent]]
    /\ UNCHANGED <<time, chainDepeg, heap, since, disturbed>>

\* The accounts arrive: this.accountsInfo is assigned, the stake pool requested.
ApplyAccounts(c) ==
    /\ pc[c] = "accounts" /\ reply[c]["accounts"] \in Times
    /\ client' = [client EXCEPT !.currentTime = reply[c]["accounts"]]
    /\ pc' = [pc EXCEPT ![c] = "depeg"]
    /\ reply' = [reply EXCEPT ![c]["depeg"] = Sent]
    /\ UNCHANGED <<time, chainDepeg, heap, since, disturbed>>

\* Mutant: depegAccounts are kept once fetched.
WithCurveOldAccounts(c) ==
    [client EXCEPT !.curve = [depeg |-> c, time |-> reply[c]["accounts"]],
                   !.poolInfo = reply[c]["accounts"]]

\* this.depegAccounts, this.swapCurve and this.poolInfo, assigned without an
\* await in between
WithCurve(c) ==
    [client EXCEPT !.depegAccounts = reply[c]["depeg"],
                   !.curve = [depeg |-> c, time |-> reply[c]["accounts"]],
                   !.poolInfo = reply[c]["accounts"]]

\* The stake pool arrives; calculatePoolInfo's computeD refreshes the depeg
\* object of this call's pool state, with this call's clock.
ApplyDepeg(c) ==
    /\ pc[c] = "depeg" /\ reply[c]["depeg"] \in Times
    /\ client' = WithCurve(c)
    /\ heap' = [heap EXCEPT ![c] =
                  UpdateDepegInfoIfExpired(@, reply[c]["depeg"], reply[c]["accounts"])]
    /\ pc' = [pc EXCEPT ![c] = "done"]
    /\ reply' = [reply EXCEPT ![c] = [@ EXCEPT !["accounts"] = Applied, !["depeg"] = Applied]]
    /\ UNCHANGED <<time, chainDepeg, since, disturbed>>

\* A request fails (or its accounts are missing, `invariant'): the promise that
\* updateState returned rejects, what it assigned so far stays.
Reject(c, k) ==
    /\ c \in Running
    /\ reply[c][k] \in Times \cup {Sent}
    /\ k \in CASE pc[c] = "fetch"    -> {"pool", "supply"} \cup Vaults
               [] pc[c] = "accounts" -> {"accounts"}
               [] pc[c] = "depeg"    -> {"depeg"}
    /\ reply' = [reply EXCEPT ![c] = [r \in Requests |->
                     IF r \in Vaults \ {k} THEN @[r] ELSE Applied]]
    /\ pc' = [pc EXCEPT ![c] = "rejected"]
    /\ disturbed' = disturbed \cup {"failure"}
    /\ UNCHANGED <<time, chainDepeg, heap, client, since>>

-----------------------------------------------------------------------------
(* Quotes                                                                  *)

\* The depeg object of this.poolState as getSwapQuote leaves and uses it.
QuoteDepeg ==
    UpdateDepegInfoIfExpired(heap[client.depeg], client.depegAccounts, client.currentTime)

\* getSwapQuote: builds a StableSwap on the pool state's own depeg object.
GetSwapQuote ==
    /\ heap' = [heap EXCEPT ![client.depeg] = QuoteDepeg]
    /\ disturbed' = IF Idle THEN disturbed ELSE disturbed \cup {"quote"}
    /\ UNCHANGED <<time, chainDepeg, pc, reply, client, since>>

Progress(c) ==
    \/ ServePool(c)
    \/ \E k \in Requests : Serve(c, k)
    \/ \E v \in Vaults : ApplyVault(c, v)
    \/ ApplyPoolState(c)
    \/ ApplyAccounts(c)
    \/ ApplyDepeg(c)

Next ==
    \/ Tick
    \/ UpdateBaseVirtualPrice
    \/ GetSwapQuote
    \/ \E c \in Calls : UpdateState(c)
    \/ \E c \in Calls : Progress(c)
    \/ \E c \in Calls, k \in Requests : Reject(c, k)

\* Requests are answered and their continuations run.
Spec == Init /\ [][Next]_vars /\ \A c \in Calls : WF_vars(Progress(c))

-----------------------------------------------------------------------------
(* Properties                                                              *)

\* The price that a swap quote uses, and the one of this.swapCurve, are never
\* older than the cache lifetime at the on-chain time they are quoted for
\* (BASE_CACHE_EXPIRES, "Base virtual time caching time, 10 minutes").
PricesFresh ==
    /\ QuoteDepeg.price >= client.currentTime - CacheLife
    /\ heap[client.curve.depeg].price >= client.curve.time - CacheLife

\* this.accountsInfo, this.swapCurve and this.poolInfo, which getDepositQuote and
\* getWithdrawQuote mix, are those of one and the same update, and that is the
\* update of this.poolState.
Coherent ==
    /\ client.poolInfo = client.currentTime
    /\ client.curve = [depeg |-> client.depeg, time |-> client.currentTime]

\* What updateState assigns itself, and what the refreshes of the vaults assign.
OwnParts(k)   == {k.pool, k.supply, k.currentTime, k.depegAccounts}
VaultParts(k) == {k.vault[v] : v \in Vaults}

\* Parts read since the client was last idle.
Recent(parts) == \A t \in parts : t >= since

\* One update that runs alone and that no request fails repairs whatever failed,
\* overlapped or was quoted before it, and what happens meanwhile reaches no further
\* than it must: a quote only the price, refreshes that a rejected update left behind
\* only the vaults.  Without either, all parts are recent, belong together and give
\* fresh prices.
UpdateRepairs ==
    Idle /\ disturbed \subseteq {"quote", "orphan"} =>
      /\ Recent(OwnParts(client)) /\ Coherent
      /\ "orphan" \notin disturbed => Recent(VaultParts(client))
      /\ "quote" \notin disturbed => PricesFresh

\* Whatever order the answers of overlapping updates come in, and whatever is
\* quoted meanwhile, the client that is idle again without a failure holds nothing
\* read before the first of them started, save for vaults that a rejected update
\* still refreshed.
RecentWhenIdle ==
    Idle /\ "failure" \notin disturbed =>
      /\ Recent(OwnParts(client))
      /\ "orphan" \notin disturbed => Recent(VaultParts(client))

\* Overlapping updates can pair the clock of one with the stake pool of another;
\* the price a quote uses is then older than the cache lifetime by no more than
\* the time the updates overlapped.
PriceBoundWhenIdle ==
    Idle /\ disturbed \subseteq {"overlap", "orphan"} =>
      \/ QuoteDepeg.price >= client.currentTime - CacheLife
      \/ QuoteDepeg.price >= since

\* An update that runs alone never replaces a part of the cache by one that was read
\* earlier, not even after updates that failed or overlapped; only refreshes that a
\* rejected one left behind take a vault back.
NeverOlder ==
    [][disturbed' \subseteq {"quote", "orphan"} =>
       /\ client'.pool >= client.pool /\ client'.supply >= client.supply
       /\ client'.currentTime >= client.currentTime
       /\ client'.depegAccounts >= client.depegAccounts
       /\ "orphan" \notin disturbed' => \A v \in Vaults : client'.vault[v] >= client.vault[v]]_vars

\* Updates that start once the chain stands still end with everything the client
\* holds in sync with the chain, for good, unless a request fails; an earlier failure
\* whose refreshes are still under way can only keep the vaults from it.
CatchesUp ==
    (since = MaxTime /\ ~Idle) ~>
      \/ "failure" \in disturbed
      \/ /\ [](\A t \in OwnParts(client) : t = MaxTime)
         /\ "orphan" \notin disturbed => [](\A t \in VaultParts(client) : t = MaxTime)
=============================================================================
