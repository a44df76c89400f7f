# Verification of the Dynamic AMM SDK

TLA+ models, TLC runs and TLAPS proofs for this repository: the Meteora Dynamic
AMM program interfaces, the Rust quote library, and the TypeScript and Rust
clients. Paths below are relative to the repository.

## 1. The system

A pool keeps two tokens. It does not hold them itself: it holds LP of two
*dynamic vaults*, which it shares with other depositors, which lend their
reserves and whose reported profits unlock over time. A swap deposits the in
token into one vault and withdraws the out token from the other. Stable pools of
liquid staking tokens also keep a cached price of the staking token. The
programs' instruction handlers in this repository are interface stubs; the
arithmetic they rely on, the quotes and the clients are real code.

| Part | Keeps | Operations | Interacts with | What makes it correct |
|---|---|---|---|---|
| Vault arithmetic, `programs/dynamic-vault/src/state.rs` | total amount, locked-profit tracker | locked profit, unlocked amount, share to amount and back | every quote | a vault can always be priced; conversions round against the one who asks |
| Pool account and fees, `programs/dynamic-amm/src/state.rs` | enabled flag, fees, activation point, depeg cache | trading and protocol fee | quotes | a fee is never rounded to nothing |
| Rust quote, `dynamic-amm-quote` | nothing | `compute_quote`, `compute_pool_tokens`, `update_base_virtual_price` | vault arithmetic, curves | equals what the program pays (its integration test); rounding never costs the pool |
| TypeScript quote, `ts-client/src/amm/utils.ts`, `curve/` | nothing | `calculateSwapQuote`, curves | vault SDK (external) | equals the Rust quote |
| `AmmImpl` object, `ts-client/src/amm/index.ts` | pool state, vault states, accounts info, depeg accounts, curve, pool info | `create`, `updateState`, quotes, transaction builders | RPC node, vault SDK | the cached parts belong together and are as fresh as the quote claims |
| Lock escrow, `index.ts` | on chain: escrows and their LP | `lockLiquidity`, `moveLockedLP`, claims | token accounts, fee vault | transactions built from a snapshot still make sense when they land |
| Stable curve, `curve/stable-swap.ts`, `stable-swap-math/`, `math/stable_swap.rs` | depeg object (mutable, shared) | D and y by Newton iteration, in and out amounts, imbalanced liquidity | stake pool accounts | D and y solve the invariant; in and out amounts are inverse |
| Liquidity, `index.ts` | - | deposit and withdraw quotes and transactions | cached state | minimum amounts are those asked for |
| Pool creation and configs, `index.ts` | - | multi-transaction creation flows, `createConfig` | programs, metadata | a flow that stops half way can be resumed or repeated |
| Addresses, `utils.ts`, `common/` | - | PDA derivation, account lists | all transactions | symmetric in the mints, no collisions |
| Rust client, `rust-client/` | - | commands, sending with confirmation and retries | RPC node | no transaction is sent twice for one request |

Hard behaviours: five roundings in a row in a swap; vault state that changes
between any two swaps; `updateState`, which awaits three times and assigns six
fields at different moments while quotes read (and mutate) them; failed and
overlapping updates; transactions that land after what they were built from has
changed; creation flows of several transactions that stop half way; wrapped SOL
accounts that are made and closed around every instruction; retries against
transactions that land late; flat account lists that are cut into requests and
put together again by position. `PROJECT.json` lists these hazards line by line.

## 2. Modules

| Module | Models | Kind |
|---|---|---|
| `VaultMath` | vault arithmetic, `u64` results checked against `MaxU64`; `Option` as number or `None` | operators |
| `SwapMath` | fees, constant-product curve, `compute_quote` on a snapshot of the accounts | operators |
| `Pool` | a pool on two vaults: swaps, other depositors, profit reports, lending, enabling, time | state machine, composes the two above |
| `PoolProofs` | theorems about `Pool`, `TsQuote` and `LiquidityQuote` | proofs |
| `TsQuote` | `calculateSwapQuote` of the TypeScript client on every state of `Pool` | operators over `Pool` |
| `AmmClient` | the fields of an `AmmImpl` object for an LST pool, `updateState` calls await by await, `getSwapQuote`, the chain's clock and depeg cache | state machine |
| `LockEscrow` | `lockLiquidity` and `moveLockedLP` from their reads to landing or expiring | state machine |
| `StableCurve` | D and y by Newton iteration, scaling, in and out amounts, imbalanced deposit, single-sided withdrawal (TypeScript) | operators, recursive functions |
| `StablePool` | a trader who takes those quotes at their word, in any order | state machine over `StableCurve` |
| `LiquidityQuote` | `getDepositQuote`, `getWithdrawQuote` on every state of `Pool` | operators over `TsQuote` |
| `AmmIdl` | the sixteen instructions the client builds: signers, writable and read roles | operators |
| `AccountLayout` | field offsets of configs, escrows and pools | operators |
| `Address` | addresses as tuples of their seeds, the order of mints | operators |
| `Ledger` | the runtime and the programs as balances: transactions run wholly or not at all (external) | operators, composes the three above |
| `WalletTx` | swap, deposit, withdraw and the three claims, from look-up to landing | state machine over `Ledger` |
| `PoolCreation` | the five creation functions, transaction by transaction | state machine over `Ledger` |
| `ConfigIndex` | `createConfig` and the reads of configs | state machine |
| `BatchLoad` | `searchPoolsByToken` and `createMultiple`, request by request | state machine |
| `SendOnce` | what the caller of the Rust sender is promised | abstract specification |
| `TxSender` | `send_transaction_wrapper` with its retries, over an unreliable network | state machine, refines `SendOnce` |
| `AmmClientProofs`, `LockEscrowProofs`, `WalletProofs`, `PoolCreationProofs`, `BatchProofs`, `ConfigProofs`, `TxSenderProofs` | theorems about the module each is named after (`WalletTx`, `BatchLoad`, `ConfigIndex`) | proofs |
| `MC...` | instances for TLC | |

**Pool.** `vault[t]` is the vault of a token together with its LP supply and
liquid reserve, `lp[t]` the pool's LP in it, `clock` the clock sysvar, `trader`
a ledger of what all traders together gained. `Swap` applies exactly the
movements that `ComputeQuote` computes. How the other instructions move balances
is external: a deposit mints `get_unmint_amount`, a withdrawal pays
`get_amount_by_share`, a report locks the profit with what is still locked.

**AmmClient.** A reply is abstracted to the chain time at which it was served
and a price to the time at which it was read from the stake pool: freshness is
what the properties are about. Pool state, curve and quotes share one depeg
object per fetched pool state, so that object lives on a heap. `UpdateState`
sends the first three requests; `ServePool` and `Serve` are the RPC node;
`ApplyVault`, `ApplyPoolState`, `ApplyAccounts` and `ApplyDepeg` are the
continuations after each await, and assign what the code assigns there.
`Reject` is a failed request or a failed `invariant`; vault refreshes survive
it, as they survive a rejected `Promise.all`. `create` is the initial state: its
reads happen in order while the chain moves on. The ghosts `since` and
`disturbed` only serve properties: when the client was last idle, and what has
happened since (an overlap, a failure, a quote during an update, and, if refreshes of
an earlier rejected update were still under way, orphans).

**LockEscrow.** A call reads the escrow, then the token accounts, then the fee
vault's, and builds a sequence of instructions. `Land` executes it atomically
on whatever the chain is by then; `Expire` drops it. Every payer has an LP token
account. The program's `lock` takes a maximum (the IDL's `maxAmount`) and locks
what the source holds if that is less. A transaction is a recursive function over
its instructions (`Run`). The ghost `held` keeps what a payer had when the lock
landed.

**StableCurve, StablePool.** An iteration is a recursive function of its number,
cut off after `MaxIters` as in the code. Vaults, the fee of swaps and the refresh
of the price are left out of `StablePool`, so that nothing but the curve's own
rounding stands between the trader and a gain; the price impact is left out. In every
state the trader also asks for the largest swap (`GetMaxSwapInAmount`, with both fees)
and has it quoted (`QuoteAccepted`: `calculateSwapQuote` on vaults at share price one).

**LiquidityQuote.** Reads the vaults only; which curve moved them makes no
difference. Slippages are whole per cent, for which the client's floating-point
product is exact. The constant 0.998 of the unlock buffer is used as a slippage in
per cent and so amounts to a factor of 9900/10000.

**Ledger, WalletTx.** A state of the chain is a record of token balances, other
accounts and lamports; an instruction is a function on it, with its accounts taken
from the roles that the client filled in; a transaction is a recursive function over
its instructions (`Run`). What the AMM program computes is left
open (`draw`). A call looks up which token accounts exist, in one step, and returns a
transaction; it lands after others of the same wallets, or never. The caller also
wraps SOL outside the client, and any user may own wrapped SOL from the start. The
temporary account of `claimLockFee` is fresh, as the function's parameter asks, and a
referrer is another wallet.

**PoolCreation.** A creator calls one of the five functions, then sends the
transactions it returned in order, one by one, as
`ts-client/src/examples/create_pool_and_lock_liquidity.ts` does; each lands, fails
or expires, and the creator may give up and call again. The payer of a memecoin is
the caller. A fee-tier pool is a constant-product one. The activation point and
`skipBAta` are left out. A call keeps the transactions it was given (`txs`).

**ConfigIndex.** Admins look up, build, and land later; configs are closed in
between. The search by authority compares bytes at a written-down offset, which
`AccountLayout` turns into a field.

**BatchLoad.** A request is a chunk of a flat list and is served at a moment of its
own; pools appear in between, and any request may fail. The content of an account
is its address, what it was decoded as and when it was read.

**TxSender.** Each attempt sends the same signed transaction. Requests and answers
get lost, a sent transaction may land long after its attempt was given up, as long
as the blockhash lives, and the chain refuses a signature it has seen. The
refinement maps the chain's executions to `effects` and the two callbacks to
`report`.

Definitions marked *Mutant* are not part of the model: each is a plausible bug,
put in place of the definition after it to show that a property notices.

## 3. Runs

| Run | Checks | Shows |
|---|---|---|
| `pool` | `TypeOK`, `VaultsPriceable`, `SharesBacked`, `ProductKept`, `NotDiluted`, `QuotesAgree`, `QuotesPayable`, `RoundTripNoGain`, `SingleSideNoGain` | four steps of anybody in any order: the pool's accounting holds, the Rust and the TypeScript quote agree wherever no fee truncates to zero, and deposit and withdraw quotes together give nothing for free |
| `pool_swaps` | `NoFreeTokens` | eight swaps and deposits at zero fee: only rounding protects the pool, and it does |
| `ts_quote_received` | `QuotedIsReceived` | **violated**: the client's fee truncates to zero, the program takes one token |
| `client` | `UpdateRepairs`, `RecentWhenIdle`, `PriceBoundWhenIdle`, `NeverOlder`, `CatchesUp` | two `updateState` calls that may overlap, replies in any order, failures and quotes at any await: an update that runs alone repairs everything, a quote meanwhile reaches only the price and a refresh left by a rejected update only its vault, and what overlaps disturb is still bounded |
| `lock` | `LockedAsAsked`, `LockNeverMissesAccounts`, `QuietLockLands` | three interleaved calls of two users |
| `lock_move` | `MoveCreatesEscrow` | **violated**: `moveLockedLP` never creates the new owner's escrow (missing `await`) |
| `stable` | `NewtonNearExact`, `NoFreeTokens`, `MaxSwapInAccepted` | without a depeg price `computeD` is D or one above; with or without one, swaps, deposits of any two amounts and single-sided withdrawals give nothing for free; `getSwapQuote` accepts the largest swap offered, as it is without a depeg price, and less the slip in `computeInAmount` with one |
| `wallet` | `PaidToTheRightWallet`, `NothingLost`, `QuietTxLands`, `SignedByParties`, `MinimumsKept` | two interleaved calls on a pool with SOL, a stable pool of two tokens and an emptied pool, by wallets that may own wrapped SOL |
| `creation` | `OnePoolPerPair`, `LpAsAsked`, `SpentAsLanded`, `QuietCreationLands` | two creators and all five functions, mints in either order, stops anywhere and second calls |
| `configs` | `NoGaps`, `FailedForARival`, `FeesAsAsked`, `OwnConfigsFound` | three racing calls and closed configs |
| `batch` | `SearchComplete`, `RightAccounts`, `OneMoment` | a search while pools appear, and a load of what it found, with repeated and unknown pools |
| `tx_sender` | `TypeOK`, `SendsOnce`, `ReportsInTheEnd` | the sender implements `SendOnce`, its liveness included |

`NoFreeTokens` of `Pool` is checked without profit reports: a profit that unlocks
between two swaps belongs to the pool, and a trader may then buy at a better price
than they sold. In `stable` the reserves are 60 and more: with a handful of tokens the
half-up rounding of the fee of an imbalanced deposit is worth a whole token, and a
trader does gain it. `NewtonNearExact` is stated for pools without a depeg price,
whose amounts are not scaled. On a pool with one, the largest swap offered may be refused
by the quote, as `computeInAmount` subtracts an unscaled source amount;
`MaxSwapInAccepted` takes this slip off the offer (`ScalingSlip`, zero without a depeg
price) and so says that it is all that is wrong with it. It asks for fees that take a
token off the amount at least: `getMaxSwapInAmount` aims at the whole reserve and the quote must stay below it, so that without a fee the answer is the
estimate its comment calls it. `getMaxSwapInAmount` takes both the trade and the
protocol rate of the whole amount, the quote only the trade rate, a part of which is the
protocol's; the instance has fees of either kind alone and of both.

**Bounds.** `MaxSlot` bounds the steps of the pool runs (4 and 8): a swap in
each direction, with a deposit, a report or a tick before, between and after.
The initial vault has a share price of 22/15, a profit that is still partly
locked and unlocks within two ticks, and coarse fees, so that each rounding and each
failure occurs with small amounts; `MaxU64` is 320 and 90, low enough for deposits
to meet it. In `client` the cache lives one time unit (`CacheLife`), and `MaxTime` 2
lets it expire between two updates; two calls (`MaxCalls`) are enough for every pair
of overlapping phases. Both vaults are refreshed alike, so there is one.
Three lock calls (`MaxJobs`) allow a race of two and a third that sees its
outcome; an amount of 3 is not divisible by the ratio's 2 and can be paid once.
Three steps (`MaxSteps`) let a trader of the stable pool deposit, swap and withdraw,
from nine pairs of reserves; the largest swap is asked for with the vault holding all
of the pool's out token, or one of up to three smaller amounts. Two calls per run of
`WalletTx` and `PoolCreation` are a race, or a call and its repetition; amounts are
such that a wallet can pay once but not for two wraps, and SOL wrapped by the first
call is there for the second. Three calls of `createConfig` and four indices leave
room for a gap, two rivals and a closed config. A `ChunkSize` of 8 makes one request
of a single pool's accounts and cuts those of two pools inside the second. Six
retries are more than any outcome of an attempt can tell apart. Creators and calls of
`createConfig` are symmetric: no definition tells them apart and no liveness is
checked there.

**Deadlock** is not checked: the bounds stop every model, and a client or a pool
may really rest.

**Fairness.** `AmmClient` and `TxSender` have liveness properties. `WF(Progress(c))` says
that a request that was sent is answered and its continuation runs: the RPC
client resolves or rejects every request, and the event loop runs continuations.
Nothing is assumed of the application: it need not call `updateState` again.
`WF(Client)` of `TxSender` says that an attempt ends: sending returns, and the
confirmation's spinner returns at the latest when the blockhash has expired. The
network and the chain have no fairness: a transaction may never land.

## 4. Proofs

`PoolProofs` proves for all fees, denominators, activation points, initial
vaults, amounts and `u64` bounds, from the assumptions stated next to the
constants (a positive denominator, a well-formed initial vault in which the pool
holds at least one share):

- `Invariant`: `IInv == TypeOK /\ VaultsPriceable /\ SharesBacked` is inductive;
- `TypeCorrect`, `AlwaysPriceable`, `AlwaysBacked`: its three parts;
- `SwapKeepsProduct`: no swap lowers the product of what the pool owns;
- `OthersDoNotDilute`: nobody else's step lowers what the pool's LP are worth;
- `TradersCannotWin`: from whatever state the pool has reached, as long as only
  swaps move the vaults' unlocked amounts and LP, the traders together gain nothing
  of one token without giving of the other;
- `NoFreeTokensAlways`: `NoFreeTokens`, for vaults without profits and without other
  depositors.

None of the three invariants is inductive alone. That amounts stay `u64` needs
that a withdrawal is covered by the unlocked amount (priceability), and that a
swap burns fewer LP than the pool has, which in turn needs positive LP in a
backed supply; priceability needs that withdrawals never take locked profit.

The argument for a swap is a chain of lemmas, each about one rounding.
`DivBounds`, `DivLe`, `DivGe` are floor division. `ShareValue` and `ValueGrows`
say that what a share is worth grows with the ratio of unlocked amount to
supply; `DepositSideFacts` and `WithdrawSideFacts` that minting and burning round
this ratio up; `CurveFacts` that the rounded-up destination keeps the product on
the curve; `LeftOver` that what remains after the withdrawal is at least what
the curve left. `QuoteFacts` puts them together for `ComputeQuote`. For the steps
of others, `LockedDecays` says that time only unlocks and `FreshLock` that a
report locks all of its profit at first, so that `OwnedGrows` applies.

`NoFreeTokens` speaks of whole histories. It becomes inductive by comparing with the
start (`SinceThen`): per token, the others' LP are as many as then, the vault is short
of what traders gained and of the protocol's fees, and its share price has not
fallen; nor has the product of what the pool owns. A gain of one token without a loss
of the other then contradicts the start (`NoGain`). The two assumptions on the
vaults are needed: profits, and what the roundings of other depositors leave behind,
belong to the pool, and a well-timed trade takes part of them. The run `pool_swaps`
allows deposits, within its bounds.

The same module, on every state of `Pool` and for all amounts and fees, proves
`QuotesAgreeAlways` and `QuotesPayableAlways`. The invariant is that of `Pool`. On
its states each conversion of the vault SDK equals the one of the Rust library, as
truncating and flooring agree on naturals and every `u64` result is in range; from
there on both quotes are the same function. A quote is less than the reserve and
than what the pool owns by its last comparison, once the two conversions of the
amount are known not to raise it.

`RoundTripNoGainAlways`, for all supplies, amounts and slippages of the deposit and
withdraw quotes, rests on the same invariant. What a withdrawal pays is bounded twice
(`WithdrawBounds`): by what `computeActualInAmount` rounds to the nearest for at least
as many LP, which is the cost on a constant-product pool, and by the exact share of
the vault. On a stable pool the cost follows from balances rounded down, of which the
exact share lies less than one token above (`StableShare`): for a deposit of at most
the balance that is less than one token of the result, which flooring removes on the
side of the deposit and which may remain on the other.

`AmmClientProofs`, for any number of calls, vaults and any cache lifetime:
`UpdateRepairsAlways`, `RecentWhenIdleAlways`, `PriceBoundAlways`,
`NeverOlderAlways`. The properties speak of an idle client; the invariant has to say
what is already true while calls run. It does so call by call: which answers are
there at which await (`AwaitsAt`), and what a call at its first, second or third
await has made of the client (`RecentAt` and its companions), conditional on what
has disturbed the updates so far. Each action has a lemma on its effect. Vaults are
followed apart from what `updateState` assigns itself (`RecentVaults`, `OldVaults`):
what a rejected update left behind may still write them, and the invariant says that
it writes nothing else, and that no call is left behind unless `disturbed` says so.

`LockEscrowProofs`, for any users, amounts, ratios and number of calls:
`LockedAsAskedAlways`, `LockNeverMissesAccountsAlways`, `QuietLockLandsAlways`. `Run`
exists by induction (`RunDefined`); appending an instruction executes it on what the
transaction has led to (`RunAppend`). `LockOutcome` and `MoveOutcome` say what
the instructions do on any chain that agrees with what the call read; the invariant
says that the chain does: accounts are never closed, so that what was found stays,
and what was not found stays absent until another transaction lands, which clears
`quiet`. The sums are compared term by term (`Total...`).

`BatchProofs`, for any pools, lists, chunk sizes and order of answers:
`SearchCompleteAlways`, `RightAccountsAlways`, `OneMomentAlways`. The layout puts the
mints at the offsets the requests compare (`MintFields`); `SearchInv` says what each
side that has answered found. `FlattenSeq` is followed by induction: blocks of one
size (`FlatBlocks`), and what a filter leaves (`FlatFilter`, where equal lengths mean
that nothing was dropped). With the arithmetic of the chunks the answers are again in
the order of what was asked, and the map of addresses decodes each one by its first
part, whichever of several entries for it stays (`MapFacts`).

`WalletProofs`, for any pools, amounts and number of calls and any finite set of
wallets: `PaidToTheRightWalletAlways`, `NothingLostAlways`, `SignedByPartiesAlways`,
`MinimumsKeptAlways`, `QuietTxLandsAlways`. It assumes that a pool's LP mint is neither
one of its tokens nor wrapped SOL (`LpIsNoToken`: its address is a hash over theirs). The instructions around the
program's own are `Neutral`: they create an account, or a user wraps or unwraps SOL of
its own; a list of them leaves all holdings as they are (`RunNeutral`), whatever length
the look-ups gave it. Each instruction of the program has a lemma on what it pays
(`SwapPays` to `PartnerPays`), each function one on the list it builds (`SwapShape` to
`ClaimShape`), and `TxEnds` joins the two: a transaction fails, or meets its minimums
and pays the beneficiary what is due. A claim that closes a wrapped SOL account to
another wallet is a case of its own (`CloseEffect`): what the account held goes to the
receiver, so that the two wallets together keep what they had, and the receiver gets
exactly the fees if the account held nothing before, which the invariant has to carry
along for the temporary wallet. The other strengthening is that the fee accounts keep
enough for every call that may still land, as a partner's claim takes what is there.
The invariant has an unconditional part (`Sound`, and `Whole`, which is `NothingLost`)
and one that holds as long as no claim was sent on by `claimLockFee2` (`Paid`, under
`Kept`). Sums over the wallets are followed along an enumeration of them
(`AddsDefined`, `TogetherChange`): a transaction that changes the holdings of one wallet,
or moves between two, changes the sum by as much.

For `QuietTxLands` the accounts that exist are followed instead of their balances. The
program's instructions create and close none, and with the accounts they name they fail
for lack of funds or slippage only (`SwapWorks` to `PartnerWorks`); a list built by
`getOrCreateATAInstruction` on what exists leads to a state with all of them (`Goes`,
from `SwapGoes` to `ClaimGoes`). What the client does not look up is never closed
(`Standing`: the pool's own accounts, LP accounts and escrows), because transactions
close wrapped SOL accounts only (`Careful`), and this is where LP must not be wrapped
SOL. The invariant (`QuietInv`) adds that a call that is still quiet has seen exactly
the accounts of the present ledger.

`PoolCreationProofs`, for any creators, pairs, amounts and number of calls:
`OnePoolPerPairAlways`. It assumes of the keys that they are totally ordered
(`CreationKeys`), from which the sorted seeds of a pool address forget the order of the
mints (`PoolOfPair`). Every operator of `Ledger` only adds to the accounts that exist,
and the instructions that make a pool fail where it exists (`...Grows`,
`ExecuteGrows`); `RunMakes` carries this along a transaction of any length. `TxsFit`
goes through the transactions of the five functions: each makes the pool of its own
call and no other. The invariant then says that the chain knows every pool a call
has made and that no two calls made one, which is what the next one to land runs into.

`SpentAsLandedAlways` and `LpAsAskedAlways` follow every balance through the
transactions. Two more assumptions are needed: the deposits fit into the width of an
instruction's argument (in `CreationConstants`; with it the default lock of
`createPoolPostInstructions`, the largest u64, locks all of the LP), and addresses of
a program are not wallets or mints (`CreationAddresses`). What each instruction moves
(`MoveOk` to `SwapOk`) gives what each kind of transaction does: a preparation wraps
and creates and changes no creator's wealth, the pool's takes the two deposits and
locks the creator's part (`MakeTx`), the fee vault's moves LP between two accounts
(`FeeTx`), the swap's takes what it swaps (`FirstSwapTx`). `TxsShape` shows for all
five functions that a call is a list of these in that order (`Shape`), and `NextTx`
what the next one does. The invariant `Money` ties a call's position in its list to
what it has spent and to where the LP of its pool is. It needs the first invariant:
that no other call has made the pool is why there is no LP of it yet, and why nobody
else's transaction moves it afterwards. The sum over the calls of a creator is a fold
over a set in an order left open; `SumChange` shows that it changes by what one call
has added (`Adds`, by induction on subsets).

`TxSenderProofs`, for every bound on the retries: `SenderTypes`, and
`SenderSendsOnce`, that the safety part of `TxSender` implements that of
`SendOnce`. The inductive invariant adds to the types that only what was to be sent
is on its way, confirmed or reported. That a landing is a first effect follows from
the single signature (`OneSignature`).

`ConfigProofs`, for any number of calls and indices: `ConfigsDense` (no index is
skipped until a config is closed), `ConfigsFailForRivals` (a creation fails only
for one that landed at its index since the look-up), `ConfigFees` (stored fees
are those asked for) and `ConfigsFound` (byte 80 is where the authority starts, so
that a search finds one's own configs and no others). The invariant records how an index that was free at the
look-up came to be used (`Taken`), which needs that what had landed stays landed.

**Recursion and induction.** The library's induction theorems take an operator, which
the installed provers cannot instantiate. `SetInduction` states induction on the
naturals for a set instead, and follows from the well-foundedness of `<`. With it
recursive functions are shown to exist and followed step by step; a fixed layout
is followed by giving the function explicitly (`MintFields`, `AuthorityField`).
Multiple `EXCEPT`s of one function at indices that may be equal are avoided in
what is proved about, as is `CASE` with overlapping guards: the first is translated
wrongly by the prover, the second has no determined value.

Only model-checked: `NoFreeTokens` and the other properties of `StablePool`, which
rest on how close Newton's iterations come to a real root, and for the same reason
`SingleSideNoGain` of the liquidity quotes; liveness under fairness (`CatchesUp`,
`ReportsInTheEnd`), which is outside this prover; and `QuietCreationLands` of
`PoolCreation`, which needs for every instruction of every call that it succeeds, the
funds included, where the proofs above only need what it does when it succeeds.

## 5. Deviations without a run of their own

Met while modelling; the properties are stated so that they leave these cases out.

- A quote during `updateState` stamps an old stake-pool price as new, and the update
  keeps it past its lifetime; an update that fails at its last request pairs a new
  clock with old stake accounts (`ts-client/src/amm/index.ts:1912`,
  `curve/stable-swap.ts:53`). `UpdateRepairs` shows that a quote reaches nothing but
  the price, and that the next update alone and without a failure heals both.
- Vault refreshes that a rejected update left behind may take a vault back after a
  later update (`index.ts:1856`). `UpdateRepairs` and `NeverOlder` show that they reach
  nothing else.
- `claimLockFee2` closes the owner's own wrapped SOL account to the receiver
  (`index.ts:3027`).
- A single-sided withdrawal drops the minimum of the quote (`index.ts:2539`; the
  function's comment at `:2510` promises one). `MinimumsKept` is about the others.
- `createPermissionlessConstantProductPoolWithConfig2` wraps less SOL than its first
  swap needs (`index.ts:529`; the memecoin function at `:804` adds it).
- A transaction reported as failed may have taken effect (`rust-client/src/rpc.rs:190`).
- `getPoolConfigsWithPoolCreatorAuthority` omits configs without an authority, which
  anybody can use (`index.ts:1604`).
- `computeInAmount` subtracts an unscaled amount from a scaled one
  (`curve/stable-swap.ts:209`): with a depeg price `getMaxSwapInAmount` offers nearly
  the whole source balance too much, and `getSwapQuote` refuses it where the vault has
  only part of the out token at hand. `MaxSwapInAccepted` shows that nothing else is
  wrong with the offer. It also matters for token multipliers other than one, which the
  instance does not have.
- With a high fee and coarse vault LP the TypeScript quote can be negative: the fee is
  more than what the deposit adds to the pool, `sourceAmountWithFee` is negative, and
  nothing checks it (`utils.ts:625`). Found by the proof of `QuotesPayable`, which is
  now stated for the other cases.
- `roundUp` of the deposit quote rounds to the nearest (`index.ts:3187`).

## 6. Not modelled, and plan

Left out for good: IDL types, events and error texts, logging, price impact, the
Rust client's commands and account builders, examples and tests. They keep no state
and decide nothing.

Not modelled although it could be: the quote for a memecoin pool that does not exist
yet, which repeats `calculateSwapQuote`; `checkPoolExists` and its variants;
`getUserLockEscrow` and the balance queries, which only read; `swapAndStakeForFee`,
whose staking half is another SDK; `create_pool` and the derivations of the Rust
client; the Rust stable curve, which is an external crate; slippages of fractions of
a per cent, whose floating-point product depends on the platform's rounding.

Plan, in order of importance:

1. `QuietCreationLands` of `PoolCreation` as a theorem;
2. unclaimed fees of a lock escrow (`getUserLockEscrow`) on top of `Pool`.
