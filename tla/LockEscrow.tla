----------------------------- MODULE LockEscrow ------------------------------
(***************************************************************************)
(* Locking LP: lockLiquidity and moveLockedLP of AmmImpl                   *)
(* (ts-client/src/amm/index.ts) build a transaction from accounts they     *)
(* read at several awaits; the transaction lands later, or never.  Between *)
(* the reads, and before it lands, other transactions of the same or of    *)
(* other users land.                                                       *)
(*                                                                         *)
(* The instructions run on the chain and are external, except that         *)
(* create_lock_escrow is an `init' and fails when the escrow exists.  lock *)
(* takes a maximum (the IDL's maxAmount; the client passes U64_MAX, "max   *)
(* amount in program side", to lock everything).  The accounts a           *)
(* transaction touches are abstracted to the escrows and to the LP token   *)
(* accounts of users and escrows.                                          *)
(***************************************************************************)
EXTENDS Integers, Sequences, FiniteSetsExt

CONSTANTS
    Users,         \* wallets; each may own an escrow and pay for a lock
    FeeVault,      \* the pool's stake-for-fee vault, which owns an escrow too
    InitLp,        \* LP of every user
    Amounts,       \* amounts users lock or move
    RatioSteps,    \* stakeLiquidity.ratio is one of 0..RatioSteps over RatioSteps
    MaxJobs        \* bound on the number of calls

ASSUME LockConstants ==
    /\ FeeVault \notin Users
    /\ InitLp \in Nat
    /\ Amounts \subseteq Nat
    /\ RatioSteps \in Nat \ {0}
    /\ MaxJobs \in Nat

Jobs   == 1..MaxJobs
Owners == Users \cup {FeeVault}
Wallet(u) == <<"wallet", u>>   \* LP token account of a user
Escrow(o) == <<"escrow", o>>   \* LP token account of the escrow of o
TokenAccounts == {Wallet(u) : u \in Users} \cup {Escrow(o) : o \in Owners}

VARIABLES
    chain,   \* the escrows and token accounts that exist, and LP balances
    job      \* the calls: what they were asked, read and became

vars == <<chain, job>>

NoJob == [pc |-> "unused", kind |-> "none", owner |-> FeeVault, payer |-> FeeVault, amount |-> 0,
          ratio |-> 0, quiet |-> TRUE, hasEscrow |-> FALSE, makeEscrowAta |-> FALSE,
          makeUserAta |-> FALSE, ixs |-> <<>>, held |-> 0]

Init ==
    /\ chain = [escrow |-> {}, ata |-> {Wallet(u) : u \in Users},
                lp |-> [a \in TokenAccounts |-> IF a[1] = "wallet" THEN InitLp ELSE 0]]
    /\ job = [j \in Jobs |-> NoJob]

-----------------------------------------------------------------------------
(* The chain: instructions and transactions                                *)

Transfer(lp, from, to, amount) ==
    [a \in TokenAccounts |-> CASE a = from -> lp[a] - amount
                              [] a = to   -> lp[a] + amount
                              [] OTHER    -> lp[a]]

\* One instruction on a state; res is "ok" or why the transaction failed.
Execute(s, ix) ==
    IF s.res # "ok" THEN s
    ELSE
    CASE ix.op = "createLockEscrow" ->
            IF ix.owner \in s.escrow THEN [s EXCEPT !.res = "exists"]
            ELSE [s EXCEPT !.escrow = @ \cup {ix.owner}]
      [] ix.op = "createAta" ->
            IF ix.account \in s.ata THEN [s EXCEPT !.res = "exists"]
            ELSE [s EXCEPT !.ata = @ \cup {ix.account}]
      [] ix.op = "lock" ->
            IF ix.owner \notin s.escrow \/ ~ {ix.source, Escrow(ix.owner)} \subseteq s.ata
            THEN [s EXCEPT !.res = "missing"]
            ELSE [s EXCEPT !.lp = Transfer(@, ix.source, Escrow(ix.owner),
                                           Min({ix.amount, @[ix.source]}))]
      [] ix.op = "moveLockedLp" ->
            IF ~ {ix.from, ix.to} \subseteq s.escrow
               \/ ~ {Escrow(ix.from), Escrow(ix.to)} \subseteq s.ata
            THEN [s EXCEPT !.res = "missing"]
            ELSE [s EXCEPT !.lp = Transfer(@, Escrow(ix.from), Escrow(ix.to),
                                           Min({ix.amount, @[Escrow(ix.from)]}))]

\* The instructions of a transaction, one after the other.
Run(s, ixs) ==
    LET after[n \in 0..Len(ixs)] == IF n = 0 THEN s ELSE Execute(after[n - 1], ixs[n])
    IN  after[Len(ixs)]

\* A transaction: all of its instructions, or none.
Outcome(ixs) ==
    Run([res |-> "ok", escrow |-> chain.escrow, ata |-> chain.ata, lp |-> chain.lp], ixs)

-----------------------------------------------------------------------------
(* lockLiquidity                                                           *)

\* Mutant: the user locks the whole amount besides the fee wrapper's part.
LockAmountsBoth(amount, ratio) ==
    LET wrapper == (amount * ratio) \div RatioSteps
    IN  [feeWrapper |-> wrapper, user |-> amount]

\* calculateLockAmounts
CalculateLockAmounts(amount, ratio) ==
    LET wrapper == (amount * ratio) \div RatioSteps
    IN  [feeWrapper |-> wrapper, user |-> amount - wrapper]

\* The call, up to the answer of the fetch of the owner's escrow.
LockLiquidity(j, owner, payer, amount, ratio) ==
    /\ job[j].pc = "unused"
    /\ job' = [job EXCEPT ![j] =
                 [NoJob EXCEPT !.pc = "escrowRead", !.kind = "lock", !.owner = owner,
                               !.payer = payer, !.amount = amount, !.ratio = ratio,
                               !.hasEscrow = owner \in chain.escrow]]
    /\ UNCHANGED chain

\* getOrCreateATAInstruction looks up the LP accounts of payer and escrow.
ReadAtas(j) ==
    /\ job[j].pc = "escrowRead"
    /\ job' = [job EXCEPT ![j] =
                 [@ EXCEPT !.pc = "atasRead",
                           !.makeEscrowAta = Escrow(job[j].owner) \notin chain.ata,
                           !.makeUserAta = Wallet(job[j].payer) \notin chain.ata]]
    /\ UNCHANGED chain

CreateAta(make, account) ==
    IF make THEN <<[op |-> "createAta", account |-> account]>> ELSE <<>>

LockIx(owner, payer, amount) ==
    IF amount = 0 THEN <<>>
    ELSE <<[op |-> "lock", owner |-> owner, source |-> Wallet(payer), amount |-> amount]>>

\* Mutants: the escrow is created whether or not it was found; the instruction
\* that creates its token account is left out.
PreInstructionsAlways(k) ==
    <<[op |-> "createLockEscrow", owner |-> k.owner]>>
      \o CreateAta(k.makeUserAta, Wallet(k.payer)) \o CreateAta(k.makeEscrowAta, Escrow(k.owner))

PreInstructionsNoAta(k) ==
    (IF k.hasEscrow THEN <<>> ELSE <<[op |-> "createLockEscrow", owner |-> k.owner]>>)
      \o CreateAta(k.makeUserAta, Wallet(k.payer))

\* preInstructions of lockLiquidity
PreInstructions(k) ==
    (IF k.hasEscrow THEN <<>> ELSE <<[op |-> "createLockEscrow", owner |-> k.owner]>>)
      \o CreateAta(k.makeUserAta, Wallet(k.payer)) \o CreateAta(k.makeEscrowAta, Escrow(k.owner))

\* stakeForFeeInstructions
StakeForFee(k, makeAta) ==
    LET wrapper == CalculateLockAmounts(k.amount, k.ratio).feeWrapper
    IN  IF wrapper = 0 THEN <<>>
        ELSE CreateAta(makeAta, Escrow(FeeVault)) \o LockIx(FeeVault, k.payer, wrapper)

\* When the user locks nothing, only the fee wrapper's instructions are sent.
LockInstructions(k, makeAta) ==
    LET user == CalculateLockAmounts(k.amount, k.ratio).user
    IN  IF user = 0 THEN StakeForFee(k, makeAta)
        ELSE PreInstructions(k) \o LockIx(k.owner, k.payer, user) \o StakeForFee(k, makeAta)

\* The fee vault and its escrow's token account are looked up if part of the
\* amount is for it, and the transaction is built; without a fee vault the call
\* throws.
BuildLock(j) ==
    /\ job[j].pc = "atasRead"
    /\ job' = [job EXCEPT ![j] =
                 IF /\ CalculateLockAmounts(job[j].amount, job[j].ratio).feeWrapper > 0
                    /\ FeeVault \notin chain.escrow
                 THEN [@ EXCEPT !.pc = "thrown"]
                 ELSE [@ EXCEPT !.pc = "built",
                                !.ixs = LockInstructions(job[j], Escrow(FeeVault) \notin chain.ata)]]
    /\ UNCHANGED chain

-----------------------------------------------------------------------------
(* moveLockedLP                                                            *)

\* The call, up to the look-up of the new owner's LP account.  The fetch of the
\* new owner's escrow is not awaited: the promise is never null, so that no
\* escrow is ever created.
MoveInstructions(owner, newOwner, maxAmount, makeAta) ==
    CreateAta(makeAta, Escrow(newOwner))
      \o <<[op |-> "moveLockedLp", from |-> owner, to |-> newOwner, amount |-> maxAmount]>>

MoveLockedLP(j, owner, newOwner, maxAmount) ==
    /\ job[j].pc = "unused"
    /\ job' = [job EXCEPT ![j] =
                 [NoJob EXCEPT !.pc = "built", !.kind = "move", !.owner = owner,
                               !.payer = owner, !.amount = maxAmount,
                               !.ixs = MoveInstructions(owner, newOwner, maxAmount,
                                                        Escrow(newOwner) \notin chain.ata)]]
    /\ UNCHANGED chain

-----------------------------------------------------------------------------

InFlight(k) == k.pc \in {"escrowRead", "atasRead", "built"}

\* The other calls, after something they may have read has changed.
Disturbed(j) ==
    [i \in Jobs |-> IF i # j /\ InFlight(job[i]) THEN [job[i] EXCEPT !.quiet = FALSE] ELSE job[i]]

\* A built transaction reaches the chain.  held records, for the properties,
\* what the payer of a lock had at that moment.
Land(j) ==
    /\ job[j].pc = "built"
    /\ LET out == Outcome(job[j].ixs)
       IN  IF out.res = "ok"
           THEN /\ chain' = [escrow |-> out.escrow, ata |-> out.ata, lp |-> out.lp]
                /\ job' = [Disturbed(j) EXCEPT ![j] =
                             [job[j] EXCEPT !.pc = "landed",
                                            !.held = chain.lp[Wallet(job[j].payer)]]]
           ELSE /\ job' = [job EXCEPT ![j].pc = out.res]
                /\ UNCHANGED chain

\* A built transaction is not sent, or its blockhash expires first.
Expire(j) ==
    /\ job[j].pc = "built"
    /\ job' = [job EXCEPT ![j].pc = "expired"]
    /\ UNCHANGED chain

\* The stake-for-fee program sets up the pool's fee vault and its escrow.
CreateFeeVault ==
    /\ FeeVault \notin chain.escrow
    /\ chain' = [chain EXCEPT !.escrow = @ \cup {FeeVault}]
    /\ job' = Disturbed(0)

\* Calls are numbered in the order they are made.
Call(j) ==
    /\ \A i \in 1..(j - 1) : job[i].pc # "unused"
    /\ \/ \E o, p \in Users, a \in Amounts, r \in 0..RatioSteps : LockLiquidity(j, o, p, a, r)
       \/ \E o, n \in Users, a \in Amounts : o # n /\ MoveLockedLP(j, o, n, a)

Next ==
    \/ \E j \in Jobs : Call(j) \/ ReadAtas(j) \/ BuildLock(j) \/ Land(j) \/ Expire(j)
    \/ CreateFeeVault

Spec == Init /\ [][Next]_vars

-----------------------------------------------------------------------------
(* Properties                                                              *)

Landed == {j \in Jobs : job[j].pc = "landed" /\ job[j].kind = "lock"}

\* The sum of a function on Jobs.
Total(f) ==
    LET upTo[n \in 0..MaxJobs] == IF n = 0 THEN 0 ELSE upTo[n - 1] + f[n]
    IN  upTo[MaxJobs]

\* The fee vault's part of a lock is what the ratio rounds down to, and the
\* last to be served when the payer had less LP than the lock was asked for.
FeePart(k) ==
    LET part == (k.amount * k.ratio) \div RatioSteps
    IN  Min({part, Max({0, k.held - (k.amount - part)})})

PaidBy(u) ==
    [j \in Jobs |-> IF j \in Landed /\ job[j].payer = u THEN Min({job[j].amount, job[j].held}) ELSE 0]
FeeParts == [j \in Jobs |-> IF j \in Landed THEN FeePart(job[j]) ELSE 0]

\* However the calls interleave, every wallet paid exactly the amounts of its
\* locks that landed, or all it had when a lock landed, and the fee vault's
\* escrow holds exactly its rounded-down part of each of them: no lock pays
\* twice, none splits more than was asked, and a shortage is the fee vault's.
LockedAsAsked ==
    /\ \A u \in Users : chain.lp[Wallet(u)] = InitLp - Total(PaidBy(u))
    /\ chain.lp[Escrow(FeeVault)] = Total(FeeParts)

\* A lock transaction may lose a race (the escrow or an account it creates
\* exists by then), but it never fails because an account
\* it needs is missing, whatever landed between its reads and itself.
LockNeverMissesAccounts ==
    \A j \in Jobs : job[j].pc = "missing" => job[j].kind = "move"

\* A lock during which nothing else lands never creates what exists, so that
\* it cannot fail.
QuietLockLands ==
    \A j \in Jobs : job[j].pc = "exists" => job[j].kind = "move" \/ ~job[j].quiet

\* moveLockedLP's doc comment (ts-client/src/amm/index.ts:3069): "If the new
\* owner does not have an existing lock escrow, it creates one."  So a move
\* from an existing escrow never fails for a missing account.
MoveCreatesEscrow ==
    \A j \in Jobs : job[j].pc = "missing" /\ job[j].kind = "move"
        => job[j].owner \notin chain.escrow
=============================================================================
