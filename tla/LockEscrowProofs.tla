-------------------------- MODULE LockEscrowProofs ---------------------------
(***************************************************************************)
(* Proofs about LockEscrow, for any users, amounts, ratio steps and number *)
(* of calls.                                                               *)
(*                                                                         *)
(* A transaction is a recursive function over its instructions (Run); that *)
(* function exists by induction (RunDefined), and appending an instruction *)
(* to a transaction is executing it on what the transaction leads to       *)
(* (RunAppend).  From this follow what the instructions of lockLiquidity   *)
(* and moveLockedLP do from any chain that agrees with what the call has   *)
(* read (LockOutcome, MoveOutcome).  The inductive invariant Inv says that *)
(* the chain does agree with it for every call under way: accounts are     *)
(* never closed, so that what was found stays there, and what was not      *)
(* found stays absent until another transaction lands.                     *)
(***************************************************************************)
EXTENDS LockEscrow, SequenceTheorems, WellFoundedInduction, TLAPS

\* Induction on the natural numbers, as a statement about sets.
LEMMA SetInduction ==
    ASSUME NEW S, 0 \in S, \A n \in Nat : n \in S => n + 1 \in S
    PROVE  Nat \subseteq S
<1> DEFINE R == {ss \in Nat \X Nat : ss[1] < ss[2]}
           T == Nat \ S
<1> SUFFICES ASSUME T # {} PROVE FALSE
  OBVIOUS
<1>1. IsWellFoundedOn(R, Nat)
  BY NatLessThanWellFounded DEF OpToRel
<1>2. PICK m \in T : \A k \in T : ~(<<k, m>> \in R)
  BY <1>1, WFMin
<1>3. \A k \in T : ~(k < m)
  <2> SUFFICES ASSUME NEW k \in T, k < m PROVE FALSE
    OBVIOUS
  <2>1. k \in Nat /\ m \in Nat
    OBVIOUS
  <2>2. <<k, m>> \in R
    BY <2>1
  <2>. QED
    BY <1>2, <2>2
<1>4. m \in Nat /\ m # 0 /\ m - 1 \in Nat
  OBVIOUS
<1>5. m - 1 \in T
  <2>1. (m - 1) + 1 = m
    BY <1>4
  <2>. QED
    BY <1>4, <2>1
<1>. QED
  BY <1>3, <1>4, <1>5

\* The states that the instructions of a transaction pass through exist.
LEMMA RunDefined ==
    ASSUME NEW s, NEW ixs
    PROVE  \A n \in Nat :
             \E g : g = [i \in 0..n |-> IF i = 0 THEN s ELSE Execute(g[i - 1], ixs[i])]
<1> DEFINE P(n) == \E g : g = [i \in 0..n |-> IF i = 0 THEN s ELSE Execute(g[i - 1], ixs[i])]
           S == {n \in Nat : P(n)}
<1>1. 0 \in S
  <2> DEFINE g == [i \in 0..0 |-> s]
  <2>1. g = [i \in 0..0 |-> IF i = 0 THEN s ELSE Execute(g[i - 1], ixs[i])]
    OBVIOUS
  <2>. QED
    BY <2>1
<1>2. ASSUME NEW n \in Nat, n \in S PROVE n + 1 \in S
  <2>1. PICK g : g = [i \in 0..n |-> IF i = 0 THEN s ELSE Execute(g[i - 1], ixs[i])]
    BY <1>2
  <2> DEFINE h == [i \in 0..(n + 1) |-> IF i = n + 1 THEN Execute(g[n], ixs[n + 1]) ELSE g[i]]
  <2>2. ASSUME NEW i \in 0..(n + 1)
        PROVE  h[i] = IF i = 0 THEN s ELSE Execute(h[i - 1], ixs[i])
    <3>1. CASE i = 0
      BY <2>1, <3>1
    <3>2. CASE i = n + 1
      <4>1. h[i] = Execute(g[n], ixs[n + 1]) /\ i - 1 = n /\ i # 0 /\ n \in 0..(n + 1) /\ n # n + 1
        BY <3>2
      <4>2. h[n] = g[n]
        BY <4>1
      <4>. QED
        BY <3>2, <4>1, <4>2
    <3>3. CASE i # 0 /\ i # n + 1
      <4>1. i \in 0..n /\ i - 1 \in 0..n /\ i - 1 \in 0..(n + 1) /\ i - 1 # n + 1
        BY <3>3
      <4>2. h[i] = g[i] /\ h[i - 1] = g[i - 1]
        BY <3>3, <4>1
      <4>3. g[i] = Execute(g[i - 1], ixs[i])
        BY <2>1, <3>3, <4>1
      <4>. QED
        BY <3>3, <4>2, <4>3
    <3>. QED
      BY <3>1, <3>2, <3>3
  <2> HIDE DEF h
  <2>3. h = [i \in 0..(n + 1) |-> h[i]]
    BY DEF h
  <2>4. h = [i \in 0..(n + 1) |-> IF i = 0 THEN s ELSE Execute(h[i - 1], ixs[i])]
    BY <2>2, <2>3
  <2>. QED
    BY <2>4
<1> HIDE DEF S
<1>3. Nat \subseteq S
  BY <1>1, <1>2, SetInduction
<1>. QED
  BY <1>3 DEF S

\* Run by its recursive equation.
LEMMA RunSteps ==
    ASSUME NEW s, NEW ixs, Len(ixs) \in Nat
    PROVE  \E g : /\ g = [i \in 0..Len(ixs) |-> IF i = 0 THEN s ELSE Execute(g[i - 1], ixs[i])]
                  /\ Run(s, ixs) = g[Len(ixs)]
<1> DEFINE g == CHOOSE g : g = [i \in 0..Len(ixs) |-> IF i = 0 THEN s ELSE Execute(g[i - 1], ixs[i])]
<1>1. g = [i \in 0..Len(ixs) |-> IF i = 0 THEN s ELSE Execute(g[i - 1], ixs[i])]
  BY RunDefined
<1>2. Run(s, ixs) = g[Len(ixs)]
  BY DEF Run
<1>. QED
  BY <1>1, <1>2

LEMMA RunEmpty ==
    ASSUME NEW s
    PROVE  Run(s, <<>>) = s
<1>1. Len(<<>>) = 0
  OBVIOUS
<1>. QED
  BY <1>1, RunSteps

LEMMA RunAppend ==
    ASSUME NEW I, NEW s, NEW ixs \in Seq(I), NEW x \in I
    PROVE  Run(s, ixs \o <<x>>) = Execute(Run(s, ixs), x)
<1> DEFINE L == Len(ixs)
           both == ixs \o <<x>>
<1>1. L \in Nat /\ Len(both) = L + 1 /\ both[L + 1] = x /\ \A i \in 1..L : both[i] = ixs[i]
  OBVIOUS
<1>2. PICK g : /\ g = [i \in 0..L |-> IF i = 0 THEN s ELSE Execute(g[i - 1], ixs[i])]
               /\ Run(s, ixs) = g[L]
  BY <1>1, RunSteps
<1> HIDE DEF L, both
<1>3. PICK h : /\ h = [i \in 0..(L + 1) |-> IF i = 0 THEN s ELSE Execute(h[i - 1], both[i])]
               /\ Run(s, both) = h[L + 1]
  <2>1. Len(both) \in Nat
    BY <1>1
  <2>2. PICK h : /\ h = [i \in 0..Len(both) |-> IF i = 0 THEN s ELSE Execute(h[i - 1], both[i])]
                 /\ Run(s, both) = h[Len(both)]
    BY <2>1, RunSteps
  <2>3. /\ h = [i \in 0..(L + 1) |-> IF i = 0 THEN s ELSE Execute(h[i - 1], both[i])]
        /\ Run(s, both) = h[L + 1]
    BY <1>1, <2>2
  <2>. QED
    BY <2>3
<1> DEFINE S == {n \in Nat : n <= L => h[n] = g[n]}
<1>4. 0 \in S
  BY <1>1, <1>2, <1>3
<1>5. ASSUME NEW n \in Nat, n \in S PROVE n + 1 \in S
  <2> SUFFICES ASSUME n + 1 <= L PROVE h[n + 1] = g[n + 1]
    OBVIOUS
  <2>1. /\ n + 1 \in 0..L /\ n + 1 \in 0..(L + 1) /\ n + 1 # 0 /\ (n + 1) - 1 = n
        /\ n + 1 \in 1..L /\ n <= L
    BY <1>1
  <2>2. h[n + 1] = Execute(h[n], both[n + 1]) /\ g[n + 1] = Execute(g[n], ixs[n + 1])
    BY <1>2, <1>3, <2>1
  <2>. QED
    BY <1>1, <1>5, <2>1, <2>2
<1> HIDE DEF S
<1>6. L \in S
  BY <1>1, <1>4, <1>5, SetInduction
<1>7. h[L] = g[L]
  BY <1>1, <1>6 DEF S
<1>8. h[L + 1] = Execute(h[L], both[L + 1])
  <2>1. L + 1 \in 0..(L + 1) /\ L + 1 # 0 /\ (L + 1) - 1 = L
    BY <1>1
  <2>. QED
    BY <1>3, <2>1
<1>. QED
  BY <1>1, <1>2, <1>3, <1>7, <1>8 DEF both

-----------------------------------------------------------------------------
(* Instructions                                                            *)

State == [res : {"ok", "exists", "missing"}, escrow : SUBSET Owners,
          ata : SUBSET TokenAccounts, lp : [TokenAccounts -> Nat]]

Instructions ==
    [op : {"createLockEscrow"}, owner : Owners]
      \cup [op : {"createAta"}, account : TokenAccounts]
      \cup [op : {"lock"}, owner : Owners, source : TokenAccounts, amount : Nat]
      \cup [op : {"moveLockedLp"}, from : Owners, to : Owners, amount : Nat]

\* The token accounts of users and escrows are different ones.
LEMMA AccountFacts ==
    /\ \A u \in Users : Wallet(u) \in TokenAccounts
    /\ \A o \in Owners : Escrow(o) \in TokenAccounts
    /\ \A u, o : Wallet(u) # Escrow(o)
    /\ \A u, v : Wallet(u) = Wallet(v) => u = v
    /\ \A o, p : Escrow(o) = Escrow(p) => o = p
    /\ Users \subseteq Owners /\ FeeVault \in Owners /\ FeeVault \notin Users
BY LockConstants DEF Wallet, Escrow, TokenAccounts, Owners

LEMMA MinFacts ==
    ASSUME NEW a \in Int, NEW b \in Int
    PROVE  /\ Min({a, b}) = IF a <= b THEN a ELSE b
           /\ Max({a, b}) = IF a <= b THEN b ELSE a
<1>1. \E x \in {a, b} : \A y \in {a, b} : x <= y
  OBVIOUS
<1>2. \E x \in {a, b} : \A y \in {a, b} : x >= y
  OBVIOUS
<1>3. Min({a, b}) \in {a, b} /\ \A y \in {a, b} : Min({a, b}) <= y
  BY <1>1 DEF Min
<1>4. Max({a, b}) \in {a, b} /\ \A y \in {a, b} : Max({a, b}) >= y
  BY <1>2 DEF Max
<1>. QED
  BY <1>3, <1>4

LEMMA MaxZero ==
    ASSUME NEW n \in Int
    PROVE  Max({0, n}) = IF 0 <= n THEN n ELSE 0
<1>1. 0 \in Int
  OBVIOUS
<1>. QED
  BY <1>1, MinFacts

LEMMA ExecuteCreateEscrow ==
    ASSUME NEW s \in State, NEW o \in Owners
    PROVE  LET r == Execute(s, [op |-> "createLockEscrow", owner |-> o])
           IN  /\ r \in State /\ r.lp = s.lp /\ r.ata = s.ata
               /\ s.res # "ok" => r = s
               /\ s.res = "ok" /\ o \in s.escrow => r.res = "exists"
               /\ s.res = "ok" /\ o \notin s.escrow =>
                    r.res = "ok" /\ r.escrow = s.escrow \cup {o}
<1> DEFINE ix == [op |-> "createLockEscrow", owner |-> o]
           r == Execute(s, ix)
<1>1. ix.op = "createLockEscrow" /\ ix.owner = o
  OBVIOUS
<1> HIDE DEF ix
<1>2. s.res # "ok" => r = s
  BY DEF Execute
<1>3. s.res = "ok" => r = IF o \in s.escrow THEN [s EXCEPT !.res = "exists"]
                          ELSE [s EXCEPT !.escrow = @ \cup {o}]
  BY <1>1 DEF Execute
<1> HIDE DEF r
<1>4. /\ r \in State /\ r.lp = s.lp /\ r.ata = s.ata
      /\ s.res # "ok" => r = s
      /\ s.res = "ok" /\ o \in s.escrow => r.res = "exists"
      /\ s.res = "ok" /\ o \notin s.escrow => r.res = "ok" /\ r.escrow = s.escrow \cup {o}
  BY <1>2, <1>3 DEF State
<1>. QED
  BY <1>4 DEF r, ix

LEMMA ExecuteCreateAta ==
    ASSUME NEW s \in State, NEW a \in TokenAccounts
    PROVE  LET r == Execute(s, [op |-> "createAta", account |-> a])
           IN  /\ r \in State /\ r.lp = s.lp /\ r.escrow = s.escrow
               /\ s.res # "ok" => r = s
               /\ s.res = "ok" /\ a \in s.ata => r.res = "exists"
               /\ s.res = "ok" /\ a \notin s.ata => r.res = "ok" /\ r.ata = s.ata \cup {a}
<1> DEFINE ix == [op |-> "createAta", account |-> a]
           r == Execute(s, ix)
<1>1. ix.op = "createAta" /\ ix.account = a
  OBVIOUS
<1> HIDE DEF ix
<1>2. s.res # "ok" => r = s
  BY DEF Execute
<1>3. s.res = "ok" => r = IF a \in s.ata THEN [s EXCEPT !.res = "exists"]
                          ELSE [s EXCEPT !.ata = @ \cup {a}]
  BY <1>1 DEF Execute
<1> HIDE DEF r
<1>4. /\ r \in State /\ r.lp = s.lp /\ r.escrow = s.escrow
      /\ s.res # "ok" => r = s
      /\ s.res = "ok" /\ a \in s.ata => r.res = "exists"
      /\ s.res = "ok" /\ a \notin s.ata => r.res = "ok" /\ r.ata = s.ata \cup {a}
  BY <1>2, <1>3 DEF State
<1>. QED
  BY <1>4 DEF r, ix

LEMMA TransferFacts ==
    ASSUME NEW lp \in [TokenAccounts -> Nat], NEW from \in TokenAccounts,
           NEW to \in TokenAccounts, NEW n \in Nat, from # to, n <= lp[from],
           NEW after, after = Transfer(lp, from, to, n)
    PROVE  /\ after \in [TokenAccounts -> Nat]
           /\ after[from] = lp[from] - n /\ after[to] = lp[to] + n
           /\ \A a \in TokenAccounts \ {from, to} : after[a] = lp[a]
BY DEF Transfer

\* A lock of accounts that exist moves the maximum, or all there is.
LEMMA ExecuteLock ==
    ASSUME NEW s \in State, NEW o \in Owners, NEW u \in Users, NEW n \in Nat, NEW r, NEW m,
           r = Execute(s, [op |-> "lock", owner |-> o, source |-> Wallet(u), amount |-> n]),
           m = Min({n, s.lp[Wallet(u)]})
    PROVE  /\ s.res # "ok" => r = s
           /\ s.res = "ok" /\ o \in s.escrow /\ Wallet(u) \in s.ata /\ Escrow(o) \in s.ata =>
                /\ r \in State /\ r.res = "ok" /\ r.escrow = s.escrow /\ r.ata = s.ata
                /\ m \in Nat
                /\ r.lp[Wallet(u)] = s.lp[Wallet(u)] - m
                /\ r.lp[Escrow(o)] = s.lp[Escrow(o)] + m
                /\ \A a \in TokenAccounts \ {Wallet(u), Escrow(o)} : r.lp[a] = s.lp[a]
<1> DEFINE ix == [op |-> "lock", owner |-> o, source |-> Wallet(u), amount |-> n]
           to == Transfer(s.lp, Wallet(u), Escrow(o), m)
<1>1. ix.op = "lock" /\ ix.owner = o /\ ix.source = Wallet(u) /\ ix.amount = n
  OBVIOUS
<1>2. s.lp \in [TokenAccounts -> Nat] /\ s.lp[Wallet(u)] \in Nat /\ m \in Nat /\ m <= s.lp[Wallet(u)]
  BY AccountFacts, MinFacts DEF State
<1> HIDE DEF ix
<1>3. s.res # "ok" => r = s
  BY DEF Execute, ix
<1>4. s.res = "ok" /\ o \in s.escrow /\ Wallet(u) \in s.ata /\ Escrow(o) \in s.ata
        => r = [s EXCEPT !.lp = to]
  <2>1. s.res = "ok" /\ o \in s.escrow /\ Wallet(u) \in s.ata /\ Escrow(o) \in s.ata
          => Execute(s, ix) = [s EXCEPT !.lp = to]
    BY <1>1 DEF Execute
  <2>. QED
    BY <2>1 DEF ix
<1>5. /\ to \in [TokenAccounts -> Nat] /\ to[Wallet(u)] = s.lp[Wallet(u)] - m
      /\ to[Escrow(o)] = s.lp[Escrow(o)] + m
      /\ \A a \in TokenAccounts \ {Wallet(u), Escrow(o)} : to[a] = s.lp[a]
  <2>1. Wallet(u) \in TokenAccounts /\ Escrow(o) \in TokenAccounts /\ Wallet(u) # Escrow(o)
    BY AccountFacts
  <2>2. to = Transfer(s.lp, Wallet(u), Escrow(o), m)
    OBVIOUS
  <2> HIDE DEF to
  <2>. QED
    BY ONLY <1>2, <2>1, <2>2, TransferFacts
<1> HIDE DEF to
<1>6. s.res = "ok" /\ o \in s.escrow /\ Wallet(u) \in s.ata /\ Escrow(o) \in s.ata =>
        /\ r \in State /\ r.res = "ok" /\ r.escrow = s.escrow /\ r.ata = s.ata /\ r.lp = to
  BY <1>4, <1>5 DEF State
<1>. QED
  BY <1>2, <1>3, <1>5, <1>6

\* A move changes the token accounts of the two escrows at most.
LEMMA ExecuteMove ==
    ASSUME NEW s \in State, NEW o \in Owners, NEW p \in Owners \ {o}, NEW n \in Nat
    PROVE  LET r == Execute(s, [op |-> "moveLockedLp", from |-> o, to |-> p, amount |-> n])
           IN  /\ r \in State /\ r.escrow = s.escrow /\ r.ata = s.ata
               /\ r.res = "ok" => s.res = "ok"
               /\ \A a \in TokenAccounts \ {Escrow(o), Escrow(p)} : r.lp[a] = s.lp[a]
<1> DEFINE ix == [op |-> "moveLockedLp", from |-> o, to |-> p, amount |-> n]
           r == Execute(s, ix)
           m == Min({n, s.lp[Escrow(o)]})
           to == Transfer(s.lp, Escrow(o), Escrow(p), m)
<1>1. ix.op = "moveLockedLp" /\ ix.from = o /\ ix.to = p /\ ix.amount = n
  OBVIOUS
<1>2. s.lp \in [TokenAccounts -> Nat] /\ s.lp[Escrow(o)] \in Nat /\ m \in Nat /\ m <= s.lp[Escrow(o)]
  BY AccountFacts, MinFacts DEF State
<1> HIDE DEF ix, m
<1>3. r = s \/ r = [s EXCEPT !.res = "missing"] \/ (s.res = "ok" /\ r = [s EXCEPT !.lp = to])
  BY <1>1 DEF Execute, m
<1>4. /\ to \in [TokenAccounts -> Nat]
      /\ \A a \in TokenAccounts \ {Escrow(o), Escrow(p)} : to[a] = s.lp[a]
  <2>1. Escrow(o) \in TokenAccounts /\ Escrow(p) \in TokenAccounts /\ Escrow(o) # Escrow(p)
    BY AccountFacts
  <2>2. to = Transfer(s.lp, Escrow(o), Escrow(p), m)
    OBVIOUS
  <2> DEFINE lp == s.lp
             from == Escrow(o)
             dest == Escrow(p)
  <2>3. /\ lp \in [TokenAccounts -> Nat] /\ m \in Nat /\ m <= lp[from] /\ from \in TokenAccounts
        /\ dest \in TokenAccounts /\ from # dest /\ to = Transfer(lp, from, dest, m)
    BY <1>2, <2>1, <2>2
  <2> HIDE DEF to, lp, from, dest
  <2>4. /\ to \in [TokenAccounts -> Nat]
        /\ \A a \in TokenAccounts \ {from, dest} : to[a] = lp[a]
    BY ONLY <2>3, TransferFacts
  <2>. QED
    BY <2>4 DEF lp, from, dest
<1> HIDE DEF r, to
<1>5. /\ r \in State /\ r.escrow = s.escrow /\ r.ata = s.ata /\ r.lp \in {s.lp, to}
      /\ r.res = "ok" => s.res = "ok"
  BY <1>3, <1>4 DEF State
<1>. QED
  BY <1>4, <1>5 DEF r, ix

-----------------------------------------------------------------------------
(* Transactions                                                            *)

Job == [pc : {"unused", "escrowRead", "atasRead", "built", "thrown", "landed", "expired",
              "exists", "missing"},
        kind : {"none", "lock", "move"}, owner : Owners, payer : Owners, amount : Nat,
        ratio : 0..RatioSteps, quiet : BOOLEAN, hasEscrow : BOOLEAN, makeEscrowAta : BOOLEAN,
        makeUserAta : BOOLEAN, ixs : Seq(Instructions), held : Nat]

\* The fee wrapper's part and the user's make up the amount.
LEMMA LockAmountFacts ==
    ASSUME NEW amount \in Nat, NEW ratio \in 0..RatioSteps
    PROVE  LET amounts == CalculateLockAmounts(amount, ratio)
               part    == (amount * ratio) \div RatioSteps
           IN  /\ amounts.feeWrapper = part /\ amounts.user = amount - part
               /\ part \in Nat /\ amount - part \in Nat
<1> DEFINE part == (amount * ratio) \div RatioSteps
<1>1. /\ amount * ratio \in Nat /\ amount * ratio <= amount * RatioSteps
      /\ RatioSteps \in Nat \ {0}
  BY LockConstants
<1>2. part \in Nat /\ RatioSteps * part <= amount * ratio
  BY <1>1
<1>3. part <= amount
  <2> SUFFICES ASSUME part >= amount + 1 PROVE FALSE
    BY <1>2
  <2>1. RatioSteps * part >= RatioSteps * (amount + 1)
    BY <1>1, <1>2
  <2>2. RatioSteps * (amount + 1) = amount * RatioSteps + RatioSteps
    BY <1>1
  <2>. QED
    BY <1>1, <1>2, <2>1, <2>2
<1>. QED
  BY <1>2, <1>3 DEF CalculateLockAmounts

\* An instruction that is left out or appended.
LEMMA RunOptional ==
    ASSUME NEW s, NEW ixs \in Seq(Instructions), NEW x \in Instructions, NEW t,
           NEW c \in BOOLEAN, t = IF c THEN <<x>> ELSE <<>>
    PROVE  /\ ixs \o t \in Seq(Instructions)
           /\ Run(s, ixs \o t) = IF c THEN Execute(Run(s, ixs), x) ELSE Run(s, ixs)
<1>1. CASE c
  BY <1>1, RunAppend
<1>2. CASE ~c
  BY <1>2, ConcatEmptySeq
<1>. QED
  BY <1>1, <1>2

LEMMA RunOne ==
    ASSUME NEW s, NEW x \in Instructions
    PROVE  Run(s, <<x>>) = Execute(s, x)
<1> DEFINE none == <<>>
<1>1. none \in Seq(Instructions) /\ <<x>> = none \o <<x>> /\ Run(s, none) = s
  BY RunEmpty
<1> HIDE DEF none
<1>2. Run(s, none \o <<x>>) = Execute(Run(s, none), x)
  BY <1>1, RunAppend
<1>. QED
  BY <1>1, <1>2

Start == [res |-> "ok", escrow |-> chain.escrow, ata |-> chain.ata, lp |-> chain.lp]

ChainTypes ==
    /\ chain \in [escrow : SUBSET Owners, ata : SUBSET TokenAccounts, lp : [TokenAccounts -> Nat]]
    /\ \A u \in Users : Wallet(u) \in chain.ata

LEMMA StartFacts ==
    ASSUME ChainTypes
    PROVE  /\ Start \in State /\ Start.res = "ok" /\ Start.escrow = chain.escrow
           /\ Start.ata = chain.ata /\ Start.lp = chain.lp
BY DEF Start, State, ChainTypes

\* preInstructions: nothing they create is missing afterwards, and they fail only
\* when what was not found when it was looked up exists by now.
LEMMA PreRun ==
    ASSUME ChainTypes, NEW k \in Job, k.owner \in Users, k.payer \in Users, ~k.makeUserAta,
           k.hasEscrow => k.owner \in chain.escrow,
           ~k.makeEscrowAta => Escrow(k.owner) \in chain.ata
    PROVE  LET r == Run(Start, PreInstructions(k))
           IN  /\ PreInstructions(k) \in Seq(Instructions)
               /\ r \in State /\ r.lp = chain.lp /\ r.res \in {"ok", "exists"}
               /\ r.res = "ok" =>
                    /\ chain.escrow \cup {k.owner} = r.escrow
                    /\ chain.ata \cup {Escrow(k.owner)} = r.ata
               /\ /\ ~k.hasEscrow => k.owner \notin chain.escrow
                  /\ k.makeEscrowAta => Escrow(k.owner) \notin chain.ata
                  => r.res = "ok"
<1> DEFINE x1 == [op |-> "createLockEscrow", owner |-> k.owner]
           x3 == [op |-> "createAta", account |-> Escrow(k.owner)]
           t1 == IF k.hasEscrow THEN <<>> ELSE <<x1>>
           t2 == CreateAta(k.makeUserAta, Wallet(k.payer))
           t3 == CreateAta(k.makeEscrowAta, Escrow(k.owner))
           r1 == Run(Start, t1)
           r3 == Run(Start, PreInstructions(k))
<1>1. /\ k.hasEscrow \in BOOLEAN /\ k.makeEscrowAta \in BOOLEAN
      /\ k.owner \in Owners /\ Escrow(k.owner) \in TokenAccounts
  BY AccountFacts DEF Job
<1>2. x1 \in Instructions /\ x3 \in Instructions
  BY <1>1 DEF Instructions
<1>3. <<>> \in Seq(Instructions) /\ t1 = <<>> \o t1 /\ t1 \in Seq(Instructions)
  BY <1>1, <1>2
<1>4. t2 = <<>> /\ t3 = IF k.makeEscrowAta THEN <<x3>> ELSE <<>>
  BY DEF CreateAta
<1>5. PreInstructions(k) = t1 \o t3
  BY <1>3, <1>4, ConcatEmptySeq DEF PreInstructions
<1> HIDE DEF x1, x3, t2, t3
<1>6. r1 = IF k.hasEscrow THEN Start ELSE Execute(Start, x1)
  <2>1. CASE k.hasEscrow
    BY <2>1, RunEmpty
  <2>2. CASE ~k.hasEscrow
    BY <1>2, <2>2, RunOne
  <2>. QED
    BY <1>1, <2>1, <2>2
<1> HIDE DEF t1
<1>7. /\ PreInstructions(k) \in Seq(Instructions)
      /\ r3 = IF k.makeEscrowAta THEN Execute(r1, x3) ELSE r1
  <2>1. /\ t1 \o t3 \in Seq(Instructions)
        /\ Run(Start, t1 \o t3) = IF k.makeEscrowAta THEN Execute(Run(Start, t1), x3)
                                  ELSE Run(Start, t1)
    BY <1>1, <1>2, <1>3, <1>4, RunOptional
  <2>. QED
    BY <1>5, <2>1
<1>8. /\ r1 \in State /\ r1.lp = chain.lp /\ r1.res \in {"ok", "exists"} /\ r1.ata = chain.ata
      /\ r1.res = "ok" => r1.escrow = chain.escrow \cup {k.owner}
      /\ (~k.hasEscrow => k.owner \notin chain.escrow) => r1.res = "ok"
  <2>1. CASE k.hasEscrow
    BY <1>6, <2>1, StartFacts
  <2>2. CASE ~k.hasEscrow
    BY <1>1, <1>6, <2>2, StartFacts, ExecuteCreateEscrow DEF x1
  <2>. QED
    BY <1>1, <2>1, <2>2
<1> HIDE DEF r1, r3
<1>9. /\ r3 \in State /\ r3.lp = chain.lp /\ r3.res \in {"ok", "exists"}
      /\ r3.res = "ok" =>
           /\ chain.escrow \cup {k.owner} = r3.escrow
           /\ chain.ata \cup {Escrow(k.owner)} = r3.ata
      /\ /\ ~k.hasEscrow => k.owner \notin chain.escrow
         /\ k.makeEscrowAta => Escrow(k.owner) \notin chain.ata
         => r3.res = "ok"
  <2>1. CASE k.makeEscrowAta
    <3>1. r3 = Execute(r1, x3)
      BY <1>7, <2>1
    <3>2. /\ r3 \in State /\ r3.lp = r1.lp /\ r3.escrow = r1.escrow
          /\ r1.res # "ok" => r3 = r1
          /\ r1.res = "ok" /\ Escrow(k.owner) \in r1.ata => r3.res = "exists"
          /\ r1.res = "ok" /\ Escrow(k.owner) \notin r1.ata
               => r3.res = "ok" /\ r3.ata = r1.ata \cup {Escrow(k.owner)}
      BY <1>1, <1>8, <3>1, ExecuteCreateAta DEF x3
    <3>. QED
      BY <1>8, <2>1, <3>2
  <2>2. CASE ~k.makeEscrowAta
    BY <1>7, <1>8, <2>2
  <2>. QED
    BY <1>1, <2>1, <2>2
<1>. QED
  BY <1>7, <1>9 DEF r3

\* stakeForFeeInstructions, after instructions that led to a state s: what is left
\* in the payer's account, up to the fee wrapper's part, goes to the fee vault's
\* escrow.
LEMMA StakeRun ==
    ASSUME NEW k \in Job, k.payer \in Users, NEW make \in BOOLEAN, NEW s \in State,
           NEW pre \in Seq(Instructions), Run(Start, pre) = s,
           NEW fee \in Nat, fee = CalculateLockAmounts(k.amount, k.ratio).feeWrapper,
           s.res \in {"ok", "exists"},
           s.res = "ok" => Wallet(k.payer) \in s.ata,
           s.res = "ok" /\ fee > 0 =>
             FeeVault \in s.escrow /\ (~make => Escrow(FeeVault) \in s.ata),
           NEW r, r = Run(Start, pre \o StakeForFee(k, make)),
           NEW m, m = Min({fee, s.lp[Wallet(k.payer)]})
    PROVE  /\ r.res \in {"ok", "exists"}
           /\ r.res = "ok" =>
                /\ s.res = "ok" /\ r \in State /\ s.escrow \subseteq r.escrow /\ s.ata \subseteq r.ata
                /\ r.lp[Wallet(k.payer)] = s.lp[Wallet(k.payer)] - m
                /\ r.lp[Escrow(FeeVault)] = s.lp[Escrow(FeeVault)] + m
                /\ \A a \in TokenAccounts \ {Wallet(k.payer), Escrow(FeeVault)} : r.lp[a] = s.lp[a]
           /\ s.res = "ok" /\ (make /\ fee > 0 => Escrow(FeeVault) \notin s.ata) => r.res = "ok"
<1> DEFINE x1 == [op |-> "createAta", account |-> Escrow(FeeVault)]
           x2 == [op |-> "lock", owner |-> FeeVault, source |-> Wallet(k.payer), amount |-> fee]
           t1 == CreateAta(make, Escrow(FeeVault))
           t2 == <<x2>>
           w == Wallet(k.payer)
           f == Escrow(FeeVault)
           r1 == Run(Start, pre \o t1)
<1>1. /\ w \in TokenAccounts /\ f \in TokenAccounts /\ w # f /\ FeeVault \in Owners
      /\ s.lp \in [TokenAccounts -> Nat] /\ s.lp[w] \in Nat
  BY AccountFacts DEF State
<1>2. CASE fee = 0
  <2>1. StakeForFee(k, make) = <<>> /\ r = s
    BY <1>2, ConcatEmptySeq DEF StakeForFee
  <2>2. m = 0 /\ s.lp[f] \in Nat
    BY <1>1, <1>2, MinFacts
  <2>. QED
    BY <1>1, <2>1, <2>2
<1>3. CASE fee # 0
  <2>1. x1 \in Instructions /\ x2 \in Instructions
    BY <1>1 DEF Instructions
  <2>2. StakeForFee(k, make) = t1 \o t2 /\ t1 = IF make THEN <<x1>> ELSE <<>>
    BY <1>3 DEF StakeForFee, LockIx, CreateAta
  <2>3. t1 \in Seq(Instructions) /\ t2 \in Seq(Instructions)
    BY <2>1, <2>2
  <2>4. pre \o (t1 \o t2) = (pre \o t1) \o t2
    BY <2>3, ConcatAssociative
  <2> HIDE DEF x1, x2, t1
  <2>5. pre \o t1 \in Seq(Instructions) /\ r1 = IF make THEN Execute(s, x1) ELSE s
    <3>1. /\ pre \o t1 \in Seq(Instructions)
          /\ Run(Start, pre \o t1) = IF make THEN Execute(Run(Start, pre), x1) ELSE Run(Start, pre)
      BY ONLY pre \in Seq(Instructions), make \in BOOLEAN, <2>1, <2>2, RunOptional
    <3>. QED
      BY <3>1
  <2>6. r = Execute(r1, x2)
    <3> DEFINE p1 == pre \o t1
    <3>1. p1 \in Seq(Instructions)
      BY <2>5
    <3> HIDE DEF p1
    <3>2. Run(Start, p1 \o <<x2>>) = Execute(Run(Start, p1), x2)
      BY <2>1, <3>1, RunAppend
    <3>. QED
      BY <2>2, <2>4, <3>2 DEF p1
  <2>7. /\ r1 \in State /\ r1.res \in {"ok", "exists"} /\ r1.lp = s.lp /\ r1.escrow = s.escrow
        /\ r1.res = "ok" => s.res = "ok" /\ r1.ata = s.ata \cup {f}
        /\ s.res = "ok" /\ (make => f \notin s.ata) => r1.res = "ok"
    <3>1. CASE make
      <4>1. r1 = Execute(s, x1)
        BY <2>5, <3>1
      <4>2. /\ r1 \in State /\ r1.lp = s.lp /\ r1.escrow = s.escrow
            /\ s.res # "ok" => r1 = s
            /\ s.res = "ok" /\ f \in s.ata => r1.res = "exists"
            /\ s.res = "ok" /\ f \notin s.ata => r1.res = "ok" /\ r1.ata = s.ata \cup {f}
        BY <1>1, <4>1, ExecuteCreateAta DEF x1
      <4>. QED
        BY <3>1, <4>2
    <3>2. CASE ~make
      BY <1>3, <2>5, <3>2
    <3>. QED
      BY <3>1, <3>2
  <2> HIDE DEF r1
  <2>8. r1.res # "ok" => r = r1
    BY <2>6, <2>7 DEF Execute
  <2>9. r1.res = "ok" =>
          /\ r \in State /\ r.res = "ok" /\ r.escrow = r1.escrow /\ r.ata = r1.ata
          /\ r.lp[w] = r1.lp[w] - m
          /\ r.lp[f] = r1.lp[f] + m
          /\ \A a \in TokenAccounts \ {w, f} : r.lp[a] = r1.lp[a]
    <3> SUFFICES ASSUME r1.res = "ok"
                 PROVE  /\ r \in State /\ r.res = "ok" /\ r.escrow = r1.escrow /\ r.ata = r1.ata
                        /\ r.lp[w] = r1.lp[w] - m
                        /\ r.lp[f] = r1.lp[f] + m
                        /\ \A a \in TokenAccounts \ {w, f} : r.lp[a] = r1.lp[a]
      OBVIOUS
    <3>1. FeeVault \in r1.escrow /\ w \in r1.ata /\ f \in r1.ata /\ r1.lp[w] = s.lp[w]
      BY <1>3, <2>7
    <3>2. m = Min({fee, r1.lp[w]})
      BY <3>1
    <3>. QED
      BY <1>1, <2>6, <2>7, <3>1, <3>2, ExecuteLock DEF x2
  <2>. QED
    BY <1>3, <2>7, <2>8, <2>9
<1>. QED
  BY <1>2, <1>3

\* What a call has read when it builds its transaction, in terms of a chain c:
\* accounts it found are there, and (ReadStill) those it did not find are not.
Read(c, k, make) ==
    LET fee == CalculateLockAmounts(k.amount, k.ratio).feeWrapper
    IN  /\ ~k.makeUserAta
        /\ k.hasEscrow => k.owner \in c.escrow
        /\ ~k.makeEscrowAta => Escrow(k.owner) \in c.ata
        /\ fee > 0 => FeeVault \in c.escrow /\ (~make => Escrow(FeeVault) \in c.ata)

ReadStill(c, k, make) ==
    LET fee == CalculateLockAmounts(k.amount, k.ratio).feeWrapper
    IN  /\ ~k.hasEscrow => k.owner \notin c.escrow
        /\ k.makeEscrowAta => Escrow(k.owner) \notin c.ata
        /\ make /\ fee > 0 => Escrow(FeeVault) \notin c.ata

\* The instructions of a lock are instructions.
LEMMA LockInstructionTypes ==
    ASSUME NEW k \in Job, k.owner \in Users, k.payer \in Users, NEW make \in BOOLEAN
    PROVE  /\ StakeForFee(k, make) \in Seq(Instructions)
           /\ LockInstructions(k, make) \in Seq(Instructions)
<1> DEFINE fee == CalculateLockAmounts(k.amount, k.ratio).feeWrapper
           user == CalculateLockAmounts(k.amount, k.ratio).user
           stake == StakeForFee(k, make)
           w == Wallet(k.payer)
           e == <<[op |-> "createLockEscrow", owner |-> k.owner]>>
           a == <<[op |-> "createAta", account |-> w]>>
           b == <<[op |-> "createAta", account |-> Escrow(k.owner)]>>
           c == <<[op |-> "createAta", account |-> Escrow(FeeVault)]>>
           l == <<[op |-> "lock", owner |-> k.owner, source |-> w, amount |-> user]>>
           m == <<[op |-> "lock", owner |-> FeeVault, source |-> w, amount |-> fee]>>
           S == Seq(Instructions)
<1>1. fee \in Nat /\ user \in Nat
  <2>1. k.amount \in Nat /\ k.ratio \in 0..RatioSteps
    BY DEF Job
  <2>. QED
    BY <2>1, LockAmountFacts
<1>2. <<>> \in S /\ e \in S /\ a \in S /\ b \in S /\ c \in S /\ l \in S /\ m \in S
  <2>1. /\ k.owner \in Owners /\ FeeVault \in Owners /\ w \in TokenAccounts
        /\ Escrow(k.owner) \in TokenAccounts /\ Escrow(FeeVault) \in TokenAccounts
    BY AccountFacts
  <2>. QED
    BY <1>1, <2>1 DEF Instructions
<1>3. /\ \E x \in {<<>>, c} : stake \in {<<>>, x \o m}
      /\ \E x \in {<<>>, e}, y \in {<<>>, a}, z \in {<<>>, b} : PreInstructions(k) = (x \o y) \o z
      /\ LockInstructions(k, make) \in {stake, (PreInstructions(k) \o l) \o stake}
  <2>1. CreateAta(make, Escrow(FeeVault)) \in {<<>>, c} /\ CreateAta(k.makeUserAta, w) \in {<<>>, a}
        /\ CreateAta(k.makeEscrowAta, Escrow(k.owner)) \in {<<>>, b}
    BY DEF CreateAta
  <2>2. stake \in {<<>>, CreateAta(make, Escrow(FeeVault)) \o m}
    BY DEF StakeForFee, LockIx
  <2>3. PreInstructions(k) = ((IF k.hasEscrow THEN <<>> ELSE e) \o CreateAta(k.makeUserAta, w))
                               \o CreateAta(k.makeEscrowAta, Escrow(k.owner))
    BY DEF PreInstructions
  <2>4. LockInstructions(k, make) \in {stake, (PreInstructions(k) \o l) \o stake}
    BY DEF LockInstructions, LockIx
  <2> HIDE DEF stake, e, a, b, c, l, m
  <2>. QED
    BY <2>1, <2>2, <2>3, <2>4
<1> HIDE DEF stake, e, a, b, c, l, m
<1>4. stake \in S /\ PreInstructions(k) \in S
  <2>1. PICK x \in {<<>>, c} : stake \in {<<>>, x \o m}
    BY <1>3
  <2>2. PICK xx \in {<<>>, e}, y \in {<<>>, a}, z \in {<<>>, b} : PreInstructions(k) = (xx \o y) \o z
    BY <1>3
  <2>3. x \in S /\ xx \in S /\ y \in S /\ z \in S
    BY <1>2
  <2>4. x \o m \in S /\ xx \o y \in S
    BY ONLY <1>2, <2>3, ConcatProperties
  <2>5. (xx \o y) \o z \in S
    BY ONLY <2>3, <2>4, ConcatProperties
  <2>. QED
    BY ONLY <1>2, <2>1, <2>2, <2>4, <2>5
<1>5. (PreInstructions(k) \o l) \o stake \in S
  BY <1>2, <1>4, ConcatProperties
<1>. QED
  BY <1>3, <1>4, <1>5 DEF stake

\* What a lock that lands does: the payer pays the amount or all it has, and the
\* fee vault's escrow gets its part of that.
LockEffect(k, out) ==
    LET held == chain.lp[Wallet(k.payer)]
        part == (k.amount * k.ratio) \div RatioSteps
    IN  /\ out \in State /\ chain.escrow \subseteq out.escrow /\ chain.ata \subseteq out.ata
        /\ out.lp[Wallet(k.payer)] = held - Min({k.amount, held})
        /\ \A u \in Users \ {k.payer} : out.lp[Wallet(u)] = chain.lp[Wallet(u)]
        /\ out.lp[Escrow(FeeVault)] =
             chain.lp[Escrow(FeeVault)] + Min({part, Max({0, held - (k.amount - part)})})

LEMMA LockOutcome ==
    ASSUME ChainTypes, NEW k \in Job, k.owner \in Users, k.payer \in Users,
           NEW make \in BOOLEAN, Read(chain, k, make), NEW out, out = Outcome(LockInstructions(k, make))
    PROVE  /\ out.res \in {"ok", "exists"}
           /\ out.res = "ok" => LockEffect(k, out)
           /\ ReadStill(chain, k, make) => out.res = "ok"
<1> DEFINE held == chain.lp[Wallet(k.payer)]
           part == (k.amount * k.ratio) \div RatioSteps
<1> SUFFICES
      /\ out.res \in {"ok", "exists"}
      /\ out.res = "ok" =>
           /\ out \in State /\ chain.escrow \subseteq out.escrow /\ chain.ata \subseteq out.ata
           /\ out.lp[Wallet(k.payer)] = held - Min({k.amount, held})
           /\ \A u \in Users \ {k.payer} : out.lp[Wallet(u)] = chain.lp[Wallet(u)]
           /\ out.lp[Escrow(FeeVault)] =
                chain.lp[Escrow(FeeVault)] + Min({part, Max({0, held - (k.amount - part)})})
      /\ ReadStill(chain, k, make) => out.res = "ok"
  BY DEF LockEffect
<1>held. held = chain.lp[Wallet(k.payer)]
  OBVIOUS
<1>part. part = (k.amount * k.ratio) \div RatioSteps
  OBVIOUS
<1> HIDE DEF held, part
<1> USE <1>held, <1>part
<1> DEFINE fee == CalculateLockAmounts(k.amount, k.ratio).feeWrapper
           user == CalculateLockAmounts(k.amount, k.ratio).user
           w == Wallet(k.payer)
           f == Escrow(FeeVault)
<1>1. /\ fee = part /\ user = k.amount - part /\ part \in Nat /\ user \in Nat /\ fee \in Nat
      /\ k.amount \in Nat
  <2>1. k.amount \in Nat /\ k.ratio \in 0..RatioSteps
    BY DEF Job
  <2>. QED
    BY <2>1, LockAmountFacts
<1>2. out = Run(Start, LockInstructions(k, make))
  BY DEF Outcome, Start
<1>3. /\ w \in TokenAccounts /\ f \in TokenAccounts /\ w # f /\ w \in chain.ata /\ held \in Nat
      /\ k.owner \in Owners /\ Escrow(k.owner) \in TokenAccounts /\ Escrow(k.owner) # f
      /\ w # Escrow(k.owner) /\ chain.lp[f] \in Nat
      /\ \A u \in Users \ {k.payer} : Wallet(u) \in TokenAccounts \ {w, f, Escrow(k.owner)}
  BY AccountFacts DEF ChainTypes
<1>4. CASE user = 0
  <2>1. LockInstructions(k, make) = StakeForFee(k, make)
    BY <1>4 DEF LockInstructions
  <2> DEFINE none == <<>>
  <2>2. /\ none \in Seq(Instructions) /\ Run(Start, none) = Start
    BY RunEmpty
  <2>3. none \o StakeForFee(k, make) = StakeForFee(k, make)
    <3>1. StakeForFee(k, make) \in Seq(Instructions)
      BY LockInstructionTypes
    <3>. QED
      BY <3>1, ConcatEmptySeq
  <2> HIDE DEF none
  <2>4. out = Run(Start, none \o StakeForFee(k, make))
    BY <1>2, <2>1, <2>3
  <2> DEFINE m == Min({fee, held})
  <2>5. /\ out.res \in {"ok", "exists"}
        /\ out.res = "ok" =>
             /\ out \in State /\ chain.escrow \subseteq out.escrow /\ chain.ata \subseteq out.ata
             /\ out.lp[w] = held - m /\ out.lp[f] = chain.lp[f] + m
             /\ \A a \in TokenAccounts \ {w, f} : out.lp[a] = chain.lp[a]
        /\ (make /\ fee > 0 => f \notin chain.ata) => out.res = "ok"
    <3>1. fee > 0 => FeeVault \in chain.escrow /\ (~make => f \in chain.ata)
      BY DEF Read
    <3>2. m = Min({fee, Start.lp[w]}) /\ Start \in State /\ Start.res = "ok"
          /\ Start.escrow = chain.escrow /\ Start.ata = chain.ata /\ Start.lp = chain.lp
      BY StartFacts
    <3>3. fee = CalculateLockAmounts(k.amount, k.ratio).feeWrapper
      OBVIOUS
    <3> HIDE DEF fee, m
    <3>. QED
      <4> DEFINE st == Start
      <4>1. /\ m = Min({fee, st.lp[w]}) /\ st \in State /\ st.res = "ok"
            /\ st.escrow = chain.escrow /\ st.ata = chain.ata /\ st.lp = chain.lp
            /\ Run(Start, none) = st
        BY <2>2, <3>2
      <4>2. w \in chain.ata /\ chain.lp[w] = held
        BY <1>3
      <4> HIDE DEF st
      <4>3. /\ out.res \in {"ok", "exists"}
            /\ out.res = "ok" =>
                 /\ st.res = "ok" /\ out \in State /\ st.escrow \subseteq out.escrow
                 /\ st.ata \subseteq out.ata
                 /\ out.lp[w] = st.lp[w] - m /\ out.lp[f] = st.lp[f] + m
                 /\ \A a \in TokenAccounts \ {w, f} : out.lp[a] = st.lp[a]
            /\ st.res = "ok" /\ (make /\ fee > 0 => f \notin st.ata) => out.res = "ok"
        BY ONLY ChainTypes, k \in Job, k.payer \in Users, make \in BOOLEAN, <1>1, <2>2, <2>4,
                <3>1, <3>3, <4>1, <4>2, StakeRun
      <4>. QED
        BY <4>1, <4>2, <4>3
  <2>6. m = Min({k.amount, held}) /\ m = Min({part, Max({0, held - (k.amount - part)})})
    <3>1. fee = k.amount /\ held - (k.amount - part) = held /\ Max({0, held}) = held
      BY <1>1, <1>3, <1>4, MaxZero
    <3>. QED
      BY <1>1, <3>1
  <2> HIDE DEF m
  <2>. QED
    BY <1>3, <2>5, <2>6 DEF ReadStill
<1>5. CASE user # 0
  <2> DEFINE pre == PreInstructions(k)
             x == [op |-> "lock", owner |-> k.owner, source |-> w, amount |-> user]
             both == pre \o <<x>>
             r == Run(Start, pre)
             s == Run(Start, both)
             n == Min({user, held})
             m == Min({fee, s.lp[w]})
  <2>1. /\ pre \in Seq(Instructions) /\ r \in State /\ r.lp = chain.lp /\ r.res \in {"ok", "exists"}
        /\ r.res = "ok" =>
             /\ chain.escrow \cup {k.owner} = r.escrow
             /\ chain.ata \cup {Escrow(k.owner)} = r.ata
        /\ /\ ~k.hasEscrow => k.owner \notin chain.escrow
           /\ k.makeEscrowAta => Escrow(k.owner) \notin chain.ata
           => r.res = "ok"
    BY PreRun DEF Read
  <2>2. LockInstructions(k, make) = both \o StakeForFee(k, make)
    BY <1>5 DEF LockInstructions, LockIx
  <2>3. x \in Instructions
    BY <1>1, <1>3 DEF Instructions
  <2> HIDE DEF pre, x, r
  <2>4. both \in Seq(Instructions) /\ s = Execute(r, x)
    BY <2>1, <2>3, RunAppend DEF r
  <2> HIDE DEF both, s, n
  <2>5. /\ r.res # "ok" => s = r
        /\ r.res = "ok" =>
             /\ s \in State /\ s.res = "ok" /\ s.escrow = r.escrow /\ s.ata = r.ata /\ n \in Nat
             /\ s.lp[w] = held - n /\ s.lp[f] = chain.lp[f]
             /\ \A u \in Users \ {k.payer} : s.lp[Wallet(u)] = chain.lp[Wallet(u)]
    <3>1. n = Min({user, r.lp[w]})
      BY <2>1 DEF n
    <3>2. /\ r.res # "ok" => s = r
          /\ r.res = "ok" /\ k.owner \in r.escrow /\ w \in r.ata /\ Escrow(k.owner) \in r.ata =>
               /\ s \in State /\ s.res = "ok" /\ s.escrow = r.escrow /\ s.ata = r.ata /\ n \in Nat
               /\ s.lp[w] = r.lp[w] - n
               /\ \A a \in TokenAccounts \ {w, Escrow(k.owner)} : s.lp[a] = r.lp[a]
      <4>1. s = Execute(r, [op |-> "lock", owner |-> k.owner, source |-> Wallet(k.payer),
                            amount |-> user])
        BY <2>4 DEF x
      <4> HIDE DEF user
      <4>. QED
        BY <1>1, <1>3, <2>1, <3>1, <4>1, ExecuteLock
    <3>. QED
      BY <1>3, <2>1, <3>2
  <2>6. s \in State /\ s.res \in {"ok", "exists"}
    BY <2>1, <2>5
  <2>7. out = Run(Start, both \o StakeForFee(k, make))
    BY <1>2, <2>2
  <2>8. /\ s.res = "ok" => w \in s.ata /\ s.escrow = chain.escrow \cup {k.owner}
                           /\ s.ata = chain.ata \cup {Escrow(k.owner)}
        /\ s.res = "ok" /\ fee > 0 => FeeVault \in s.escrow /\ (~make => f \in s.ata)
    BY <1>3, <2>1, <2>5 DEF Read
  <2> HIDE DEF m
  <2>9. /\ out.res \in {"ok", "exists"}
        /\ out.res = "ok" =>
             /\ s.res = "ok" /\ out \in State /\ s.escrow \subseteq out.escrow /\ s.ata \subseteq out.ata
             /\ out.lp[w] = s.lp[w] - m /\ out.lp[f] = s.lp[f] + m
             /\ \A a \in TokenAccounts \ {w, f} : out.lp[a] = s.lp[a]
        /\ s.res = "ok" /\ (make /\ fee > 0 => f \notin s.ata) => out.res = "ok"
    <3>1. fee = CalculateLockAmounts(k.amount, k.ratio).feeWrapper
          /\ Run(Start, both) = s /\ m = Min({fee, s.lp[w]})
      BY DEF s, m
    <3> HIDE DEF fee
    <3>. QED
      BY ONLY ChainTypes, k \in Job, k.payer \in Users, make \in BOOLEAN, <1>1, <2>4, <2>6, <2>7,
              <2>8, <3>1, StakeRun
  <2>10. ReadStill(chain, k, make) => out.res = "ok"
    BY <1>3, <2>1, <2>5, <2>8, <2>9 DEF ReadStill
  <2>11. ASSUME out.res = "ok"
         PROVE  /\ out \in State /\ chain.escrow \subseteq out.escrow /\ chain.ata \subseteq out.ata
                /\ out.lp[w] = held - Min({k.amount, held})
                /\ \A u \in Users \ {k.payer} : out.lp[Wallet(u)] = chain.lp[Wallet(u)]
                /\ out.lp[f] = chain.lp[f] + Min({part, Max({0, held - (k.amount - part)})})
    <3>1. r.res = "ok" /\ s.res = "ok"
      BY <2>1, <2>5, <2>9, <2>11
    <3>2. n = (IF user <= held THEN user ELSE held) /\ s.lp[w] = held - n
      BY <1>1, <1>3, <2>5, <3>1, MinFacts DEF n
    <3>3. held - n \in Nat
      BY <1>1, <1>3, <3>2
    <3>4. m = IF fee <= held - n THEN fee ELSE held - n
      BY <1>1, <3>2, <3>3, MinFacts DEF m
    <3>5. Min({k.amount, held}) = IF k.amount <= held THEN k.amount ELSE held
      BY <1>1, <1>3, MinFacts
    <3>6. Max({0, held - user}) = IF 0 <= held - user THEN held - user ELSE 0
      BY <1>1, <1>3, MaxZero
    <3>7. Min({part, Max({0, held - user})}) = m
      <4>1. Max({0, held - user}) \in Int
        BY <1>1, <1>3, <3>6
      <4>2. Max({0, held - user}) = held - n
        BY <1>1, <1>3, <3>2, <3>6
      <4>. QED
        BY <1>1, <3>2, <4>2 DEF m
    <3>8. held - n - m = held - Min({k.amount, held})
      BY <1>1, <1>3, <3>2, <3>4, <3>5
    <3>9. \A u \in Users \ {k.payer} : out.lp[Wallet(u)] = chain.lp[Wallet(u)]
      BY <1>3, <2>5, <2>9, <2>11, <3>1
    <3>. QED
      BY <1>1, <2>5, <2>8, <2>9, <2>11, <3>1, <3>2, <3>7, <3>8, <3>9
  <2>. QED
    BY <2>9, <2>10, <2>11
<1>. QED
  BY <1>4, <1>5

\* A move creates at most an account, and leaves the wallets and the fee vault's
\* escrow as they are.
LEMMA MoveOutcome ==
    ASSUME ChainTypes, NEW o \in Users, NEW p \in Users \ {o}, NEW n \in Nat, NEW make \in BOOLEAN,
           NEW ixs, ixs = MoveInstructions(o, p, n, make), NEW out, out = Outcome(ixs)
    PROVE  /\ ixs \in Seq(Instructions)
           /\ out \in State
           /\ chain.escrow \subseteq out.escrow /\ chain.ata \subseteq out.ata
           /\ \A u \in Users : out.lp[Wallet(u)] = chain.lp[Wallet(u)]
           /\ out.lp[Escrow(FeeVault)] = chain.lp[Escrow(FeeVault)]
<1> DEFINE x1 == [op |-> "createAta", account |-> Escrow(p)]
           x2 == [op |-> "moveLockedLp", from |-> o, to |-> p, amount |-> n]
           t1 == CreateAta(make, Escrow(p))
           r1 == Run(Start, t1)
<1>1. /\ o \in Owners /\ p \in Owners \ {o} /\ Escrow(p) \in TokenAccounts
      /\ Escrow(FeeVault) \in TokenAccounts \ {Escrow(o), Escrow(p)}
      /\ \A u \in Users : Wallet(u) \in TokenAccounts \ {Escrow(o), Escrow(p)}
  BY AccountFacts
<1>2. x1 \in Instructions /\ x2 \in Instructions
  BY <1>1 DEF Instructions
<1>3. t1 = (IF make THEN <<x1>> ELSE <<>>) /\ ixs = t1 \o <<x2>>
  BY DEF CreateAta, MoveInstructions
<1>4. out = Run(Start, ixs)
  BY DEF Outcome, Start
<1> HIDE DEF x1, x2, t1
<1>5. /\ t1 \in Seq(Instructions) /\ r1 = IF make THEN Execute(Start, x1) ELSE Start
  <2>1. CASE make
    <3>1. t1 = <<x1>>
      BY <1>3, <2>1
    <3>2. Run(Start, <<x1>>) = Execute(Start, x1)
      BY <1>2, RunOne
    <3>3. <<x1>> \in Seq(Instructions)
      BY <1>2
    <3>. QED
      BY <2>1, <3>1, <3>2, <3>3
  <2>2. CASE ~make
    BY <1>3, <2>2, RunEmpty
  <2>. QED
    BY <2>1, <2>2
<1>6. ixs \in Seq(Instructions) /\ out = Execute(r1, x2)
  <2>1. Run(Start, t1 \o <<x2>>) = Execute(r1, x2)
    BY <1>2, <1>5, RunAppend
  <2>2. t1 \o <<x2>> \in Seq(Instructions)
    BY <1>2, <1>5
  <2>. QED
    BY <1>3, <1>4, <2>1, <2>2
<1>7. /\ r1 \in State /\ r1.lp = chain.lp /\ r1.escrow = chain.escrow /\ chain.ata \subseteq r1.ata
  <2>1. CASE make
    <3>1. /\ r1 \in State /\ r1.lp = Start.lp /\ r1.escrow = Start.escrow
          /\ Start.res = "ok" /\ Escrow(p) \notin Start.ata => r1.ata = Start.ata \cup {Escrow(p)}
      BY <1>1, <1>5, <2>1, StartFacts, ExecuteCreateAta DEF x1
    <3>2. Escrow(p) \in Start.ata => r1 = [Start EXCEPT !.res = "exists"]
      <4>1. x1.op = "createAta" /\ x1.account = Escrow(p) /\ Start.res = "ok"
        BY StartFacts DEF x1
      <4>. QED
        BY <1>5, <2>1, <4>1 DEF Execute
    <3>3. Escrow(p) \in Start.ata => r1.ata = Start.ata
      BY <3>2, StartFacts DEF State
    <3>. QED
      BY <3>1, <3>3, StartFacts
  <2>2. CASE ~make
    BY <1>5, <2>2, StartFacts
  <2>. QED
    BY <2>1, <2>2
<1> HIDE DEF r1
<1>8. /\ out \in State /\ out.escrow = r1.escrow /\ out.ata = r1.ata
      /\ \A a \in TokenAccounts \ {Escrow(o), Escrow(p)} : out.lp[a] = r1.lp[a]
  BY <1>1, <1>6, <1>7, ExecuteMove DEF x2
<1>. QED
  BY <1>1, <1>6, <1>7, <1>8

-----------------------------------------------------------------------------
(* Sums over the calls                                                     *)

LEMMA TotalDefined ==
    ASSUME NEW f
    PROVE  \A n \in Nat : \E g : g = [i \in 0..n |-> IF i = 0 THEN 0 ELSE g[i - 1] + f[i]]
<1> DEFINE P(n) == \E g : g = [i \in 0..n |-> IF i = 0 THEN 0 ELSE g[i - 1] + f[i]]
           S == {n \in Nat : P(n)}
<1>1. 0 \in S
  <2> DEFINE g == [i \in 0..0 |-> 0]
  <2>1. g = [i \in 0..0 |-> IF i = 0 THEN 0 ELSE g[i - 1] + f[i]]
    OBVIOUS
  <2>. QED
    BY <2>1
<1>2. ASSUME NEW n \in Nat, n \in S PROVE n + 1 \in S
  <2>1. PICK g : g = [i \in 0..n |-> IF i = 0 THEN 0 ELSE g[i - 1] + f[i]]
    BY <1>2
  <2> DEFINE h == [i \in 0..(n + 1) |-> IF i = n + 1 THEN g[n] + f[n + 1] ELSE g[i]]
  <2>2. ASSUME NEW i \in 0..(n + 1)
        PROVE  h[i] = IF i = 0 THEN 0 ELSE h[i - 1] + f[i]
    <3>1. CASE i = 0
      BY <2>1, <3>1
    <3>2. CASE i = n + 1
      <4>1. h[i] = g[n] + f[n + 1] /\ i - 1 = n /\ i # 0 /\ n \in 0..(n + 1) /\ n # n + 1
        BY <3>2
      <4>2. h[n] = g[n]
        BY <4>1
      <4>. QED
        BY <3>2, <4>1, <4>2
    <3>3. CASE i # 0 /\ i # n + 1
      <4>1. i \in 0..n /\ i - 1 \in 0..n /\ i - 1 \in 0..(n + 1) /\ i - 1 # n + 1
        BY <3>3
      <4>2. h[i] = g[i] /\ h[i - 1] = g[i - 1]
        BY <3>3, <4>1
      <4>3. g[i] = g[i - 1] + f[i]
        BY <2>1, <3>3, <4>1
      <4>. QED
        BY <3>3, <4>2, <4>3
    <3>. QED
      BY <3>1, <3>2, <3>3
  <2> HIDE DEF h
  <2>3. h = [i \in 0..(n + 1) |-> h[i]]
    BY DEF h
  <2>4. h = [i \in 0..(n + 1) |-> IF i = 0 THEN 0 ELSE h[i - 1] + f[i]]
    BY <2>2, <2>3
  <2>. QED
    BY <2>4
<1> HIDE DEF S
<1>3. Nat \subseteq S
  BY <1>1, <1>2, SetInduction
<1>. QED
  BY <1>3 DEF S

LEMMA TotalSteps ==
    ASSUME NEW f
    PROVE  \E g : /\ g = [i \in 0..MaxJobs |-> IF i = 0 THEN 0 ELSE g[i - 1] + f[i]]
                  /\ Total(f) = g[MaxJobs]
<1> DEFINE g == CHOOSE g : g = [i \in 0..MaxJobs |-> IF i = 0 THEN 0 ELSE g[i - 1] + f[i]]
<1>1. g = [i \in 0..MaxJobs |-> IF i = 0 THEN 0 ELSE g[i - 1] + f[i]]
  BY TotalDefined, LockConstants
<1>2. Total(f) = g[MaxJobs]
  BY DEF Total
<1>. QED
  BY <1>1, <1>2

\* Functions that differ for one call have sums that differ as much.
LEMMA TotalChange ==
    ASSUME NEW f \in [Jobs -> Int], NEW h \in [Jobs -> Int], NEW j \in Jobs,
           \A i \in Jobs \ {j} : h[i] = f[i]
    PROVE  Total(f) \in Int /\ Total(h) = Total(f) + (h[j] - f[j])
<1>1. PICK a : /\ a = [i \in 0..MaxJobs |-> IF i = 0 THEN 0 ELSE a[i - 1] + f[i]]
               /\ Total(f) = a[MaxJobs]
  BY TotalSteps
<1>2. PICK b : /\ b = [i \in 0..MaxJobs |-> IF i = 0 THEN 0 ELSE b[i - 1] + h[i]]
               /\ Total(h) = b[MaxJobs]
  BY TotalSteps
<1> DEFINE d(n) == IF n < j THEN 0 ELSE h[j] - f[j]
           S == {n \in Nat : n <= MaxJobs => a[n] \in Int /\ b[n] = a[n] + d(n)}
<1>3. MaxJobs \in Nat /\ j \in 1..MaxJobs /\ h[j] \in Int /\ f[j] \in Int
  BY LockConstants DEF Jobs
<1>4. 0 \in S
  BY <1>1, <1>2, <1>3
<1>5. ASSUME NEW n \in Nat, n \in S PROVE n + 1 \in S
  <2> SUFFICES ASSUME n + 1 <= MaxJobs PROVE a[n + 1] \in Int /\ b[n + 1] = a[n + 1] + d(n + 1)
    OBVIOUS
  <2>1. n + 1 \in 0..MaxJobs /\ n + 1 # 0 /\ (n + 1) - 1 = n /\ n + 1 \in Jobs /\ n <= MaxJobs
    BY <1>3 DEF Jobs
  <2>2. /\ a[n + 1] = a[n] + f[n + 1] /\ b[n + 1] = b[n] + h[n + 1]
        /\ f[n + 1] \in Int /\ h[n + 1] \in Int
    BY <1>1, <1>2, <2>1
  <2>3. a[n] \in Int /\ b[n] = a[n] + d(n)
    BY <1>5, <2>1
  <2>4. CASE n + 1 = j
    BY <1>3, <2>2, <2>3, <2>4
  <2>5. CASE n + 1 # j
    <3>1. h[n + 1] = f[n + 1] /\ d(n + 1) = d(n)
      BY <1>3, <2>1, <2>5
    <3>. QED
      BY <1>3, <2>2, <2>3, <3>1
  <2>. QED
    BY <2>4, <2>5
<1> HIDE DEF S
<1>6. MaxJobs \in S
  BY <1>3, <1>4, <1>5, SetInduction
<1>. QED
  BY <1>1, <1>2, <1>3, <1>6 DEF S

LEMMA TotalZero ==
    ASSUME NEW f, \A i \in Jobs : f[i] = 0
    PROVE  Total(f) = 0
<1>1. PICK a : /\ a = [i \in 0..MaxJobs |-> IF i = 0 THEN 0 ELSE a[i - 1] + f[i]]
               /\ Total(f) = a[MaxJobs]
  BY TotalSteps
<1> DEFINE S == {n \in Nat : n <= MaxJobs => a[n] = 0}
<1>2. MaxJobs \in Nat
  BY LockConstants
<1>3. 0 \in S
  BY <1>1, <1>2
<1>4. ASSUME NEW n \in Nat, n \in S PROVE n + 1 \in S
  <2> SUFFICES ASSUME n + 1 <= MaxJobs PROVE a[n + 1] = 0
    OBVIOUS
  <2>1. n + 1 \in 0..MaxJobs /\ n + 1 # 0 /\ (n + 1) - 1 = n /\ n + 1 \in Jobs /\ n <= MaxJobs
    BY <1>2 DEF Jobs
  <2>2. a[n + 1] = a[n] + f[n + 1] /\ f[n + 1] = 0
    BY <1>1, <2>1
  <2>. QED
    BY <1>4, <2>1, <2>2
<1> HIDE DEF S
<1>5. MaxJobs \in S
  BY <1>2, <1>3, <1>4, SetInduction
<1>. QED
  BY <1>1, <1>2, <1>5 DEF S

-----------------------------------------------------------------------------
(* The inductive invariant                                                 *)

\* What a lock has read holds of the chain as long as it is under way, and the
\* transaction it built is the one its reads call for; the negative answers hold
\* as long as nothing else has landed.
LockOk(c, k) ==
    /\ k.pc # "missing"
    /\ k.pc = "exists" => ~k.quiet
    /\ InFlight(k) =>
         /\ k.hasEscrow => k.owner \in c.escrow
         /\ k.quiet /\ ~k.hasEscrow => k.owner \notin c.escrow
    /\ k.pc = "atasRead" =>
         /\ ~k.makeUserAta
         /\ ~k.makeEscrowAta => Escrow(k.owner) \in c.ata
         /\ k.quiet /\ k.makeEscrowAta => Escrow(k.owner) \notin c.ata
    /\ k.pc = "built" =>
         \E make \in BOOLEAN : /\ k.ixs = LockInstructions(k, make)
                               /\ Read(c, k, make)
                               /\ k.quiet => ReadStill(c, k, make)

MoveOk(k) ==
    /\ k.pc \notin {"escrowRead", "atasRead"}
    /\ k.pc = "built" =>
         \E n \in Users \ {k.owner}, make \in BOOLEAN :
             k.ixs = MoveInstructions(k.owner, n, k.amount, make)

CallOk(c, k) ==
    /\ k.pc # "unused" => k.kind \in {"lock", "move"} /\ k.owner \in Users /\ k.payer \in Users
    /\ k.kind = "lock" => LockOk(c, k)
    /\ k.kind = "move" => MoveOk(k)

Types == ChainTypes /\ job \in [Jobs -> Job]
Calls == \A j \in Jobs : CallOk(chain, job[j])
Inv   == Types /\ Calls /\ LockedAsAsked

\* What a call built or read does not depend on its progress.
LEMMA SameReads ==
    ASSUME NEW c, NEW k, NEW l, NEW make,
           /\ l.owner = k.owner /\ l.payer = k.payer /\ l.amount = k.amount /\ l.ratio = k.ratio
           /\ l.hasEscrow = k.hasEscrow /\ l.makeEscrowAta = k.makeEscrowAta
           /\ l.makeUserAta = k.makeUserAta
    PROVE  /\ LockInstructions(l, make) = LockInstructions(k, make)
           /\ Read(c, l, make) <=> Read(c, k, make)
           /\ ReadStill(c, l, make) <=> ReadStill(c, k, make)
BY DEF LockInstructions, StakeForFee, PreInstructions, Read, ReadStill

\* A call stays right when another transaction lands, which only adds accounts.
LEMMA CallDisturbed ==
    ASSUME NEW c, NEW d, NEW k \in Job, CallOk(c, k), c.escrow \subseteq d.escrow, c.ata \subseteq d.ata,
           NEW l, l = IF InFlight(k) THEN [k EXCEPT !.quiet = FALSE] ELSE k
    PROVE  /\ CallOk(d, l) /\ l \in Job
           /\ l.pc = k.pc /\ l.kind = k.kind /\ l.payer = k.payer /\ l.amount = k.amount
           /\ l.ratio = k.ratio /\ l.held = k.held
<1>1. /\ l \in Job /\ l.pc = k.pc /\ l.kind = k.kind /\ l.owner = k.owner /\ l.payer = k.payer
      /\ l.amount = k.amount /\ l.ratio = k.ratio /\ l.hasEscrow = k.hasEscrow
      /\ l.makeEscrowAta = k.makeEscrowAta /\ l.makeUserAta = k.makeUserAta
      /\ l.ixs = k.ixs /\ l.held = k.held
      /\ InFlight(k) => ~l.quiet
      /\ ~InFlight(k) => l.quiet = k.quiet
  BY DEF Job
<1>2. ASSUME k.kind = "lock" PROVE LockOk(d, l)
  <2>1. LockOk(c, k)
    BY <1>2 DEF CallOk
  <2>2. /\ l.pc # "missing" /\ (l.pc = "exists" => ~l.quiet)
        /\ InFlight(l) => ~l.quiet /\ (l.hasEscrow => l.owner \in d.escrow)
        /\ l.pc = "atasRead" => ~l.makeUserAta /\ (~l.makeEscrowAta => Escrow(l.owner) \in d.ata)
    BY <1>1, <2>1 DEF LockOk, InFlight
  <2>3. ASSUME l.pc = "built"
        PROVE  \E make \in BOOLEAN : l.ixs = LockInstructions(l, make) /\ Read(d, l, make)
    <3>1. PICK make \in BOOLEAN : k.ixs = LockInstructions(k, make) /\ Read(c, k, make)
      BY <1>1, <2>1, <2>3 DEF LockOk
    <3>2. LockInstructions(l, make) = LockInstructions(k, make) /\ (Read(d, l, make) <=> Read(d, k, make))
      BY <1>1, SameReads
    <3>3. Read(d, k, make)
      BY <3>1 DEF Read
    <3>. QED
      BY <1>1, <3>1, <3>2, <3>3
  <2>. QED
    BY <2>2, <2>3 DEF LockOk, InFlight
<1>3. ASSUME k.kind = "move" PROVE MoveOk(l)
  BY <1>1, <1>3 DEF CallOk, MoveOk
<1>. QED
  BY <1>1, <1>2, <1>3 DEF CallOk

\* A call that has ended is right if it did not end in a failure it must not have.
LEMMA CallEnds ==
    ASSUME NEW c, NEW d, NEW k, CallOk(c, k), k.pc # "unused", NEW l,
           l.kind = k.kind, l.owner = k.owner, l.payer = k.payer, l.quiet = k.quiet,
           l.pc \in {"thrown", "landed", "expired", "exists", "missing"},
           l.pc = "missing" => k.kind = "move",
           l.pc = "exists" => k.kind = "move" \/ ~k.quiet
    PROVE  CallOk(d, l)
BY DEF CallOk, LockOk, MoveOk, InFlight

\* The landed locks, and what is recorded of them, decide the sums.
LEMMA SumsSame ==
    ASSUME Types, Types', LockedAsAsked,
           \A u \in Users : chain.lp[Wallet(u)]' = chain.lp[Wallet(u)],
           chain.lp[Escrow(FeeVault)]' = chain.lp[Escrow(FeeVault)],
           \A i \in Jobs : i \in Landed' <=> i \in Landed,
           \A i \in Landed : /\ job'[i].payer = job[i].payer /\ job'[i].amount = job[i].amount
                             /\ job'[i].ratio = job[i].ratio /\ job'[i].held = job[i].held
    PROVE  LockedAsAsked'
<1>1. \A u \in Users : PaidBy(u)' = PaidBy(u)
  BY DEF PaidBy
<1>2. FeeParts' = FeeParts
  <2>1. \A i \in Landed : FeePart(job'[i]) = FeePart(job[i])
    BY DEF FeePart
  <2>. QED
    BY <2>1 DEF FeeParts
<1>. QED
  BY <1>1, <1>2 DEF LockedAsAsked

\* A step of one call that leaves the chain alone and lands nothing.
LEMMA CallStep ==
    ASSUME Inv, NEW j \in Jobs, NEW l \in Job, CallOk(chain, l), job[j].pc # "landed", l.pc # "landed",
           job' = [job EXCEPT ![j] = l], UNCHANGED chain
    PROVE  Inv'
<1>1. job \in [Jobs -> Job] /\ ChainTypes
  BY DEF Inv, Types
<1>2. /\ job' \in [Jobs -> Job] /\ job'[j] = l /\ \A i \in Jobs \ {j} : job'[i] = job[i]
  BY <1>1
<1>3. Types'
  BY <1>1, <1>2 DEF Types, ChainTypes
<1>4. Calls'
  <2> SUFFICES ASSUME NEW i \in Jobs PROVE CallOk(chain', job'[i])
    BY DEF Calls
  <2>1. CASE i = j
    BY <1>2, <2>1
  <2>2. CASE i # j
    BY <1>2, <2>2 DEF Inv, Calls
  <2>. QED
    BY <2>1, <2>2
<1>5. LockedAsAsked'
  <2>1. \A i \in Jobs : i \in Landed' <=> i \in Landed
    BY <1>2 DEF Landed
  <2>2. \A i \in Landed : job'[i] = job[i]
    BY <1>2 DEF Landed
  <2>. QED
    BY <1>3, <2>1, <2>2, SumsSame DEF Inv
<1>. QED
  BY <1>3, <1>4, <1>5 DEF Inv

LEMMA NoJobFacts == NoJob \in Job
<1>1. <<>> \in Seq(Instructions) /\ FeeVault \in Owners /\ 0 \in 0..RatioSteps /\ 0 \in Nat
  BY AccountFacts, LockConstants
<1>. QED
  BY <1>1 DEF NoJob, Job

LEMMA LockLiquidityKeeps ==
    ASSUME Inv, NEW j \in Jobs, NEW o \in Users, NEW p \in Users, NEW a \in Amounts,
           NEW r \in 0..RatioSteps, LockLiquidity(j, o, p, a, r)
    PROVE  Inv'
<1> DEFINE has == o \in chain.escrow
           l == [NoJob EXCEPT !.pc = "escrowRead", !.kind = "lock", !.owner = o,
                              !.payer = p, !.amount = a, !.ratio = r,
                              !.hasEscrow = has]
<1>1. job[j].pc = "unused" /\ job' = [job EXCEPT ![j] = l] /\ UNCHANGED chain
  BY DEF LockLiquidity
<1>2. NoJob \in Job
  BY NoJobFacts
<1>3. o \in Owners /\ p \in Owners /\ a \in Nat /\ has \in BOOLEAN
  BY LockConstants DEF Owners
<1> HIDE DEF has
<1>4. /\ l \in Job /\ l.pc = "escrowRead" /\ l.kind = "lock" /\ l.owner = o /\ l.payer = p
      /\ l.hasEscrow = has
  BY ONLY <1>2, <1>3, r \in 0..RatioSteps DEF Job
<1> HIDE DEF l
<1>5. CallOk(chain, l)
  BY <1>4 DEF CallOk, LockOk, has
<1>. QED
  BY <1>1, <1>4, <1>5, CallStep

LEMMA ReadAtasKeeps ==
    ASSUME Inv, NEW j \in Jobs, ReadAtas(j)
    PROVE  Inv'
<1> DEFINE k == job[j]
           l == [k EXCEPT !.pc = "atasRead", !.makeEscrowAta = Escrow(k.owner) \notin chain.ata,
                          !.makeUserAta = Wallet(k.payer) \notin chain.ata]
<1>1. k.pc = "escrowRead" /\ job' = [job EXCEPT ![j] = l] /\ UNCHANGED chain
  BY DEF ReadAtas
<1>2. k \in Job /\ CallOk(chain, k) /\ ChainTypes
  BY DEF Inv, Types, Calls
<1> HIDE DEF k
<1>3. k.kind = "lock" /\ k.payer \in Users /\ k.owner \in Users /\ LockOk(chain, k)
  BY <1>1, <1>2 DEF CallOk, MoveOk
<1>4. /\ l \in Job /\ l.pc = "atasRead" /\ l.kind = "lock" /\ l.owner = k.owner /\ l.payer = k.payer
      /\ l.makeEscrowAta = (Escrow(k.owner) \notin chain.ata)
      /\ l.makeUserAta = (Wallet(k.payer) \notin chain.ata)
      /\ l.hasEscrow = k.hasEscrow /\ l.quiet = k.quiet
  BY <1>2, <1>3 DEF Job
<1> HIDE DEF l
<1>5. CallOk(chain, l)
  BY <1>1, <1>2, <1>3, <1>4 DEF CallOk, LockOk, InFlight, ChainTypes
<1>. QED
  BY <1>1, <1>4, <1>5, CallStep DEF k

LEMMA BuildLockKeeps ==
    ASSUME Inv, NEW j \in Jobs, BuildLock(j)
    PROVE  Inv'
<1> DEFINE k == job[j]
           fee == CalculateLockAmounts(k.amount, k.ratio).feeWrapper
           make == Escrow(FeeVault) \notin chain.ata
<1>1. k.pc = "atasRead" /\ UNCHANGED chain
  BY DEF BuildLock
<1>2. k \in Job /\ CallOk(chain, k) /\ ChainTypes
  BY DEF Inv, Types, Calls
<1>3. k.kind = "lock" /\ k.payer \in Users /\ k.owner \in Users /\ LockOk(chain, k)
  BY <1>1, <1>2 DEF CallOk, MoveOk
<1>4. CASE fee > 0 /\ FeeVault \notin chain.escrow
  <2> DEFINE l == [k EXCEPT !.pc = "thrown"]
  <2>1. job' = [job EXCEPT ![j] = l]
    BY <1>4 DEF BuildLock
  <2> HIDE DEF k
  <2>2. l \in Job /\ l.pc = "thrown" /\ l.kind = "lock" /\ l.owner = k.owner /\ l.payer = k.payer
    BY <1>2, <1>3 DEF Job
  <2> HIDE DEF l
  <2>3. CallOk(chain, l)
    BY <1>3, <2>2 DEF CallOk, LockOk, InFlight
  <2>. QED
    BY <1>1, <2>1, <2>2, <2>3, CallStep DEF k
<1>5. CASE ~(fee > 0 /\ FeeVault \notin chain.escrow)
  <2> DEFINE ixs == LockInstructions(k, make)
             l == [k EXCEPT !.pc = "built", !.ixs = ixs]
  <2>1. job' = [job EXCEPT ![j] = l]
    BY <1>5 DEF BuildLock
  <2>2. ixs \in Seq(Instructions)
    BY <1>2, <1>3, LockInstructionTypes
  <2>3. Read(chain, k, make) /\ (k.quiet => ReadStill(chain, k, make))
    BY <1>1, <1>3, <1>5 DEF LockOk, Read, ReadStill, InFlight
  <2> HIDE DEF k, ixs, make
  <2>4. /\ l \in Job /\ l.pc = "built" /\ l.kind = "lock" /\ l.owner = k.owner /\ l.payer = k.payer
        /\ l.amount = k.amount /\ l.ratio = k.ratio /\ l.hasEscrow = k.hasEscrow
        /\ l.makeEscrowAta = k.makeEscrowAta /\ l.makeUserAta = k.makeUserAta
        /\ l.quiet = k.quiet /\ l.ixs = ixs
    BY <1>2, <1>3, <2>2 DEF Job
  <2> HIDE DEF l
  <2>5. /\ LockInstructions(l, make) = LockInstructions(k, make)
        /\ Read(chain, l, make) <=> Read(chain, k, make)
        /\ ReadStill(chain, l, make) <=> ReadStill(chain, k, make)
    BY <2>4, SameReads
  <2>6. make \in BOOLEAN
    BY DEF make
  <2>7. LockOk(chain, l)
    <3>1. l.ixs = LockInstructions(l, make) /\ Read(chain, l, make) /\ (l.quiet => ReadStill(chain, l, make))
      BY <2>3, <2>4, <2>5 DEF ixs
    <3>2. InFlight(k)
      BY <1>1 DEF InFlight
    <3>. QED
      BY <1>3, <2>4, <2>6, <3>1, <3>2 DEF LockOk
  <2>. QED
    <3>1. CallOk(chain, l)
      BY <1>3, <2>4, <2>7 DEF CallOk
    <3>. QED
      BY <1>1, <2>1, <2>4, <3>1, CallStep DEF k
<1>. QED
  BY <1>4, <1>5

LEMMA MoveLockedLPKeeps ==
    ASSUME Inv, NEW j \in Jobs, NEW o \in Users, NEW n \in Users, NEW a \in Amounts, o # n,
           MoveLockedLP(j, o, n, a)
    PROVE  Inv'
<1> DEFINE make == Escrow(n) \notin chain.ata
           moves == MoveInstructions(o, n, a, make)
           l == [NoJob EXCEPT !.pc = "built", !.kind = "move", !.owner = o, !.payer = o,
                              !.amount = a, !.ixs = moves]
<1>1. job[j].pc = "unused" /\ job' = [job EXCEPT ![j] = l] /\ UNCHANGED chain
  BY DEF MoveLockedLP
<1>2. o \in Owners /\ a \in Nat /\ 0 \in 0..RatioSteps
  BY LockConstants DEF Owners
<1>3. moves \in Seq(Instructions) /\ make \in BOOLEAN /\ ChainTypes
  <2>1. ChainTypes
    BY DEF Inv, Types
  <2>2. n \in Users \ {o} /\ make \in BOOLEAN
    OBVIOUS
  <2> HIDE DEF make
  <2>. QED
    BY <1>2, <2>1, <2>2, MoveOutcome
<1> HIDE DEF moves, make
<1>4. NoJob \in Job
  BY NoJobFacts
<1>5. /\ l \in Job /\ l.pc = "built" /\ l.kind = "move" /\ l.owner = o /\ l.payer = o
      /\ l.amount = a /\ l.ixs = moves
  BY ONLY <1>2, <1>3, <1>4 DEF Job
<1> HIDE DEF l
<1>6. CallOk(chain, l)
  <2>1. MoveOk(l)
    BY <1>3, <1>5 DEF MoveOk, moves
  <2>. QED
    BY <1>5, <2>1 DEF CallOk
<1>. QED
  BY <1>1, <1>5, <1>6, CallStep

LEMMA ExpireKeeps ==
    ASSUME Inv, NEW j \in Jobs, Expire(j)
    PROVE  Inv'
<1> DEFINE k == job[j]
           l == [k EXCEPT !.pc = "expired"]
<1>1. k.pc = "built" /\ job' = [job EXCEPT ![j] = l] /\ UNCHANGED chain
  BY DEF Expire
<1>2. k \in Job /\ CallOk(chain, k)
  BY DEF Inv, Types, Calls
<1> HIDE DEF k
<1>3. l \in Job /\ l.pc = "expired" /\ l.kind = k.kind /\ l.owner = k.owner /\ l.payer = k.payer
  BY <1>2 DEF Job
<1> HIDE DEF l
<1>4. CallOk(chain, l)
  BY <1>1, <1>2, <1>3 DEF CallOk, LockOk, MoveOk, InFlight
<1>. QED
  BY <1>1, <1>3, <1>4, CallStep DEF k

LEMMA CreateFeeVaultKeeps ==
    ASSUME Inv, CreateFeeVault
    PROVE  Inv'
<1>1. Types /\ Calls /\ LockedAsAsked
  BY DEF Inv
<1>2. /\ chain'.escrow = chain.escrow \cup {FeeVault} /\ chain'.ata = chain.ata
      /\ chain'.lp = chain.lp /\ ChainTypes'
  BY <1>1, AccountFacts DEF CreateFeeVault, Types, ChainTypes
<1>3. job' = Disturbed(0) /\ 0 \notin Jobs
  BY DEF CreateFeeVault, Jobs
<1>4. ASSUME NEW i \in Jobs
      PROVE  /\ CallOk(chain', job'[i]) /\ job'[i] \in Job /\ job'[i].pc = job[i].pc
             /\ job'[i].kind = job[i].kind /\ job'[i].payer = job[i].payer
             /\ job'[i].amount = job[i].amount /\ job'[i].ratio = job[i].ratio
             /\ job'[i].held = job[i].held
  <2>1. job'[i] = IF InFlight(job[i]) THEN [job[i] EXCEPT !.quiet = FALSE] ELSE job[i]
    BY <1>3 DEF Disturbed
  <2>2. job[i] \in Job /\ CallOk(chain, job[i])
    BY <1>1 DEF Types, Calls
  <2>. QED
    BY <1>2, <2>1, <2>2, CallDisturbed
<1>5. Types'
  BY <1>2, <1>3, <1>4 DEF Types, Disturbed
<1>6. LockedAsAsked'
  <2>1. \A i \in Jobs : i \in Landed' <=> i \in Landed
    BY <1>4 DEF Landed
  <2>2. \A i \in Landed : i \in Jobs
    BY DEF Landed
  <2>. QED
    BY <1>1, <1>2, <1>4, <1>5, <2>1, <2>2, SumsSame
<1>. QED
  BY <1>4, <1>5, <1>6 DEF Inv, Calls

\* What Min and Max of FeePart and PaidBy are for a call.
LEMMA PaidTypes ==
    ASSUME NEW k \in Job
    PROVE  FeePart(k) \in Int /\ Min({k.amount, k.held}) \in Int
<1> DEFINE part == (k.amount * k.ratio) \div RatioSteps
           left == k.held - (k.amount - part)
<1>1. k.amount \in Nat /\ k.held \in Nat /\ k.ratio \in 0..RatioSteps
  BY DEF Job
<1>2. part \in Nat
  BY <1>1, LockAmountFacts
<1> HIDE DEF part
<1>3. left \in Int
  BY <1>1, <1>2
<1> HIDE DEF left
<1>4. Max({0, left}) \in Int
  BY <1>3, MaxZero
<1>5. Min({part, Max({0, left})}) \in Int
  <2> DEFINE most == Max({0, left})
  <2>1. most \in Int
    BY <1>4
  <2> HIDE DEF most
  <2>2. Min({part, most}) \in Int
    BY <1>2, <2>1, MinFacts
  <2>. QED
    BY <2>2 DEF most
<1>6. FeePart(k) = Min({part, Max({0, left})})
  BY DEF FeePart, part, left
<1>. QED
  BY <1>1, <1>5, <1>6, MinFacts

\* A lock that lands adds what its payer paid and the fee vault's part to the sums.
LEMMA SumsChange ==
    ASSUME Types, Types', LockedAsAsked, NEW j \in Jobs, job[j].pc = "built",
           job'[j].pc = "landed", job'[j].kind = "lock",
           \A i \in Jobs \ {j} : i \in Landed' <=> i \in Landed,
           \A i \in Landed : /\ job'[i].payer = job[i].payer /\ job'[i].amount = job[i].amount
                             /\ job'[i].ratio = job[i].ratio /\ job'[i].held = job[i].held,
           \A u \in Users : chain.lp[Wallet(u)]' = chain.lp[Wallet(u)] -
               IF u = job'[j].payer THEN Min({job'[j].amount, job'[j].held}) ELSE 0,
           chain.lp[Escrow(FeeVault)]' = chain.lp[Escrow(FeeVault)] + FeePart(job'[j])
    PROVE  LockedAsAsked'
<1>1. /\ \A i \in Jobs : job[i] \in Job /\ job'[i] \in Job
      /\ j \notin Landed /\ j \in Landed' /\ Landed \subseteq Jobs
      /\ \A a \in TokenAccounts : chain.lp[a] \in Nat
      /\ InitLp \in Nat
  BY LockConstants DEF Types, ChainTypes, Landed
<1>2. ASSUME NEW u \in Users
      PROVE  chain.lp[Wallet(u)]' = InitLp - Total(PaidBy(u))'
  <2> DEFINE f == PaidBy(u)
             h == PaidBy(u)'
             m == IF u = job'[j].payer THEN Min({job'[j].amount, job'[j].held}) ELSE 0
  <2>1. f \in [Jobs -> Int] /\ h \in [Jobs -> Int]
    <3>1. \A i \in Jobs : Min({job[i].amount, job[i].held}) \in Int
                          /\ Min({job'[i].amount, job'[i].held}) \in Int
      BY <1>1, PaidTypes
    <3>2. \A i \in Jobs : PaidBy(u)[i] \in Int /\ PaidBy(u)'[i] \in Int
      BY <3>1 DEF PaidBy
    <3>3. PaidBy(u) = [i \in Jobs |-> PaidBy(u)[i]] /\ PaidBy(u)' = [i \in Jobs |-> PaidBy(u)'[i]]
      BY DEF PaidBy
    <3>. QED
      BY <3>2, <3>3
  <2>2. f[j] = 0 /\ h[j] = m
    BY <1>1 DEF PaidBy
  <2>3. \A i \in Jobs \ {j} : h[i] = f[i]
    BY DEF PaidBy
  <2>4. Total(PaidBy(u))' = Total(h)
    OBVIOUS
  <2>5. chain.lp[Wallet(u)]' = chain.lp[Wallet(u)] - m
    OBVIOUS
  <2>6. m \in Int
    BY <2>1, <2>2
  <2>7. chain.lp[Wallet(u)] = InitLp - Total(f)
    BY DEF LockedAsAsked
  <2> HIDE DEF f, h, m
  <2>8. Total(f) \in Int /\ Total(h) = Total(f) + (h[j] - f[j])
    BY <2>1, <2>3, TotalChange
  <2>. QED
    BY <1>1, <2>2, <2>4, <2>5, <2>6, <2>7, <2>8
<1>3. chain.lp[Escrow(FeeVault)]' = Total(FeeParts)'
  <2> DEFINE f == FeeParts
             h == FeeParts'
             m == FeePart(job'[j])
  <2>1. \A i \in Jobs : FeePart(job[i]) \in Int /\ FeePart(job'[i]) \in Int
    BY <1>1, PaidTypes
  <2>2. f \in [Jobs -> Int] /\ h \in [Jobs -> Int]
    BY <2>1 DEF FeeParts
  <2>3. f[j] = 0 /\ h[j] = m
    BY <1>1 DEF FeeParts
  <2>4. \A i \in Jobs \ {j} : h[i] = f[i]
    <3>1. \A i \in Landed : FeePart(job'[i]) = FeePart(job[i])
      BY DEF FeePart
    <3>. QED
      BY <3>1 DEF FeeParts
  <2>5. Total(FeeParts)' = Total(h)
    OBVIOUS
  <2>6. chain.lp[Escrow(FeeVault)]' = chain.lp[Escrow(FeeVault)] + m
    OBVIOUS
  <2>7. m \in Int
    BY <2>1
  <2>8. chain.lp[Escrow(FeeVault)] = Total(f)
    BY DEF LockedAsAsked
  <2> HIDE DEF f, h, m
  <2>9. Total(f) \in Int /\ Total(h) = Total(f) + (h[j] - f[j])
    BY <2>2, <2>4, TotalChange
  <2>. QED
    BY <2>3, <2>5, <2>6, <2>7, <2>8, <2>9
<1>. QED
  BY <1>2, <1>3 DEF LockedAsAsked

LEMMA LandKeeps ==
    ASSUME Inv, NEW j \in Jobs, Land(j)
    PROVE  Inv'
<1> DEFINE k == job[j]
           out == Outcome(k.ixs)
           held == chain.lp[Wallet(k.payer)]
           part == (k.amount * k.ratio) \div RatioSteps
<1>1. Types /\ Calls /\ LockedAsAsked /\ k.pc = "built"
  BY DEF Inv, Land
<1>2. k \in Job /\ CallOk(chain, k) /\ ChainTypes
  BY <1>1 DEF Types, Calls
<1>3. k.kind \in {"lock", "move"} /\ k.owner \in Users /\ k.payer \in Users /\ k.amount \in Nat
  BY <1>1, <1>2 DEF CallOk, Job
<1>4. held \in Nat
  BY <1>2, <1>3, AccountFacts DEF ChainTypes
<1>5. ASSUME k.kind = "lock"
      PROVE  /\ out.res \in {"ok", "exists"}
             /\ out.res = "ok" => LockEffect(k, out)
             /\ k.quiet => out.res = "ok"
  <2>1. PICK make \in BOOLEAN :
               /\ k.ixs = LockInstructions(k, make)
               /\ Read(chain, k, make)
               /\ k.quiet => ReadStill(chain, k, make)
    BY <1>1, <1>2, <1>5 DEF CallOk, LockOk
  <2>2. out = Outcome(LockInstructions(k, make))
    BY <2>1
  <2> HIDE DEF k, out
  <2>3. /\ out.res \in {"ok", "exists"}
        /\ out.res = "ok" => LockEffect(k, out)
        /\ ReadStill(chain, k, make) => out.res = "ok"
    BY ONLY <1>2, <1>3, <2>1, <2>2, make \in BOOLEAN, LockOutcome
  <2>. QED
    BY <2>1, <2>3
<1>6. ASSUME k.kind = "move"
      PROVE  /\ out \in State
             /\ chain.escrow \subseteq out.escrow /\ chain.ata \subseteq out.ata
             /\ \A u \in Users : out.lp[Wallet(u)] = chain.lp[Wallet(u)]
             /\ out.lp[Escrow(FeeVault)] = chain.lp[Escrow(FeeVault)]
  <2>1. PICK n \in Users \ {k.owner}, make \in BOOLEAN :
               k.ixs = MoveInstructions(k.owner, n, k.amount, make)
    BY <1>1, <1>2, <1>6 DEF CallOk, MoveOk
  <2> DEFINE ixs == k.ixs
  <2>2. ixs = MoveInstructions(k.owner, n, k.amount, make) /\ out = Outcome(ixs)
    BY <2>1
  <2> HIDE DEF k, out, ixs
  <2>3. n \in Users \ {k.owner} /\ k.amount \in Nat /\ k.owner \in Users
    BY <1>3
  <2> DEFINE o == k.owner
             a == k.amount
  <2>4. n \in Users \ {o} /\ a \in Nat /\ o \in Users /\ ixs = MoveInstructions(o, n, a, make)
    BY <2>2, <2>3
  <2> HIDE DEF o, a
  <2>. QED
    BY ONLY <1>2, <2>2, <2>4, make \in BOOLEAN, MoveOutcome
<1>7. CASE out.res # "ok"
  <2> DEFINE l == [k EXCEPT !.pc = out.res]
  <2>1. job' = [job EXCEPT ![j] = l] /\ UNCHANGED chain
    BY <1>7 DEF Land
  <2>2. out.res \in {"exists", "missing"} /\ (out.res = "missing" => k.kind = "move")
        /\ (out.res = "exists" => k.kind = "move" \/ ~k.quiet)
    BY <1>3, <1>5, <1>6, <1>7 DEF State
  <2> HIDE DEF k, out
  <2>3. /\ l \in Job /\ l.pc = out.res /\ l.kind = k.kind /\ l.owner = k.owner
        /\ l.payer = k.payer /\ l.quiet = k.quiet
    BY <1>2, <2>2 DEF Job
  <2> HIDE DEF l
  <2>4. CallOk(chain, l)
    BY <1>1, <1>2, <2>2, <2>3, CallEnds
  <2>. QED
    BY <1>1, <2>1, <2>2, <2>3, <2>4, CallStep DEF k
<1>8. CASE out.res = "ok"
  <2> DEFINE l == [k EXCEPT !.pc = "landed", !.held = held]
  <2>1. /\ chain' = [escrow |-> out.escrow, ata |-> out.ata, lp |-> out.lp]
        /\ job' = [Disturbed(j) EXCEPT ![j] = l]
    BY <1>8 DEF Land
  <2>2. out \in State /\ chain.escrow \subseteq out.escrow /\ chain.ata \subseteq out.ata
    BY <1>3, <1>5, <1>6, <1>8 DEF LockEffect
  <2> HIDE DEF out
  <2>3. /\ chain'.escrow = out.escrow /\ chain'.ata = out.ata /\ chain'.lp = out.lp /\ ChainTypes'
    BY <1>2, <2>1, <2>2 DEF ChainTypes, State
  <2>4. /\ job'[j] = l
        /\ \A i \in Jobs \ {j} : job'[i] = IF InFlight(job[i]) THEN [job[i] EXCEPT !.quiet = FALSE]
                                          ELSE job[i]
        /\ DOMAIN job' = Jobs /\ job' = [i \in Jobs |-> job'[i]]
    BY <2>1 DEF Disturbed
  <2> HIDE DEF k, held
  <2>5. /\ l \in Job /\ l.pc = "landed" /\ l.kind = k.kind /\ l.owner = k.owner /\ l.payer = k.payer
        /\ l.quiet = k.quiet /\ l.amount = k.amount /\ l.ratio = k.ratio /\ l.held = held
    BY <1>2, <1>4 DEF Job
  <2> HIDE DEF l
  <2>6. CallOk(chain', l)
    BY <1>1, <1>2, <2>5, CallEnds
  <2>7. ASSUME NEW i \in Jobs \ {j}
        PROVE  /\ CallOk(chain', job'[i]) /\ job'[i] \in Job /\ job'[i].pc = job[i].pc
               /\ job'[i].kind = job[i].kind /\ job'[i].payer = job[i].payer
               /\ job'[i].amount = job[i].amount /\ job'[i].ratio = job[i].ratio
               /\ job'[i].held = job[i].held
    <3>1. job'[i] = IF InFlight(job[i]) THEN [job[i] EXCEPT !.quiet = FALSE] ELSE job[i]
      BY <2>4
    <3>2. job[i] \in Job /\ CallOk(chain, job[i])
      BY <1>1 DEF Types, Calls
    <3>3. chain.escrow \subseteq chain'.escrow /\ chain.ata \subseteq chain'.ata
      BY <2>2, <2>3
    <3>. QED
      BY <3>1, <3>2, <3>3, CallDisturbed
  <2>8. Types'
    <3>1. \A i \in Jobs : job'[i] \in Job
      BY <2>4, <2>5, <2>7
    <3>2. job' \in [Jobs -> Job]
      BY <2>4, <3>1
    <3>. QED
      BY <2>3, <3>2 DEF Types
  <2>9. Calls'
    <3>1. \A i \in Jobs : CallOk(chain', job'[i])
      BY <2>4, <2>6, <2>7
    <3>. QED
      BY <3>1 DEF Calls
  <2>10. LockedAsAsked'
    <3>1. \A i \in Jobs \ {j} : i \in Landed' <=> i \in Landed
      BY <2>7 DEF Landed
    <3>2. j \notin Landed /\ Landed \subseteq Jobs
      BY <1>1 DEF Landed, k
    <3>3. \A i \in Landed : /\ job'[i].payer = job[i].payer /\ job'[i].amount = job[i].amount
                            /\ job'[i].ratio = job[i].ratio /\ job'[i].held = job[i].held
      BY <2>7, <3>2
    <3>4. CASE k.kind = "move"
      <4>1. j \notin Landed'
        BY <2>4, <2>5, <3>4 DEF Landed
      <4>2. /\ \A u \in Users : chain.lp[Wallet(u)]' = chain.lp[Wallet(u)]
            /\ chain.lp[Escrow(FeeVault)]' = chain.lp[Escrow(FeeVault)]
        BY <1>6, <2>3, <3>4
      <4>3. \A i \in Jobs : i \in Landed' <=> i \in Landed
        BY <3>1, <3>2, <4>1
      <4>. QED
        BY <1>1, <2>8, <3>3, <4>2, <4>3, SumsSame
    <3>5. CASE k.kind = "lock"
      <4>1. /\ job'[j].pc = "landed" /\ job'[j].kind = "lock" /\ job[j].pc = "built"
            /\ job'[j].payer = k.payer /\ job'[j].amount = k.amount /\ job'[j].held = held
        BY <1>1, <2>4, <2>5, <3>5 DEF k
      <4>2. FeePart(job'[j]) = Min({part, Max({0, held - (k.amount - part)})})
        BY <2>4, <2>5 DEF FeePart
      <4>3. \A u \in Users : chain.lp[Wallet(u)]' = chain.lp[Wallet(u)] -
               IF u = job'[j].payer THEN Min({job'[j].amount, job'[j].held}) ELSE 0
        <5> SUFFICES ASSUME NEW u \in Users
                     PROVE  out.lp[Wallet(u)] = chain.lp[Wallet(u)] -
                              IF u = k.payer THEN Min({k.amount, held}) ELSE 0
          BY <2>3, <4>1
        <5>1. CASE u = k.payer
          BY <1>5, <1>8, <3>5, <5>1 DEF held, LockEffect
        <5>2. CASE u # k.payer
          <6>1. out.lp[Wallet(u)] = chain.lp[Wallet(u)] /\ chain.lp[Wallet(u)] \in Nat
            BY <1>2, <1>5, <1>8, <3>5, <5>2, AccountFacts DEF ChainTypes, LockEffect
          <6>. QED
            BY <5>2, <6>1
        <5>. QED
          BY <5>1, <5>2
      <4>4. chain.lp[Escrow(FeeVault)]' = chain.lp[Escrow(FeeVault)] + FeePart(job'[j])
        BY <1>5, <1>8, <2>3, <3>5, <4>2 DEF LockEffect, held
      <4>. QED
        BY <1>1, <2>8, <3>1, <3>3, <4>1, <4>3, <4>4, SumsChange
    <3>. QED
      BY <1>3, <3>4, <3>5
  <2>. QED
    BY <2>8, <2>9, <2>10 DEF Inv
<1>. QED
  BY <1>7, <1>8

LEMMA InitInv == Init => Inv
<1> SUFFICES ASSUME Init PROVE Inv
  OBVIOUS
<1>1. /\ chain.escrow = {} /\ chain.ata = {Wallet(u) : u \in Users}
      /\ chain.lp = [a \in TokenAccounts |-> IF a[1] = "wallet" THEN InitLp ELSE 0]
      /\ chain = [escrow |-> chain.escrow, ata |-> chain.ata, lp |-> chain.lp]
      /\ job = [j \in Jobs |-> NoJob]
  BY DEF Init
<1>2. /\ \A u \in Users : Wallet(u) \in TokenAccounts /\ Wallet(u)[1] = "wallet"
      /\ Escrow(FeeVault) \in TokenAccounts /\ Escrow(FeeVault)[1] = "escrow"
  BY AccountFacts DEF Wallet, Escrow
<1>3. Types
  <2>1. chain.lp \in [TokenAccounts -> Nat] /\ chain.ata \subseteq TokenAccounts
    BY <1>1, <1>2, LockConstants
  <2>2. ChainTypes
    BY <1>1, <2>1 DEF ChainTypes
  <2>. QED
    BY <1>1, <2>2, NoJobFacts DEF Types
<1>4. \A j \in Jobs : job[j].pc = "unused" /\ job[j].kind = "none"
  BY <1>1 DEF NoJob
<1>5. Calls
  BY <1>4 DEF Calls, CallOk
<1>6. LockedAsAsked
  <2>1. Landed = {}
    BY <1>4 DEF Landed
  <2>2. \A u \in Users : Total(PaidBy(u)) = 0
    <3>1. \A u \in Users, i \in Jobs : PaidBy(u)[i] = 0
      BY <2>1 DEF PaidBy
    <3>. QED
      BY <3>1, TotalZero
  <2>3. Total(FeeParts) = 0
    <3>1. \A i \in Jobs : FeeParts[i] = 0
      BY <2>1 DEF FeeParts
    <3>. QED
      BY <3>1, TotalZero
  <2>. QED
    BY <1>1, <1>2, <2>2, <2>3, LockConstants DEF LockedAsAsked
<1>. QED
  BY <1>3, <1>5, <1>6 DEF Inv

LEMMA NextInv == Inv /\ [Next]_vars => Inv'
<1> SUFFICES ASSUME Inv, [Next]_vars PROVE Inv'
  OBVIOUS
<1>1. ASSUME NEW j \in Jobs, Call(j) PROVE Inv'
  <2>1. CASE \E o, p \in Users, a \in Amounts, r \in 0..RatioSteps : LockLiquidity(j, o, p, a, r)
    BY <2>1, LockLiquidityKeeps
  <2>2. CASE \E o, n \in Users, a \in Amounts : o # n /\ MoveLockedLP(j, o, n, a)
    BY <2>2, MoveLockedLPKeeps
  <2>. QED
    BY <1>1, <2>1, <2>2 DEF Call
<1>2. CASE CreateFeeVault
  BY <1>2, CreateFeeVaultKeeps
<1>3. CASE UNCHANGED vars
  BY <1>3 DEF vars, Inv, Types, ChainTypes, Calls, LockedAsAsked, PaidBy, FeeParts, Landed
<1>. QED
  BY <1>1, <1>2, <1>3, ReadAtasKeeps, BuildLockKeeps, LandKeeps, ExpireKeeps DEF Next

LEMMA InvAlways == Spec => []Inv
BY InitInv, NextInv, PTL DEF Spec

\* However many wallets, calls and amounts there are and however their awaits and
\* transactions interleave, every wallet has paid exactly its landed locks of
\* lockLiquidity and the fee vault's escrow holds exactly its part of each.
THEOREM LockedAsAskedAlways == Spec => []LockedAsAsked
<1>1. Inv => LockedAsAsked
  BY DEF Inv
<1>. QED
  BY <1>1, InvAlways, PTL

\* No transaction that lockLiquidity builds ever fails because an account it needs
\* is missing, whatever landed since it read the accounts.
THEOREM LockNeverMissesAccountsAlways == Spec => []LockNeverMissesAccounts
<1>1. Inv => LockNeverMissesAccounts
  BY DEF Inv, Calls, CallOk, LockOk, LockNeverMissesAccounts
<1>. QED
  BY <1>1, InvAlways, PTL

\* A transaction of lockLiquidity between whose reads and landing nothing else
\* landed never creates an account that exists.
THEOREM QuietLockLandsAlways == Spec => []QuietLockLands
<1>1. Inv => QuietLockLands
  BY DEF Inv, Calls, CallOk, LockOk, QuietLockLands
<1>. QED
  BY <1>1, InvAlways, PTL

=============================================================================
